------------------------------ MODULE Semaphore ------------------------------
(***************************************************************************)
(* Counting semaphores (semaphore.c).  A waiting task needs a number of    *)
(* counts at once.  With TA_CNT a task gets them whenever there are enough *)
(* of them; without, tasks are served strictly in the order of the queue.  *)
(***************************************************************************)
EXTENDS WaitQueue

CONSTANT MaxSem    \* bound on maxsem

\* tk_cre_sem() refuses a maxsem that is not positive.
ASSUME SemAssumption == MaxSem \in Nat \ {0}

VARIABLES
    cnt,       \* TA_CNT
    semcnt,
    maxsem

semvars == <<cnt, semcnt, maxsem>>

SemInit == cnt = FALSE /\ semcnt = 0 /\ maxsem = 1

tk_cre_sem(bypri, bycnt, isemcnt, max) ==
    /\ Create(bypri)
    /\ isemcnt <= max
    /\ cnt' = bycnt /\ semcnt' = isemcnt /\ maxsem' = max

tk_del_sem == Delete /\ UNCHANGED semvars

\* The counts are returned; the search for tasks to release is Serve.
tk_sig_sem(n) ==
    /\ Unlocked /\ exists
    /\ n <= maxsem - semcnt
    /\ semcnt' = semcnt + n
    /\ rest' = queue["wait"]
    /\ UNCHANGED <<gcb, tcb, cnt, maxsem>>

\* One turn of the loops of tk_sig_sem() and sem_chg_pri() for the next task.
\* They differ in a test that ends the former when nothing is left, which is
\* also when the latter finds that nobody can be served.
Serve ==
    LET t == Head(rest) IN
    /\ rest # << >>
    /\ UNCHANGED <<cnt, maxsem>>
    /\ \/ /\ semcnt < winfo[t]
          /\ rest' = IF cnt THEN Tail(rest) ELSE << >>
          /\ UNCHANGED <<gcb, tcb, semcnt>>
       \/ /\ semcnt >= winfo[t]
          /\ ReleaseOk(t, "wait", None)
          /\ semcnt' = semcnt - winfo[t]
          /\ rest' = IF semcnt' <= 0 THEN << >> ELSE Tail(rest)

tk_wai_sem(t, n) ==
    LET gets == (cnt \/ IsTop("wait", t)) /\ semcnt >= n IN
    /\ Calls(t)
    /\ n <= maxsem
    /\ UNCHANGED <<cnt, maxsem>>
    /\ \/ /\ gets
          /\ semcnt' = semcnt - n
          /\ Completes(t, None)
          /\ UNCHANGED rest
       \/ /\ ~gets
          /\ MakeWait(t, "wait", n, tpri)
          /\ UNCHANGED semcnt

\* Mutant: the release hook is set for priority queues only.
sem_rel_waiPriority == IF cnt \/ ~tpri THEN << >> ELSE queue'["wait"]

\* sem_rel_wai(): the tasks to be served when one has left the queue.
sem_rel_wai == IF cnt THEN << >> ELSE queue'["wait"]

SemWithdraw(t) ==
    /\ Withdrawn(t, "wait")
    /\ rest' = sem_rel_wai
    /\ UNCHANGED semvars

\* sem_chg_pri().
SemReorder(t, p) ==
    /\ tpri
    /\ Reordered(t, "wait", p)
    /\ rest' = IF cnt THEN << >> ELSE queue'["wait"]
    /\ UNCHANGED semvars

SemNext ==
    \/ \E bypri, bycnt \in BOOLEAN, n \in 0 .. MaxSem, m \in 1 .. MaxSem :
         tk_cre_sem(bypri, bycnt, n, m)
    \/ tk_del_sem
    \/ \E n \in 1 .. MaxSem : tk_sig_sem(n)
    \/ Serve
    \/ \E t \in Task :
         \/ \E n \in 1 .. MaxSem : tk_wai_sem(t, n)
         \/ SemWithdraw(t)
         \/ \E p \in Pri :
              \/ SemReorder(t, p)
              \/ ChangePriority(t, p, IF tpri THEN {"wait"} ELSE {}) /\ UNCHANGED semvars
         \/ Return(t) /\ UNCHANGED semvars

-----------------------------------------------------------------------------
\* The count never leaves 0 .. maxsem, also while a loop that has released
\* some tasks is still to subtract for others (tk_sig_sem()).
SemCountInRange == semcnt \in 0 .. maxsem

\* No waiting task is left behind when the call that could serve it is over:
\* with TA_CNT none that could be served, without it not the first one.
SemNobodyLeft ==
    Unlocked =>
      \A i \in DOMAIN queue["wait"] :
        cnt \/ i = 1 => semcnt < winfo[queue["wait"][i]]
=============================================================================
