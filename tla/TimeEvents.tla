---------------------------- MODULE TimeEvents ----------------------------
(***************************************************************************)
(* The timer event queue of timer.c and the cyclic and alarm handlers of   *)
(* time_calls.c.  Processor 0 keeps the clock: its tick takes the events   *)
(* that have come due out of the timer queue and moves each to the handler *)
(* queue of the processor that is to execute it, which is asked by an      *)
(* inter-processor interrupt.  There the handler is started from that      *)
(* queue, its body without the kernel lock: meanwhile the other processor, *)
(* and the body itself, start, stop, delete and create handlers.           *)
(*                                                                         *)
(* Times are unsigned words that wrap around; the history variable "due"   *)
(* keeps, as an integer, the time that is really left.  SysTick, PendSV    *)
(* and the FIFO interrupt have one priority, and a body is executed with   *)
(* interrupts masked: handlers do not nest on a processor.  A body has no  *)
(* effect of its own; generation, which only counts statistics, is left    *)
(* out.                                                                    *)
(***************************************************************************)
EXTENDS Integers, SequencesExt

CONSTANTS
    Cyc,      \* cyclic handlers
    Alm,      \* alarm handlers
    Modulus,  \* 2^32, the number of values of ABSTIM
    PERIOD,   \* TIMER_PERIOD
    Reltim,   \* the RELTIM values callers pass
    Assprc,   \* the processors handlers are assigned to; 2: no TA_ASSPRC
    MaxLag    \* bound on how long a start is overdue, or a phase kept while stopped

Half == Modulus \div 2
Hdr  == Cyc \cup Alm
Core == {0, 1}

ASSUME TimeAssumption ==
    /\ Cyc \cap Alm = {}
    /\ Modulus \in Nat /\ Modulus = 2 * Half /\ PERIOD \in 1 .. Half
    /\ Reltim \subseteq 0 .. Half - 1  \* CHECK_RELTIM
    /\ Assprc \subseteq Core \cup {2}
    /\ MaxLag \in 0 .. Half

VARIABLES
    cur,      \* lltoul(knl_current_time)
    tq,       \* knl_timer_queue
    hq,       \* knl_handler_queue[core].queue
    active,   \* knl_handler_queue[core].active
    request,  \* a TIME_HANDLER request on its way to the core
    at,       \* where the core is: outside, in the tick, in the drain, in a body
    ticking,  \* the tick of processor 0 is under way
    cb,       \* the control blocks
    due       \* history: the time left until the handler is to start

timevars == <<cur, tq, hq, active, request, at, ticking, cb, due>>

NoBlock == [made |-> FALSE, sta |-> FALSE, time |-> 0, tim |-> 0, phs |-> FALSE, prc |-> 2]

TimeTypeOK ==
    /\ cur \in 0 .. Modulus - 1
    /\ tq \in Seq(Hdr)
    /\ hq \in [Core -> Seq(Hdr)]
    /\ active \in [Core -> BOOLEAN]
    /\ request \in [Core -> BOOLEAN]
    /\ at \in [Core -> {"out", "tick", "drain", "body"}]
    /\ ticking \in BOOLEAN
    /\ cb \in [Hdr -> [made : BOOLEAN, sta : BOOLEAN, time : 0 .. Modulus - 1,
                       tim : Reltim \cup {0}, phs : BOOLEAN, prc : Core \cup {2}]]
    /\ due \in [Hdr -> Int]

TimeInit ==
    /\ cur = 0
    /\ tq = <<>>
    /\ hq = [c \in Core |-> <<>>]
    /\ active = [c \in Core |-> FALSE]
    /\ request = [c \in Core |-> FALSE]
    /\ at = [c \in Core |-> "out"]
    /\ ticking = FALSE
    /\ cb = [h \in Hdr |-> NoBlock]
    /\ due = [h \in Hdr |-> 0]

-----------------------------------------------------------------------------
(***************************************************************************)
(* Times and the timer queue (timer.c, timer.h, time_calls.h).             *)
(***************************************************************************)
Later(t, d) == (t + d) % Modulus

\* Mutant: the times are compared as they are.
ReachedPlain(t) == t <= cur

\* knl_abstim_reached()
Reached(t) == (cur - t) % Modulus <= Half - 1

\* The sort key of knl_enqueue_tmeb(): the distance from the oldest time.
Key(t) == (t - (cur - (Half - 1))) % Modulus

\* Mutant: the queue is sorted by the times as they are.
EnqueuedAbsolute(q, h, t) ==
    LET after == {i \in DOMAIN q : t < cb[q[i]].time}
        place == IF after = {} THEN Len(q) + 1 ELSE CHOOSE i \in after : \A j \in after : i <= j
    IN  InsertAt(q, place, h)

\* knl_enqueue_tmeb(): before the first event that is later.  h, not queued,
\* has the time t.
Enqueued(q, h, t) ==
    LET after == {i \in DOMAIN q : Key(t) < Key(cb[q[i]].time)}
        place == IF after = {} THEN Len(q) + 1 ELSE CHOOSE i \in after : \A j \in after : i <= j
    IN  InsertAt(q, place, h)

\* knl_cyc_next_time(): the first time of the cycle that is still to come.
NextTime(h) ==
    LET b == cb[h]
        t == Later(b.time, b.tim)
    IN  IF Reached(t)
        THEN Later(b.time, (((cur - b.time) % Modulus) \div b.tim + 1) * b.tim)
        ELSE t

\* The same in real time: at least n cycles on, and not yet due.
NextDue(h, n) ==
    LET d == due[h] + n * cb[h].tim
    IN  IF d > 0 THEN d ELSE d + ((-d) \div cb[h].tim + 1) * cb[h].tim

\* knl_timer_delete(): unlinks the event from the queue it is in.
Dequeued(q, h) ==
    IF h \in Range(q) THEN RemoveAt(q, CHOOSE i \in DOMAIN q : q[i] = h) ELSE q

-----------------------------------------------------------------------------
(***************************************************************************)
(* Handler queues.  The caller holds the kernel lock, so no processor is   *)
(* inside the tick or a drain.                                             *)
(***************************************************************************)
LockFree == \A c \in Core : at[c] \notin {"tick", "drain"}

\* Execute h on processor d: knl_enqueue_timehandler() by processor c.  A
\* processor that is executing its queue, or was asked to, finds it there.
Hand(c, d, h) ==
    /\ hq' = [hq EXCEPT ![d] = Append(@, h)]
    /\ active' = [active EXCEPT ![d] = TRUE]
    /\ request' = [request EXCEPT ![d] = @ \/ (~active[d] /\ c # d)]
    /\ at' = [at EXCEPT ![d] = IF ~active[d] /\ c = d THEN "drain" ELSE @]

\* knl_timer_handler(): the clock.
Tick ==
    /\ LockFree /\ at[0] = "out"
    /\ \A h \in Hdr : due[h] > PERIOD - MaxLag
    /\ cur' = Later(cur, PERIOD)
    /\ due' = [h \in Hdr |-> IF cb[h].sta \/ cb[h].phs THEN due[h] - PERIOD ELSE due[h]]
    /\ at' = [at EXCEPT ![0] = "tick"]
    /\ ticking' = TRUE
    /\ UNCHANGED <<tq, hq, active, request, cb>>

\* knl_timer_handler(): the first event has come due; its callback is
\* knl_distribute_cychdr() or knl_distribute_almhdr().
Expire ==
    /\ at[0] = "tick"
    /\ tq # <<>> /\ Reached(cb[Head(tq)].time)
    /\ tq' = Tail(tq)
    /\ Hand(0, IF cb[Head(tq)].prc = 1 THEN 1 ELSE 0, Head(tq))
    /\ UNCHANGED <<cur, ticking, cb, due>>

EndTick ==
    /\ at[0] = "tick"
    /\ tq # <<>> => ~Reached(cb[Head(tq)].time)
    /\ at' = [at EXCEPT ![0] = "out"]
    /\ ticking' = FALSE
    /\ UNCHANGED <<cur, tq, hq, active, request, cb, due>>

\* knl_timehandler_ipi()
TakeRequest(c) ==
    /\ LockFree /\ at[c] = "out"
    /\ request[c]
    /\ request' = [request EXCEPT ![c] = FALSE]
    /\ at' = [at EXCEPT ![c] = "drain"]
    /\ UNCHANGED <<cur, tq, hq, active, ticking, cb, due>>

\* knl_timehandler_execute(): start the first handler of the queue.  In
\* knl_call_cychdr() the next start is registered first, in
\* knl_call_almhdr() the alarm is off first; then the lock is let go.
Start(c) ==
    LET h == Head(hq[c]) IN
    /\ at[c] = "drain" /\ hq[c] # <<>>
    /\ hq' = [hq EXCEPT ![c] = Tail(@)]
    /\ at' = [at EXCEPT ![c] = "body"]
    /\ IF h \in Cyc
       THEN /\ cb' = [cb EXCEPT ![h].time = NextTime(h)]
            /\ tq' = Enqueued(tq, h, NextTime(h))
            /\ due' = [due EXCEPT ![h] = NextDue(h, 1)]
       ELSE /\ cb' = [cb EXCEPT ![h].sta = FALSE]
            /\ due' = [due EXCEPT ![h] = 0]
            /\ UNCHANGED tq
    /\ UNCHANGED <<cur, active, request, ticking>>

\* knl_kernel_lock_resume() after the body.
Resume(c) ==
    /\ LockFree /\ at[c] = "body"
    /\ at' = [at EXCEPT ![c] = "drain"]
    /\ UNCHANGED <<cur, tq, hq, active, request, ticking, cb, due>>

\* Mutant: the queue stays marked active.
EndDrainActive(c) ==
    /\ at[c] = "drain" /\ hq[c] = <<>>
    /\ at' = [at EXCEPT ![c] = IF c = 0 /\ ticking THEN "tick" ELSE "out"]
    /\ UNCHANGED <<cur, tq, hq, active, request, ticking, cb, due>>

\* The end of knl_timehandler_execute(), which the tick may have called.
EndDrain(c) ==
    /\ at[c] = "drain" /\ hq[c] = <<>>
    /\ active' = [active EXCEPT ![c] = FALSE]
    /\ at' = [at EXCEPT ![c] = IF c = 0 /\ ticking THEN "tick" ELSE "out"]
    /\ UNCHANGED <<cur, tq, hq, request, ticking, cb, due>>

-----------------------------------------------------------------------------
(***************************************************************************)
(* The system calls of time_calls.c.                                       *)
(***************************************************************************)
Calls(c) == LockFree /\ UNCHANGED <<cur, ticking>>

\* The event of h leaves the queues, if the handler is started.
Stopped(h) ==
    /\ tq' = Dequeued(tq, h)
    /\ hq' = [c \in Core |-> Dequeued(hq[c], h)]
    /\ UNCHANGED <<active, request, at>>

\* h is registered for the time that is d from now.
Registered(h, d) ==
    /\ tq' = Enqueued(Dequeued(tq, h), h, Later(cur, d))
    /\ hq' = [c \in Core |-> Dequeued(hq[c], h)]
    /\ UNCHANGED <<active, request, at>>

\* knl_immediate_call_cychdr() and knl_immediate_call_almhdr() leave the call
\* to another processor only if h is assigned to that one.
Remote(c, prc) == prc \in Core \ {c}

tk_cre_cyc(c, h, phs, prc, first, tim) ==
    LET b == [made |-> TRUE, sta |-> TRUE, time |-> Later(cur, first + PERIOD),
              tim |-> tim, phs |-> phs, prc |-> prc]
    IN
    /\ Calls(c) /\ ~cb[h].made
    /\ \/ first > 0
          /\ Registered(h, first + PERIOD)
          /\ cb' = [cb EXCEPT ![h] = b]
          /\ due' = [due EXCEPT ![h] = first + PERIOD]
       \/ first = 0 /\ Remote(c, prc)  \* knl_immediate_call_cychdr()
          /\ Hand(c, prc, h)
          /\ cb' = [cb EXCEPT ![h] = b]
          /\ due' = [due EXCEPT ![h] = PERIOD]
          /\ UNCHANGED tq
       \/ first = 0 /\ ~Remote(c, prc)
          /\ Registered(h, PERIOD + tim)
          /\ cb' = [cb EXCEPT ![h] = [b EXCEPT !.time = Later(cur, PERIOD + tim)]]
          /\ due' = [due EXCEPT ![h] = PERIOD + tim]
       \/ cb' = [cb EXCEPT ![h] = [b EXCEPT !.sta = FALSE]]  \* without TA_STA
          /\ due' = [due EXCEPT ![h] = IF phs THEN first + PERIOD ELSE 0]
          /\ UNCHANGED <<tq, hq, active, request, at>>

tk_cre_alm(c, h, prc) ==
    /\ Calls(c) /\ ~cb[h].made
    /\ cb' = [cb EXCEPT ![h] = [NoBlock EXCEPT !.made = TRUE, !.prc = prc]]
    /\ UNCHANGED <<tq, hq, active, request, at, due>>

\* tk_del_cyc() and tk_del_alm()
Delete(c, h) ==
    /\ Calls(c) /\ cb[h].made
    /\ Stopped(h)
    /\ cb' = [cb EXCEPT ![h] = NoBlock]
    /\ due' = [due EXCEPT ![h] = 0]

\* Mutant: the state changes and the event stays where it is.
StopLinked(c, h) ==
    /\ Calls(c) /\ cb[h].made
    /\ cb' = [cb EXCEPT ![h].sta = FALSE]
    /\ due' = [due EXCEPT ![h] = IF cb[h].phs THEN @ ELSE 0]
    /\ UNCHANGED <<tq, hq, active, request, at>>

\* tk_stp_cyc() and tk_stp_alm()
Stop(c, h) ==
    /\ Calls(c) /\ cb[h].made
    /\ Stopped(h)
    /\ cb' = [cb EXCEPT ![h].sta = FALSE]
    /\ due' = [due EXCEPT ![h] = IF cb[h].phs THEN @ ELSE 0]

\* TA_PHS: a stopped handler continues its cycle, a started one goes on.
\* Otherwise the interval starts again.
tk_sta_cyc(c, h) ==
    LET b == cb[h]
        t == IF Reached(b.time) THEN NextTime(h) ELSE b.time
    IN
    /\ Calls(c) /\ b.made
    /\ \/ b.phs /\ b.sta
          /\ UNCHANGED <<tq, hq, active, request, at, cb, due>>
       \/ b.phs /\ ~b.sta
          /\ tq' = Enqueued(tq, h, t)
          /\ cb' = [cb EXCEPT ![h].sta = TRUE, ![h].time = t]
          /\ due' = [due EXCEPT ![h] = NextDue(h, 0)]
          /\ UNCHANGED <<hq, active, request, at>>
       \/ ~b.phs
          /\ Registered(h, b.tim + PERIOD)
          /\ cb' = [cb EXCEPT ![h].sta = TRUE, ![h].time = Later(cur, b.tim + PERIOD)]
          /\ due' = [due EXCEPT ![h] = b.tim + PERIOD]

tk_sta_alm(c, h, tim) ==
    LET b == cb[h] IN
    /\ Calls(c) /\ b.made
    /\ \/ tim > 0
          /\ Registered(h, tim + PERIOD)
          /\ cb' = [cb EXCEPT ![h].sta = TRUE, ![h].time = Later(cur, tim + PERIOD)]
          /\ due' = [due EXCEPT ![h] = tim + PERIOD]
       \/ tim = 0 /\ Remote(c, b.prc)  \* knl_immediate_call_almhdr()
          /\ LET left == [d \in Core |-> Dequeued(hq[d], h)] IN
             /\ hq' = [left EXCEPT ![b.prc] = Append(@, h)]
             /\ active' = [active EXCEPT ![b.prc] = TRUE]
             /\ request' = [request EXCEPT ![b.prc] = @ \/ ~active[b.prc]]
          /\ tq' = Dequeued(tq, h)
          /\ cb' = [cb EXCEPT ![h].sta = TRUE]
          /\ due' = [due EXCEPT ![h] = 0]
          /\ UNCHANGED at
       \/ tim = 0 /\ ~Remote(c, b.prc)
          /\ Stopped(h)
          /\ cb' = [cb EXCEPT ![h].sta = FALSE]
          /\ due' = [due EXCEPT ![h] = 0]

TimeNext ==
    \/ Tick \/ Expire \/ EndTick
    \/ \E c \in Core :
         \/ TakeRequest(c) \/ Start(c) \/ Resume(c) \/ EndDrain(c)
         \/ \E h \in Cyc : tk_sta_cyc(c, h)
         \/ \E h \in Cyc, phs \in BOOLEAN, prc \in Assprc, first \in Reltim, tim \in Reltim \ {0} :
              tk_cre_cyc(c, h, phs, prc, first, tim)
         \/ \E h \in Alm, prc \in Assprc : tk_cre_alm(c, h, prc)
         \/ \E h \in Alm, tim \in Reltim : tk_sta_alm(c, h, tim)
         \/ \E h \in Hdr : Stop(c, h) \/ Delete(c, h)

TimeSpec == TimeInit /\ [][TimeNext]_timevars

-----------------------------------------------------------------------------
(***************************************************************************)
(* Correctness.                                                            *)
(***************************************************************************)
Queues == <<tq, hq[0], hq[1]>>

\* Where the event of h is.
Places(h) ==
    {p \in (1 .. 3) \X (1 .. Cardinality(Hdr)) :
        p[2] <= Len(Queues[p[1]]) /\ Queues[p[1]][p[2]] = h}

\* The event of a handler is in one of the queues, once, exactly while the
\* handler is started: this is all that keeps knl_timer_delete(), which
\* follows the links of an event that is in none, from corrupting a queue.
LinkedIffStarted ==
    \A h \in Hdr : Cardinality(Places(h)) = IF cb[h].sta THEN 1 ELSE 0

\* Once the tick is over no event that has come due is left in the timer
\* queue, although times wrap around and bodies executed in the middle of
\* the tick change the queue (knl_timer_handler(): "start the timer event
\* upon arriving at start time").
StartsOnArrival == ~ticking => \A i \in DOMAIN tq : due[tq[i]] > 0

\* The tick hands on no event before its time: "to guarantee longer wait
\* time" TIMER_PERIOD is added when it is registered.
NeverEarly ==
    [][at[0] = "tick" => \A h \in Hdr :
         (\E c \in Core : ~Contains(hq[c], h) /\ Contains(hq'[c], h)) => due[h] <= 0]_timevars

\* A queue that is marked active is being executed or its processor has been
\* asked, and a queue with handlers is active: no handler is forgotten.
RequestsServed ==
    \A c \in Core :
        /\ active[c] => request[c] \/ at[c] \in {"drain", "body"}
        /\ hq[c] # <<>> => active[c]
=============================================================================
