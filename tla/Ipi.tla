-------------------------------- MODULE Ipi --------------------------------
(***************************************************************************)
(* The inter-processor interrupt transport of smp_rp2040.c: reasons are    *)
(* merged into a pending mask per target, and the eight-entry SIO FIFO is  *)
(* only a doorbell, which is not rung when the FIFO is full.               *)
(*                                                                         *)
(* On each core there is thread-level code, which sends RESCHEDULE and     *)
(* TIME_HANDLER inside kernel critical sections (interrupts masked) and    *)
(* PING outside of them, and the FIFO interrupt handler, which may itself  *)
(* send.  The atomic bit-set and take-and-clear of smp_atomic.c are single *)
(* steps; every other access to the SIO is a step of its own.              *)
(***************************************************************************)
EXTENDS Naturals, FiniteSets

CONSTANTS
    FifoDepth,  \* entries of a core's receive FIFO (8)
    MaxSends    \* bound on the number of requests made by thread-level code

ASSUME FifoAssumption == FifoDepth \in Nat \ {0} /\ MaxSends \in Nat

Cpu   == {0, 1}
Level  == {"thread", "irq"}
Reason == {"RESCHEDULE", "PING", "PONG", "TIME_HANDLER"}

Peer(c) == 1 - c

VARIABLES
    pending,  \* knl_ipi_pending[core]
    fifo,     \* how many doorbells wait in each core's receive FIFO
    masked,   \* the core's thread level runs with PRIMASK set
    irq,      \* where the core's FIFO interrupt handler is
    got,      \* reasons the handler took and has not acted on
    snd,      \* where the knl_ipi_send() of a core and level is
    pended,   \* PendSV pending on the core
    owed,     \* history: reasons sent to the core and not acted on since
    sends     \* requests made by thread-level code so far

ipivars == <<pending, fifo, masked, irq, got, snd, pended, owed, sends>>

IpiTypeOK ==
    /\ pending \in [Cpu -> SUBSET Reason]
    /\ fifo \in [Cpu -> 0 .. FifoDepth]
    /\ masked \in [Cpu -> BOOLEAN]
    /\ irq \in [Cpu -> {"off", "drain", "take", "act"}]
    /\ got \in [Cpu -> SUBSET Reason]
    /\ snd \in [Cpu -> [Level -> {"none", "ring", "write"}]]
    /\ pended \in [Cpu -> BOOLEAN]
    /\ owed \in [Cpu -> SUBSET Reason]
    /\ sends \in 0 .. MaxSends

IpiInit ==
    /\ pending = [c \in Cpu |-> {}]
    /\ fifo = [c \in Cpu |-> 0]
    /\ masked = [c \in Cpu |-> FALSE]
    /\ irq = [c \in Cpu |-> "off"]
    /\ got = [c \in Cpu |-> {}]
    /\ snd = [c \in Cpu |-> [l \in Level |-> "none"]]
    /\ pended = [c \in Cpu |-> FALSE]
    /\ owed = [c \in Cpu |-> {}]
    /\ sends = 0

\* Reason r has been acted on; a repetition that is still pending stays owed.
Acted(c, r) == owed' = [owed EXCEPT ![c] = IF r \in pending[c] THEN @ ELSE @ \ {r}]

\* Thread-level code of c executes only while no handler is active there.
Active(c, l) == l = "thread" <=> irq[c] = "off"

-----------------------------------------------------------------------------
(***************************************************************************)
(* knl_ipi_send(): set the bits, look at FIFO_ST, ring.                    *)
(***************************************************************************)
\* Mutant: a full FIFO ends the call before the reason is recorded.
StartSendFirstRings(c, l, r) ==
    /\ snd[c][l] = "none"
    /\ pending' = [pending EXCEPT ![Peer(c)] = IF fifo[Peer(c)] < FifoDepth
                                               THEN @ \cup {r} ELSE @]
    /\ owed' = [owed EXCEPT ![Peer(c)] = @ \cup {r}]
    /\ snd' = [snd EXCEPT ![c][l] = "ring"]

\* knl_arch_atomic_bitset(&knl_ipi_pending[core], reasons).
StartSend(c, l, r) ==
    /\ snd[c][l] = "none"
    /\ pending' = [pending EXCEPT ![Peer(c)] = @ \cup {r}]
    /\ owed' = [owed EXCEPT ![Peer(c)] = @ \cup {r}]
    /\ snd' = [snd EXCEPT ![c][l] = "ring"]

\* knl_smp_dispatch_request() and knl_smp_time_handler_request() are called with
\* the kernel lock held; PING is sent by bring-up code.
Request(c, r) ==
    /\ Active(c, "thread")
    /\ sends < MaxSends
    /\ \/ r \in {"RESCHEDULE", "TIME_HANDLER"} /\ masked[c]
       \/ r = "PING" /\ c = 0
    /\ StartSend(c, "thread", r)
    /\ sends' = sends + 1
    /\ UNCHANGED <<fifo, masked, irq, got, pended>>

\* FIFO_ST & RDY: "Push only if there is room, and never spin".
ReadStatus(c, l) ==
    /\ Active(c, l)
    /\ snd[c][l] = "ring"
    /\ snd' = [snd EXCEPT ![c][l] = IF fifo[Peer(c)] < FifoDepth THEN "write" ELSE "none"]
    /\ UNCHANGED <<pending, fifo, masked, irq, got, pended, owed, sends>>

\* SIO_FIFO_WR = 0; a write to a full FIFO is dropped by the hardware (WOF).
WriteDoorbell(c, l) ==
    /\ Active(c, l)
    /\ snd[c][l] = "write"
    /\ fifo' = [fifo EXCEPT ![Peer(c)] = IF @ < FifoDepth THEN @ + 1 ELSE @]
    /\ snd' = [snd EXCEPT ![c][l] = "none"]
    /\ UNCHANGED <<pending, masked, irq, got, pended, owed, sends>>

-----------------------------------------------------------------------------
(***************************************************************************)
(* The FIFO interrupt handlers knl_smp_core0_ipi() and knl_smp_core1_ipi().*)
(***************************************************************************)
Interrupt(c) ==
    /\ irq[c] = "off"
    /\ fifo[c] > 0
    /\ ~masked[c]
    /\ irq' = [irq EXCEPT ![c] = "drain"]
    /\ UNCHANGED <<pending, fifo, masked, got, snd, pended, owed, sends>>

\* knl_ipi_take(): fifo_pop() until the FIFO is empty ...
Drain(c) ==
    /\ irq[c] = "drain"
    /\ fifo[c] > 0
    /\ fifo' = [fifo EXCEPT ![c] = @ - 1]
    /\ UNCHANGED <<pending, masked, irq, got, snd, pended, owed, sends>>

Drained(c) ==
    /\ irq[c] = "drain"
    /\ fifo[c] = 0
    /\ irq' = [irq EXCEPT ![c] = "take"]
    /\ UNCHANGED <<pending, fifo, masked, got, snd, pended, owed, sends>>

\* Mutant: the reasons are told apart by an else-if chain.
TakeOne(c) ==
    /\ irq[c] = "take"
    /\ got' = [got EXCEPT ![c] = IF "RESCHEDULE" \in pending[c] THEN {"RESCHEDULE"}
                                                               ELSE pending[c]]
    /\ pending' = [pending EXCEPT ![c] = {}]
    /\ irq' = [irq EXCEPT ![c] = "act"]
    /\ UNCHANGED <<fifo, masked, snd, pended, owed, sends>>

\* ... then knl_arch_atomic_take() of the mask.
Take(c) ==
    /\ irq[c] = "take"
    /\ got' = [got EXCEPT ![c] = pending[c]]
    /\ pending' = [pending EXCEPT ![c] = {}]
    /\ irq' = [irq EXCEPT ![c] = "act"]
    /\ UNCHANGED <<fifo, masked, snd, pended, owed, sends>>

\* Core 1 answers a PING.
ServePing(c) ==
    /\ irq[c] = "act"
    /\ "PING" \in got[c]
    /\ pending' = [pending EXCEPT ![Peer(c)] = @ \cup {"PONG"}]
    /\ snd' = [snd EXCEPT ![c]["irq"] = "ring"]
    /\ owed' = [owed EXCEPT ![c] = IF "PING" \in pending[c] THEN @ ELSE @ \ {"PING"},
                            ![Peer(c)] = @ \cup {"PONG"}]
    /\ got' = [got EXCEPT ![c] = @ \ {"PING"}]
    /\ UNCHANGED <<fifo, masked, irq, pended, sends>>

\* Counted on core 0.
ServePong(c) ==
    /\ irq[c] = "act"
    /\ "PONG" \in got[c]
    /\ got' = [got EXCEPT ![c] = @ \ {"PONG"}]
    /\ Acted(c, "PONG")
    /\ UNCHANGED <<pending, fifo, masked, irq, snd, pended, sends>>

\* Mutant: the handler returns once it has pended PendSV.
ServeRescheduleReturns(c) ==
    /\ irq[c] = "act"
    /\ got[c] \cap {"PING", "PONG"} = {} /\ snd[c]["irq"] = "none"
    /\ "RESCHEDULE" \in got[c]
    /\ pended' = [pended EXCEPT ![c] = TRUE]
    /\ got' = [got EXCEPT ![c] = {}]
    /\ UNCHANGED <<pending, fifo, masked, irq, snd, owed, sends>>

\* knl_dispatch(): pend this core's PendSV.
ServeReschedule(c) ==
    /\ irq[c] = "act"
    /\ got[c] \cap {"PING", "PONG"} = {} /\ snd[c]["irq"] = "none"
    /\ "RESCHEDULE" \in got[c]
    /\ pended' = [pended EXCEPT ![c] = TRUE]
    /\ got' = [got EXCEPT ![c] = @ \ {"RESCHEDULE"}]
    /\ UNCHANGED <<pending, fifo, masked, irq, snd, owed, sends>>

\* knl_timehandler_ipi(): the queued callbacks run.  What they do to the ready
\* queue may ask the other core to reschedule.
ServeTimeHandler(c) ==
    /\ irq[c] = "act"
    /\ got[c] = {"TIME_HANDLER"} /\ snd[c]["irq"] = "none"
    /\ got' = [got EXCEPT ![c] = {}]
    /\ Acted(c, "TIME_HANDLER")
    /\ UNCHANGED <<pending, fifo, masked, irq, snd, pended, sends>>

CallbackRequests(c) ==
    /\ irq[c] = "act"
    /\ got[c] = {"TIME_HANDLER"}
    /\ sends < MaxSends
    /\ StartSend(c, "irq", "RESCHEDULE")
    /\ sends' = sends + 1
    /\ UNCHANGED <<fifo, masked, irq, got, pended>>

Return(c) ==
    /\ irq[c] = "act"
    /\ got[c] = {} /\ snd[c]["irq"] = "none"
    /\ irq' = [irq EXCEPT ![c] = "off"]
    /\ UNCHANGED <<pending, fifo, masked, got, snd, pended, owed, sends>>

-----------------------------------------------------------------------------
(***************************************************************************)
(* Thread level: critical sections and the dispatcher.                     *)
(***************************************************************************)
Mask(c) ==
    /\ Active(c, "thread") /\ snd[c]["thread"] = "none"
    /\ ~masked[c]
    /\ masked' = [masked EXCEPT ![c] = TRUE]
    /\ UNCHANGED <<pending, fifo, irq, got, snd, pended, owed, sends>>

Unmask(c) ==
    /\ Active(c, "thread") /\ snd[c]["thread"] = "none"
    /\ masked[c]
    /\ masked' = [masked EXCEPT ![c] = FALSE]
    /\ UNCHANGED <<pending, fifo, irq, got, snd, pended, owed, sends>>

\* PendSV: the lowest priority, so never inside the handler.
IpiDispatch(c) ==
    /\ pended[c]
    /\ irq[c] = "off" /\ ~masked[c]
    /\ pended' = [pended EXCEPT ![c] = FALSE]
    /\ Acted(c, "RESCHEDULE")
    /\ UNCHANGED <<pending, fifo, masked, irq, got, snd, sends>>

Handle(c) == Drain(c) \/ Drained(c) \/ Take(c) \/ ServePing(c) \/ ServePong(c)
             \/ ServeReschedule(c) \/ ServeTimeHandler(c) \/ Return(c)

Sending(c) == \E l \in Level : ReadStatus(c, l) \/ WriteDoorbell(c, l)

IpiNext ==
    \E c \in Cpu :
        \/ \E r \in Reason : Request(c, r)
        \/ Sending(c)
        \/ Interrupt(c)
        \/ Handle(c)
        \/ CallbackRequests(c)
        \/ Mask(c)
        \/ Unmask(c)
        \/ IpiDispatch(c)

IpiSpec == IpiInit /\ [][IpiNext]_ipivars

(***************************************************************************)
(* The NVIC takes a pending exception as soon as PRIMASK allows it, even   *)
(* when the core masks again later: strong fairness, of the FIFO interrupt *)
(* and PendSV together.  The rest is a core executing the next instruction.*)
(***************************************************************************)
IpiFairness ==
    \A c \in Cpu :
        /\ WF_ipivars(Sending(c)) /\ WF_ipivars(Handle(c)) /\ WF_ipivars(Unmask(c))
        /\ SF_ipivars(Interrupt(c) \/ IpiDispatch(c))

-----------------------------------------------------------------------------
(***************************************************************************)
(* Properties.                                                             *)
(***************************************************************************)
\* The merging mask "makes delivery independent of FIFO depth": a reason that
\* was sent and not acted on is in the target's hands, or it is in the mask and
\* followed by a doorbell, by a sender about to ring one, or by a handler that
\* has yet to take the mask.  It rests on the order in which the sender writes
\* the two and the receiver reads them.
NoLostReason ==
    \A c \in Cpu : \A r \in owed[c] :
        \/ r \in got[c]
        \/ r = "RESCHEDULE" /\ pended[c]
        \/ /\ r \in pending[c]
           /\ \/ fifo[c] > 0
              \/ \E l \in Level : snd[Peer(c)][l] # "none"
              \/ irq[c] \in {"drain", "take"}

\* A reschedule request makes the target core go through its dispatcher.
RescheduleArrives ==
    \A c \in Cpu : []<>("RESCHEDULE" \notin owed[c])

\* A time-handler request makes the target core run its queue.
TimeHandlerArrives ==
    \A c \in Cpu : []<>("TIME_HANDLER" \notin owed[c])
=============================================================================
