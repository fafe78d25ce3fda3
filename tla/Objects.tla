------------------------------- MODULE Objects -------------------------------
(***************************************************************************)
(* The synchronization and communication objects that are built on the     *)
(* wait queues of module WaitQueue, one object of one kind at a time, and  *)
(* the properties that they share.                                         *)
(***************************************************************************)
EXTENDS Semaphore, EventFlag, Mailbox, MessageBuffer, VarPool, FixedPool

CONSTANT Kind    \* the kinds of objects considered

ASSUME ObjectsAssumption ==
    /\ Kind \subseteq {"sem", "flg", "mbx", "mbf", "mpl", "mpf"}
    /\ Queue = {"wait", "send", "recv"}
    /\ Mode \subseteq [orw : BOOLEAN, clr : {"none", "bits", "all"}]

VARIABLE kind

vars == <<wvars, kind, semvars, flgvars, mbxvars, mbfvars, mplvars, mpfvars>>

Init ==
    /\ kind \in Kind
    /\ InitWait
    /\ SemInit /\ FlgInit /\ MbxInit
    /\ MbfInit /\ MplInit /\ MpfInit

Next ==
    /\ kind' = kind
    /\ \/ /\ kind = "sem" /\ SemNext
          /\ UNCHANGED <<flgvars, mbxvars, mbfvars, mplvars, mpfvars>>
       \/ /\ kind = "flg" /\ FlgNext
          /\ UNCHANGED <<semvars, mbxvars, mbfvars, mplvars, mpfvars>>
       \/ /\ kind = "mbx" /\ MbxNext
          /\ UNCHANGED <<semvars, flgvars, mbfvars, mplvars, mpfvars>>
       \/ /\ kind = "mbf" /\ MbfNext
          /\ UNCHANGED <<semvars, flgvars, mbxvars, mplvars, mpfvars>>
       \/ /\ kind = "mpl" /\ MplNext
          /\ UNCHANGED <<semvars, flgvars, mbxvars, mbfvars, mpfvars>>
       \/ /\ kind = "mpf" /\ MpfNext
          /\ UNCHANGED <<semvars, flgvars, mbxvars, mbfvars, mplvars>>

Spec == Init /\ [][Next]_vars

-----------------------------------------------------------------------------
\* The shape of the state.
TypeOK ==
    /\ TypeWait
    /\ semcnt \in Int /\ maxsem \in 1 .. MaxSem
    /\ flgptn \subseteq Bit
    /\ mq \in Seq(Mail) /\ mine \subseteq Mail
    /\ frbufsz \in 0 .. bufsz /\ head \in 0 .. bufsz /\ tail \in 0 .. bufsz
    /\ frbcnt \in 0 .. BlkCnt /\ unused \in 1 .. BlkCnt + 1

\* What an object hands out is never lost, given twice or in two places, after
\* any sequence of calls, of releases in the middle of a loop included: counts
\* of a semaphore, messages of a mailbox, the bytes of messages in a ring, the
\* areas of the allocator, blocks of a pool.
ContentsAccounted ==
    CASE kind = "sem" -> SemCountInRange
      [] kind = "mbx" -> MailInOnePlace
      [] kind = "mbf" -> MessagesInRing
      [] kind = "mpl" -> HeapWellFormed
      [] kind = "mpf" -> BlocksAccounted
      [] OTHER -> TypeOK

\* The queues in which priority counts for TA_TPRI: all but that of the tasks
\* waiting to receive from a message buffer.
ByPriority(q) == tpri /\ q # "recv"

\* Whatever the tasks, timeouts, terminations, priority changes and the
\* deletion do: the wait queues hold the waiting tasks, each once, none on a
\* deleted object; a TA_TPRI queue is in the order of the present priorities
\* (knl_queue_insert_tpri(), knl_gcb_change_priority()).
QueuesInOrder == QueuesHoldWaiting /\ \A q \in Queue : ByPriority(q) => Ordered(q)

\* When a call is over that returned, freed or received something, or in which
\* a task gave up its place, nobody waits for what is there: the loops and the
\* hooks that serve the waiting tasks stop neither too early nor at the wrong
\* task.
NobodyLeft ==
    CASE kind = "sem" -> SemNobodyLeft
      [] kind = "flg" -> FlgNobodyLeft
      [] kind = "mbx" -> MbxNobodyLeft
      [] kind = "mbf" -> MbfNobodyLeft
      [] kind = "mpl" -> MplNobodyLeft
      [] kind = "mpf" -> MpfNobodyLeft

\* t is given what it asked for from queue q, at once or after a wait.
ServedFrom(t, q) ==
    /\ tstat[t] # "ready" /\ tstat'[t] = "ready" /\ told'[t].code = "E_OK"
    /\ t \in Range(queue[q]) \/ tstat[t] = "run"

\* Nobody gets a place before a task that is not less urgent and waits already
\* (knl_queue_insert_tpri()), and nobody is served before a task that is ahead
\* of it (knl_gcb_top_of_wait_queue() and the order of the loops).  TA_CNT
\* semaphores and event flags serve whoever can be served.
NoOvertaking ==
    [][ \A t \in Task, q \in Queue :
          /\ tstat[t] # "wait" /\ t \in Range(queue'[q])
             => Ahead(t, q) \subseteq Ahead(t, q)'
          /\ /\ kind # "flg" /\ ~(kind = "sem" /\ cnt)
             /\ ServedFrom(t, q)
             /\ q = "send" => t \in Range(queue[q])
             => \A u \in Ahead(t, q) : tstat'[u] # "wait"
      ]_vars

\* A message buffer, bytes, headers and wrapping included, is a queue of whole
\* messages, received in the order of their acceptance and each once.
Fifo == INSTANCE MessageFifo WITH
    chan <- IF kind = "mbf" THEN UnderWay ELSE << >>,
    got <- IF kind = "mbf" THEN Received ELSE [t \in Task |-> << >>],
    Receiver <- Task,
    Message <- {Bytes(m) : m \in Msg}

WholeMessagesInOrder == Fifo!Spec
=============================================================================
