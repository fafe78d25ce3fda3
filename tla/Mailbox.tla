------------------------------- MODULE Mailbox -------------------------------
(***************************************************************************)
(* Mailboxes (mailbox.c).  Messages are not copied: the queue is a list    *)
(* threaded through them, so that a message is in one place at a time.     *)
(***************************************************************************)
EXTENDS WaitQueue

CONSTANTS
    Mail,     \* the messages
    MsgPri    \* msgpri of each message

\* tk_snd_mbx() refuses a msgpri that is not positive.
ASSUME MailAssumption == MsgPri \in [Mail -> Nat \ {0}]

VARIABLES
    mpri,     \* TA_MPRI
    mq,       \* the message queue
    mine      \* the messages the program has, sent or received by its tasks

mbxvars == <<mpri, mq, mine>>

MbxInit == mpri = FALSE /\ mq = << >> /\ mine = Mail

tk_cre_mbx(bypri, bymsg) ==
    /\ Create(bypri)
    /\ mpri' = bymsg /\ mq' = << >>
    /\ UNCHANGED mine

\* The messages left in the queue are the program's again.
tk_del_mbx ==
    /\ Delete
    /\ mq' = << >>
    /\ mine' = mine \cup Range(mq)
    /\ UNCHANGED mpri

\* To the first waiting task, or into the queue (knl_queue_insert_mpri()).
tk_snd_mbx(m) ==
    /\ Unlocked /\ exists /\ m \in mine
    /\ UNCHANGED <<mpri, rest>>
    /\ \/ /\ queue["wait"] # << >>
          /\ ReleaseOk(Head(queue["wait"]), "wait", m)
          /\ UNCHANGED <<mq, mine>>
       \/ /\ queue["wait"] = << >>
          /\ mq' = IF mpri THEN Inserted(mq, MsgPri, m) ELSE Append(mq, m)
          /\ mine' = mine \ {m}
          /\ UNCHANGED <<gcb, tcb>>

tk_rcv_mbx(t) ==
    /\ Calls(t)
    /\ UNCHANGED mpri
    /\ \/ /\ mq # << >>
          /\ Completes(t, Head(mq))
          /\ mq' = Tail(mq)
          /\ mine' = mine \cup {Head(mq)}
          /\ UNCHANGED rest
       \/ /\ mq = << >>
          /\ MakeWait(t, "wait", None, tpri)
          /\ UNCHANGED <<mq, mine>>

\* There is no release hook.
MbxWithdraw(t) == Withdrawn(t, "wait") /\ rest' = << >> /\ UNCHANGED mbxvars

MbxReorder(t, p) == tpri /\ Reordered(t, "wait", p) /\ UNCHANGED <<rest, mbxvars>>

MbxNext ==
    \/ \E bypri, bymsg \in BOOLEAN : tk_cre_mbx(bypri, bymsg)
    \/ tk_del_mbx
    \/ \E m \in Mail : tk_snd_mbx(m)
    \/ \E t \in Task :
         \/ tk_rcv_mbx(t)
         \/ MbxWithdraw(t)
         \/ \E p \in Pri :
              \/ MbxReorder(t, p)
              \/ ChangePriority(t, p, IF tpri THEN {"wait"} ELSE {}) /\ UNCHANGED mbxvars
         \/ Return(t) /\ UNCHANGED mbxvars

-----------------------------------------------------------------------------
\* No task waits while there is a message.
MbxNobodyLeft == queue["wait"] # << >> => mq = << >>

\* A message is in the queue, once and in order, or with the program, never
\* both: the list runs through the message, so that a second link breaks it.
MailInOnePlace ==
    /\ Range(mq) \cap mine = {} /\ Range(mq) \cup mine = Mail
    /\ \A i, j \in DOMAIN mq : i < j => mq[i] # mq[j] /\ (mpri => MsgPri[mq[i]] <= MsgPri[mq[j]])
=============================================================================
