---------------------------- MODULE MessageBuffer ----------------------------
(***************************************************************************)
(* Message buffers (messagebuf.c): a ring of bytes that holds messages of  *)
(* different sizes, each behind a header with its size, and two queues of  *)
(* waiting tasks.  A byte of a message is a pair of the message and its    *)
(* offset.  Senders wait when the ring has no room; without a ring, or     *)
(* with an empty one, messages pass directly from task to task.            *)
(***************************************************************************)
EXTENDS WaitQueue

CONSTANTS
    Msg,
    MsgSz,      \* size of each message in bytes
    BufSz,      \* the sizes of the rings, multiples of HEADERSZ
    HEADERSZ    \* size of the header, and the unit sizes are rounded up to

Bytes(m) == [k \in 1 .. MsgSz[m] |-> <<m, k>>]

\* tk_snd_mbf() refuses a message without bytes, and tk_cre_mbf() rounds the
\* size of the ring up.
ASSUME MbfAssumption ==
    /\ HEADERSZ \in Nat \ {0}
    /\ MsgSz \in [Msg -> Nat \ {0}]
    /\ BufSz \subseteq Nat
    /\ \A size \in BufSz : \E k \in 0 .. size : size = k * HEADERSZ
    /\ None \notin {Bytes(m) : m \in Msg}

VARIABLES
    bufsz, frbufsz, head, tail, buffer,
    held    \* history: the messages stored in the ring and not yet taken out

mbfvars == <<bufsz, frbufsz, head, tail, buffer, held>>

ROUNDSZ(n) == ((n + HEADERSZ - 1) \div HEADERSZ) * HEADERSZ

\* knl_mbf_free(), knl_mbf_empty().
knl_mbf_free(m) == HEADERSZ + MsgSz[m] <= frbufsz
knl_mbf_empty   == frbufsz = bufsz

\* An offset that may have reached the end of the ring.
Wrapped(i) == IF i >= bufsz THEN 0 ELSE i

\* Where byte k of a message of n bytes is that starts at offset i, and the
\* offset behind the message: what does not fit before the end of the ring
\* continues at its beginning.
ByteAt(i, k)  == IF k <= bufsz - i THEN i + k - 1 ELSE k - 1 - (bufsz - i)
Behind(i, n) ==
    Wrapped(IF bufsz - i < n THEN ROUNDSZ(n - (bufsz - i)) ELSE i + ROUNDSZ(n))

MbfInit ==
    /\ bufsz = 0 /\ frbufsz = 0 /\ head = 0 /\ tail = 0
    /\ buffer = << >> /\ held = << >>

\* knl_msg_to_mbf().
knl_msg_to_mbf(m) ==
    LET start == Wrapped(tail + HEADERSZ) IN
    /\ frbufsz' = frbufsz - (HEADERSZ + ROUNDSZ(MsgSz[m]))
    /\ buffer' = [i \in DOMAIN buffer |->
                    IF i = tail THEN MsgSz[m]
                    ELSE IF \E k \in 1 .. MsgSz[m] : ByteAt(start, k) = i
                    THEN <<m, CHOOSE k \in 1 .. MsgSz[m] : ByteAt(start, k) = i>>
                    ELSE buffer[i]]
    /\ tail' = Behind(start, MsgSz[m])
    /\ held' = Append(held, m)

\* The message at offset h of the ring, and the offset of the next one.
Stored(h) == [k \in 1 .. buffer[h] |-> buffer[ByteAt(Wrapped(h + HEADERSZ), k)]]
After(h)  == Behind(Wrapped(h + HEADERSZ), buffer[h])

\* knl_mbf_to_msg(), the message apart.  The bytes it leaves behind are never
\* read again before they are written, or it would be noticed: they are erased.
knl_mbf_to_msg ==
    LET start == Wrapped(head + HEADERSZ)
        left == {head} \cup {ByteAt(start, k) : k \in 1 .. buffer[head]}
    IN
    /\ frbufsz' = frbufsz + HEADERSZ + ROUNDSZ(buffer[head])
    /\ head' = After(head)
    /\ held' = Tail(held)
    /\ buffer' = [i \in DOMAIN buffer |-> IF i \in left THEN None ELSE buffer[i]]

tk_cre_mbf(bypri, size) ==
    /\ Create(bypri)
    /\ bufsz' = size /\ frbufsz' = size
    /\ head' = 0 /\ tail' = 0
    /\ buffer' = [i \in 0 .. size - 1 |-> None]
    /\ held' = << >>

tk_del_mbf ==
    /\ Delete
    /\ frbufsz' = bufsz /\ head' = 0 /\ tail' = 0
    /\ buffer' = [i \in DOMAIN buffer |-> None]
    /\ held' = << >>
    /\ UNCHANGED bufsz

\* The two ways to send without waiting: to the first waiting receiver, and
\* into the ring.
SendDirectly(m) ==
    /\ queue["recv"] # << >>
    /\ ReleaseOk(Head(queue["recv"]), "recv", Bytes(m))
    /\ UNCHANGED <<rest, mbfvars>>

\* tk_snd_mbf() by task t.
tk_snd_mbf(t, m) ==
    LET stores == IsTop("send", t) /\ knl_mbf_free(m) IN
    /\ Calls(t)
    /\ \/ SendDirectly(m)
       \/ /\ queue["recv"] = << >> /\ stores
          /\ knl_msg_to_mbf(m)
          /\ UNCHANGED <<wvars, bufsz, head>>
       \/ /\ queue["recv"] = << >> /\ ~stores
          /\ MakeWait(t, "send", m, tpri)
          /\ UNCHANGED mbfvars

\* tk_snd_mbf() by an interrupt handler, which does not wait and is not held
\* back by waiting senders.
HandlerSends(m) ==
    /\ Unlocked /\ exists
    /\ \/ SendDirectly(m)
       \/ /\ queue["recv"] = << >> /\ knl_mbf_free(m)
          /\ knl_msg_to_mbf(m)
          /\ UNCHANGED <<wvars, bufsz, head>>

\* The message passes from the first waiting sender to t, both calls complete.
FromSender(t) ==
    LET s == Head(queue["send"])
        both(f, x, y) == [f EXCEPT ![t] = x, ![s] = y]
        done(data) == [code |-> "E_OK", data |-> data]
        bytes == Bytes(winfo[s])
    IN
    /\ queue["send"] # << >>
    /\ tstat' = both(tstat, "ready", "ready")
    /\ winfo' = [winfo EXCEPT ![s] = None]
    /\ wercd' = both(wercd, "E_OK", "E_OK")
    /\ out' = both(out, bytes, None)
    /\ told' = both(told, done(bytes), done(None))
    /\ queue' = [queue EXCEPT !["send"] = Tail(@)]
    /\ rest' = queue'["send"]
    /\ UNCHANGED <<exists, tpri, pri, mbfvars>>

\* Mutant: a waiting sender is served before the ring.
tk_rcv_mbfSenderFirst(t) ==
    /\ Calls(t)
    /\ \/ /\ ~knl_mbf_empty /\ queue["send"] = << >>
          /\ Completes(t, Stored(head))
          /\ knl_mbf_to_msg
          /\ rest' = queue["send"]
          /\ UNCHANGED <<bufsz, tail>>
       \/ FromSender(t)
       \/ /\ knl_mbf_empty /\ queue["send"] = << >>
          /\ MakeWait(t, "recv", None, FALSE)
          /\ UNCHANGED mbfvars

\* From the ring, from the first waiting sender, or not at once.  What
\* becomes free is used by knl_mbf_wakeup(): Wakeup.
tk_rcv_mbf(t) ==
    /\ Calls(t)
    /\ \/ /\ ~knl_mbf_empty
          /\ Completes(t, Stored(head))
          /\ knl_mbf_to_msg
          /\ rest' = queue["send"]
          /\ UNCHANGED <<bufsz, tail>>
       \/ knl_mbf_empty /\ FromSender(t)
       \/ /\ knl_mbf_empty /\ queue["send"] = << >>
          /\ MakeWait(t, "recv", None, FALSE)
          /\ UNCHANGED mbfvars

\* One turn of knl_mbf_wakeup(): the message of the first waiting sender is
\* stored if there is room for it.
Wakeup ==
    LET t == Head(rest) IN
    /\ rest # << >>
    /\ \/ /\ ~knl_mbf_free(winfo[t])
          /\ rest' = << >>
          /\ UNCHANGED <<gcb, tcb, mbfvars>>
       \/ /\ knl_mbf_free(winfo[t])
          /\ knl_msg_to_mbf(winfo[t])
          /\ ReleaseOk(t, "send", None)
          /\ rest' = Tail(rest)
          /\ UNCHANGED <<bufsz, head>>

\* knl_mbf_rel_wai() for senders; receivers have no hooks.
MbfWithdraw(t) ==
    /\ \/ Withdrawn(t, "send") /\ rest' = queue'["send"]
       \/ Withdrawn(t, "recv") /\ rest' = << >>
    /\ UNCHANGED mbfvars

\* knl_mbf_chg_pri().
MbfReorder(t, p) ==
    /\ tpri
    /\ Reordered(t, "send", p)
    /\ rest' = queue'["send"]
    /\ UNCHANGED mbfvars

MbfNext ==
    \/ \E bypri \in BOOLEAN, size \in BufSz : tk_cre_mbf(bypri, size)
    \/ tk_del_mbf
    \/ \E m \in Msg : HandlerSends(m)
    \/ Wakeup
    \/ \E t \in Task :
         \/ \E m \in Msg : tk_snd_mbf(t, m)
         \/ tk_rcv_mbf(t)
         \/ MbfWithdraw(t)
         \/ \E p \in Pri :
              \/ MbfReorder(t, p)
              \/ ChangePriority(t, p, IF tpri THEN {"send"} ELSE {}) /\ UNCHANGED mbfvars
         \/ Return(t) /\ UNCHANGED mbfvars

-----------------------------------------------------------------------------
\* A receiver waits only if there is no message at all, the first sender only
\* if there is no room, whichever of timeouts, terminations, priority changes
\* and calls of the two sides made the room.
MbfNobodyLeft ==
    Unlocked =>
      /\ queue["recv"] # << >> => knl_mbf_empty /\ queue["send"] = << >>
      /\ queue["send"] # << >> => ~knl_mbf_free(winfo[Head(queue["send"])])

\* The offset x bytes behind h in the ring.
Place(h, x) == IF h + x >= bufsz THEN h + x - bufsz ELSE h + x

\* The accepted messages are in the ring, whole, one behind the other, and
\* what is not in use is free: message i is at[i] bytes behind the first one.
HeldAt(at) ==
    /\ at[1] = 0 /\ at[Len(held) + 1] = bufsz - frbufsz
    /\ \A i \in DOMAIN held :
         /\ at[i + 1] = at[i] + HEADERSZ + ROUNDSZ(MsgSz[held[i]])
         /\ buffer[Place(head, at[i])] = MsgSz[held[i]]
         /\ Stored(Place(head, at[i])) = Bytes(held[i])
MessagesInRing ==
    LET units == {x \in 0 .. bufsz : \E k \in 0 .. x : x = k * HEADERSZ}
    IN  \E at \in [1 .. Len(held) + 1 -> units] : HeldAt(at)

\* The messages under way, in the order in which they will be received, and
\* what the receivers whose calls are over have been given.
UnderWay ==
    [i \in DOMAIN held |-> Bytes(held[i])]
      \o [i \in DOMAIN queue["send"] |-> Bytes(winfo[queue["send"][i]])]
Received == [t \in Task |-> IF out[t] = None THEN << >> ELSE out[t]]
=============================================================================
