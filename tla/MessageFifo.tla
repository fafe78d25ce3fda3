----------------------------- MODULE MessageFifo -----------------------------
(***************************************************************************)
(* What a message buffer promises: whole messages, received in the order   *)
(* in which they were accepted, each once.  A message under way is taken   *)
(* back only together with the call of its sender, or with the buffer.     *)
(***************************************************************************)
EXTENDS Integers, Sequences, SequencesExt

CONSTANTS
    Receiver,
    Message

VARIABLES
    chan,    \* the messages under way, the next one to be received first
    got      \* what each receiver has been given and not yet looked at

Init == chan = << >> /\ got = [r \in Receiver |-> << >>]

\* t is s with one message more, or with a message at another place.
Longer(s, t) == Len(t) = Len(s) + 1 /\ \E i \in DOMAIN t : s = RemoveAt(t, i)
Moved(s, t)  == Len(t) = Len(s) /\ \E i, j \in DOMAIN s : t = InsertAt(RemoveAt(s, i), j, s[i])

\* The senders' side.  A message gets its place, the last one or, by the
\* priority of a waiting sender, an earlier one; it is withdrawn; a sender that
\* waits is given another priority; the buffer is deleted.
Senders ==
    /\ UNCHANGED got
    /\ \E now \in {chan}, next \in {chan'} :
         \/ Longer(now, next) /\ Range(next) \subseteq Range(now) \cup Message
         \/ Longer(next, now)
         \/ Moved(now, next) /\ now # next
         \/ now # << >> /\ next = << >>

\* r is given a message: the first one, or, if it waits for one, a message
\* that is being sent and passes the empty channel.
Gets(r, m) == got[r] = << >> /\ m # << >> /\ got' = [got EXCEPT ![r] = m]

Receive(r) ==
    /\ Gets(r, got'[r])
    /\ chan # << >> /\ got'[r] = Head(chan)
    /\ chan' = Tail(chan)

Pass(r) ==
    /\ Gets(r, got'[r])
    /\ got'[r] \in Message
    /\ chan = << >> /\ UNCHANGED chan

Look(r) ==
    /\ got[r] # << >>
    /\ got' = [got EXCEPT ![r] = << >>]
    /\ UNCHANGED chan

Next == Senders \/ \E r \in Receiver : Receive(r) \/ Pass(r) \/ Look(r)

Spec == Init /\ [][Next]_<<chan, got>>
=============================================================================
