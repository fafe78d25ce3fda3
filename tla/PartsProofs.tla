---------------------------- MODULE PartsProofs ----------------------------
(***************************************************************************)
(* Proofs about the parts that MCParts checks side by side: the multi-lock *)
(* (FastMLock) for any number of tasks and locks on one processor, and the *)
(* time events (TimeEvents) for any number of handlers, any tick and any   *)
(* width of the millisecond word.                                          *)
(*                                                                         *)
(* The word of a multi-lock is read and written between DI and EI, so on   *)
(* one processor one task at a time is there (Masking), and the number of  *)
(* waiting tasks in the word is the number of tasks that have announced    *)
(* themselves (Counted); a bit that is clear, and waited for, has its      *)
(* event flag bit set or a task on its way to set it (Waking).             *)
(*                                                                         *)
(* The queues of time events are ordered by a word that wraps round.  The  *)
(* argument carries the time that is left to each event, which does not:   *)
(* it is less than half the range of the word, so that the order of the    *)
(* words is the order of the times (TimesInv), wherever the word wraps.    *)
(***************************************************************************)
EXTENDS TimeEvents, FastMLock, QueueFacts

-----------------------------------------------------------------------------
(***************************************************************************)
(* The multi-lock, for any number of tasks and locks on one processor.     *)
(***************************************************************************)
\* The tasks execute on one processor, which is the premise of DI and EI.
OneProcessor == \E c : \A t \in Task : Affinity[t] = {c}

MPoint == {"out", "inc", "bts", "test", "wait", "sleep", "dec", "sub", "in", "clear",
           "look", "signal"}

MTypes ==
    /\ flg \subseteq LockNo
    /\ no \in [Task -> LockNo]
    /\ mpc \in [Task -> MPoint]
    /\ ok \in [Task -> BOOLEAN]
    /\ reg = [t \in Task |-> reg[t]]
    /\ mat = [t \in Task |-> mat[t]]

\* One task at a time is between DI and EI, and the word it has read there is
\* still the word.
Masked(t) == mpc[t] \in {"inc", "test", "sub", "clear"}
Masking ==
    /\ \A t \in Task : IF Masked(t) THEN mat[t] \in Affinity[t] ELSE mat[t] = NoCore
    /\ \A t, u \in Task : Masked(t) /\ Masked(u) => t = u
    /\ \A t \in Task : mpc[t] \in {"test", "clear"} => reg[t] = flg
    /\ \A t \in Task : mpc[t] \in {"inc", "sub"} => reg[t] = wai

\* A bit is set while a task has its lock.
Bits ==
    /\ \A t \in Task : Has(t) => no[t] \in flg
    /\ \A n \in flg : \E t \in Task : Has(t) /\ no[t] = n

MInv == MTypes /\ Masking /\ Bits /\ MLockExcludes

\* wai counts the tasks in MLockTmo().
InMLock(t) == mpc[t] \in {"bts", "test", "wait", "sleep", "dec", "sub"}
Counted == wai = Cardinality({t \in Task : InMLock(t)})

\* The tasks that will set the bit of the event flag, or look at the lock.
Wakes(t) ==
    \/ mpc[t] \in {"bts", "test", "in", "clear", "look", "signal"}
    \/ ok[t] /\ mpc[t] \in {"dec", "sub"}
Waking ==
    /\ \A t \in Task : mpc[t] = "sleep" => no[t] \notin flgptn
    /\ \A t \in Task : mpc[t] \in {"wait", "sleep"} =>
         no[t] \in flgptn \/ \E u \in Task : Wakes(u) /\ no[u] = no[t]

\* DI, and a word is read: nobody else is masked.
LEMMA ReadAlone ==
    ASSUME OneProcessor, MTypes, Masking, NEW t \in Task, NEW word, NEW p \in MPoint, Read(t, word, p)
    PROVE  /\ \A u \in Task : ~Masked(u)
           /\ mat' = [u \in Task |-> IF u = t THEN mat'[t] ELSE mat[u]] /\ mat'[t] \in Affinity[t]
           /\ mpc' = [mpc EXCEPT ![t] = p]
           /\ reg' = [reg EXCEPT ![t] = word]
BY MLockAssumption DEF OneProcessor, MTypes, Masking, Read, Goes

LEMMA MaskingKept ==
    ASSUME OneProcessor, MInv, NEW t \in Task,
           Inc(t) \/ Bts(t) \/ tk_wai_flg(t) \/ GiveUp(t) \/ Dec(t) \/ Br(t) \/ Look(t) \/ tk_set_flg(t)
    PROVE  MTypes' /\ Masking'
<1>. USE DEF MInv
<1>1. CASE Inc(t)
  <2>1. CASE Is(t, "out") /\ Read(t, wai, "inc")
    <3>1. /\ \A u \in Task : ~Masked(u)
          /\ mat' = [u \in Task |-> IF u = t THEN mat'[t] ELSE mat[u]] /\ mat'[t] \in Affinity[t]
          /\ mpc' = [mpc EXCEPT ![t] = "inc"]
          /\ reg' = [reg EXCEPT ![t] = wai]
      BY <2>1, ReadAlone DEF MPoint
    <3>. QED
      BY <2>1, <3>1 DEF Read, MTypes, Masking, Masked, MPoint
  <2>2. CASE Is(t, "inc") /\ wai' = reg[t] + 1 /\ Enabled(t, "bts") /\ UNCHANGED <<flg, flgptn, no, ok>>
    BY <2>2 DEF Is, Enabled, Goes, MTypes, Masking, Masked, MPoint
  <2>. QED
    BY <1>1, <2>1, <2>2 DEF Inc
<1>2. CASE Bts(t)
  <2>1. CASE Is(t, "bts") /\ Read(t, flg, "test")
    <3>1. /\ \A u \in Task : ~Masked(u)
          /\ mat' = [u \in Task |-> IF u = t THEN mat'[t] ELSE mat[u]] /\ mat'[t] \in Affinity[t]
          /\ mpc' = [mpc EXCEPT ![t] = "test"]
          /\ reg' = [reg EXCEPT ![t] = flg]
      BY <2>1, ReadAlone DEF MPoint
    <3>. QED
      BY <2>1, <3>1 DEF Read, MTypes, Masking, Masked, MPoint
  <2>2. CASE ~Is(t, "bts")
    <3>1. PICK p \in {"wait", "dec"} :
            /\ mpc[t] = "test" /\ mpc' = [mpc EXCEPT ![t] = p]
            /\ mat' = [mat EXCEPT ![t] = NoCore]
            /\ reg' = [reg EXCEPT ![t] = 0]
            /\ flg' = flg \cup {no[t]} /\ ok' = [ok EXCEPT ![t] = TRUE]
            /\ UNCHANGED <<wai, flgptn, no>>
      BY <1>2, <2>2 DEF Bts, Is, Enabled, Goes, Masking
    <3>2. MTypes'
      BY <3>1 DEF MTypes, MPoint
    <3>3. \A u \in Task : /\ Masked(u)' <=> u # t /\ Masked(u)
                          /\ u # t => mpc'[u] = mpc[u] /\ mat'[u] = mat[u] /\ reg'[u] = reg[u]
                          /\ u = t => mpc'[u] = p /\ mat'[u] = NoCore
      BY <3>1 DEF MTypes, Masked
    <3>4. \A u \in Task : Masked(u) => u = t
      BY <3>1 DEF Masking, Masked
    <3>5. \A u \in Task : ~Masked(u)'
      BY <3>3, <3>4
    <3>6. \A u \in Task : mat'[u] = NoCore
      BY <3>3, <3>4 DEF Masking
    <3>7. Masking'
      BY <3>5, <3>6 DEF Masking, Masked
    <3>. QED
      BY <3>2, <3>7
  <2>. QED
    BY <1>2, <2>1, <2>2 DEF Bts, Is
<1>3. CASE tk_wai_flg(t)
  BY <1>3 DEF tk_wai_flg, Is, Goes, MTypes, Masking, Masked, MPoint
<1>4. CASE GiveUp(t)
  BY <1>4 DEF GiveUp, Is, Goes, MTypes, Masking, Masked, MPoint
<1>5. CASE Dec(t)
  <2>1. CASE Is(t, "dec") /\ Read(t, wai, "sub")
    <3>1. /\ \A u \in Task : ~Masked(u)
          /\ mat' = [u \in Task |-> IF u = t THEN mat'[t] ELSE mat[u]] /\ mat'[t] \in Affinity[t]
          /\ mpc' = [mpc EXCEPT ![t] = "sub"]
          /\ reg' = [reg EXCEPT ![t] = wai]
      BY <2>1, ReadAlone DEF MPoint
    <3>. QED
      BY <2>1, <3>1 DEF Read, MTypes, Masking, Masked, MPoint
  <2>2. CASE ~Is(t, "dec")
    <3>1. PICK p \in {"in", "out"} :
            /\ mpc[t] = "sub" /\ mpc' = [mpc EXCEPT ![t] = p]
            /\ mat' = [mat EXCEPT ![t] = NoCore]
            /\ reg' = [reg EXCEPT ![t] = 0]
            /\ UNCHANGED <<flg, flgptn, no, ok>>
      BY <1>5, <2>2 DEF Dec, Is, Enabled, Goes
    <3>. QED
      BY <3>1 DEF MTypes, Masking, Masked, MPoint
  <2>. QED
    BY <1>5, <2>1, <2>2 DEF Dec, Is
<1>6. CASE Br(t)
  <2>1. CASE Is(t, "in") /\ Read(t, flg, "clear")
    <3>1. /\ \A u \in Task : ~Masked(u)
          /\ mat' = [u \in Task |-> IF u = t THEN mat'[t] ELSE mat[u]] /\ mat'[t] \in Affinity[t]
          /\ mpc' = [mpc EXCEPT ![t] = "clear"]
          /\ reg' = [reg EXCEPT ![t] = flg]
      BY <2>1, ReadAlone DEF MPoint
    <3>. QED
      BY <2>1, <3>1 DEF Read, MTypes, Masking, Masked, MPoint
  <2>2. CASE ~Is(t, "in")
    BY <1>6, <2>2 DEF Br, Is, Enabled, Goes, MTypes, Masking, Masked, MPoint
  <2>. QED
    BY <1>6, <2>1, <2>2 DEF Br, Is
<1>7. CASE Look(t)
  BY <1>7 DEF Look, Is, Goes, MTypes, Masking, Masked, MPoint
<1>8. CASE tk_set_flg(t)
  BY <1>8 DEF tk_set_flg, Sleepers, Is, Goes, MTypes, Masking, Masked, MPoint
<1>. QED
  BY <1>1, <1>2, <1>3, <1>4, <1>5, <1>6, <1>7, <1>8

\* The tasks that have their lock, after each step.
LEMMA BitsKept ==
    ASSUME OneProcessor, MInv, NEW t \in Task,
           Inc(t) \/ Bts(t) \/ tk_wai_flg(t) \/ GiveUp(t) \/ Dec(t) \/ Br(t) \/ Look(t) \/ tk_set_flg(t)
    PROVE  Bits' /\ MLockExcludes'
<1>. USE DEF MInv
<1>1. CASE Inc(t) \/ Look(t) \/ tk_set_flg(t) \/ tk_wai_flg(t) \/ GiveUp(t) \/ Dec(t)
  <2>1. flg' = flg /\ no' = no /\ \A u \in Task : Has(u)' <=> Has(u)
    BY <1>1 DEF Inc, Look, tk_set_flg, tk_wai_flg, GiveUp, Dec, Read, Enabled, Sleepers, Is, Goes, MTypes, Has
  <2>. QED
    BY <2>1 DEF Bits, MLockExcludes
<1>2. CASE Bts(t)
  <2>1. CASE Is(t, "bts") \/ no[t] \in reg[t]
    <3>1. flg' = flg /\ no' = no /\ \A u \in Task : Has(u)' <=> Has(u)
      BY SMTT(20), <1>2, <2>1 DEF Bts, Read, Enabled, Is, Goes, MTypes, Has, Masking
    <3>. QED
      BY <3>1 DEF Bits, MLockExcludes
  <2>2. CASE Is(t, "test") /\ no[t] \notin reg[t]
    <3>1. /\ flg' = flg \cup {no[t]} /\ no' = no /\ no[t] \notin flg
          /\ \A u \in Task : Has(u)' <=> Has(u) \/ u = t
      BY <1>2, <2>2 DEF Bts, Read, Enabled, Is, Goes, MTypes, Has, Masking
    <3>. QED
      BY <3>1 DEF Bits, MLockExcludes
  <2>. QED
    BY <1>2, <2>1, <2>2 DEF Bts
<1>3. CASE Br(t)
  <2>1. CASE Is(t, "in")
    <3>1. flg' = flg /\ no' = no /\ \A u \in Task : Has(u)' <=> Has(u)
      BY <1>3, <2>1 DEF Br, Read, Is, Goes, MTypes, Has
    <3>. QED
      BY <3>1 DEF Bits, MLockExcludes
  <2>2. CASE Is(t, "clear")
    <3>1. /\ flg' = flg \ {no[t]} /\ no' = no /\ Has(t)
          /\ \A u \in Task : Has(u)' <=> Has(u) /\ u # t
      BY <1>3, <2>2 DEF Br, Enabled, Is, Goes, MTypes, Has, Masking
    <3>. QED
      BY <3>1 DEF Bits, MLockExcludes
  <2>. QED
    BY <1>3, <2>1, <2>2 DEF Br
<1>. QED
  BY <1>1, <1>2, <1>3

\* The inductive invariant, on one processor.
LEMMA MInvHolds == ASSUME OneProcessor PROVE MLockSpec => []MInv
<1>1. MLockInit => MInv
  BY DEF MLockInit, MInv, MTypes, MPoint, Masking, Masked, Bits, MLockExcludes, Has
<1>2. MInv /\ [MLockNext]_mlockvars => MInv'
  <2>1. ASSUME MInv, MLockNext PROVE MInv'
    BY <2>1, MaskingKept, BitsKept DEF MLockNext, MInv
  <2>2. ASSUME MInv, UNCHANGED mlockvars PROVE MInv'
    BY <2>2 DEF mlockvars, MInv, MTypes, Masking, Masked, Bits, MLockExcludes, Has
  <2>. QED
    BY <2>1, <2>2
<1>. QED
  BY <1>1, <1>2, PTL DEF MLockSpec

THEOREM MLockExclusion == ASSUME OneProcessor PROVE MLockSpec => []MLockExcludes
<1>1. MInv => MLockExcludes
  BY DEF MInv
<1>. QED
  BY <1>1, MInvHolds, PTL

\* wai counts the tasks in MLockTmo(), however INC and DEC interleave.
LEMMA CountedKept ==
    ASSUME OneProcessor, MInv, Counted, IsFiniteSet(Task), NEW t \in Task,
           Inc(t) \/ Bts(t) \/ tk_wai_flg(t) \/ GiveUp(t) \/ Dec(t) \/ Br(t) \/ Look(t) \/ tk_set_flg(t)
    PROVE  Counted'
<1>. DEFINE S == {u \in Task : InMLock(u)}
<1>. USE DEF MInv
<1>0. IsFiniteSet(S) /\ wai = Cardinality(S)
  BY FS_Subset DEF Counted
<1>1. CASE Is(t, "inc") /\ Inc(t)
  <2>1. wai' = wai + 1 /\ mpc[t] = "inc" /\ mpc' = [mpc EXCEPT ![t] = "bts"]
    BY <1>1 DEF Inc, Read, Enabled, Is, Goes, Masking
  <2>2. {u \in Task : InMLock(u)'} = S \cup {t} /\ t \notin S
    BY <2>1 DEF MTypes, InMLock
  <2>. QED
    BY <1>0, <2>1, <2>2, FS_AddElement DEF Counted
<1>2. CASE Is(t, "sub") /\ Dec(t)
  <2>1. wai' = wai - 1 /\ mpc[t] = "sub" /\ mpc' \in {[mpc EXCEPT ![t] = "in"], [mpc EXCEPT ![t] = "out"]}
    BY <1>2 DEF Dec, Read, Enabled, Is, Goes, Masking
  <2>2. {u \in Task : InMLock(u)'} = S \ {t} /\ t \in S
    BY <2>1 DEF MTypes, InMLock
  <2>. QED
    BY <1>0, <2>1, <2>2, FS_RemoveElement DEF Counted
<1>3. CASE ~(Is(t, "inc") /\ Inc(t)) /\ ~(Is(t, "sub") /\ Dec(t))
  <2>1. wai' = wai /\ \A u \in Task : InMLock(u)' <=> InMLock(u)
    <3>1. CASE Inc(t) \/ Dec(t)
      BY <1>3, <3>1 DEF Inc, Dec, Read, Is, Goes, MTypes, InMLock
    <3>2. CASE Bts(t) \/ Br(t)
      BY <3>2 DEF Bts, Br, Read, Enabled, Is, Goes, MTypes, InMLock
    <3>3. CASE tk_wai_flg(t) \/ GiveUp(t) \/ Look(t) \/ tk_set_flg(t)
      BY <3>3 DEF tk_wai_flg, GiveUp, Look, tk_set_flg, Sleepers, Is, Goes, MTypes, InMLock
    <3>. QED
      BY <3>1, <3>2, <3>3
  <2>. QED
    BY <2>1 DEF Counted
<1>. QED
  BY <1>1, <1>2, <1>3

\* What wakes a task that waits, or will wait, for the event flag.
LEMMA WakingKept ==
    ASSUME OneProcessor, MInv, Counted, Waking, IsFiniteSet(Task), NEW t \in Task,
           Inc(t) \/ Bts(t) \/ tk_wai_flg(t) \/ GiveUp(t) \/ Dec(t) \/ Br(t) \/ Look(t) \/ tk_set_flg(t)
    PROVE  Waking'
<1>. USE DEF MInv
<1>1. CASE Inc(t) \/ GiveUp(t) \/ Dec(t) \/ Br(t)
  <2>1. no' = no /\ flgptn' = flgptn
    BY <1>1 DEF Inc, GiveUp, Dec, Br, Read, Enabled
  <2>2. ASSUME NEW u \in Task, Wakes(u) PROVE Wakes(u)'
    BY <1>1, <2>2 DEF Inc, GiveUp, Dec, Br, Read, Enabled, Is, Goes, MTypes, Wakes
  <2>3. ASSUME NEW u \in Task, mpc'[u] \in {"wait", "sleep"} PROVE mpc[u] = mpc'[u]
    BY <1>1, <2>3 DEF Inc, GiveUp, Dec, Br, Read, Enabled, Is, Goes, MTypes
  <2>. QED
    BY <2>1, <2>2, <2>3 DEF Waking
<1>2. CASE Bts(t)
  <2>1. no' = no /\ flgptn' = flgptn
    BY <1>2 DEF Bts, Read, Enabled
  <2>2. ASSUME NEW u \in Task, u # t PROVE mpc'[u] = mpc[u] /\ ok'[u] = ok[u]
    BY <1>2, <2>2 DEF Bts, Read, Enabled, Is, Goes, MTypes
  <2>3. mpc'[t] \in {"test", "wait", "dec"}
    BY <1>2 DEF Bts, Read, Enabled, Is, Goes, MTypes
  <2>4. mpc'[t] # "wait" => Wakes(t)'
    BY <1>2 DEF Bts, Read, Enabled, Is, Goes, MTypes, Wakes
  <2>5. mpc'[t] = "wait" => \E u \in Task : u # t /\ Has(u) /\ no[u] = no[t]
    BY <1>2 DEF Bts, Read, Enabled, Is, Goes, MTypes, Masking, Bits, Has
  <2>6. \A u \in Task : Has(u) => Wakes(u)
    BY DEF Has, Wakes
  <2>7. ASSUME NEW u \in Task, Wakes(u) PROVE \E v \in Task : Wakes(v)' /\ no[v] = no[u]
    <3>1. \A v \in Task : v # t /\ Wakes(v) => Wakes(v)'
      BY <2>2 DEF Wakes
    <3>2. CASE u # t \/ mpc'[t] # "wait"
      BY <2>4, <2>7, <3>1, <3>2
    <3>3. CASE u = t /\ mpc'[t] = "wait"
      BY <2>5, <2>6, <3>1, <3>3
    <3>. QED
      BY <3>2, <3>3
  <2>. QED
    BY <2>1, <2>2, <2>3, <2>5, <2>6, <2>7 DEF Waking
<1>3. CASE tk_wai_flg(t)
  <2>0. no' = no /\ ok' = ok /\ \A u \in Task \ {t} : mpc'[u] = mpc[u]
    BY <1>3 DEF tk_wai_flg, Goes, MTypes
  <2>1. CASE no[t] \in flgptn
    <3>1. flgptn' = flgptn \ {no[t]} /\ mpc'[t] = "bts"
      BY <1>3, <2>1 DEF tk_wai_flg, Goes, MTypes
    <3>2. \A u \in Task : Wakes(u) \/ u = t => Wakes(u)'
      BY <2>0, <3>1 DEF Wakes
    <3>. QED
      BY <2>0, <3>1, <3>2 DEF Waking
  <2>2. CASE no[t] \notin flgptn
    <3>1. flgptn' = flgptn /\ mpc[t] = "wait" /\ mpc'[t] = "sleep"
      BY <1>3, <2>2 DEF tk_wai_flg, Is, Goes, MTypes
    <3>2. \A u \in Task : Wakes(u) => Wakes(u)'
      BY <2>0, <3>1 DEF Wakes
    <3>. QED
      BY <2>0, <2>2, <3>1, <3>2 DEF Waking
  <2>. QED
    BY <2>1, <2>2
<1>4. CASE Look(t)
  <2>0. no' = no /\ flgptn' = flgptn /\ ok' = ok /\ \A u \in Task \ {t} : mpc'[u] = mpc[u]
    BY <1>4 DEF Look, Goes, MTypes
  <2>1. CASE wai = 0
    <3>1. IsFiniteSet({u \in Task : InMLock(u)})
      BY FS_Subset
    <3>2. \A u \in Task : ~InMLock(u)
      BY <2>1, <3>1, FS_EmptySet DEF Counted
    <3>. QED
      BY <1>4, <2>0, <2>1, <3>2 DEF Look, Goes, MTypes, Waking, InMLock
  <2>2. CASE wai # 0
    <3>1. mpc[t] = "look" /\ mpc'[t] = "signal"
      BY <1>4, <2>2 DEF Look, Is, Goes, MTypes
    <3>2. \A u \in Task : Wakes(u) => Wakes(u)'
      BY <2>0, <3>1 DEF Wakes
    <3>. QED
      BY <2>0, <3>1, <3>2 DEF Waking
  <2>. QED
    BY <2>1, <2>2
<1>5. CASE tk_set_flg(t)
  <2>0. no' = no /\ ok' = ok /\ mpc[t] = "signal"
    BY <1>5 DEF tk_set_flg, Is
  <2>1. CASE Sleepers(no[t]) = {}
    <3>1. /\ flgptn' = flgptn \cup {no[t]} /\ mpc'[t] = "out"
          /\ \A u \in Task \ {t} : mpc'[u] = mpc[u]
          /\ \A u \in Task : mpc[u] = "sleep" => no[u] # no[t]
      BY <1>5, <2>1 DEF tk_set_flg, Goes, MTypes, Sleepers, Is
    <3>2. \A u \in Task : Wakes(u) => Wakes(u)' \/ u = t
      BY <2>0, <3>1 DEF Wakes
    <3>. QED
      BY <2>0, <3>1, <3>2 DEF Waking
  <2>2. CASE Sleepers(no[t]) # {}
    <3>1. PICK v \in Sleepers(no[t]) : mpc' = [mpc EXCEPT ![t] = "out", ![v] = "bts"] /\ flgptn' = flgptn
      BY <1>5, <2>2 DEF tk_set_flg
    <3>2. v \in Task /\ mpc[v] = "sleep" /\ no[v] = no[t] /\ v # t
      BY <2>0, <3>1 DEF Sleepers, Is
    <3>3. /\ mpc'[t] = "out" /\ mpc'[v] = "bts"
          /\ \A u \in Task \ {t, v} : mpc'[u] = mpc[u]
      BY <3>1, <3>2 DEF MTypes
    <3>4. Wakes(v)' /\ \A u \in Task : Wakes(u) => Wakes(u)' \/ u = t
      BY <2>0, <3>2, <3>3 DEF Wakes
    <3>. QED
      BY <2>0, <3>1, <3>2, <3>3, <3>4 DEF Waking
  <2>. QED
    BY <2>1, <2>2
<1>. QED
  BY <1>1, <1>2, <1>3, <1>4, <1>5

THEOREM MLockWakes ==
    ASSUME OneProcessor, IsFiniteSet(Task) PROVE MLockSpec => []SleeperIsWoken
<1>. DEFINE I == MInv /\ Counted /\ Waking
<1>1. MLockInit => I
  <2>1. MLockInit => {t \in Task : InMLock(t)} = {}
    BY DEF MLockInit, InMLock
  <2>2. MLockInit => Counted
    BY <2>1, FS_EmptySet DEF MLockInit, Counted
  <2>3. MLockInit => MInv /\ Waking
    BY DEF MLockInit, MInv, MTypes, MPoint, Masking, Masked, Bits, MLockExcludes, Has, Waking
  <2>. QED
    BY <2>2, <2>3
<1>2. I /\ [MLockNext]_mlockvars => I'
  <2>1. ASSUME I, MLockNext PROVE I'
    <3>1. PICK t \in Task : Inc(t) \/ Bts(t) \/ tk_wai_flg(t) \/ GiveUp(t) \/ Dec(t) \/ Br(t)
                             \/ Look(t) \/ tk_set_flg(t)
      BY <2>1 DEF MLockNext
    <3>. QED
      BY <2>1, <3>1, MaskingKept, BitsKept, CountedKept, WakingKept DEF MInv
  <2>2. ASSUME I, UNCHANGED mlockvars PROVE I'
    BY <2>2 DEF mlockvars, MInv, MTypes, Masking, Masked, Bits, MLockExcludes, Has, Counted,
                InMLock, Waking, Wakes
  <2>. QED
    BY <2>1, <2>2
<1>3. I => SleeperIsWoken
  BY DEF Waking, Wakes, SleeperIsWoken, Is
<1>. QED
  BY <1>1, <1>2, <1>3, PTL DEF MLockSpec

-----------------------------------------------------------------------------
(***************************************************************************)
(* Time events: where the events are.                                      *)
(***************************************************************************)
LEMMA Words == /\ Modulus \in Nat \ {0} /\ Half \in Nat \ {0} /\ Modulus = 2 * Half
               /\ PERIOD \in 1 .. Half
BY TimeAssumption DEF Half

Unranked == [h \in Hdr |-> 0]

\* An event is in one queue, once, exactly while its handler is started.
EventsInv ==
    /\ TimeTypeOK
    /\ OrderedBy(tq, Unranked) /\ \A c \in Core : OrderedBy(hq[c], Unranked)
    /\ \A h \in Range(tq), c \in Core : h \notin Range(hq[c])
    /\ \A h \in Hdr : h \in Range(hq[0]) => h \notin Range(hq[1])
    /\ \A h \in Hdr : cb[h].sta <=> h \in Range(tq) \/ h \in Range(hq[0]) \/ h \in Range(hq[1])
    /\ \A h \in Hdr : cb[h].sta \/ cb[h].phs => cb[h].made
    /\ \A h \in Cyc : cb[h].made => cb[h].tim \in Reltim \ {0}

\* knl_enqueue_tmeb() inserts at the first of the later events.
LEMMA EnqueuedIsLinked ==
    ASSUME NEW q \in Seq(Hdr), NEW h \in Hdr, NEW t
    PROVE  Enqueued(q, h, t) = LinkedBefore(q, h, {i \in DOMAIN q : Key(t) < Key(cb[q[i]].time)})
<1>. DEFINE after == {i \in DOMAIN q : Key(t) < Key(cb[q[i]].time)}
<1>1. InsertAt(q, Len(q) + 1, h) = Append(q, h)
  BY InsertedAtEnd
<1>2. Enqueued(q, h, t)
        = InsertAt(q, IF after = {} THEN Len(q) + 1 ELSE CHOOSE i \in after : \A j \in after : i <= j, h)
  BY DEF Enqueued
<1>. HIDE DEF after
<1>. QED
  BY <1>1, <1>2 DEF LinkedBefore, after

LEMMA EnqueuedKeeps ==
    ASSUME NEW q \in Seq(Hdr), NEW h \in Hdr \ Range(q), NEW t, OrderedBy(q, Unranked)
    PROVE  /\ Enqueued(q, h, t) \in Seq(Hdr)
           /\ Range(Enqueued(q, h, t)) = Range(q) \cup {h}
           /\ OrderedBy(Enqueued(q, h, t), Unranked)
<1>. DEFINE after == {i \in DOMAIN q : Key(t) < Key(cb[q[i]].time)}
<1>1. after \in SUBSET DOMAIN q /\ Unranked \in [Hdr -> Nat]
  BY DEF Unranked
<1>2. \A i \in DOMAIN q : q[i] \in Hdr
  BY InRange
<1>3. /\ \A i \in DOMAIN q \ after : Unranked[q[i]] <= Unranked[h]
      /\ \A i \in after : Unranked[h] <= Unranked[q[i]]
  BY <1>2 DEF Unranked
<1>4. Enqueued(q, h, t) = LinkedBefore(q, h, after)
  BY EnqueuedIsLinked
<1>. HIDE DEF after
<1>5. /\ LinkedBefore(q, h, after) \in Seq(Hdr)
      /\ Range(LinkedBefore(q, h, after)) = Range(q) \cup {h}
      /\ OrderedBy(LinkedBefore(q, h, after), Unranked)
  BY <1>1, <1>3, LinkedKeeps
<1>. QED
  BY <1>4, <1>5

\* knl_timer_delete()
LEMMA DequeuedKeeps ==
    ASSUME NEW q \in Seq(Hdr), NEW h \in Hdr, NEW pr, OrderedBy(q, pr)
    PROVE  /\ Dequeued(q, h) \in Seq(Hdr)
           /\ Range(Dequeued(q, h)) = Range(q) \ {h}
           /\ OrderedBy(Dequeued(q, h), pr)
BY WithoutKeeps DEF Dequeued, Without

LEMMA AppendedKeeps ==
    ASSUME NEW q \in Seq(Hdr), NEW h \in Hdr \ Range(q), OrderedBy(q, Unranked)
    PROVE  /\ Append(q, h) \in Seq(Hdr)
           /\ Range(Append(q, h)) = Range(q) \cup {h}
           /\ OrderedBy(Append(q, h), Unranked)
BY AppendKeeps DEF Unranked

Block == [made : BOOLEAN, sta : BOOLEAN, time : 0 .. Modulus - 1,
          tim : Reltim \cup {0}, phs : BOOLEAN, prc : Core \cup {2}]

LEMMA TimedBlock ==
    ASSUME NEW b \in Block, NEW t \in 0 .. Modulus - 1, NEW n, n = [b EXCEPT !.time = t]
    PROVE  /\ n \in Block /\ n.time = t /\ n.tim = b.tim /\ n.prc = b.prc
           /\ n.made = b.made /\ n.sta = b.sta /\ n.phs = b.phs
<1>1. n = [made |-> b.made, sta |-> b.sta, time |-> t, tim |-> b.tim, phs |-> b.phs, prc |-> b.prc]
  BY DEF Block
<1>2. n \in Block
  BY DEF Block
<1>3. n.time = t /\ n.tim = b.tim /\ n.prc = b.prc
  BY <1>1
<1>4. n.made = b.made /\ n.sta = b.sta /\ n.phs = b.phs
  BY <1>1, Zenon
<1>. QED
  BY <1>2, <1>3, <1>4, Zenon

LEMMA StoppedBlock ==
    ASSUME NEW b \in Block, NEW n, n = [b EXCEPT !.sta = FALSE]
    PROVE  /\ n \in Block /\ n.time = b.time /\ n.tim = b.tim /\ n.prc = b.prc
           /\ n.made = b.made /\ ~n.sta /\ n.phs = b.phs
<1>1. n = [made |-> b.made, sta |-> FALSE, time |-> b.time, tim |-> b.tim, phs |-> b.phs, prc |-> b.prc]
  BY DEF Block
<1>2. n \in Block
  BY DEF Block
<1>3. n.time = b.time /\ n.tim = b.tim /\ n.prc = b.prc
  BY <1>1
<1>4. n.made = b.made /\ ~n.sta /\ n.phs = b.phs
  BY <1>1, Zenon
<1>. QED
  BY <1>2, <1>3, <1>4, Zenon

LEMMA Blocks ==
    ASSUME TimeTypeOK
    PROVE  /\ cb \in [Hdr -> Block]
           /\ \A h \in Hdr : /\ cb[h] \in Block /\ cb[h].time \in 0 .. Modulus - 1
                            /\ cb[h].tim \in Reltim \cup {0} /\ cb[h].prc \in Core \cup {2}
<1>1. cb \in [Hdr -> Block]
  BY DEF TimeTypeOK, Block
<1>2. \A b \in Block : /\ b.time \in 0 .. Modulus - 1
                       /\ b.tim \in Reltim \cup {0} /\ b.prc \in Core \cup {2}
  BY DEF Block
<1>. QED
  BY <1>1, <1>2

\* The control block of h becomes b.
LEMMA BlockSet ==
    ASSUME TimeTypeOK, NEW h \in Hdr, NEW b \in Block, cb' = [cb EXCEPT ![h] = b]
    PROVE  /\ cb' \in [Hdr -> Block] /\ cb'[h] = b /\ \A g \in Hdr \ {h} : cb'[g] = cb[g]
<1>1. cb \in [Hdr -> Block]
  BY Blocks
<1>. QED
  BY <1>1

LEMMA TypesKept ==
    ASSUME cur' \in 0 .. Modulus - 1, tq' \in Seq(Hdr), hq' \in [Core -> Seq(Hdr)],
           active' \in [Core -> BOOLEAN], request' \in [Core -> BOOLEAN],
           at' \in [Core -> {"out", "tick", "drain", "body"}], ticking' \in BOOLEAN,
           cb' \in [Hdr -> Block], due' \in [Hdr -> Int]
    PROVE  TimeTypeOK'
BY DEF TimeTypeOK, Block

\* A step that moves the event of h, and changes no control block but its.
Moved(h) ==
    /\ OrderedBy(tq', Unranked) /\ \A c \in Core : OrderedBy(hq'[c], Unranked)
    /\ \A g \in Hdr \ {h} : /\ g \in Range(tq') <=> g \in Range(tq)
                            /\ \A c \in Core : g \in Range(hq'[c]) <=> g \in Range(hq[c])
                            /\ cb'[g] = cb[g]
    /\ \A c \in Core : h \in Range(tq') => h \notin Range(hq'[c])
    /\ h \in Range(hq'[0]) => h \notin Range(hq'[1])
    /\ cb'[h].sta <=> h \in Range(tq') \/ h \in Range(hq'[0]) \/ h \in Range(hq'[1])
    /\ cb'[h].sta \/ cb'[h].phs => cb'[h].made
    /\ h \in Cyc /\ cb'[h].made => cb'[h].tim \in Reltim \ {0}

LEMMA EventsKept ==
    ASSUME EventsInv, TimeTypeOK', NEW h \in Hdr, Moved(h)
    PROVE  EventsInv'
<1>1. tq' \in Seq(Hdr)
  BY DEF TimeTypeOK
<1>2. \A g \in Range(tq') : g \in Hdr
  BY <1>1, InRange
<1>3. 0 \in Core /\ 1 \in Core /\ Cyc \subseteq Hdr
  BY DEF Core, Hdr
<1>4. (\A g \in Range(tq), c \in Core : g \notin Range(hq[c]))'
  BY <1>2 DEF EventsInv, Moved
<1>5. (\A g \in Hdr : g \in Range(hq[0]) => g \notin Range(hq[1]))'
  BY <1>3 DEF EventsInv, Moved
<1>6. ASSUME NEW g \in Hdr
      PROVE  /\ cb'[g].sta <=> g \in Range(tq') \/ g \in Range(hq'[0]) \/ g \in Range(hq'[1])
             /\ cb'[g].sta \/ cb'[g].phs => cb'[g].made
             /\ g \in Cyc /\ cb'[g].made => cb'[g].tim \in Reltim \ {0}
  <2>1. CASE g = h
    BY <2>1, Zenon DEF Moved
  <2>2. CASE g # h
    <3>1. /\ cb[g].sta <=> g \in Range(tq) \/ g \in Range(hq[0]) \/ g \in Range(hq[1])
          /\ cb[g].sta \/ cb[g].phs => cb[g].made
          /\ g \in Cyc /\ cb[g].made => cb[g].tim \in Reltim \ {0}
      BY DEF EventsInv
    <3>2. /\ g \in Range(tq') <=> g \in Range(tq)
          /\ g \in Range(hq'[0]) <=> g \in Range(hq[0])
          /\ g \in Range(hq'[1]) <=> g \in Range(hq[1])
          /\ cb'[g] = cb[g]
      BY <2>2, <1>3 DEF Moved
    <3>. QED
      BY <3>1, <3>2, Zenon
  <2>. QED
    BY <2>1, <2>2
<1>8. Unranked' = Unranked
  BY DEF Unranked
<1>. QED
  BY <1>3, <1>4, <1>5, <1>6, <1>8 DEF EventsInv, Moved

LEMMA StoppedEvent ==
    ASSUME EventsInv, NEW h \in Hdr, Stopped(h)
    PROVE  /\ tq' \in Seq(Hdr) /\ hq' \in [Core -> Seq(Hdr)]
           /\ OrderedBy(tq', Unranked) /\ \A c \in Core : OrderedBy(hq'[c], Unranked)
           /\ Range(tq') = Range(tq) \ {h} /\ \A c \in Core : Range(hq'[c]) = Range(hq[c]) \ {h}
<1>1. tq \in Seq(Hdr) /\ \A c \in Core : hq[c] \in Seq(Hdr)
  BY DEF EventsInv, TimeTypeOK
<1>2. \A c \in Core : hq'[c] = Dequeued(hq[c], h)
  BY DEF Stopped
<1>3. \A c \in Core : /\ hq'[c] \in Seq(Hdr) /\ Range(hq'[c]) = Range(hq[c]) \ {h}
                      /\ OrderedBy(hq'[c], Unranked)
  BY <1>1, <1>2, DequeuedKeeps DEF EventsInv
<1>4. tq' \in Seq(Hdr) /\ Range(tq') = Range(tq) \ {h} /\ OrderedBy(tq', Unranked)
  BY <1>1, DequeuedKeeps DEF EventsInv, Stopped
<1>5. hq' \in [Core -> Seq(Hdr)]
  BY <1>3 DEF Stopped
<1>. QED
  BY <1>3, <1>4, <1>5

LEMMA RegisteredEvent ==
    ASSUME EventsInv, NEW h \in Hdr, NEW d, Registered(h, d)
    PROVE  /\ tq' \in Seq(Hdr) /\ hq' \in [Core -> Seq(Hdr)]
           /\ OrderedBy(tq', Unranked) /\ \A c \in Core : OrderedBy(hq'[c], Unranked)
           /\ Range(tq') = Range(tq) \cup {h} /\ \A c \in Core : Range(hq'[c]) = Range(hq[c]) \ {h}
<1>1. tq \in Seq(Hdr) /\ \A c \in Core : hq[c] \in Seq(Hdr)
  BY DEF EventsInv, TimeTypeOK
<1>2. \A c \in Core : hq'[c] = Dequeued(hq[c], h)
  BY DEF Registered
<1>3. \A c \in Core : /\ hq'[c] \in Seq(Hdr) /\ Range(hq'[c]) = Range(hq[c]) \ {h}
                      /\ OrderedBy(hq'[c], Unranked)
  BY <1>1, <1>2, DequeuedKeeps DEF EventsInv
<1>4. PICK q : q = Dequeued(tq, h)
  OBVIOUS
<1>5. q \in Seq(Hdr) /\ Range(q) = Range(tq) \ {h} /\ OrderedBy(q, Unranked) /\ h \in Hdr \ Range(q)
  BY <1>1, <1>4, DequeuedKeeps DEF EventsInv
<1>6. PICK t : t = Later(cur, d)
  OBVIOUS
<1>7. tq' = Enqueued(q, h, t)
  BY <1>4, <1>6 DEF Registered
<1>8. /\ Enqueued(q, h, t) \in Seq(Hdr)
      /\ Range(Enqueued(q, h, t)) = Range(q) \cup {h}
      /\ OrderedBy(Enqueued(q, h, t), Unranked)
  BY <1>5, EnqueuedKeeps
<1>9. hq' \in [Core -> Seq(Hdr)]
  BY <1>3 DEF Registered
<1>. QED
  BY <1>3, <1>5, <1>7, <1>8, <1>9

LEMMA HandedEvent ==
    ASSUME EventsInv, NEW c \in Core, NEW d \in Core, NEW h \in Hdr \ Range(hq[d]), Hand(c, d, h)
    PROVE  /\ hq' \in [Core -> Seq(Hdr)] /\ \A e \in Core : OrderedBy(hq'[e], Unranked)
           /\ Range(hq'[d]) = Range(hq[d]) \cup {h}
           /\ \A e \in Core \ {d} : hq'[e] = hq[e]
           /\ active' \in [Core -> BOOLEAN] /\ request' \in [Core -> BOOLEAN]
           /\ at' \in [Core -> {"out", "tick", "drain", "body"}]
<1>1. hq \in [Core -> Seq(Hdr)] /\ hq[d] \in Seq(Hdr) /\ OrderedBy(hq[d], Unranked)
  BY DEF EventsInv, TimeTypeOK
<1>2. hq'[d] = Append(hq[d], h) /\ \A e \in Core \ {d} : hq'[e] = hq[e]
  BY <1>1 DEF Hand
<1>3. /\ Append(hq[d], h) \in Seq(Hdr)
      /\ Range(Append(hq[d], h)) = Range(hq[d]) \cup {h}
      /\ OrderedBy(Append(hq[d], h), Unranked)
  BY <1>1, AppendedKeeps
<1>4. hq' \in [Core -> Seq(Hdr)]
  BY <1>1, <1>3 DEF Hand
<1>5. \A e \in Core : OrderedBy(hq'[e], Unranked)
  BY <1>2, <1>3 DEF EventsInv
<1>6. /\ active' \in [Core -> BOOLEAN] /\ request' \in [Core -> BOOLEAN]
      /\ at' \in [Core -> {"out", "tick", "drain", "body"}]
  BY DEF Hand, EventsInv, TimeTypeOK
<1>. QED
  BY <1>2, <1>3, <1>4, <1>5, <1>6

LEMMA LaterIsWord == ASSUME NEW t \in Int, NEW d \in Int PROVE Later(t, d) \in 0 .. Modulus - 1
BY Words DEF Later

LEMMA NextIsTime ==
    ASSUME TimeTypeOK, NEW h \in Hdr, cb[h].tim \in Reltim \ {0}, NEW n \in {0, 1}
    PROVE  NextTime(h) \in 0 .. Modulus - 1 /\ NextDue(h, n) \in Int
<1>1. cb[h].tim \in Nat \ {0} /\ cb[h].time \in Int /\ cur \in Int /\ due[h] \in Int
  <2>1. cb[h].time \in 0 .. Modulus - 1
    BY Blocks
  <2>2. \A r \in Reltim : r \in Nat
    BY Words, TimeAssumption
  <2>. QED
    BY <2>1, <2>2, Words DEF TimeTypeOK
<1>2. PICK m : m = ((cur - cb[h].time) % Modulus) \div cb[h].tim
  OBVIOUS
<1>3. m \in Int /\ (m + 1) * cb[h].tim \in Int
  <2>1. (cur - cb[h].time) % Modulus \in Int
    BY <1>1, Words
  <2>2. m \in Int
    BY <1>1, <1>2, <2>1
  <2>. QED
    BY <1>1, <2>2
<1>4. NextTime(h) \in 0 .. Modulus - 1
  <2>1. /\ Later(cb[h].time, (m + 1) * cb[h].tim) \in 0 .. Modulus - 1
        /\ Later(cb[h].time, cb[h].tim) \in 0 .. Modulus - 1
    <3>1. cb[h].tim \in Int
      BY <1>1
    <3>. QED
      BY <1>1, <1>3, <3>1, LaterIsWord, Zenon
  <2>. QED
    BY <1>2, <2>1 DEF NextTime
<1>5. PICK d : d = due[h] + n * cb[h].tim
  OBVIOUS
<1>6. d \in Int /\ ((-d) \div cb[h].tim) \in Int
  <2>1. d \in Int
    BY <1>1, <1>5
  <2>2. PICK m2, k : m2 = -d /\ k = cb[h].tim
    OBVIOUS
  <2>3. m2 \in Int /\ k \in Nat \ {0}
    BY <1>1, <2>1, <2>2
  <2>4. (m2 \div k) \in Int
    BY <2>3
  <2>. QED
    BY <2>1, <2>2, <2>4
<1>7. NextDue(h, n) = IF d > 0 THEN d ELSE d + ((-d) \div cb[h].tim + 1) * cb[h].tim
  BY <1>5 DEF NextDue
<1>. QED
  BY <1>1, <1>4, <1>6, <1>7

\* The tick, and the handlers.
LEMMA TickKeepsEvents ==
    ASSUME EventsInv, Tick \/ Expire \/ EndTick PROVE EventsInv'
<1>0. TimeTypeOK /\ 0 \in Core /\ 1 \in Core /\ PERIOD \in Int
  BY Words DEF EventsInv, Core
<1>u. Unranked' = Unranked
  BY DEF Unranked
<1>1. CASE Tick
  <2>1. TimeTypeOK'
    <3>1. cur' \in 0 .. Modulus - 1
      <4>1. cur \in Int /\ cur' = Later(cur, PERIOD)
        BY <1>0, <1>1, Words DEF Tick, TimeTypeOK
      <4>. QED
        BY <1>0, <4>1, LaterIsWord
    <3>2. due' \in [Hdr -> Int]
      BY <1>0, <1>1 DEF Tick, TimeTypeOK
    <3>. QED
      BY <1>0, <1>1, <3>1, <3>2 DEF Tick, TimeTypeOK
  <2>. QED
    BY <1>1, <2>1, <1>u DEF EventsInv, Tick
<1>2. CASE Expire
  <2>1. PICK h, d : h = Head(tq) /\ d = (IF cb[h].prc = 1 THEN 1 ELSE 0)
    OBVIOUS
  <2>2. /\ h \in Hdr /\ h \in Range(tq) /\ d \in Core
        /\ tq' \in Seq(Hdr) /\ Range(tq') = Range(tq) \ {h} /\ OrderedBy(tq', Unranked)
    <3>1. tq \in Seq(Hdr) /\ tq # << >> /\ OrderedBy(tq, Unranked) /\ tq' = Tail(tq)
      BY <1>0, <1>2 DEF Expire, EventsInv, TimeTypeOK
    <3>2. /\ Head(tq) \in Hdr /\ Head(tq) \in Range(tq)
          /\ Tail(tq) \in Seq(Hdr)
          /\ Range(Tail(tq)) = Range(tq) \ {Head(tq)}
          /\ OrderedBy(Tail(tq), Unranked)
      BY <3>1, TailKeeps
    <3>. QED
      BY <1>0, <2>1, <3>1, <3>2
  <2>3. Hand(0, d, h) /\ UNCHANGED <<cur, ticking, cb, due>>
    BY <1>2, <2>1 DEF Expire
  <2>4. \A c \in Core : h \notin Range(hq[c])
    BY <2>2 DEF EventsInv
  <2>5. /\ hq' \in [Core -> Seq(Hdr)] /\ \A e \in Core : OrderedBy(hq'[e], Unranked)
        /\ Range(hq'[d]) = Range(hq[d]) \cup {h}
        /\ \A e \in Core \ {d} : hq'[e] = hq[e]
        /\ active' \in [Core -> BOOLEAN] /\ request' \in [Core -> BOOLEAN]
        /\ at' \in [Core -> {"out", "tick", "drain", "body"}]
    BY <1>0, <2>2, <2>3, <2>4, HandedEvent
  <2>6. TimeTypeOK'
    BY <1>0, <2>2, <2>3, <2>5 DEF TimeTypeOK
  <2>7. /\ cb[h].sta
        /\ cb[h].sta \/ cb[h].phs => cb[h].made
        /\ h \in Cyc /\ cb[h].made => cb[h].tim \in Reltim \ {0}
    BY <2>2 DEF EventsInv
  <2>8. d = 0 \/ d = 1
    BY <2>2 DEF Core
  <2>. QED
    <3>1. Moved(h)
      <4>1. \A g \in Hdr \ {h}, c \in Core : g \in Range(hq'[c]) <=> g \in Range(hq[c])
        BY <2>5
      <4>2. \/ h \in Range(hq'[0]) /\ h \notin Range(hq'[1])
            \/ h \in Range(hq'[1]) /\ h \notin Range(hq'[0])
        <5>1. \A e \in Core : h \in Range(hq'[e]) <=> e = d
          BY <2>2, <2>4, <2>5
        <5>. QED
          BY <1>0, <2>8, <5>1
      <4>3. cb' = cb
        BY <2>3
      <4>. QED
        BY <1>0, <2>2, <2>5, <2>7, <4>1, <4>2, <4>3 DEF Moved
    <3>. QED
      BY <2>2, <2>6, <3>1, EventsKept
<1>3. CASE EndTick
  <2>1. TimeTypeOK'
    BY <1>0, <1>3 DEF EndTick, TimeTypeOK
  <2>. QED
    BY <1>3, <2>1, <1>u DEF EventsInv, EndTick
<1>. QED
  BY <1>1, <1>2, <1>3

LEMMA HandlersKeepEvents ==
    ASSUME EventsInv, NEW c \in Core, TakeRequest(c) \/ Start(c) \/ Resume(c) \/ EndDrain(c)
    PROVE  EventsInv'
<1>0. TimeTypeOK /\ 0 \in Core /\ 1 \in Core /\ Cyc \subseteq Hdr
  BY DEF EventsInv, Core, Hdr
<1>u. Unranked' = Unranked
  BY DEF Unranked
<1>1. CASE TakeRequest(c) \/ Resume(c) \/ EndDrain(c)
  <2>1. TimeTypeOK' /\ UNCHANGED <<tq, hq, cb>>
    BY <1>0, <1>1 DEF TakeRequest, Resume, EndDrain, TimeTypeOK
  <2>. QED
    BY <2>1, <1>u DEF EventsInv
<1>2. CASE Start(c)
  <2>1. PICK h : h = Head(hq[c])
    OBVIOUS
  <2>2. /\ h \in Hdr /\ h \in Range(hq[c])
        /\ Tail(hq[c]) \in Seq(Hdr)
        /\ Range(Tail(hq[c])) = Range(hq[c]) \ {h}
        /\ OrderedBy(Tail(hq[c]), Unranked)
    <3>1. hq[c] \in Seq(Hdr) /\ hq[c] # << >> /\ OrderedBy(hq[c], Unranked)
      BY <1>0, <1>2 DEF Start, EventsInv, TimeTypeOK
    <3>. QED
      BY <2>1, <3>1, TailKeeps
  <2>3. /\ hq' \in [Core -> Seq(Hdr)] /\ hq'[c] = Tail(hq[c])
        /\ \A e \in Core \ {c} : hq'[e] = hq[e]
    BY <1>0, <1>2, <2>2 DEF Start, TimeTypeOK
  <2>4. /\ \A e \in Core : OrderedBy(hq'[e], Unranked) /\ h \notin Range(hq'[e])
        /\ \A g \in Hdr \ {h}, e \in Core : g \in Range(hq'[e]) <=> g \in Range(hq[e])
    <3>1. \A e \in Core \ {c} : h \notin Range(hq[e])
      BY <1>0, <2>2 DEF EventsInv, Core
    <3>. QED
      BY <2>2, <2>3, <3>1 DEF EventsInv
  <2>5. /\ h \notin Range(tq) /\ cb[h].sta /\ cb[h].made
        /\ h \in Cyc => cb[h].tim \in Reltim \ {0}
    <3>1. c = 0 \/ c = 1
      BY DEF Core
    <3>. QED
      BY <2>2, <3>1 DEF EventsInv
  <2>a. /\ active' \in [Core -> BOOLEAN] /\ request' \in [Core -> BOOLEAN]
        /\ at' \in [Core -> {"out", "tick", "drain", "body"}]
        /\ ticking' \in BOOLEAN /\ cur' \in 0 .. Modulus - 1
    BY <1>0, <1>2 DEF Start, TimeTypeOK
  <2>6. CASE h \in Cyc
    <3>1. PICK t : t = NextTime(h)
      OBVIOUS
    <3>2. /\ cb' = [cb EXCEPT ![h].time = t] /\ tq' = Enqueued(tq, h, t)
          /\ due' = [due EXCEPT ![h] = NextDue(h, 1)]
          /\ at' = [at EXCEPT ![c] = "body"] /\ UNCHANGED <<cur, active, request, ticking>>
      BY <1>2, <2>1, <2>6, <3>1 DEF Start
    <3>3. t \in 0 .. Modulus - 1 /\ NextDue(h, 1) \in Int
      BY <1>0, <2>2, <2>5, <2>6, <3>1, NextIsTime
    <3>4. /\ tq' \in Seq(Hdr) /\ Range(tq') = Range(tq) \cup {h} /\ OrderedBy(tq', Unranked)
      <4>1. tq \in Seq(Hdr) /\ h \in Hdr \ Range(tq) /\ OrderedBy(tq, Unranked)
        BY <1>0, <2>2, <2>5 DEF EventsInv, TimeTypeOK
      <4>2. /\ Enqueued(tq, h, t) \in Seq(Hdr)
            /\ Range(Enqueued(tq, h, t)) = Range(tq) \cup {h}
            /\ OrderedBy(Enqueued(tq, h, t), Unranked)
        BY <4>1, EnqueuedKeeps
      <4>. QED
        BY <3>2, <4>2
    <3>5. PICK b : b = [cb[h] EXCEPT !.time = t]
      OBVIOUS
    <3>6. /\ b \in Block /\ b.tim = cb[h].tim
          /\ b.made = cb[h].made /\ b.sta = cb[h].sta /\ b.phs = cb[h].phs
      <4>1. cb[h] \in Block
        BY <1>0, <2>2, Blocks
      <4>2. t \in 0 .. Modulus - 1
        BY <3>3
      <4>3. /\ b \in Block /\ b.time = t /\ b.tim = cb[h].tim /\ b.prc = cb[h].prc
            /\ b.made = cb[h].made /\ b.sta = cb[h].sta /\ b.phs = cb[h].phs
        BY <3>5, <4>1, <4>2, TimedBlock
      <4>. QED
        BY <4>3, Zenon
    <3>7. cb' = [cb EXCEPT ![h] = b]
      BY <3>2, <3>5
    <3>8. cb' \in [Hdr -> Block] /\ cb'[h] = b /\ \A g \in Hdr \ {h} : cb'[g] = cb[g]
      BY <1>0, <2>2, <3>6, <3>7, BlockSet
    <3>9. TimeTypeOK'
      <4>1. due' \in [Hdr -> Int]
        BY <1>0, <2>2, <3>2, <3>3 DEF TimeTypeOK
      <4>. QED
        BY <2>3, <2>a, <3>4, <3>8, <4>1, TypesKept
    <3>10. cb'[h].sta /\ cb'[h].made /\ cb'[h].tim = cb[h].tim
      BY <2>5, <3>6, <3>8, Zenon
    <3>11. Moved(h)
      BY <1>0, <2>2, <2>4, <2>5, <2>6, <3>4, <3>8, <3>10 DEF Moved
    <3>. QED
      BY <2>2, <3>9, <3>11, EventsKept
  <2>7. CASE h \notin Cyc
    <3>1. /\ cb' = [cb EXCEPT ![h].sta = FALSE] /\ due' = [due EXCEPT ![h] = 0]
          /\ at' = [at EXCEPT ![c] = "body"] /\ UNCHANGED <<tq, cur, active, request, ticking>>
      BY <1>2, <2>1, <2>7 DEF Start
    <3>2. PICK b : b = [cb[h] EXCEPT !.sta = FALSE]
      OBVIOUS
    <3>3. b \in Block /\ ~b.sta /\ b.made = cb[h].made
      BY <1>0, <2>2, <3>2, Blocks, StoppedBlock, Zenon
    <3>4. cb' = [cb EXCEPT ![h] = b]
      BY <3>1, <3>2
    <3>5. cb' \in [Hdr -> Block] /\ cb'[h] = b /\ \A g \in Hdr \ {h} : cb'[g] = cb[g]
      BY <1>0, <2>2, <3>3, <3>4, BlockSet
    <3>6. TimeTypeOK'
      <4>1. due' \in [Hdr -> Int]
        BY <1>0, <2>2, <3>1 DEF TimeTypeOK
      <4>2. tq' \in Seq(Hdr)
        BY <1>0, <3>1 DEF TimeTypeOK
      <4>. QED
        BY <2>3, <2>a, <3>5, <4>1, <4>2, TypesKept
    <3>7. ~cb'[h].sta /\ cb'[h].made
      BY <2>5, <3>3, <3>5, Zenon
    <3>8. OrderedBy(tq', Unranked) /\ Range(tq') = Range(tq)
      BY <3>1 DEF EventsInv
    <3>9. Moved(h)
      BY <1>0, <2>2, <2>4, <2>5, <2>7, <3>5, <3>7, <3>8 DEF Moved
    <3>. QED
      BY <2>2, <3>6, <3>9, EventsKept
  <2>. QED
    BY <2>6, <2>7
<1>. QED
  BY <1>1, <1>2

LEMMA StartedBlock ==
    ASSUME NEW b \in Block, NEW t \in 0 .. Modulus - 1,
           NEW n, n = [made |-> b.made, sta |-> TRUE, time |-> t, tim |-> b.tim, phs |-> b.phs, prc |-> b.prc]
    PROVE  /\ n \in Block /\ n.time = t /\ n.tim = b.tim /\ n.prc = b.prc
           /\ n.made = b.made /\ n.sta /\ n.phs = b.phs
<1>2. n \in Block
  BY DEF Block
<1>3. n.time = t /\ n.tim = b.tim /\ n.prc = b.prc
  OBVIOUS
<1>4. n.made = b.made /\ n.sta /\ n.phs = b.phs
  BY Zenon
<1>. QED
  BY <1>2, <1>3, <1>4, Zenon

\* What a control block holds of a handler that is started, or keeps its phase.
GoodBlock(h, b) ==
    /\ b \in Block
    /\ b.sta \/ b.phs => b.made
    /\ h \in Cyc /\ b.made => b.tim \in Reltim \ {0}

\* What else a step may change.
RestKept ==
    /\ cur' \in 0 .. Modulus - 1 /\ ticking' \in BOOLEAN /\ due' \in [Hdr -> Int]
    /\ active' \in [Core -> BOOLEAN] /\ request' \in [Core -> BOOLEAN]
    /\ at' \in [Core -> {"out", "tick", "drain", "body"}]

LEMMA GoodBlocks ==
    ASSUME EventsInv, NEW h \in Hdr
    PROVE  /\ GoodBlock(h, cb[h])
           /\ ~cb[h].made => ~cb[h].sta
           /\ ~cb[h].sta => /\ h \notin Range(tq)
                           /\ \A c \in Core : h \notin Range(hq[c])
<1>1. cb[h] \in Block
  BY Blocks DEF EventsInv
<1>2. /\ cb[h].sta \/ cb[h].phs => cb[h].made
      /\ h \in Cyc /\ cb[h].made => cb[h].tim \in Reltim \ {0}
      /\ cb[h].sta <=> h \in Range(tq) \/ h \in Range(hq[0]) \/ h \in Range(hq[1])
  BY DEF EventsInv
<1>3. \A c \in Core : c = 0 \/ c = 1
  BY DEF Core
<1>. QED
  BY <1>1, <1>2, <1>3 DEF GoodBlock

\* The event of h leaves the queues.
LEMMA StopKeepsEvents ==
    ASSUME EventsInv, RestKept, NEW h \in Hdr, NEW b, GoodBlock(h, b), ~b.sta,
           cb' = [cb EXCEPT ![h] = b], Stopped(h)
    PROVE  EventsInv'
<1>1. /\ tq' \in Seq(Hdr) /\ hq' \in [Core -> Seq(Hdr)]
      /\ OrderedBy(tq', Unranked) /\ \A c \in Core : OrderedBy(hq'[c], Unranked)
      /\ Range(tq') = Range(tq) \ {h} /\ \A c \in Core : Range(hq'[c]) = Range(hq[c]) \ {h}
  BY StoppedEvent
<1>2. cb' \in [Hdr -> Block] /\ cb'[h] = b /\ \A g \in Hdr \ {h} : cb'[g] = cb[g]
  BY BlockSet DEF EventsInv, GoodBlock
<1>3. TimeTypeOK'
  BY <1>1, <1>2, TypesKept DEF RestKept
<1>4. 0 \in Core /\ 1 \in Core
  BY DEF Core
<1>5. Moved(h)
  BY <1>1, <1>2, <1>4 DEF Moved, GoodBlock
<1>. QED
  BY <1>3, <1>5, EventsKept

LEMMA RegisterKeepsEvents ==
    ASSUME EventsInv, RestKept, NEW h \in Hdr, NEW b, GoodBlock(h, b), b.sta,
           cb' = [cb EXCEPT ![h] = b], NEW d, Registered(h, d)
    PROVE  EventsInv'
<1>1. /\ tq' \in Seq(Hdr) /\ hq' \in [Core -> Seq(Hdr)]
      /\ OrderedBy(tq', Unranked) /\ \A c \in Core : OrderedBy(hq'[c], Unranked)
      /\ Range(tq') = Range(tq) \cup {h} /\ \A c \in Core : Range(hq'[c]) = Range(hq[c]) \ {h}
  BY RegisteredEvent
<1>2. cb' \in [Hdr -> Block] /\ cb'[h] = b /\ \A g \in Hdr \ {h} : cb'[g] = cb[g]
  BY BlockSet DEF EventsInv, GoodBlock
<1>3. TimeTypeOK'
  BY <1>1, <1>2, TypesKept DEF RestKept
<1>4. 0 \in Core /\ 1 \in Core
  BY DEF Core
<1>5. Moved(h)
  BY <1>1, <1>2, <1>4 DEF Moved, GoodBlock
<1>. QED
  BY <1>3, <1>5, EventsKept

\* A control block without an event changes, and has none.
LEMMA IdleKeepsEvents ==
    ASSUME EventsInv, RestKept, NEW h \in Hdr, NEW b, GoodBlock(h, b), ~b.sta, ~cb[h].sta,
           cb' = [cb EXCEPT ![h] = b], UNCHANGED <<tq, hq>>
    PROVE  EventsInv'
<1>1. /\ tq' \in Seq(Hdr) /\ hq' \in [Core -> Seq(Hdr)]
      /\ OrderedBy(tq', Unranked) /\ \A c \in Core : OrderedBy(hq'[c], Unranked)
  BY DEF EventsInv, TimeTypeOK
<1>2. cb' \in [Hdr -> Block] /\ cb'[h] = b /\ \A g \in Hdr \ {h} : cb'[g] = cb[g]
  BY BlockSet DEF EventsInv, GoodBlock
<1>3. TimeTypeOK'
  BY <1>1, <1>2, TypesKept DEF RestKept
<1>4. 0 \in Core /\ 1 \in Core
  BY DEF Core
<1>5. h \notin Range(tq) /\ \A c \in Core : h \notin Range(hq[c])
  BY GoodBlocks
<1>6. Moved(h)
  BY <1>1, <1>2, <1>4, <1>5 DEF Moved, GoodBlock
<1>. QED
  BY <1>3, <1>6, EventsKept

\* The event of h, which is in no timer queue, is handed to processor d.
LEMMA HandKeepsEvents ==
    ASSUME EventsInv, RestKept, NEW h \in Hdr, NEW b, GoodBlock(h, b), b.sta,
           cb' = [cb EXCEPT ![h] = b], NEW d \in Core,
           tq' \in Seq(Hdr), OrderedBy(tq', Unranked), Range(tq') = Range(tq) \ {h},
           hq' \in [Core -> Seq(Hdr)], \A e \in Core : OrderedBy(hq'[e], Unranked),
           \A e \in Core : Range(hq'[e]) = IF e = d THEN Range(hq[e]) \cup {h} ELSE Range(hq[e]) \ {h}
    PROVE  EventsInv'
<1>2. cb' \in [Hdr -> Block] /\ cb'[h] = b /\ \A g \in Hdr \ {h} : cb'[g] = cb[g]
  BY BlockSet DEF EventsInv, GoodBlock
<1>3. TimeTypeOK'
  BY <1>2, TypesKept DEF RestKept
<1>4. 0 \in Core /\ 1 \in Core /\ (d = 0 \/ d = 1)
  BY DEF Core
<1>5. \A e \in Core : h \in Range(hq'[e]) <=> e = d
  OBVIOUS
<1>6. /\ h \in Range(hq'[0]) => h \notin Range(hq'[1])
      /\ h \in Range(hq'[0]) \/ h \in Range(hq'[1])
  BY <1>4, <1>5
<1>7. Moved(h)
  BY ZenonT(30), <1>2, <1>4, <1>6 DEF Moved, GoodBlock
<1>. QED
  BY <1>3, <1>7, EventsKept

LEMMA IntervalIsTime == ASSUME NEW r \in Reltim PROVE r + PERIOD \in Nat /\ r \in Nat
<1>1. \A x \in Reltim : x \in Nat
  BY Words, TimeAssumption
<1>. QED
  BY <1>1, Words

\* The calls change the clock, and whose turn it is, never.
LEMMA CallsKeepRest ==
    ASSUME EventsInv, NEW c \in Core, Calls(c), NEW h \in Hdr, NEW d \in Int,
           due' = [due EXCEPT ![h] = d], UNCHANGED <<active, request, at>>
    PROVE  RestKept
<1>1. TimeTypeOK
  BY DEF EventsInv
<1>2. due' \in [Hdr -> Int]
  BY <1>1 DEF TimeTypeOK
<1>. QED
  BY <1>1, <1>2 DEF TimeTypeOK, RestKept, Calls

LEMMA StopsKeepEvents ==
    ASSUME EventsInv, NEW c \in Core, NEW h \in Hdr, Stop(c, h) \/ Delete(c, h)
    PROVE  EventsInv'
<1>0. TimeTypeOK /\ cb[h] \in Block /\ due[h] \in Int /\ 0 \in Int /\ GoodBlock(h, cb[h])
  BY Blocks, GoodBlocks DEF EventsInv, TimeTypeOK
<1>1. Calls(c) /\ Stopped(h) /\ cb[h].made
  BY DEF Stop, Delete
<1>2. UNCHANGED <<active, request, at>>
  BY <1>1 DEF Stopped
<1>3. CASE Stop(c, h)
  <2>0. PICK b : b = [cb[h] EXCEPT !.sta = FALSE]
    OBVIOUS
  <2>1. PICK d : d = (IF cb[h].phs THEN due[h] ELSE 0)
    OBVIOUS
  <2>2. /\ b \in Block /\ b.time = cb[h].time /\ b.tim = cb[h].tim /\ b.prc = cb[h].prc
        /\ b.made = cb[h].made /\ ~b.sta /\ b.phs = cb[h].phs
    <3>1. cb[h] \in Block
      BY <1>0
    <3>. QED
      BY <2>0, <3>1, StoppedBlock, Zenon
  <2>3. cb' = [cb EXCEPT ![h] = b] /\ due' = [due EXCEPT ![h] = d] /\ d \in Int
    BY <1>0, <1>3, <2>0, <2>1 DEF Stop
  <2>4. GoodBlock(h, b) /\ ~b.sta
    BY <1>0, <1>1, <2>2, Zenon DEF GoodBlock
  <2>5. RestKept
    BY <1>1, <1>2, <2>3, CallsKeepRest
  <2>. QED
    BY <1>1, <2>3, <2>4, <2>5, StopKeepsEvents
<1>4. CASE Delete(c, h)
  <2>1. cb' = [cb EXCEPT ![h] = NoBlock] /\ due' = [due EXCEPT ![h] = 0]
    BY <1>4 DEF Delete
  <2>2. GoodBlock(h, NoBlock) /\ ~NoBlock.sta
    <3>1. ~NoBlock.sta /\ ~NoBlock.phs /\ ~NoBlock.made
      BY Zenon DEF NoBlock
    <3>2. 0 \in 0 .. Modulus - 1
      BY Words
    <3>3. NoBlock \in Block
      BY <3>2 DEF NoBlock, Block
    <3>. QED
      BY <3>1, <3>3 DEF GoodBlock
  <2>3. RestKept
    BY <1>0, <1>1, <1>2, <2>1, CallsKeepRest
  <2>. QED
    BY <1>1, <2>1, <2>2, <2>3, StopKeepsEvents
<1>. QED
  BY <1>3, <1>4

LEMMA CreatesAlarmKeepsEvents ==
    ASSUME EventsInv, NEW c \in Core, NEW h \in Alm, NEW prc \in Assprc, tk_cre_alm(c, h, prc)
    PROVE  EventsInv'
<1>0. TimeTypeOK /\ h \in Hdr /\ h \notin Cyc /\ due[h] \in Int
  BY TimeAssumption DEF EventsInv, Hdr, TimeTypeOK
<1>1. PICK b : b = [NoBlock EXCEPT !.made = TRUE, !.prc = prc]
  OBVIOUS
<1>2. b = [made |-> TRUE, sta |-> FALSE, time |-> 0, tim |-> 0, phs |-> FALSE, prc |-> prc]
  BY <1>1 DEF NoBlock
<1>3. b \in Block
  BY <1>2, TimeAssumption, Words DEF Block
<1>4. ~b.sta /\ b.made
  BY <1>2, Zenon
<1>5. Calls(c) /\ ~cb[h].made /\ cb' = [cb EXCEPT ![h] = b] /\ UNCHANGED <<tq, hq, active, request, at, due>>
  BY <1>1 DEF tk_cre_alm
<1>6. RestKept
  <2>1. TimeTypeOK
    BY DEF EventsInv
  <2>. QED
    BY <1>5, <2>1 DEF TimeTypeOK, RestKept, Calls
<1>7. GoodBlock(h, b)
  BY <1>0, <1>3, <1>4 DEF GoodBlock
<1>8. ~cb[h].sta
  BY <1>0, <1>5, GoodBlocks
<1>. QED
  BY <1>0, <1>4, <1>5, <1>6, <1>7, <1>8, IdleKeepsEvents

LEMMA CreatesCycleKeepsEvents ==
    ASSUME EventsInv, NEW c \in Core, NEW h \in Cyc, NEW phs \in BOOLEAN, NEW prc \in Assprc,
           NEW first \in Reltim, NEW tim \in Reltim \ {0}, tk_cre_cyc(c, h, phs, prc, first, tim)
    PROVE  EventsInv'
<1>0. /\ TimeTypeOK /\ h \in Hdr /\ prc \in Core \cup {2} /\ cur \in Int
      /\ first + PERIOD \in Int /\ PERIOD + tim \in Int /\ PERIOD \in Int /\ 0 \in Int
  <2>1. tim + PERIOD \in Nat /\ first + PERIOD \in Nat /\ tim \in Nat
    BY IntervalIsTime
  <2>2. TimeTypeOK /\ h \in Hdr /\ prc \in Core \cup {2}
    BY TimeAssumption DEF EventsInv, Hdr
  <2>3. cur \in Int
    BY <2>2, Words DEF TimeTypeOK
  <2>. QED
    BY <2>1, <2>2, <2>3, Words
<1>1. Calls(c) /\ ~cb[h].made /\ ~cb[h].sta
  BY <1>0, GoodBlocks DEF tk_cre_cyc
<1>2. PICK b : b = [made |-> TRUE, sta |-> TRUE, time |-> Later(cur, first + PERIOD),
                    tim |-> tim, phs |-> phs, prc |-> prc]
  OBVIOUS
<1>3. GoodBlock(h, b) /\ b.sta
  <2>1. Later(cur, first + PERIOD) \in 0 .. Modulus - 1
    BY <1>0, LaterIsWord
  <2>2. b \in Block /\ b.tim = tim
    BY <1>0, <1>2, <2>1 DEF Block
  <2>3. b.made /\ b.sta
    BY <1>2, Zenon
  <2>. QED
    BY <2>2, <2>3 DEF GoodBlock
<1>4. CASE /\ Registered(h, first + PERIOD) /\ cb' = [cb EXCEPT ![h] = b]
           /\ due' = [due EXCEPT ![h] = first + PERIOD]
  <2>1. RestKept
    <3>1. UNCHANGED <<active, request, at>>
      BY <1>4 DEF Registered
    <3>. QED
      BY <1>0, <1>1, <1>4, <3>1, CallsKeepRest
  <2>. QED
    BY <1>0, <1>3, <1>4, <2>1, RegisterKeepsEvents
<1>5. CASE /\ Remote(c, prc) /\ Hand(c, prc, h) /\ cb' = [cb EXCEPT ![h] = b]
           /\ due' = [due EXCEPT ![h] = PERIOD] /\ UNCHANGED tq
  <2>1. prc \in Core /\ h \notin Range(tq) /\ \A e \in Core : h \notin Range(hq[e])
    BY <1>0, <1>1, <1>5, GoodBlocks DEF Remote
  <2>2. h \in Hdr \ Range(hq[prc])
    BY <1>0, <2>1
  <2>3. /\ hq' \in [Core -> Seq(Hdr)] /\ \A e \in Core : OrderedBy(hq'[e], Unranked)
        /\ Range(hq'[prc]) = Range(hq[prc]) \cup {h}
        /\ \A e \in Core \ {prc} : hq'[e] = hq[e]
        /\ active' \in [Core -> BOOLEAN] /\ request' \in [Core -> BOOLEAN]
        /\ at' \in [Core -> {"out", "tick", "drain", "body"}]
    BY <1>5, <2>1, <2>2, HandedEvent
  <2>4. RestKept
    <3>1. due' \in [Hdr -> Int]
      BY <1>0, <1>5 DEF TimeTypeOK
    <3>2. cur' \in 0 .. Modulus - 1 /\ ticking' \in BOOLEAN
      BY <1>0, <1>1 DEF TimeTypeOK, Calls
    <3>. QED
      BY <2>3, <3>1, <3>2 DEF RestKept
  <2>5. tq' \in Seq(Hdr) /\ OrderedBy(tq', Unranked) /\ Range(tq') = Range(tq) \ {h}
    BY <1>0, <1>5, <2>1 DEF EventsInv, TimeTypeOK
  <2>6. \A e \in Core : Range(hq'[e]) = IF e = prc THEN Range(hq[e]) \cup {h} ELSE Range(hq[e]) \ {h}
    BY <2>1, <2>3
  <2>. QED
    BY <1>0, <1>3, <1>5, <2>1, <2>3, <2>4, <2>5, <2>6, HandKeepsEvents
<1>6. CASE /\ Registered(h, PERIOD + tim)
           /\ cb' = [cb EXCEPT ![h] = [b EXCEPT !.time = Later(cur, PERIOD + tim)]]
           /\ due' = [due EXCEPT ![h] = PERIOD + tim]
  <2>1. RestKept
    <3>1. UNCHANGED <<active, request, at>>
      BY <1>6 DEF Registered
    <3>. QED
      BY <1>0, <1>1, <1>6, <3>1, CallsKeepRest
  <2>2. PICK b2 : b2 = [b EXCEPT !.time = Later(cur, PERIOD + tim)]
    OBVIOUS
  <2>3. /\ b2 \in Block /\ b2.tim = b.tim
        /\ b2.made = b.made /\ b2.sta = b.sta /\ b2.phs = b.phs
    <3>1. PICK t : t = Later(cur, PERIOD + tim)
      OBVIOUS
    <3>2. t \in 0 .. Modulus - 1
      BY <1>0, <3>1, LaterIsWord
    <3>4. b \in Block
      BY <1>3 DEF GoodBlock
    <3>5. b2 = [b EXCEPT !.time = t]
      BY <2>2, <3>1
    <3>3. /\ b2 \in Block /\ b2.time = t /\ b2.tim = b.tim /\ b2.prc = b.prc
          /\ b2.made = b.made /\ b2.sta = b.sta /\ b2.phs = b.phs
      BY <3>2, <3>4, <3>5, TimedBlock
    <3>. QED
      BY <3>3, Zenon
  <2>4. GoodBlock(h, b2) /\ b2.sta
    BY <1>3, <2>3, Zenon DEF GoodBlock
  <2>5. cb' = [cb EXCEPT ![h] = b2]
    BY <1>6, <2>2
  <2>. QED
    BY <1>0, <1>6, <2>1, <2>4, <2>5, RegisterKeepsEvents
<1>7. CASE /\ cb' = [cb EXCEPT ![h] = [b EXCEPT !.sta = FALSE]]
           /\ due' = [due EXCEPT ![h] = IF phs THEN first + PERIOD ELSE 0]
           /\ UNCHANGED <<tq, hq, active, request, at>>
  <2>1. RestKept
    <3>1. PICK d : d = IF phs THEN first + PERIOD ELSE 0
      OBVIOUS
    <3>2. d \in Int /\ due' = [due EXCEPT ![h] = d]
      BY <1>0, <1>7, <3>1
    <3>3. UNCHANGED <<active, request, at>>
      BY <1>7
    <3>. QED
      BY <1>0, <1>1, <3>2, <3>3, CallsKeepRest
  <2>2. PICK b2 : b2 = [b EXCEPT !.sta = FALSE]
    OBVIOUS
  <2>3. b2 \in Block /\ b2.tim = b.tim /\ b2.made = b.made /\ ~b2.sta /\ b2.phs = b.phs
    <3>1. b \in Block
      BY <1>3 DEF GoodBlock
    <3>. QED
      BY <2>2, <3>1, StoppedBlock, Zenon
  <2>4. GoodBlock(h, b2) /\ ~b2.sta
    BY <1>3, <2>3, Zenon DEF GoodBlock
  <2>5. cb' = [cb EXCEPT ![h] = b2] /\ UNCHANGED <<tq, hq>>
    BY <1>7, <2>2
  <2>. QED
    BY <1>0, <1>1, <2>1, <2>4, <2>5, IdleKeepsEvents
<1>. QED
  BY <1>2, <1>4, <1>5, <1>6, <1>7 DEF tk_cre_cyc

LEMMA StartsCycleKeepsEvents ==
    ASSUME EventsInv, NEW c \in Core, NEW h \in Cyc, tk_sta_cyc(c, h)
    PROVE  EventsInv'
<1>0. /\ TimeTypeOK /\ h \in Hdr /\ cur \in Int /\ due[h] \in Int
      /\ GoodBlock(h, cb[h]) /\ cb[h] \in Block /\ cb[h].time \in 0 .. Modulus - 1
  <2>1. TimeTypeOK /\ h \in Hdr
    BY DEF EventsInv, Hdr
  <2>. QED
    BY <2>1, Words, Blocks, GoodBlocks DEF TimeTypeOK
<1>1. Calls(c) /\ cb[h].made /\ cb[h].tim \in Reltim \ {0}
  BY <1>0 DEF tk_sta_cyc, GoodBlock
<1>2. NextTime(h) \in 0 .. Modulus - 1 /\ NextDue(h, 0) \in Int
  BY <1>0, <1>1, NextIsTime
<1>3. CASE UNCHANGED <<tq, hq, active, request, at, cb, due>>
  <2>1. TimeTypeOK'
    BY <1>0, <1>1, <1>3 DEF Calls, TimeTypeOK
  <2>2. Unranked' = Unranked
    BY DEF Unranked
  <2>. QED
    BY <1>3, <2>1, <2>2 DEF EventsInv
<1>4. CASE /\ cb[h].phs /\ ~cb[h].sta
           /\ tq' = Enqueued(tq, h, IF Reached(cb[h].time) THEN NextTime(h) ELSE cb[h].time)
           /\ cb' = [cb EXCEPT ![h].sta = TRUE,
                              ![h].time = IF Reached(cb[h].time) THEN NextTime(h) ELSE cb[h].time]
           /\ due' = [due EXCEPT ![h] = NextDue(h, 0)]
           /\ UNCHANGED <<hq, active, request, at>>
  <2>1. PICK t : t = IF Reached(cb[h].time) THEN NextTime(h) ELSE cb[h].time
    OBVIOUS
  <2>2. t \in 0 .. Modulus - 1
    BY <1>0, <1>2, <2>1
  <2>3. PICK b : b = [cb[h] EXCEPT !.sta = TRUE, !.time = t]
    OBVIOUS
  <2>4. /\ b \in Block /\ b.time = t /\ b.tim = cb[h].tim /\ b.prc = cb[h].prc
        /\ b.made = cb[h].made /\ b.sta /\ b.phs = cb[h].phs
    <3>1. PICK o : o = cb[h]
      OBVIOUS
    <3>2. o \in Block
      BY <1>0, <3>1
    <3>3. b = [made |-> o.made, sta |-> TRUE, time |-> t, tim |-> o.tim, phs |-> o.phs, prc |-> o.prc]
      BY <2>3, <3>1, <3>2 DEF Block
    <3>4. t \in 0 .. Modulus - 1
      BY <2>2
    <3>5. /\ b \in Block /\ b.time = t /\ b.tim = o.tim /\ b.prc = o.prc
          /\ b.made = o.made /\ b.sta /\ b.phs = o.phs
      BY <3>2, <3>3, <3>4, StartedBlock, Zenon
    <3>. QED
      BY <3>1, <3>5, Zenon
  <2>5. cb' = [cb EXCEPT ![h] = b] /\ tq' = Enqueued(tq, h, t)
    BY <1>4, <2>1, <2>3
  <2>6. cb' \in [Hdr -> Block] /\ cb'[h] = b /\ \A g \in Hdr \ {h} : cb'[g] = cb[g]
    BY <1>0, <2>4, <2>5, BlockSet
  <2>7. /\ tq \in Seq(Hdr) /\ h \in Hdr \ Range(tq) /\ OrderedBy(tq, Unranked)
        /\ \A e \in Core : h \notin Range(hq[e])
    BY <1>0, <1>4, GoodBlocks DEF EventsInv, TimeTypeOK
  <2>8. /\ Enqueued(tq, h, t) \in Seq(Hdr)
        /\ Range(Enqueued(tq, h, t)) = Range(tq) \cup {h}
        /\ OrderedBy(Enqueued(tq, h, t), Unranked)
    BY <2>7, EnqueuedKeeps
  <2>9. RestKept
    <3>1. UNCHANGED <<active, request, at>>
      BY <1>4
    <3>. QED
      BY <1>0, <1>1, <1>2, <1>4, <3>1, CallsKeepRest
  <2>10. TimeTypeOK'
    <3>1. hq' \in [Core -> Seq(Hdr)]
      BY <1>0, <1>4 DEF TimeTypeOK
    <3>. QED
      BY <2>5, <2>6, <2>8, <2>9, <3>1, TypesKept DEF RestKept
  <2>11. Moved(h)
    <3>1. \A e \in Core : OrderedBy(hq'[e], Unranked)
      BY <1>4 DEF EventsInv
    <3>2. 0 \in Core /\ 1 \in Core
      BY DEF Core
    <3>3. cb'[h].sta /\ cb'[h].made /\ cb'[h].tim = cb[h].tim
      BY <1>1, <2>4, <2>6, Zenon
    <3>. QED
      BY <1>1, <1>4, <2>5, <2>6, <2>7, <2>8, <3>1, <3>2, <3>3 DEF Moved
  <2>. QED
    BY <1>0, <2>10, <2>11, EventsKept
<1>5. CASE /\ Registered(h, cb[h].tim + PERIOD)
           /\ cb' = [cb EXCEPT ![h].sta = TRUE, ![h].time = Later(cur, cb[h].tim + PERIOD)]
           /\ due' = [due EXCEPT ![h] = cb[h].tim + PERIOD]
  <2>1. PICK d, t : d = cb[h].tim + PERIOD /\ t = Later(cur, d)
    OBVIOUS
  <2>2. d \in Int
    <3>1. cb[h].tim + PERIOD \in Nat
      BY <1>1, IntervalIsTime
    <3>. QED
      BY <2>1, <3>1
  <2>3. t \in 0 .. Modulus - 1
    BY <1>0, <2>1, <2>2, LaterIsWord
  <2>4. PICK b : b = [cb[h] EXCEPT !.sta = TRUE, !.time = t]
    OBVIOUS
  <2>5. /\ b \in Block /\ b.time = t /\ b.tim = cb[h].tim /\ b.prc = cb[h].prc
        /\ b.made = cb[h].made /\ b.sta /\ b.phs = cb[h].phs
    <3>1. PICK o : o = cb[h]
      OBVIOUS
    <3>2. o \in Block
      BY <1>0, <3>1
    <3>3. b = [made |-> o.made, sta |-> TRUE, time |-> t, tim |-> o.tim, phs |-> o.phs, prc |-> o.prc]
      BY <2>4, <3>1, <3>2 DEF Block
    <3>4. t \in 0 .. Modulus - 1
      BY <2>3
    <3>5. /\ b \in Block /\ b.time = t /\ b.tim = o.tim /\ b.prc = o.prc
          /\ b.made = o.made /\ b.sta /\ b.phs = o.phs
      BY <3>2, <3>3, <3>4, StartedBlock, Zenon
    <3>. QED
      BY <3>1, <3>5, Zenon
  <2>6. cb' = [cb EXCEPT ![h] = b] /\ Registered(h, d) /\ due' = [due EXCEPT ![h] = d]
    BY <1>5, <2>1, <2>4
  <2>7. RestKept
    <3>1. UNCHANGED <<active, request, at>>
      BY <2>6 DEF Registered
    <3>. QED
      BY <1>0, <1>1, <2>2, <2>6, <3>1, CallsKeepRest
  <2>8. GoodBlock(h, b) /\ b.sta
    BY <1>0, <1>1, <2>5, Zenon DEF GoodBlock
  <2>. QED
    BY <1>0, <2>6, <2>7, <2>8, RegisterKeepsEvents
<1>. QED
  BY <1>3, <1>4, <1>5 DEF tk_sta_cyc

LEMMA StartsAlarmKeepsEvents ==
    ASSUME EventsInv, NEW c \in Core, NEW h \in Alm, NEW tim \in Reltim, tk_sta_alm(c, h, tim)
    PROVE  EventsInv'
<1>0. /\ TimeTypeOK /\ h \in Hdr /\ h \notin Cyc /\ cur \in Int /\ tim + PERIOD \in Int /\ 0 \in Int
      /\ cb[h] \in Block /\ GoodBlock(h, cb[h])
  <2>1. TimeTypeOK /\ h \in Hdr /\ h \notin Cyc
    BY TimeAssumption DEF EventsInv, Hdr
  <2>2. tim + PERIOD \in Int
    BY IntervalIsTime
  <2>. QED
    BY <2>1, <2>2, Words, Blocks, GoodBlocks DEF TimeTypeOK
<1>1. Calls(c) /\ cb[h].made
  BY DEF tk_sta_alm
<1>2. CASE /\ Registered(h, tim + PERIOD)
           /\ cb' = [cb EXCEPT ![h].sta = TRUE, ![h].time = Later(cur, tim + PERIOD)]
           /\ due' = [due EXCEPT ![h] = tim + PERIOD]
  <2>1. PICK t : t = Later(cur, tim + PERIOD)
    OBVIOUS
  <2>2. t \in 0 .. Modulus - 1
    BY <1>0, <2>1, LaterIsWord
  <2>3. PICK o : o = cb[h]
    OBVIOUS
  <2>4. PICK b : b = [o EXCEPT !.sta = TRUE, !.time = t]
    OBVIOUS
  <2>5. o \in Block
    BY <1>0, <2>3
  <2>6. b = [made |-> o.made, sta |-> TRUE, time |-> t, tim |-> o.tim, phs |-> o.phs, prc |-> o.prc]
    BY <2>4, <2>5 DEF Block
  <2>7. /\ b \in Block /\ b.time = t /\ b.tim = o.tim /\ b.prc = o.prc
        /\ b.made = o.made /\ b.sta /\ b.phs = o.phs
    BY <2>2, <2>5, <2>6, StartedBlock, Zenon
  <2>8. cb' = [cb EXCEPT ![h] = b]
    BY <1>2, <2>1, <2>3, <2>4
  <2>9. RestKept
    <3>1. UNCHANGED <<active, request, at>>
      BY <1>2 DEF Registered
    <3>. QED
      BY <1>0, <1>1, <1>2, <3>1, CallsKeepRest
  <2>10. GoodBlock(h, b) /\ b.sta
    BY <1>0, <1>1, <2>3, <2>7, Zenon DEF GoodBlock
  <2>. QED
    BY <1>0, <1>2, <2>8, <2>9, <2>10, RegisterKeepsEvents
<1>3. CASE /\ Remote(c, cb[h].prc)
           /\ hq' = [[d \in Core |-> Dequeued(hq[d], h)] EXCEPT ![cb[h].prc] = Append(@, h)]
           /\ active' = [active EXCEPT ![cb[h].prc] = TRUE]
           /\ request' = [request EXCEPT ![cb[h].prc] = @ \/ ~active[cb[h].prc]]
           /\ tq' = Dequeued(tq, h)
           /\ cb' = [cb EXCEPT ![h].sta = TRUE]
           /\ due' = [due EXCEPT ![h] = 0]
           /\ UNCHANGED at
  <2>1. PICK p : p = cb[h].prc
    OBVIOUS
  <2>2. p \in Core
    BY <1>3, <2>1 DEF Remote
  <2>3. PICK left : left = [d \in Core |-> Dequeued(hq[d], h)]
    OBVIOUS
  <2>4. \A e \in Core : /\ left[e] \in Seq(Hdr) /\ OrderedBy(left[e], Unranked)
                        /\ Range(left[e]) = Range(hq[e]) \ {h}
    <3>1. \A e \in Core : left[e] = Dequeued(hq[e], h)
      BY <2>3
    <3>2. \A e \in Core : hq[e] \in Seq(Hdr) /\ OrderedBy(hq[e], Unranked)
      BY DEF EventsInv, TimeTypeOK
    <3>. QED
      BY <1>0, <3>1, <3>2, DequeuedKeeps
  <2>5. hq' = [left EXCEPT ![p] = Append(left[p], h)]
    BY <1>3, <2>1, <2>3
  <2>6. left \in [Core -> Seq(Hdr)]
    BY <2>3, <2>4
  <2>7. hq'[p] = Append(left[p], h) /\ \A e \in Core \ {p} : hq'[e] = left[e]
    BY <2>2, <2>5, <2>6
  <2>8. /\ Append(left[p], h) \in Seq(Hdr)
        /\ Range(Append(left[p], h)) = Range(left[p]) \cup {h}
        /\ OrderedBy(Append(left[p], h), Unranked)
    <3>1. left[p] \in Seq(Hdr) /\ OrderedBy(left[p], Unranked) /\ h \in Hdr \ Range(left[p])
      BY <1>0, <2>2, <2>4
    <3>. QED
      BY <3>1, AppendedKeeps
  <2>9. hq' \in [Core -> Seq(Hdr)]
    BY <2>2, <2>5, <2>6, <2>8
  <2>10. \A e \in Core : OrderedBy(hq'[e], Unranked)
    BY <2>4, <2>7, <2>8
  <2>11. \A e \in Core : Range(hq'[e]) = IF e = p THEN Range(hq[e]) \cup {h} ELSE Range(hq[e]) \ {h}
    <3>1. ASSUME NEW e \in Core
          PROVE  Range(hq'[e]) = IF e = p THEN Range(hq[e]) \cup {h} ELSE Range(hq[e]) \ {h}
      <4>1. CASE e = p
        <5>1. Range(hq'[p]) = (Range(hq[p]) \ {h}) \cup {h}
          BY <2>2, <2>4, <2>7, <2>8
        <5>. QED
          BY <4>1, <5>1
      <4>2. CASE e # p
        BY <2>4, <2>7, <4>2
      <4>. QED
        BY <4>1, <4>2
    <3>. QED
      BY <3>1
  <2>12. /\ tq' \in Seq(Hdr) /\ OrderedBy(tq', Unranked) /\ Range(tq') = Range(tq) \ {h}
    <3>1. tq \in Seq(Hdr) /\ OrderedBy(tq, Unranked)
      BY DEF EventsInv, TimeTypeOK
    <3>. QED
      BY <1>0, <1>3, <3>1, DequeuedKeeps
  <2>13. PICK o : o = cb[h]
    OBVIOUS
  <2>17. PICK b : b = [o EXCEPT !.sta = TRUE]
    OBVIOUS
  <2>15. o \in Block /\ o.time \in 0 .. Modulus - 1
    BY <1>0, <2>13, Blocks
  <2>14. b = [made |-> o.made, sta |-> TRUE, time |-> o.time, tim |-> o.tim, phs |-> o.phs, prc |-> o.prc]
    BY <2>15, <2>17 DEF Block
  <2>16. /\ b \in Block /\ b.time = o.time /\ b.tim = o.tim /\ b.prc = o.prc
         /\ b.made = o.made /\ b.sta /\ b.phs = o.phs
    <3>1. PICK t : t = o.time
      OBVIOUS
    <3>2. t \in 0 .. Modulus - 1
      BY <2>15, <3>1
    <3>3. b = [made |-> o.made, sta |-> TRUE, time |-> t, tim |-> o.tim, phs |-> o.phs, prc |-> o.prc]
      BY <2>14, <3>1, Zenon
    <3>4. o \in Block
      BY <2>15
    <3>5. /\ b \in Block /\ b.time = t /\ b.tim = o.tim /\ b.prc = o.prc
          /\ b.made = o.made /\ b.sta /\ b.phs = o.phs
      BY <3>2, <3>3, <3>4, StartedBlock, Zenon
    <3>. QED
      BY <3>1, <3>5, Zenon
  <2>18. cb' = [cb EXCEPT ![h] = b]
    BY <1>3, <2>13, <2>17
  <2>19. RestKept
    <3>1. due' \in [Hdr -> Int]
      BY <1>0, <1>3 DEF TimeTypeOK
    <3>2. cur' \in 0 .. Modulus - 1 /\ ticking' \in BOOLEAN
      BY <1>0, <1>1 DEF TimeTypeOK, Calls
    <3>3. /\ active' \in [Core -> BOOLEAN] /\ request' \in [Core -> BOOLEAN]
          /\ at' \in [Core -> {"out", "tick", "drain", "body"}]
      BY <1>0, <1>3 DEF TimeTypeOK
    <3>. QED
      BY <3>1, <3>2, <3>3 DEF RestKept
  <2>20. GoodBlock(h, b) /\ b.sta
    BY <1>0, <1>1, <2>13, <2>16, Zenon DEF GoodBlock
  <2>. QED
    BY <1>0, <2>2, <2>9, <2>10, <2>11, <2>12, <2>18, <2>19, <2>20, HandKeepsEvents
<1>4. CASE /\ Stopped(h) /\ cb' = [cb EXCEPT ![h].sta = FALSE] /\ due' = [due EXCEPT ![h] = 0]
  <2>1. PICK o : o = cb[h]
    OBVIOUS
  <2>2. PICK b : b = [o EXCEPT !.sta = FALSE]
    OBVIOUS
  <2>3. o \in Block
    BY <1>0, <2>1
  <2>4. /\ b \in Block /\ b.time = o.time /\ b.tim = o.tim /\ b.prc = o.prc
        /\ b.made = o.made /\ ~b.sta /\ b.phs = o.phs
    BY <2>2, <2>3, StoppedBlock, Zenon
  <2>5. cb' = [cb EXCEPT ![h] = b]
    BY <1>4, <2>1, <2>2
  <2>6. RestKept
    <3>1. UNCHANGED <<active, request, at>>
      BY <1>4 DEF Stopped
    <3>. QED
      BY <1>0, <1>1, <1>4, <3>1, CallsKeepRest
  <2>7. GoodBlock(h, b) /\ ~b.sta
    BY <1>0, <1>1, <2>1, <2>4, Zenon DEF GoodBlock
  <2>. QED
    BY <1>0, <1>4, <2>5, <2>6, <2>7, StopKeepsEvents
<1>. QED
  BY <1>2, <1>3, <1>4 DEF tk_sta_alm

LEMMA InitEvents == TimeInit => EventsInv
<1>. SUFFICES ASSUME TimeInit PROVE EventsInv
  OBVIOUS
<1>1. Range(<< >>) = {} /\ OrderedBy(<< >>, Unranked) /\ << >> \in Seq(Hdr)
  BY DEF Range, OrderedBy
<1>2. 0 \in 0 .. Modulus - 1 /\ 0 \in Core /\ 1 \in Core
  BY Words DEF Core
<1>3. NoBlock \in Block
  BY <1>2 DEF NoBlock, Block
<1>4. ~NoBlock.sta /\ ~NoBlock.phs /\ ~NoBlock.made
  BY Zenon DEF NoBlock
<1>5. \A h \in Hdr : cb[h] = NoBlock
  BY DEF TimeInit
<1>6. TimeTypeOK
  BY <1>1, <1>2, <1>3 DEF TimeInit, TimeTypeOK, Block
<1>7. tq = << >> /\ hq[0] = << >> /\ hq[1] = << >> /\ \A c \in Core : hq[c] = << >>
  BY <1>2 DEF TimeInit
<1>8. Cyc \subseteq Hdr
  BY DEF Hdr
<1>. QED
  BY <1>1, <1>4, <1>5, <1>6, <1>7, <1>8 DEF EventsInv

LEMMA EventsInvariant == TimeSpec => []EventsInv
<1>1. EventsInv /\ [TimeNext]_timevars => EventsInv'
  <2>. SUFFICES ASSUME EventsInv, [TimeNext]_timevars PROVE EventsInv'
    OBVIOUS
  <2>1. CASE UNCHANGED timevars
    BY <2>1 DEF timevars, EventsInv, TimeTypeOK, Unranked
  <2>2. CASE TimeNext
    <3>1. CASE Tick \/ Expire \/ EndTick
      BY <3>1, TickKeepsEvents
    <3>2. CASE \E c \in Core : TakeRequest(c) \/ Start(c) \/ Resume(c) \/ EndDrain(c)
      BY <3>2, HandlersKeepEvents
    <3>3. CASE \E c \in Core : \E h \in Cyc : tk_sta_cyc(c, h)
      BY <3>3, StartsCycleKeepsEvents
    <3>4. CASE \E c \in Core : \E h \in Cyc, phs \in BOOLEAN, prc \in Assprc,
                  first \in Reltim, tim \in Reltim \ {0} : tk_cre_cyc(c, h, phs, prc, first, tim)
      BY <3>4, CreatesCycleKeepsEvents
    <3>5. CASE \E c \in Core : \E h \in Alm, prc \in Assprc : tk_cre_alm(c, h, prc)
      BY <3>5, CreatesAlarmKeepsEvents
    <3>6. CASE \E c \in Core : \E h \in Alm, tim \in Reltim : tk_sta_alm(c, h, tim)
      BY <3>6, StartsAlarmKeepsEvents
    <3>7. CASE \E c \in Core : \E h \in Hdr : Stop(c, h) \/ Delete(c, h)
      BY <3>7, StopsKeepEvents
    <3>. QED
      BY <2>2, <3>1, <3>2, <3>3, <3>4, <3>5, <3>6, <3>7 DEF TimeNext
  <2>. QED
    BY <2>1, <2>2
<1>. QED
  BY <1>1, InitEvents, PTL DEF TimeSpec

\* RequestsServed, with what an executing processor finds.
LEMMA ServedIsInvariant == EventsInv /\ RequestsServed /\ [TimeNext]_timevars => RequestsServed'
<1>. SUFFICES ASSUME EventsInv, RequestsServed, [TimeNext]_timevars PROVE RequestsServed'
  OBVIOUS
<1>0. /\ active \in [Core -> BOOLEAN] /\ request \in [Core -> BOOLEAN]
      /\ at \in [Core -> {"out", "tick", "drain", "body"}] /\ hq \in [Core -> Seq(Hdr)]
  BY DEF EventsInv, TimeTypeOK
<1>e. ASSUME NEW h \in Hdr, NEW c \in Core, hq[c] = << >> PROVE Dequeued(hq[c], h) = << >>
  BY <1>e DEF Dequeued, Range
<1>h. ASSUME NEW c \in Core, NEW d \in Core, NEW h, Hand(c, d, h) PROVE RequestsServed'
  BY <1>0, <1>h DEF RequestsServed, Hand
<1>s. ASSUME NEW h \in Hdr, Stopped(h) PROVE RequestsServed'
  <2>1. \A c \in Core : hq[c] = << >> => hq'[c] = << >>
    BY <1>e, <1>s DEF Stopped
  <2>. QED
    BY <1>s, <2>1 DEF RequestsServed, Stopped
<1>r. ASSUME NEW h \in Hdr, NEW d, Registered(h, d) PROVE RequestsServed'
  <2>1. \A c \in Core : hq[c] = << >> => hq'[c] = << >>
    BY <1>e, <1>r DEF Registered
  <2>. QED
    BY <1>r, <2>1 DEF RequestsServed, Registered
<1>1. CASE UNCHANGED <<hq, active, request, at>>
  BY <1>1 DEF RequestsServed
<1>2. CASE Tick
  BY <1>0, <1>2 DEF Tick, RequestsServed, LockFree, Core
<1>3. CASE Expire
  <2>1. PICK h, d : d \in Core /\ Hand(0, d, h)
    BY <1>3 DEF Expire, Core
  <2>2. 0 \in Core
    BY DEF Core
  <2>. QED
    BY <2>1, <2>2, <1>h
<1>4. CASE EndTick
  BY <1>0, <1>4 DEF EndTick, RequestsServed, Core
<1>5. ASSUME NEW c \in Core, TakeRequest(c) \/ Resume(c) \/ EndDrain(c) PROVE RequestsServed'
  BY <1>0, <1>5 DEF TakeRequest, Resume, EndDrain, RequestsServed
<1>6. ASSUME NEW c \in Core, Start(c) PROVE RequestsServed'
  BY <1>0, <1>6 DEF Start, RequestsServed
<1>7. ASSUME NEW c \in Core, NEW h \in Cyc, tk_sta_cyc(c, h) PROVE RequestsServed'
  <2>1. h \in Hdr
    BY DEF Hdr
  <2>. QED
    BY <1>1, <1>7, <1>r, <2>1 DEF tk_sta_cyc
<1>8. ASSUME NEW c \in Core, NEW h \in Cyc, NEW phs, NEW prc \in Assprc, NEW first, NEW tim,
             tk_cre_cyc(c, h, phs, prc, first, tim)
      PROVE  RequestsServed'
  <2>1. h \in Hdr /\ (Remote(c, prc) => prc \in Core)
    BY DEF Hdr, Remote
  <2>. QED
    BY <1>1, <1>8, <1>r, <1>h, <2>1 DEF tk_cre_cyc
<1>9. ASSUME NEW c \in Core, NEW h \in Alm, NEW prc, tk_cre_alm(c, h, prc) PROVE RequestsServed'
  BY <1>1, <1>9 DEF tk_cre_alm
<1>10. ASSUME NEW c \in Core, NEW h \in Alm, NEW tim, tk_sta_alm(c, h, tim) PROVE RequestsServed'
  <2>1. h \in Hdr
    BY DEF Hdr
  <2>2. CASE /\ Remote(c, cb[h].prc)
             /\ hq' = [[d \in Core |-> Dequeued(hq[d], h)] EXCEPT ![cb[h].prc] = Append(@, h)]
             /\ active' = [active EXCEPT ![cb[h].prc] = TRUE]
             /\ request' = [request EXCEPT ![cb[h].prc] = @ \/ ~active[cb[h].prc]]
             /\ UNCHANGED at
    <3>1. PICK p : p = cb[h].prc
      OBVIOUS
    <3>2. p \in Core
      BY <2>2, <3>1 DEF Remote
    <3>3. \A e \in Core \ {p} : hq'[e] = Dequeued(hq[e], h)
      BY <2>2, <3>1, <3>2
    <3>4. \A e \in Core \ {p} : hq[e] = << >> => hq'[e] = << >>
      BY <1>e, <2>1, <3>3
    <3>5. active' = [active EXCEPT ![p] = TRUE] /\ request' = [request EXCEPT ![p] = @ \/ ~active[p]]
      BY <2>2, <3>1
    <3>. QED
      BY <1>0, <2>2, <3>2, <3>4, <3>5 DEF RequestsServed
  <2>. QED
    BY <1>10, <1>r, <1>s, <2>1, <2>2 DEF tk_sta_alm
<1>11. ASSUME NEW c \in Core, NEW h \in Hdr, Stop(c, h) \/ Delete(c, h) PROVE RequestsServed'
  BY <1>11, <1>s DEF Stop, Delete
<1>12. CASE UNCHANGED timevars
  BY <1>1, <1>12 DEF timevars
<1>. QED
  BY <1>2, <1>3, <1>4, <1>5, <1>6, <1>7, <1>8, <1>9, <1>10, <1>11, <1>12 DEF TimeNext

\* timer.c: the handlers of a queue are executed, or the processor that is to
\* execute them has been asked to, whatever the other one does meanwhile.
THEOREM HandlersServed == TimeSpec => []RequestsServed
<1>1. TimeInit => RequestsServed
  BY DEF TimeInit, RequestsServed
<1>. QED
  BY <1>1, EventsInvariant, ServedIsInvariant, PTL DEF TimeSpec

\* A queue without repetitions is no longer than the set it is drawn from.
LEMMA QueueFits ==
    ASSUME NEW S, IsFiniteSet(S), NEW q \in Seq(S), NEW pr, OrderedBy(q, pr)
    PROVE  Len(q) <= Cardinality(S)
<1>. DEFINE D == 1 .. Len(q)
<1>1. IsFiniteSet(D) /\ Cardinality(D) = Len(q)
  <2>1. Len(q) \in Nat
    OBVIOUS
  <2>2. 1 \in Int /\ Len(q) \in Int
    BY <2>1
  <2>3. IsFiniteSet(1 .. Len(q)) /\ Cardinality(1 .. Len(q)) = IF 1 > Len(q) THEN 0 ELSE Len(q) - 1 + 1
    BY <2>2, FS_Interval
  <2>. QED
    BY <2>1, <2>3
<1>2. q \in Injection(D, S)
  <2>1. q \in [D -> S] /\ DOMAIN q = D
    OBVIOUS
  <2>2. ASSUME NEW i \in D, NEW j \in D, q[i] = q[j] PROVE i = j
    <3>1. i < j \/ j < i \/ i = j
      OBVIOUS
    <3>. QED
      BY <2>1, <2>2, <3>1 DEF OrderedBy
  <2>. QED
    BY <2>1, <2>2 DEF Injection, IsInjective
<1>. HIDE DEF D
<1>3. Cardinality(D) <= Cardinality(S)
  BY <1>1, <1>2, FS_Injection DEF ExistsInjection
<1>. QED
  BY <1>1, <1>3

\* The occurrence of a handler in the queues, one of which it is in.
LEMMA OneOccurrence ==
    ASSUME IsFiniteSet(Hdr), EventsInv PROVE LinkedIffStarted
<1>. SUFFICES ASSUME NEW h \in Hdr
              PROVE  Cardinality(Places(h)) = IF cb[h].sta THEN 1 ELSE 0
  BY DEF LinkedIffStarted
<1>. DEFINE n == Cardinality(Hdr)
            occurs == {p \in (1 .. 3) \X (1 .. n) :
                         p[2] <= Len(Queues[p[1]]) /\ Queues[p[1]][p[2]] = h}
<1>1. 0 \in Core /\ 1 \in Core /\ n \in Nat
  BY FS_CardinalityType DEF Core
<1>2. Queues[1] = tq /\ Queues[2] = hq[0] /\ Queues[3] = hq[1]
  BY DEF Queues
<1>3. \A i \in 1 .. 3 : Queues[i] \in Seq(Hdr) /\ OrderedBy(Queues[i], Unranked)
  BY <1>1, <1>2 DEF EventsInv, TimeTypeOK
<1>4. \A i, j \in 1 .. 3 : h \in Range(Queues[i]) /\ h \in Range(Queues[j]) => i = j
  <2>1. /\ h \in Range(tq) => h \notin Range(hq[0]) /\ h \notin Range(hq[1])
        /\ h \in Range(hq[0]) => h \notin Range(hq[1])
    BY <1>1 DEF EventsInv
  <2>. QED
    BY <1>2, <2>1
<1>5. \A i \in 1 .. 3 : Len(Queues[i]) <= n
  BY <1>3, QueueFits
<1>6. ASSUME cb[h].sta PROVE Cardinality(occurs) = 1
  <2>1. PICK i \in 1 .. 3 : h \in Range(Queues[i])
    <3>1. h \in Range(tq) \/ h \in Range(hq[0]) \/ h \in Range(hq[1])
      BY <1>6 DEF EventsInv
    <3>. QED
      BY <1>2, <3>1
  <2>2. PICK q : q = Queues[i]
    OBVIOUS
  <2>3. q \in Seq(Hdr) /\ OrderedBy(q, Unranked) /\ h \in Range(q) /\ Len(q) <= n
    BY <1>3, <1>5, <2>1, <2>2
  <2>4. PICK j \in 1 .. Len(q) : q[j] = h
    BY <2>3, InRange
  <2>5. <<i, j>> \in occurs
    BY <1>1, <2>2, <2>3, <2>4
  <2>6. ASSUME NEW p \in occurs PROVE p = <<i, j>>
    <3>1. PICK k \in 1 .. 3, m \in 1 .. n : p = <<k, m>>
      OBVIOUS
    <3>2. m <= Len(Queues[k]) /\ Queues[k][m] = h
      BY <3>1
    <3>3. Queues[k] \in Seq(Hdr) /\ m \in 1 .. Len(Queues[k])
      BY <1>1, <1>3, <3>2
    <3>4. h \in Range(Queues[k])
      BY <3>2, <3>3, InRange
    <3>5. k = i
      BY <1>4, <2>1, <3>4
    <3>6. q[m] = h /\ m \in 1 .. Len(q) /\ DOMAIN q = 1 .. Len(q)
      BY <2>2, <2>3, <3>2, <3>3, <3>5
    <3>7. m < j \/ j < m \/ m = j
      OBVIOUS
    <3>8. m = j
      BY <2>3, <2>4, <3>6, <3>7 DEF OrderedBy
    <3>. QED
      BY <3>1, <3>5, <3>8
  <2>. HIDE DEF occurs
  <2>7. occurs = {<<i, j>>}
    BY <2>5, <2>6
  <2>. QED
    BY <2>7, FS_Singleton
<1>7. ASSUME ~cb[h].sta PROVE Cardinality(occurs) = 0
  <2>1. \A i \in 1 .. 3 : h \notin Range(Queues[i])
    BY <1>1, <1>2, <1>7 DEF EventsInv
  <2>2. \A i \in 1 .. 3 : \A j \in 1 .. Len(Queues[i]) : Queues[i][j] # h
    BY <1>3, <2>1, InRange
  <2>3. ASSUME NEW p \in occurs PROVE FALSE
    <3>1. PICK k \in 1 .. 3, m \in 1 .. n : p = <<k, m>>
      OBVIOUS
    <3>2. m <= Len(Queues[k]) /\ Queues[k][m] = h
      BY <3>1
    <3>3. m \in 1 .. Len(Queues[k])
      BY <1>1, <1>3, <3>2
    <3>. QED
      BY <2>2, <3>2, <3>3
  <2>. HIDE DEF occurs
  <2>4. occurs = {}
    BY <2>3
  <2>. QED
    BY <2>4, FS_EmptySet
<1>. HIDE DEF occurs
<1>8. Cardinality(occurs) = IF cb[h].sta THEN 1 ELSE 0
  BY <1>6, <1>7
<1>. QED
  BY <1>8 DEF occurs, Places

\* time_calls.c: whatever is started, stopped, deleted and handed over in the
\* middle of a tick or a body, knl_timer_delete() finds the event where its
\* links say, and the event of no stopped handler stays behind.
THEOREM EventsLinked ==
    ASSUME IsFiniteSet(Hdr)
    PROVE  TimeSpec => []LinkedIffStarted
<1>1. EventsInv => LinkedIffStarted
  BY OneOccurrence
<1>. QED
  BY <1>1, EventsInvariant, PTL

-----------------------------------------------------------------------------
(***************************************************************************)
(* Time events: when they come due.                                        *)
(***************************************************************************)
LEMMA ModIs ==
    ASSUME NEW M \in Nat \ {0}, NEW a \in Int, NEW k \in Int, NEW r \in 0 .. M - 1, a = k * M + r
    PROVE  a % M = r
OBVIOUS

LEMMA ModExists ==
    ASSUME NEW M \in Nat \ {0}, NEW a \in Int
    PROVE  \E k \in Int, r \in 0 .. M - 1 : a = k * M + r /\ a % M = r
<1>. DEFINE k == a \div M
<1>1. k \in Int /\ a = k * M + (a % M)
  OBVIOUS
<1>2. a % M \in 0 .. M - 1
  OBVIOUS
<1>. QED
  BY <1>1, <1>2

LEMMA DivIs ==
    ASSUME NEW n \in Nat \ {0}, NEW a \in Int, NEW k \in Int, NEW r \in 0 .. n - 1, a = k * n + r
    PROVE  a \div n = k
OBVIOUS

\* Words add up.
LEMMA Shifted ==
    ASSUME NEW M \in Nat \ {0}, NEW c \in Int, NEW d \in Int, NEW n \in Int
    PROVE  (((c + d) % M) + n) % M = (c + (d + n)) % M
<1>0. c + d \in Int /\ c + (d + n) \in Int
  OBVIOUS
<1>1. PICK k \in Int, t \in 0 .. M - 1 : c + d = k * M + t /\ (c + d) % M = t
  BY <1>0, ModExists, Zenon
<1>2. PICK j \in Int, r \in 0 .. M - 1 : c + (d + n) = j * M + r /\ (c + (d + n)) % M = r
  BY <1>0, ModExists, Zenon
<1>3. t + n \in Int /\ j - k \in Int /\ t + n = (j - k) * M + r
  BY <1>1, <1>2
<1>4. (t + n) % M = r
  BY <1>3, ModIs, Zenon
<1>. QED
  BY <1>1, <1>2, <1>4, Zenon

LEMMA Ticked ==
    ASSUME NEW M \in Nat \ {0}, NEW c \in Int, NEW d \in Int, NEW n \in Int
    PROVE  (((c + n) % M) + (d - n)) % M = (c + d) % M
<1>1. d - n \in Int /\ c + (n + (d - n)) = c + d
  OBVIOUS
<1>2. n \in Int /\ (((c + n) % M) + (d - n)) % M = (c + (n + (d - n))) % M
  BY <1>1, Shifted, Zenon
<1>. QED
  BY <1>1, <1>2, Zenon

\* One cycle less.
LEMMA Cycles ==
    ASSUME NEW n \in Nat \ {0}, NEW a \in Int
    PROVE  (a - n) \div n = (a \div n) - 1
OBVIOUS

\* No interval, with the TIMER_PERIOD that is added to it, reaches beyond the
\* half of the words that lies ahead.  CHECK_RELTIM lets the last few pass.
ShortIntervals == \A r \in Reltim : r + PERIOD <= Half

Ahead == -(Half - 1) .. Half
DueOrder == [h \in Hdr |-> due[h] + Half]

\* An event is queued, and a cycle kept, for the time that is really meant, and
\* the timer queue is in the order of these times.
TimesInv ==
    /\ \A h \in Hdr : due[h] \in Ahead
    /\ \A h \in Hdr : h \in Range(tq) \/ (h \in Cyc /\ (cb[h].sta \/ cb[h].phs))
                      => cb[h].time = (cur + due[h]) % Modulus
    /\ \A h \in Cyc, c \in Core : h \in Range(hq[c]) => due[h] <= PERIOD
    /\ OrderedBy(tq, DueOrder)
    /\ ~ticking => \A h \in Range(tq) : due[h] > 0

LEMMA WordOf ==
    ASSUME cur \in Int, NEW d \in Ahead, NEW t, t = (cur + d) % Modulus
    PROVE  /\ t \in 0 .. Modulus - 1
           /\ Reached(t) <=> d <= 0
           /\ d <= 0 => (cur - t) % Modulus = -d
           /\ Key(t) = d + Half - 1
<1>1. Half \in Nat \ {0} /\ Modulus \in Nat \ {0} /\ Modulus = 2 * Half
  BY Words
<1>2. d \in -(Half - 1) .. Half /\ d \in Int
  BY <1>1 DEF Ahead
<1>3. /\ t \in 0 .. Modulus - 1
      /\ d <= 0 => (cur - t) % Modulus = -d
      /\ d > 0 => (cur - t) % Modulus = Modulus - d
      /\ (t - (cur - (Half - 1))) % Modulus = d + Half - 1
  <2>1. cur + d \in Int
    BY <1>2
  <2>2. PICK k \in Int : cur + d = k * Modulus + t /\ t \in 0 .. Modulus - 1
    <3>1. PICK k \in Int, r \in 0 .. Modulus - 1 : cur + d = k * Modulus + r /\ (cur + d) % Modulus = r
      BY <1>1, <2>1, ModExists, Zenon
    <3>. QED
      BY <1>1, <3>1
  <2>3. cur - t \in Int /\ cur - t = k * Modulus + (-d) /\ (d <= 0 => -d \in 0 .. Modulus - 1)
    BY <1>1, <1>2, <2>2
  <2>4. d <= 0 => (cur - t) % Modulus = -d
    BY <1>1, <2>3, ModIs, Zenon
  <2>6. ASSUME d > 0 PROVE (cur - t) % Modulus = Modulus - d
    <3>1. cur - t \in Int /\ k - 1 \in Int
      BY <1>1, <1>2, <2>2
    <3>2. Modulus - d \in 0 .. Modulus - 1
      BY <1>1, <1>2, <2>6
    <3>3. cur - t = (k - 1) * Modulus + (Modulus - d)
      BY <1>1, <1>2, <2>2
    <3>4. PICK a, r, j : a = cur - t /\ r = Modulus - d /\ j = k - 1
      OBVIOUS
    <3>5. a \in Int /\ j \in Int /\ r \in 0 .. Modulus - 1 /\ a = j * Modulus + r
      BY <1>1, <3>1, <3>2, <3>3, <3>4
    <3>6. a % Modulus = r
      BY <1>1, <3>5, ModIs
    <3>. QED
      BY <3>4, <3>6, Zenon
  <2>7. /\ -k \in Int /\ t - (cur - (Half - 1)) \in Int
        /\ t - (cur - (Half - 1)) = (-k) * Modulus + (d + Half - 1) /\ d + Half - 1 \in 0 .. Modulus - 1
    BY <1>1, <1>2, <2>2
  <2>8. (t - (cur - (Half - 1))) % Modulus = d + Half - 1
    BY <1>1, <2>7, ModIs, Zenon
  <2>. QED
    BY <2>2, <2>4, <2>6, <2>8
<1>4. Reached(t) <=> d <= 0
  BY <1>1, <1>2, <1>3 DEF Reached
<1>. QED
  BY <1>3, <1>4 DEF Key

\* knl_cyc_next_time() and the time that is really the next of the cycle.
LEMMA NextAgrees ==
    ASSUME TimeTypeOK, ShortIntervals, NEW h \in Hdr, cb[h].tim \in Reltim \ {0},
           due[h] \in Ahead, due[h] <= PERIOD, cb[h].time = (cur + due[h]) % Modulus
    PROVE  /\ NextDue(h, 1) \in 1 .. Half /\ NextTime(h) = (cur + NextDue(h, 1)) % Modulus
           /\ due[h] <= 0 => /\ NextDue(h, 0) \in 1 .. Half
                             /\ NextTime(h) = (cur + NextDue(h, 0)) % Modulus
<1>0. Half \in Nat \ {0} /\ Modulus \in Nat \ {0} /\ Modulus = 2 * Half /\ PERIOD \in 1 .. Half
  BY Words
<1>1. PICK d, m, w : d = due[h] /\ m = cb[h].tim /\ w = cb[h].time
  OBVIOUS
<1>2. /\ d \in Int /\ m \in Nat \ {0} /\ cur \in Int /\ d \in Ahead /\ d <= PERIOD
      /\ m + PERIOD <= Half /\ w = (cur + d) % Modulus /\ d >= -(Half - 1)
  <2>1. m \in Nat \ {0} /\ m + PERIOD <= Half
    BY <1>1, IntervalIsTime DEF ShortIntervals
  <2>2. cur \in Int
    BY <1>0 DEF TimeTypeOK
  <2>3. d \in Int /\ d >= -(Half - 1)
    BY <1>0, <1>1 DEF Ahead
  <2>. QED
    BY <1>1, <2>1, <2>2, <2>3
<1>3. PICK n : n = d + m
  OBVIOUS
<1>4. n \in Ahead /\ n \in Int
  BY <1>0, <1>2, <1>3 DEF Ahead
<1>5. PICK t : t = Later(w, m)
  OBVIOUS
<1>6. t = (cur + n) % Modulus
  BY <1>0, <1>2, <1>3, <1>5, Shifted DEF Later
<1>7. Reached(t) <=> n <= 0
  BY <1>2, <1>4, <1>6, WordOf
<1>8. NextTime(h) = IF Reached(t) THEN Later(w, (((cur - w) % Modulus) \div m + 1) * m) ELSE t
  BY <1>1, <1>5 DEF NextTime
<1>9. /\ NextDue(h, 1) = IF n > 0 THEN n ELSE n + ((-n) \div m + 1) * m
      /\ d <= 0 => NextDue(h, 0) = d + ((-d) \div m + 1) * m
  <2>1. d + 1 * m = n /\ d + 0 * m = d
    BY <1>2, <1>3
  <2>. QED
    BY <1>1, <1>2, <2>1 DEF NextDue
<1>10. ASSUME d <= 0
       PROVE  \E k \in Int : /\ (-d) \div m = k /\ d + (k + 1) * m \in 1 .. m
                             /\ n > 0 => k = 0
                             /\ n <= 0 => (-n) \div m = k - 1
  <2>1. PICK a : a = -d
    OBVIOUS
  <2>2. a \in Nat
    BY <1>2, <1>10, <2>1
  <2>3. PICK k : k = (a \div m)
    OBVIOUS
  <2>4. k \in Int /\ a = k * m + (a % m) /\ (a % m) \in 0 .. m - 1
    BY <1>2, <2>2, <2>3
  <2>5. (k + 1) * m = k * m + m
    BY <1>2, <2>4
  <2>6. PICK x, r : x = k * m /\ r = (a % m)
    OBVIOUS
  <2>7. x \in Int /\ a = x + r /\ r \in 0 .. m - 1 /\ (k + 1) * m = x + m
    BY <1>2, <2>4, <2>5, <2>6
  <2>8. d + (k + 1) * m \in 1 .. m
    BY <1>2, <2>1, <2>7
  <2>9. n > 0 => k = 0
    <3>1. n > 0 => a \in 0 .. m - 1 /\ a = 0 * m + a
      BY <1>2, <1>3, <2>1, <2>2
    <3>. QED
      BY <1>2, <2>2, <2>3, <3>1, DivIs
  <2>10. (-n) \div m = k - 1
    <3>1. -n = a - m
      BY <1>2, <1>3, <2>1
    <3>2. (a - m) \div m = (a \div m) - 1
      <4>1. a \in Int /\ m \in Nat \ {0}
        BY <1>2, <2>2
      <4>. QED
        BY <4>1, Cycles, Zenon
    <3>. QED
      BY <2>3, <3>1, <3>2
  <2>. QED
    BY <2>1, <2>3, <2>4, <2>8, <2>9, <2>10
<1>11. CASE n > 0
  <2>1. NextTime(h) = t /\ NextDue(h, 1) = n /\ n \in 1 .. Half
    BY <1>0, <1>2, <1>3, <1>4, <1>7, <1>8, <1>9, <1>11
  <2>2. d <= 0 => NextDue(h, 0) = n
    <3>1. d <= 0 => NextDue(h, 0) = d + (0 + 1) * m
      BY <1>9, <1>10, <1>11
    <3>2. d + (0 + 1) * m = n
      BY <1>2, <1>3
    <3>. QED
      BY <3>1, <3>2
  <2>. QED
    BY <1>1, <1>6, <2>1, <2>2
<1>12. CASE n <= 0
  <2>0. d <= 0
    BY <1>2, <1>3, <1>12
  <2>1. PICK k \in Int : /\ (-d) \div m = k /\ d + (k + 1) * m \in 1 .. m
                         /\ (-n) \div m = k - 1
    BY <1>10, <1>12, <2>0
  <2>2. PICK g : g = d + (k + 1) * m
    OBVIOUS
  <2>3. g \in 1 .. Half /\ (k + 1) * m \in Int
    BY <1>0, <1>2, <2>1, <2>2
  <2>4. NextDue(h, 0) = g
    BY <1>9, <2>0, <2>1, <2>2
  <2>5. NextDue(h, 1) = g
    <3>1. NextDue(h, 1) = n + ((k - 1) + 1) * m
      BY <1>2, <1>3, <1>9, <1>12, <2>1
    <3>2. (k + 1) * m = k * m + m /\ ((k - 1) + 1) * m = k * m
      BY <1>2, <2>1
    <3>3. k * m \in Int
      BY <1>2, <2>1
    <3>. QED
      BY <1>2, <1>3, <2>2, <3>1, <3>2, <3>3
  <2>6. (cur - w) % Modulus = -d
    BY <1>2, <2>0, WordOf
  <2>7. NextTime(h) = Later(w, (k + 1) * m)
    BY <1>7, <1>8, <1>12, <2>1, <2>6
  <2>8. Later(w, (k + 1) * m) = (cur + (d + (k + 1) * m)) % Modulus
    BY ZenonT(30), <1>0, <1>2, <2>3, Shifted DEF Later
  <2>. QED
    BY <1>1, <2>2, <2>3, <2>4, <2>5, <2>7, <2>8
<1>. QED
  BY <1>2, <1>3, <1>4, <1>11, <1>12

LEMMA AheadIsInt == ASSUME NEW d \in Ahead PROVE d \in Int /\ d + Half \in Nat
BY Words DEF Ahead

\* The events of the timer queue have the words of their times.
LEMMA EnqueuedInOrder ==
    ASSUME TimeTypeOK, NEW q \in Seq(Hdr), NEW h \in Hdr \ Range(q), OrderedBy(q, DueOrder),
           \A g \in Range(q) : due[g] \in Ahead /\ cb[g].time = (cur + due[g]) % Modulus,
           NEW d \in Ahead, NEW t, t = (cur + d) % Modulus,
           NEW pr \in [Hdr -> Nat], pr[h] = d + Half, \A g \in Range(q) : pr[g] = due[g] + Half
    PROVE  OrderedBy(Enqueued(q, h, t), pr)
<1>0. cur \in Int /\ Half \in Int /\ d \in Int
  BY Words, AheadIsInt DEF TimeTypeOK
<1>1. OrderedBy(q, pr)
  <2>1. \A g \in Range(q) : g \in Hdr
    BY InRange
  <2>2. \A g \in Range(q) : DueOrder[g] = pr[g]
    BY <2>1 DEF DueOrder
  <2>. QED
    BY <2>2, OrderedByItsTasks
<1>2. Key(t) = d + Half - 1
  BY <1>0, WordOf
<1>3. ASSUME NEW i \in DOMAIN q
      PROVE  /\ Key(cb[q[i]].time) = due[q[i]] + Half - 1
             /\ due[q[i]] \in Int /\ pr[q[i]] = due[q[i]] + Half
  <2>1. PICK g, w : g = q[i] /\ w = cb[g].time
    OBVIOUS
  <2>2. g \in Range(q)
    BY <2>1, InRange
  <2>3. due[g] \in Ahead /\ w = (cur + due[g]) % Modulus /\ pr[g] = due[g] + Half
    BY <2>1, <2>2
  <2>4. Key(w) = due[g] + Half - 1 /\ due[g] \in Int
    BY <1>0, <2>3, WordOf, AheadIsInt
  <2>. QED
    BY <2>1, <2>3, <2>4
<1>. DEFINE after == {i \in DOMAIN q : Key(t) < Key(cb[q[i]].time)}
<1>4. /\ after \in SUBSET DOMAIN q
      /\ \A i \in DOMAIN q \ after : pr[q[i]] <= pr[h]
      /\ \A i \in after : pr[h] <= pr[q[i]]
  <2>1. ASSUME NEW i \in DOMAIN q, ~(Key(t) < Key(cb[q[i]].time)) PROVE pr[q[i]] <= pr[h]
    <3>1. PICK k, n : k = Key(cb[q[i]].time) /\ n = due[q[i]]
      OBVIOUS
    <3>2. k = n + Half - 1 /\ n \in Int /\ pr[q[i]] = n + Half
      BY <1>3, <3>1
    <3>3. ~(d + Half - 1 < k)
      BY <1>2, <2>1, <3>1
    <3>. QED
      BY <1>0, <3>2, <3>3
  <2>2. ASSUME NEW i \in DOMAIN q, Key(t) < Key(cb[q[i]].time) PROVE pr[h] <= pr[q[i]]
    <3>1. PICK k, n : k = Key(cb[q[i]].time) /\ n = due[q[i]]
      OBVIOUS
    <3>2. k = n + Half - 1 /\ n \in Int /\ pr[q[i]] = n + Half
      BY <1>3, <3>1
    <3>3. d + Half - 1 < k
      BY <1>2, <2>2, <3>1
    <3>. QED
      BY <1>0, <3>2, <3>3
  <2>. QED
    BY <2>1, <2>2
<1>5. Enqueued(q, h, t) = LinkedBefore(q, h, after)
  BY ZenonT(30), EnqueuedIsLinked
<1>. HIDE DEF after
<1>6. OrderedBy(LinkedBefore(q, h, after), pr)
  BY <1>1, <1>4, LinkedKeeps
<1>. QED
  BY <1>5, <1>6

\* What h has of its time changes, and nothing else.
OnlyTimeOf(h) ==
    /\ UNCHANGED <<cur, ticking>>
    /\ tq' \in Seq(Hdr) /\ due' \in [Hdr -> Int] /\ due'[h] \in Ahead
    /\ \A g \in Hdr \ {h} : /\ cb'[g] = cb[g] /\ due'[g] = due[g]
                            /\ g \in Range(tq') => g \in Range(tq)
                            /\ \A c \in Core : g \in Range(hq'[c]) => g \in Range(hq[c])
    /\ h \in Cyc /\ (cb'[h].sta \/ cb'[h].phs) => cb'[h].time = (cur + due'[h]) % Modulus
    /\ h \in Cyc => \A c \in Core : h \in Range(hq'[c]) => due'[h] <= PERIOD

LEMMA TimesKept ==
    ASSUME EventsInv, TimesInv, NEW h \in Hdr, OnlyTimeOf(h), OrderedBy(tq', DueOrder'),
           h \in Range(tq') => due'[h] > 0 /\ cb'[h].time = (cur + due'[h]) % Modulus
    PROVE  TimesInv'
<1>1. \A g \in Range(tq') : g \in Hdr
  BY InRange DEF OnlyTimeOf
<1>2. \A g \in Hdr : due'[g] \in Ahead
  BY DEF OnlyTimeOf, TimesInv
<1>3. ASSUME NEW g \in Hdr, g \in Range(tq') \/ (g \in Cyc /\ (cb'[g].sta \/ cb'[g].phs))
      PROVE  cb'[g].time = (cur' + due'[g]) % Modulus
  <2>1. CASE g = h
    BY <1>3, <2>1 DEF OnlyTimeOf
  <2>2. CASE g # h
    <3>1. /\ cb'[g] = cb[g] /\ due'[g] = due[g] /\ cur' = cur
          /\ g \in Range(tq') => g \in Range(tq)
      BY <2>2 DEF OnlyTimeOf
    <3>. QED
      BY <1>3, <3>1 DEF TimesInv
  <2>. QED
    BY <2>1, <2>2
<1>4. \A g \in Cyc, c \in Core : g \in Range(hq'[c]) => due'[g] <= PERIOD
  BY DEF OnlyTimeOf, TimesInv, Hdr
<1>5. ~ticking' => \A g \in Range(tq') : due'[g] > 0
  BY <1>1 DEF OnlyTimeOf, TimesInv
<1>6. Ahead' = Ahead
  BY DEF Ahead
<1>. QED
  BY <1>2, <1>3, <1>4, <1>5, <1>6 DEF TimesInv

\* The event of h is queued for the time d from now.
LEMMA EntersInTime ==
    ASSUME EventsInv, TimesInv, NEW h \in Hdr, OnlyTimeOf(h),
           NEW q \in Seq(Hdr), Range(q) \subseteq Range(tq) \ {h}, OrderedBy(q, DueOrder),
           due'[h] \in 1 .. Half, NEW t, t = (cur + due'[h]) % Modulus, cb'[h].time = t,
           tq' = Enqueued(q, h, t)
    PROVE  TimesInv'
<1>1. due' \in [Hdr -> Int] /\ \A g \in Hdr : due'[g] \in Ahead
  BY DEF OnlyTimeOf, TimesInv
<1>2. PICK pr : pr = [g \in Hdr |-> due'[g] + Half]
  OBVIOUS
<1>3. \A g \in Hdr : due'[g] + Half \in Nat
  BY <1>1, AheadIsInt
<1>4. pr \in [Hdr -> Nat] /\ pr[h] = due'[h] + Half
  BY <1>2, <1>3
<1>5. \A g \in Range(q) : /\ due[g] \in Ahead /\ cb[g].time = (cur + due[g]) % Modulus
                         /\ pr[g] = due[g] + Half
  <2>1. \A g \in Range(q) : g \in Hdr /\ g # h /\ g \in Range(tq)
    BY InRange
  <2>2. \A g \in Hdr \ {h} : due'[g] = due[g]
    BY DEF OnlyTimeOf
  <2>. QED
    BY <1>2, <2>1, <2>2 DEF TimesInv
<1>6. OrderedBy(tq', pr)
  <2>1. TimeTypeOK /\ h \in Hdr \ Range(q)
    BY DEF EventsInv
  <2>2. PICK d : d = due'[h]
    OBVIOUS
  <2>3. d \in Ahead /\ t = (cur + d) % Modulus /\ pr[h] = d + Half
    BY <1>1, <1>4, <2>2
  <2>4. OrderedBy(Enqueued(q, h, t), pr)
    BY <1>4, <1>5, <2>1, <2>3, EnqueuedInOrder
  <2>. QED
    BY <2>4
<1>7. DueOrder' = pr
  BY <1>2 DEF DueOrder
<1>8. due'[h] > 0
  BY Words
<1>. QED
  BY <1>6, <1>7, <1>8, TimesKept

\* The event of h is not in the timer queue any more.
LEMMA LeavesInTime ==
    ASSUME EventsInv, TimesInv, NEW h \in Hdr, OnlyTimeOf(h), h \notin Range(tq'),
           OrderedBy(tq', DueOrder)
    PROVE  TimesInv'
<1>1. PICK pr : pr = [g \in Hdr |-> due'[g] + Half]
  OBVIOUS
<1>2. \A g \in Range(tq') : DueOrder[g] = pr[g]
  <2>1. \A g \in Range(tq') : g \in Hdr /\ g # h
    BY InRange DEF OnlyTimeOf
  <2>2. \A g \in Hdr \ {h} : due'[g] = due[g]
    BY DEF OnlyTimeOf
  <2>. QED
    BY <1>1, <2>1, <2>2 DEF DueOrder
<1>3. OrderedBy(tq', pr)
  BY <1>2, OrderedByItsTasks
<1>4. DueOrder' = pr
  BY <1>1 DEF DueOrder
<1>. QED
  BY <1>3, <1>4, TimesKept

LEMMA StopsBlock ==
    ASSUME TimeTypeOK, NEW h \in Hdr, cb' = [cb EXCEPT ![h].sta = FALSE]
    PROVE  /\ cb'[h].time = cb[h].time /\ ~cb'[h].sta /\ (cb'[h].phs <=> cb[h].phs)
           /\ \A g \in Hdr \ {h} : cb'[g] = cb[g]
<1>1. PICK o : o = cb[h]
  OBVIOUS
<1>2. PICK b : b = [o EXCEPT !.sta = FALSE]
  OBVIOUS
<1>3. o \in Block
  BY <1>1, Blocks
<1>4. /\ b \in Block /\ b.time = o.time /\ b.tim = o.tim /\ b.prc = o.prc
      /\ b.made = o.made /\ ~b.sta /\ b.phs = o.phs
  BY <1>2, <1>3, StoppedBlock, Zenon
<1>5. cb' = [cb EXCEPT ![h] = b]
  BY <1>1, <1>2
<1>6. cb'[h] = b /\ \A g \in Hdr \ {h} : cb'[g] = cb[g]
  BY <1>4, <1>5, BlockSet
<1>. QED
  BY <1>1, <1>4, <1>6, Zenon

LEMMA TimesBlock ==
    ASSUME TimeTypeOK, NEW h \in Hdr, NEW t \in 0 .. Modulus - 1, cb' = [cb EXCEPT ![h].time = t]
    PROVE  cb'[h].time = t /\ \A g \in Hdr \ {h} : cb'[g] = cb[g]
<1>1. PICK o : o = cb[h]
  OBVIOUS
<1>2. PICK b : b = [o EXCEPT !.time = t]
  OBVIOUS
<1>3. o \in Block
  BY <1>1, Blocks
<1>4. /\ b \in Block /\ b.time = t /\ b.tim = o.tim /\ b.prc = o.prc
      /\ b.made = o.made /\ b.sta = o.sta /\ b.phs = o.phs
  BY <1>2, <1>3, TimedBlock
<1>5. cb' = [cb EXCEPT ![h] = b]
  BY <1>1, <1>2
<1>. QED
  BY <1>4, <1>5, BlockSet

LEMMA StartsBlock ==
    ASSUME TimeTypeOK, NEW h \in Hdr, NEW t \in 0 .. Modulus - 1,
           cb' = [cb EXCEPT ![h].sta = TRUE, ![h].time = t]
    PROVE  cb'[h].time = t /\ \A g \in Hdr \ {h} : cb'[g] = cb[g]
<1>1. PICK o : o = cb[h]
  OBVIOUS
<1>2. PICK b : b = [o EXCEPT !.sta = TRUE, !.time = t]
  OBVIOUS
<1>3. o \in Block
  BY <1>1, Blocks
<1>4. b = [made |-> o.made, sta |-> TRUE, time |-> t, tim |-> o.tim, phs |-> o.phs, prc |-> o.prc]
  BY <1>2, <1>3 DEF Block
<1>5. /\ b \in Block /\ b.time = t /\ b.tim = o.tim /\ b.prc = o.prc
      /\ b.made = o.made /\ b.sta /\ b.phs = o.phs
  BY <1>3, <1>4, StartedBlock, Zenon
<1>6. cb' = [cb EXCEPT ![h] = b]
  BY <1>1, <1>2
<1>. QED
  BY <1>5, <1>6, BlockSet

LEMMA TickKeepsTimes ==
    ASSUME EventsInv, TimesInv, Tick PROVE TimesInv'
<1>0. /\ Half \in Nat \ {0} /\ Modulus \in Nat \ {0} /\ Modulus = 2 * Half /\ PERIOD \in 1 .. Half
      /\ MaxLag \in 0 .. Half /\ cur \in Int /\ tq \in Seq(Hdr)
  BY Words, TimeAssumption DEF EventsInv, TimeTypeOK
<1>1. /\ \A h \in Hdr : due[h] > PERIOD - MaxLag
      /\ cur' = Later(cur, PERIOD) /\ ticking'
      /\ due' = [h \in Hdr |-> IF cb[h].sta \/ cb[h].phs THEN due[h] - PERIOD ELSE due[h]]
      /\ UNCHANGED <<tq, hq, cb>>
  BY DEF Tick
<1>2. \A h \in Hdr : due[h] \in Ahead /\ due[h] \in Int
  BY AheadIsInt DEF TimesInv
<1>3. \A h \in Range(tq) : h \in Hdr /\ due'[h] = due[h] - PERIOD
  <2>1. \A h \in Range(tq) : h \in Hdr
    BY <1>0, InRange
  <2>2. \A h \in Range(tq) : cb[h].sta
    BY <2>1 DEF EventsInv
  <2>. QED
    BY <1>1, <2>1, <2>2
<1>4. \A h \in Hdr : due'[h] \in Ahead
  <2>1. ASSUME NEW h \in Hdr PROVE due'[h] \in Ahead
    <3>1. PICK d : d = due[h]
      OBVIOUS
    <3>2. d \in Int /\ d \in Ahead /\ d > PERIOD - MaxLag
      BY <1>1, <1>2, <3>1
    <3>3. d - PERIOD \in Ahead
      BY <1>0, <3>2 DEF Ahead
    <3>. QED
      BY <1>1, <3>1, <3>2, <3>3
  <2>. QED
    BY <2>1
<1>5. ASSUME NEW h \in Hdr, h \in Range(tq) \/ (h \in Cyc /\ (cb[h].sta \/ cb[h].phs))
      PROVE  cb'[h].time = (cur' + due'[h]) % Modulus
  <2>1. PICK d : d = due[h]
    OBVIOUS
  <2>2. cb[h].time = (cur + d) % Modulus /\ d \in Int
    BY <1>2, <1>5, <2>1 DEF TimesInv
  <2>3. due'[h] = d - PERIOD
    <3>1. CASE h \in Range(tq)
      BY <1>3, <2>1, <3>1
    <3>2. CASE cb[h].sta \/ cb[h].phs
      BY <1>1, <2>1, <3>2
    <3>. QED
      BY <1>5, <3>1, <3>2
  <2>4. cur' = (cur + PERIOD) % Modulus
    BY <1>1 DEF Later
  <2>5. (((cur + PERIOD) % Modulus) + (d - PERIOD)) % Modulus = (cur + d) % Modulus
    <3>1. Modulus \in Nat \ {0} /\ cur \in Int /\ d \in Int /\ PERIOD \in Int
      BY <1>0, <2>2
    <3>. QED
      BY <3>1, Ticked, Zenon
  <2>. QED
    BY <1>1, <2>2, <2>3, <2>4, <2>5
<1>6. \A h \in Cyc, c \in Core : h \in Range(hq'[c]) => due'[h] <= PERIOD
  <2>1. ASSUME NEW h \in Cyc, NEW c \in Core, h \in Range(hq[c]) PROVE due'[h] <= PERIOD
    <3>1. h \in Hdr
      BY DEF Hdr
    <3>2. PICK d : d = due[h]
      OBVIOUS
    <3>3. d <= PERIOD /\ d \in Int /\ (due'[h] = d \/ due'[h] = d - PERIOD)
      BY <1>1, <1>2, <2>1, <3>1, <3>2 DEF TimesInv
    <3>. QED
      BY <1>0, <3>3
  <2>. QED
    BY <1>1, <2>1
<1>7. OrderedBy(tq', DueOrder')
  <2>1. PICK pr : pr = [h \in Hdr |-> due'[h] + Half]
    OBVIOUS
  <2>2. OrderedBy(tq, DueOrder)
    BY DEF TimesInv
  <2>3. \A i \in DOMAIN tq : tq[i] \in Range(tq)
    BY <1>0, InRange
  <2>4. \A i \in DOMAIN tq : /\ pr[tq[i]] = (due[tq[i]] - PERIOD) + Half
                             /\ DueOrder[tq[i]] = due[tq[i]] + Half /\ due[tq[i]] \in Int
    BY <1>2, <1>3, <2>1, <2>3 DEF DueOrder
  <2>5. ASSUME NEW i \in DOMAIN tq, NEW j \in DOMAIN tq, i < j
        PROVE  tq[i] # tq[j] /\ pr[tq[i]] <= pr[tq[j]]
    <3>1. PICK x, y : x = due[tq[i]] /\ y = due[tq[j]]
      OBVIOUS
    <3>2. tq[i] # tq[j] /\ x + Half <= y + Half /\ x \in Int /\ y \in Int
      BY <2>2, <2>4, <2>5, <3>1 DEF OrderedBy
    <3>3. pr[tq[i]] = (x - PERIOD) + Half /\ pr[tq[j]] = (y - PERIOD) + Half
      BY <2>4, <3>1
    <3>. QED
      BY <1>0, <3>2, <3>3
  <2>6. OrderedBy(tq, pr)
    BY <2>5 DEF OrderedBy
  <2>7. DueOrder' = pr
    BY <2>1 DEF DueOrder
  <2>. QED
    BY <1>1, <2>6, <2>7
<1>8. Ahead' = Ahead
  BY DEF Ahead
<1>. QED
  BY <1>1, <1>4, <1>5, <1>6, <1>7, <1>8 DEF TimesInv

LEMMA ExpireKeepsTimes ==
    ASSUME EventsInv, TimesInv, Expire \/ EndTick PROVE TimesInv'
<1>0. cur \in Int /\ tq \in Seq(Hdr) /\ PERIOD \in 1 .. Half /\ Half \in Nat \ {0} /\ TimeTypeOK
  BY Words DEF EventsInv, TimeTypeOK
<1>1. ASSUME tq # << >>
      PROVE  /\ Head(tq) \in Hdr /\ Head(tq) \in Range(tq) /\ due[Head(tq)] \in Int
             /\ Tail(tq) \in Seq(Hdr) /\ Range(Tail(tq)) = Range(tq) \ {Head(tq)}
             /\ OrderedBy(Tail(tq), DueOrder)
             /\ Reached(cb[Head(tq)].time) <=> due[Head(tq)] <= 0
  <2>1. /\ Head(tq) \in Hdr /\ Head(tq) \in Range(tq)
        /\ Tail(tq) \in Seq(Hdr)
        /\ Range(Tail(tq)) = Range(tq) \ {Head(tq)}
        /\ OrderedBy(Tail(tq), DueOrder)
    BY <1>0, <1>1, TailKeeps DEF TimesInv
  <2>2. PICK d, t : d = due[Head(tq)] /\ t = cb[Head(tq)].time
    OBVIOUS
  <2>3. d \in Ahead /\ t = (cur + d) % Modulus
    BY <2>1, <2>2 DEF TimesInv
  <2>4. (Reached(t) <=> d <= 0) /\ d \in Int
    BY <1>0, <2>3, WordOf, AheadIsInt
  <2>. QED
    BY <2>1, <2>2, <2>4
<1>2. CASE Expire
  <2>1. PICK h, d : h = Head(tq) /\ d = (IF cb[h].prc = 1 THEN 1 ELSE 0)
    OBVIOUS
  <2>2. /\ h \in Hdr /\ tq' = Tail(tq) /\ due[h] <= 0 /\ due[h] \in Int /\ h \in Range(tq)
        /\ Hand(0, d, h) /\ UNCHANGED <<cur, ticking, cb, due>>
    <3>1. /\ tq # << >> /\ Reached(cb[Head(tq)].time) /\ tq' = Tail(tq)
          /\ Hand(0, IF cb[Head(tq)].prc = 1 THEN 1 ELSE 0, Head(tq))
          /\ UNCHANGED <<cur, ticking, cb, due>>
      BY <1>2 DEF Expire
    <3>2. Hand(0, d, h)
      BY <2>1, <3>1, Zenon
    <3>. QED
      BY <1>1, <2>1, <3>1, <3>2
  <2>3. tq' \in Seq(Hdr) /\ Range(tq') = Range(tq) \ {h} /\ OrderedBy(tq', DueOrder)
    BY <1>1, <1>2, <2>1 DEF Expire
  <2>4. \A e \in Core : \A g \in Hdr \ {h} : g \in Range(hq'[e]) => g \in Range(hq[e])
    <3>1. 0 \in Core /\ d \in Core /\ h \in Hdr \ Range(hq[d])
      BY <2>1, <2>2 DEF Core, EventsInv
    <3>2. /\ hq' \in [Core -> Seq(Hdr)] /\ \A e \in Core : OrderedBy(hq'[e], Unranked)
          /\ Range(hq'[d]) = Range(hq[d]) \cup {h}
          /\ \A e \in Core \ {d} : hq'[e] = hq[e]
          /\ active' \in [Core -> BOOLEAN] /\ request' \in [Core -> BOOLEAN]
          /\ at' \in [Core -> {"out", "tick", "drain", "body"}]
      BY <2>2, <3>1, HandedEvent
    <3>. QED
      BY <3>2
  <2>5. due' \in [Hdr -> Int] /\ due'[h] \in Ahead /\ due'[h] <= PERIOD
    <3>1. due[h] <= PERIOD
      BY <1>0, <2>2
    <3>. QED
      BY <1>0, <2>2, <3>1 DEF TimeTypeOK, TimesInv
  <2>6. h \in Cyc /\ (cb[h].sta \/ cb[h].phs) => cb[h].time = (cur + due[h]) % Modulus
    BY <2>2 DEF TimesInv
  <2>7. OnlyTimeOf(h)
    BY <2>2, <2>3, <2>4, <2>5, <2>6 DEF OnlyTimeOf
  <2>. QED
    BY <2>2, <2>3, <2>7, LeavesInTime
<1>3. CASE EndTick
  <2>1. UNCHANGED <<cur, tq, hq, cb, due>> /\ (tq # << >> => ~Reached(cb[Head(tq)].time))
    BY <1>3 DEF EndTick
  <2>2. \A h \in Range(tq) : due[h] > 0
    <3>1. ASSUME NEW h \in Range(tq) PROVE due[h] > 0
      <4>1. PICK i \in 1 .. Len(tq) : tq[i] = h
        BY <1>0, InRange
      <4>2. tq # << >> /\ Head(tq) = tq[1] /\ 1 \in DOMAIN tq /\ i \in DOMAIN tq
        BY <1>0, <4>1
      <4>3. PICK x, y : x = due[tq[1]] /\ y = due[h]
        OBVIOUS
      <4>4. x > 0 /\ x \in Int
        BY <1>1, <2>1, <4>2, <4>3
      <4>5. tq[1] \in Hdr /\ h \in Hdr
        BY <1>0, <4>1, <4>2
      <4>6. y \in Int
        BY <1>0, <4>3, <4>5 DEF TimeTypeOK
      <4>7. DueOrder[tq[1]] = x + Half /\ DueOrder[h] = y + Half
        BY <4>3, <4>5 DEF DueOrder
      <4>8. i = 1 \/ 1 < i
        BY <4>1
      <4>9. x <= y
        <5>1. CASE i = 1
          BY <4>1, <4>3, <4>4, <5>1
        <5>2. CASE 1 < i
          <6>1. DueOrder[tq[1]] <= DueOrder[tq[i]]
            BY <4>2, <5>2 DEF TimesInv, OrderedBy
          <6>. QED
            BY <1>0, <4>1, <4>4, <4>6, <4>7, <6>1
        <5>. QED
          BY <4>8, <5>1, <5>2
      <4>. QED
        BY <4>3, <4>4, <4>6, <4>9
    <3>. QED
      BY <3>1
  <2>3. DueOrder' = DueOrder /\ Ahead' = Ahead
    BY <2>1 DEF DueOrder, Ahead
  <2>. QED
    BY <2>1, <2>2, <2>3 DEF TimesInv
<1>. QED
  BY <1>2, <1>3

LEMMA HandlersKeepTimes ==
    ASSUME ShortIntervals, EventsInv, TimesInv, NEW c \in Core,
           TakeRequest(c) \/ Start(c) \/ Resume(c) \/ EndDrain(c)
    PROVE  TimesInv'
<1>0. /\ TimeTypeOK /\ 0 \in Core /\ 1 \in Core /\ Cyc \subseteq Hdr
      /\ tq \in Seq(Hdr) /\ cur \in Int /\ Half \in Nat \ {0} /\ PERIOD \in 1 .. Half
  BY Words DEF EventsInv, Core, Hdr, TimeTypeOK
<1>1. CASE TakeRequest(c) \/ Resume(c) \/ EndDrain(c)
  <2>1. UNCHANGED <<cur, tq, hq, cb, due, ticking>>
    BY <1>1 DEF TakeRequest, Resume, EndDrain
  <2>2. DueOrder' = DueOrder /\ Ahead' = Ahead
    BY <2>1 DEF DueOrder, Ahead
  <2>. QED
    BY <2>1, <2>2 DEF TimesInv
<1>2. CASE Start(c)
  <2>1. PICK h : h = Head(hq[c])
    OBVIOUS
  <2>2. /\ h \in Hdr /\ h \in Range(hq[c]) /\ Range(Tail(hq[c])) = Range(hq[c]) \ {h}
    <3>1. hq[c] \in Seq(Hdr) /\ hq[c] # << >> /\ OrderedBy(hq[c], Unranked)
      BY <1>0, <1>2 DEF Start, EventsInv, TimeTypeOK
    <3>. QED
      BY <2>1, <3>1, TailKeeps
  <2>3. /\ hq'[c] = Tail(hq[c]) /\ \A e \in Core \ {c} : hq'[e] = hq[e]
        /\ UNCHANGED <<cur, ticking>>
    BY <1>0, <1>2 DEF Start, TimeTypeOK
  <2>4. /\ \A g \in Hdr \ {h}, e \in Core : g \in Range(hq'[e]) => g \in Range(hq[e])
        /\ \A e \in Core : h \notin Range(hq'[e])
    <3>1. \A e \in Core \ {c} : h \notin Range(hq[e])
      BY <1>0, <2>2 DEF EventsInv, Core
    <3>. QED
      BY <2>2, <2>3, <3>1
  <2>5. /\ h \notin Range(tq) /\ cb[h].sta /\ (h \in Cyc => cb[h].tim \in Reltim \ {0})
    <3>1. c = 0 \/ c = 1
      BY DEF Core
    <3>. QED
      BY <2>2, <3>1 DEF EventsInv
  <2>6. CASE h \in Cyc
    <3>1. PICK t, n : t = NextTime(h) /\ n = NextDue(h, 1)
      OBVIOUS
    <3>2. /\ cb' = [cb EXCEPT ![h].time = t] /\ tq' = Enqueued(tq, h, t)
          /\ due' = [due EXCEPT ![h] = n]
      BY <1>2, <2>1, <2>6, <3>1 DEF Start
    <3>3. n \in 1 .. Half /\ t = (cur + n) % Modulus
      <4>1. due[h] \in Ahead /\ due[h] <= PERIOD /\ cb[h].time = (cur + due[h]) % Modulus
        BY <2>2, <2>5, <2>6 DEF TimesInv
      <4>. QED
        BY <1>0, <2>2, <2>5, <2>6, <3>1, <4>1, NextAgrees
    <3>4. t \in 0 .. Modulus - 1 /\ n \in Int /\ n \in Ahead
      <4>1. t \in 0 .. Modulus - 1
        BY <1>0, <2>2, <2>5, <2>6, <3>1, NextIsTime
      <4>2. n \in Int /\ n \in Ahead
        BY <1>0, <3>3 DEF Ahead
      <4>. QED
        BY <4>1, <4>2
    <3>5. cb'[h].time = t /\ \A g \in Hdr \ {h} : cb'[g] = cb[g]
      BY <1>0, <2>2, <3>2, <3>4, TimesBlock
    <3>6. due' \in [Hdr -> Int] /\ due'[h] = n /\ \A g \in Hdr \ {h} : due'[g] = due[g]
      BY <1>0, <2>2, <3>2, <3>4 DEF TimeTypeOK
    <3>7. /\ Enqueued(tq, h, t) \in Seq(Hdr)
          /\ Range(Enqueued(tq, h, t)) = Range(tq) \cup {h}
          /\ OrderedBy(Enqueued(tq, h, t), Unranked)
      <4>1. tq \in Seq(Hdr) /\ h \in Hdr \ Range(tq) /\ OrderedBy(tq, Unranked)
        BY <1>0, <2>2, <2>5 DEF EventsInv
      <4>. QED
        BY <4>1, EnqueuedKeeps
    <3>8. OnlyTimeOf(h)
      BY <2>3, <2>4, <3>2, <3>3, <3>4, <3>5, <3>6, <3>7 DEF OnlyTimeOf
    <3>9. OrderedBy(tq, DueOrder) /\ Range(tq) \subseteq Range(tq) \ {h}
      BY <2>5 DEF TimesInv
    <3>10. due'[h] \in 1 .. Half /\ t = (cur + due'[h]) % Modulus
      BY <3>3, <3>6
    <3>. QED
      BY <1>0, <2>2, <3>2, <3>5, <3>8, <3>9, <3>10, EntersInTime
  <2>7. CASE h \notin Cyc
    <3>1. /\ cb' = [cb EXCEPT ![h].sta = FALSE] /\ due' = [due EXCEPT ![h] = 0] /\ tq' = tq
      BY <1>2, <2>1, <2>7 DEF Start
    <3>2. \A g \in Hdr \ {h} : cb'[g] = cb[g]
      BY <1>0, <2>2, <3>1, StopsBlock
    <3>3. due' \in [Hdr -> Int] /\ due'[h] = 0 /\ \A g \in Hdr \ {h} : due'[g] = due[g]
      BY <1>0, <2>2, <3>1 DEF TimeTypeOK
    <3>4. 0 \in Ahead
      BY <1>0 DEF Ahead
    <3>5. OnlyTimeOf(h)
      BY <1>0, <2>3, <2>4, <2>7, <3>1, <3>2, <3>3, <3>4 DEF OnlyTimeOf
    <3>6. OrderedBy(tq', DueOrder) /\ h \notin Range(tq')
      BY <2>5, <3>1 DEF TimesInv
    <3>. QED
      BY <2>2, <3>5, <3>6, LeavesInTime
  <2>. QED
    BY <2>6, <2>7
<1>. QED
  BY <1>1, <1>2

LEMMA StopsKeepTimes ==
    ASSUME EventsInv, TimesInv, NEW h \in Hdr, Stopped(h), UNCHANGED <<cur, ticking>>,
           NEW d \in Ahead, due' = [due EXCEPT ![h] = d], \A g \in Hdr \ {h} : cb'[g] = cb[g],
           h \in Cyc /\ (cb'[h].sta \/ cb'[h].phs) => cb'[h].time = (cur + d) % Modulus
    PROVE  TimesInv'
<1>1. /\ tq' \in Seq(Hdr) /\ hq' \in [Core -> Seq(Hdr)]
      /\ OrderedBy(tq', Unranked) /\ \A c \in Core : OrderedBy(hq'[c], Unranked)
      /\ Range(tq') = Range(tq) \ {h} /\ \A c \in Core : Range(hq'[c]) = Range(hq[c]) \ {h}
  BY StoppedEvent
<1>2. due' \in [Hdr -> Int] /\ due'[h] = d /\ \A g \in Hdr \ {h} : due'[g] = due[g]
  BY AheadIsInt DEF EventsInv, TimeTypeOK
<1>3. OnlyTimeOf(h)
  BY <1>1, <1>2 DEF OnlyTimeOf
<1>4. OrderedBy(tq', DueOrder)
  <2>1. tq \in Seq(Hdr) /\ OrderedBy(tq, DueOrder) /\ tq' = Dequeued(tq, h)
    BY DEF EventsInv, TimeTypeOK, TimesInv, Stopped
  <2>. QED
    BY <2>1, DequeuedKeeps
<1>. QED
  BY <1>1, <1>3, <1>4, LeavesInTime

LEMMA RegistersInTime ==
    ASSUME EventsInv, TimesInv, NEW h \in Hdr, NEW d \in 1 .. Half, Registered(h, d),
           UNCHANGED <<cur, ticking>>, due' = [due EXCEPT ![h] = d],
           \A g \in Hdr \ {h} : cb'[g] = cb[g], cb'[h].time = Later(cur, d)
    PROVE  TimesInv'
<1>0. d \in Ahead /\ d \in Int
  BY Words DEF Ahead
<1>1. /\ tq' \in Seq(Hdr) /\ hq' \in [Core -> Seq(Hdr)]
      /\ OrderedBy(tq', Unranked) /\ \A c \in Core : OrderedBy(hq'[c], Unranked)
      /\ Range(tq') = Range(tq) \cup {h} /\ \A c \in Core : Range(hq'[c]) = Range(hq[c]) \ {h}
  BY RegisteredEvent
<1>2. due' \in [Hdr -> Int] /\ due'[h] = d /\ \A g \in Hdr \ {h} : due'[g] = due[g]
  BY <1>0 DEF EventsInv, TimeTypeOK
<1>3. PICK t : t = Later(cur, d)
  OBVIOUS
<1>4. t = (cur + due'[h]) % Modulus /\ cb'[h].time = t
  BY <1>2, <1>3 DEF Later
<1>5. OnlyTimeOf(h)
  BY <1>0, <1>1, <1>2, <1>4 DEF OnlyTimeOf
<1>6. PICK q : q = Dequeued(tq, h)
  OBVIOUS
<1>7. q \in Seq(Hdr) /\ Range(q) \subseteq Range(tq) \ {h} /\ OrderedBy(q, DueOrder)
  <2>1. tq \in Seq(Hdr) /\ OrderedBy(tq, DueOrder)
    BY DEF EventsInv, TimeTypeOK, TimesInv
  <2>. QED
    BY <1>6, <2>1, DequeuedKeeps
<1>8. tq' = Enqueued(q, h, t) /\ due'[h] \in 1 .. Half
  BY <1>2, <1>3, <1>6 DEF Registered
<1>. QED
  BY <1>4, <1>5, <1>7, <1>8, EntersInTime

LEMMA CallsKeepTimes ==
    ASSUME ShortIntervals, EventsInv, TimesInv, NEW c \in Core,
           \/ \E h \in Cyc : tk_sta_cyc(c, h)
           \/ \E h \in Cyc, phs \in BOOLEAN, prc \in Assprc, first \in Reltim, tim \in Reltim \ {0} :
                tk_cre_cyc(c, h, phs, prc, first, tim)
           \/ \E h \in Alm, prc \in Assprc : tk_cre_alm(c, h, prc)
           \/ \E h \in Alm, tim \in Reltim : tk_sta_alm(c, h, tim)
           \/ \E h \in Hdr : Stop(c, h) \/ Delete(c, h)
    PROVE  TimesInv'
<1>0. /\ TimeTypeOK /\ Cyc \subseteq Hdr /\ Alm \subseteq Hdr /\ cb \in [Hdr -> Block]
      /\ tq \in Seq(Hdr) /\ cur \in Int /\ Half \in Nat \ {0} /\ PERIOD \in 1 .. Half
  BY Words, Blocks DEF EventsInv, Hdr, TimeTypeOK
<1>a. 0 \in Ahead /\ \A n \in 1 .. Half : n \in Ahead
  BY <1>0 DEF Ahead
<1>b. \A r \in Reltim : r + PERIOD \in 1 .. Half /\ PERIOD + r \in 1 .. Half /\ PERIOD + r = r + PERIOD
  <2>1. \A r \in Reltim : r \in Nat /\ r + PERIOD <= Half
    BY IntervalIsTime DEF ShortIntervals
  <2>. QED
    BY <1>0, <2>1
<1>c. \A h \in Hdr : due[h] \in Ahead
  BY DEF TimesInv
<1>1. ASSUME NEW h \in Hdr, Stop(c, h) \/ Delete(c, h) PROVE TimesInv'
  <2>1. Stopped(h) /\ UNCHANGED <<cur, ticking>>
    BY <1>1 DEF Stop, Delete, Calls
  <2>2. CASE Stop(c, h)
    <3>1. PICK d : d = IF cb[h].phs THEN due[h] ELSE 0
      OBVIOUS
    <3>2. d \in Ahead /\ due' = [due EXCEPT ![h] = d] /\ cb' = [cb EXCEPT ![h].sta = FALSE]
      BY <1>0, <1>a, <1>c, <2>2, <3>1 DEF Stop, TimeTypeOK
    <3>3. /\ cb'[h].time = cb[h].time /\ ~cb'[h].sta /\ (cb'[h].phs <=> cb[h].phs)
          /\ \A g \in Hdr \ {h} : cb'[g] = cb[g]
      BY <1>0, <3>2, StopsBlock
    <3>4. h \in Cyc /\ (cb'[h].sta \/ cb'[h].phs) => cb'[h].time = (cur + d) % Modulus
      BY <3>1, <3>3 DEF TimesInv
    <3>. QED
      BY <2>1, <3>2, <3>3, <3>4, StopsKeepTimes
  <2>3. CASE Delete(c, h)
    <3>1. due' = [due EXCEPT ![h] = 0] /\ cb' = [cb EXCEPT ![h] = NoBlock]
      BY <2>3 DEF Delete
    <3>2. cb'[h] = NoBlock /\ \A g \in Hdr \ {h} : cb'[g] = cb[g]
      BY <1>0, <3>1
    <3>3. ~NoBlock.sta /\ ~NoBlock.phs
      BY Zenon DEF NoBlock
    <3>4. ~(h \in Cyc /\ (cb'[h].sta \/ cb'[h].phs))
      BY <3>2, <3>3
    <3>. QED
      BY <1>a, <2>1, <3>1, <3>2, <3>4, StopsKeepTimes
  <2>. QED
    BY <1>1, <2>2, <2>3
<1>2. ASSUME NEW h \in Hdr, ~cb[h].sta, UNCHANGED <<cur, ticking, tq, hq>>,
             NEW d \in Ahead, due' = [due EXCEPT ![h] = d], \A g \in Hdr \ {h} : cb'[g] = cb[g],
             h \in Cyc /\ (cb'[h].sta \/ cb'[h].phs) => cb'[h].time = (cur + d) % Modulus
      PROVE  TimesInv'
  <2>1. h \notin Range(tq) /\ \A e \in Core : h \notin Range(hq[e])
    BY <1>2, GoodBlocks
  <2>2. due' \in [Hdr -> Int] /\ due'[h] = d /\ \A g \in Hdr \ {h} : due'[g] = due[g]
    BY <1>0, <1>2, AheadIsInt DEF TimeTypeOK
  <2>3. OnlyTimeOf(h)
    BY <1>0, <1>2, <2>1, <2>2 DEF OnlyTimeOf
  <2>4. h \notin Range(tq') /\ OrderedBy(tq', DueOrder)
    BY <1>2, <2>1 DEF TimesInv
  <2>. QED
    BY <1>2, <2>3, <2>4, LeavesInTime
<1>3. ASSUME NEW h \in Alm, NEW prc, tk_cre_alm(c, h, prc) PROVE TimesInv'
  <2>1. /\ h \in Hdr /\ h \notin Cyc /\ ~cb[h].sta
    BY <1>0, <1>3, TimeAssumption, GoodBlocks DEF tk_cre_alm
  <2>2. UNCHANGED <<cur, ticking, tq, hq, due>> /\ \A g \in Hdr \ {h} : cb'[g] = cb[g]
    BY <1>0, <1>3 DEF tk_cre_alm, Calls
  <2>3. due' = [due EXCEPT ![h] = due[h]]
    BY <1>0, <2>2 DEF TimeTypeOK
  <2>. QED
    BY <1>2, <1>c, <2>1, <2>2, <2>3
<1>4. ASSUME NEW h \in Alm, NEW tim \in Reltim, tk_sta_alm(c, h, tim) PROVE TimesInv'
  <2>0. h \in Hdr /\ h \notin Cyc /\ UNCHANGED <<cur, ticking>> /\ tim + PERIOD \in 1 .. Half
    BY <1>0, <1>4, <1>b, TimeAssumption DEF tk_sta_alm, Calls
  <2>1. CASE /\ Registered(h, tim + PERIOD)
             /\ cb' = [cb EXCEPT ![h].sta = TRUE, ![h].time = Later(cur, tim + PERIOD)]
             /\ due' = [due EXCEPT ![h] = tim + PERIOD]
    <3>1. PICK t : t = Later(cur, tim + PERIOD)
      OBVIOUS
    <3>2. t \in 0 .. Modulus - 1
      BY <1>0, <2>0, <3>1, LaterIsWord
    <3>3. cb' = [cb EXCEPT ![h].sta = TRUE, ![h].time = t]
      BY <2>1, <3>1
    <3>4. cb'[h].time = t /\ \A g \in Hdr \ {h} : cb'[g] = cb[g]
      BY <1>0, <2>0, <3>2, <3>3, StartsBlock
    <3>. QED
      BY <2>0, <2>1, <3>1, <3>4, RegistersInTime
  <2>2. CASE /\ Remote(c, cb[h].prc)
             /\ hq' = [[d \in Core |-> Dequeued(hq[d], h)] EXCEPT ![cb[h].prc] = Append(@, h)]
             /\ tq' = Dequeued(tq, h)
             /\ cb' = [cb EXCEPT ![h].sta = TRUE]
             /\ due' = [due EXCEPT ![h] = 0]
    <3>1. PICK p : p = cb[h].prc
      OBVIOUS
    <3>2. p \in Core
      BY <2>2, <3>1 DEF Remote
    <3>3. \A e \in Core : /\ hq[e] \in Seq(Hdr) /\ Dequeued(hq[e], h) \in Seq(Hdr)
                          /\ Range(Dequeued(hq[e], h)) = Range(hq[e]) \ {h}
                          /\ OrderedBy(Dequeued(hq[e], h), Unranked)
      <4>1. \A e \in Core : hq[e] \in Seq(Hdr) /\ OrderedBy(hq[e], Unranked)
        BY DEF EventsInv, TimeTypeOK
      <4>. QED
        BY <2>0, <4>1, DequeuedKeeps
    <3>4. /\ \A e \in Core \ {p} : hq'[e] = Dequeued(hq[e], h)
          /\ hq'[p] = Append(Dequeued(hq[p], h), h)
      BY <2>2, <3>1, <3>2
    <3>5. /\ Append(Dequeued(hq[p], h), h) \in Seq(Hdr)
          /\ Range(Append(Dequeued(hq[p], h), h)) = Range(Dequeued(hq[p], h)) \cup {h}
          /\ OrderedBy(Append(Dequeued(hq[p], h), h), Unranked)
      <4>1. Dequeued(hq[p], h) \in Seq(Hdr) /\ h \in Hdr \ Range(Dequeued(hq[p], h)) /\ OrderedBy(Dequeued(hq[p], h), Unranked)
        BY <2>0, <3>2, <3>3
      <4>. QED
        BY <4>1, AppendedKeeps
    <3>6. \A g \in Hdr \ {h}, e \in Core : g \in Range(hq'[e]) => g \in Range(hq[e])
      BY <3>2, <3>3, <3>4, <3>5
    <3>7. tq' \in Seq(Hdr) /\ Range(tq') = Range(tq) \ {h} /\ OrderedBy(tq', DueOrder)
      <4>1. OrderedBy(tq, DueOrder)
        BY DEF TimesInv
      <4>. QED
        BY <1>0, <2>0, <2>2, <4>1, DequeuedKeeps
    <3>8. \A g \in Hdr \ {h} : cb'[g] = cb[g]
      BY <1>0, <2>2
    <3>9. due' \in [Hdr -> Int] /\ due'[h] = 0 /\ \A g \in Hdr \ {h} : due'[g] = due[g]
      BY <1>0, <2>0, <2>2 DEF TimeTypeOK
    <3>10. OnlyTimeOf(h)
      BY <1>a, <2>0, <3>6, <3>7, <3>8, <3>9 DEF OnlyTimeOf
    <3>. QED
      BY <2>0, <3>7, <3>10, LeavesInTime
  <2>3. CASE Stopped(h) /\ cb' = [cb EXCEPT ![h].sta = FALSE] /\ due' = [due EXCEPT ![h] = 0]
    <3>1. \A g \in Hdr \ {h} : cb'[g] = cb[g]
      BY <1>0, <2>3
    <3>. QED
      BY <1>a, <2>0, <2>3, <3>1, StopsKeepTimes
  <2>. QED
    BY <1>4, <2>1, <2>2, <2>3 DEF tk_sta_alm
<1>5. ASSUME NEW h \in Cyc, tk_sta_cyc(c, h) PROVE TimesInv'
  <2>0. h \in Hdr /\ cb[h].made /\ UNCHANGED <<cur, ticking>>
    BY <1>0, <1>5 DEF tk_sta_cyc, Calls
  <2>a. cb[h].tim \in Reltim \ {0}
    BY <2>0 DEF EventsInv
  <2>1. CASE UNCHANGED <<tq, hq, cb, due>>
    <3>1. DueOrder' = DueOrder /\ Ahead' = Ahead
      BY <2>1 DEF DueOrder, Ahead
    <3>. QED
      BY <2>0, <2>1, <3>1 DEF TimesInv
  <2>2. CASE /\ cb[h].phs /\ ~cb[h].sta
             /\ tq' = Enqueued(tq, h, IF Reached(cb[h].time) THEN NextTime(h) ELSE cb[h].time)
             /\ cb' = [cb EXCEPT ![h].sta = TRUE,
                                ![h].time = IF Reached(cb[h].time) THEN NextTime(h) ELSE cb[h].time]
             /\ due' = [due EXCEPT ![h] = NextDue(h, 0)]
             /\ UNCHANGED hq
    <3>1. PICK t : t = IF Reached(cb[h].time) THEN NextTime(h) ELSE cb[h].time
      OBVIOUS
    <3>2. PICK n : n = NextDue(h, 0)
      OBVIOUS
    <3>3. cb[h].time = (cur + due[h]) % Modulus /\ due[h] \in Ahead /\ due[h] \in Int
      BY <1>c, <2>0, <2>2, AheadIsInt DEF TimesInv
    <3>4. Reached(cb[h].time) <=> due[h] <= 0
      <4>1. PICK w, d : w = cb[h].time /\ d = due[h]
        OBVIOUS
      <4>2. d \in Ahead /\ w = (cur + d) % Modulus
        BY <3>3, <4>1
      <4>3. Reached(w) <=> d <= 0
        BY <1>0, <4>2, WordOf
      <4>. QED
        BY <4>1, <4>3
    <3>5. n \in 1 .. Half /\ t = (cur + n) % Modulus
      <4>1. CASE due[h] <= 0
        <5>1. due[h] <= PERIOD
          BY <1>0, <3>3, <4>1
        <5>2. NextDue(h, 0) \in 1 .. Half /\ NextTime(h) = (cur + NextDue(h, 0)) % Modulus
          BY <1>0, <2>0, <2>a, <3>3, <4>1, <5>1, NextAgrees
        <5>. QED
          BY <3>1, <3>2, <3>4, <4>1, <5>2
      <4>2. CASE due[h] > 0
        <5>1. cb[h].tim \in Int
          BY <2>a, IntervalIsTime
        <5>2. due[h] + 0 * cb[h].tim = due[h]
          BY <3>3, <5>1
        <5>3. n = due[h]
          BY <3>2, <4>2, <5>2 DEF NextDue
        <5>4. t = cb[h].time
          BY <3>1, <3>3, <3>4, <4>2
        <5>5. due[h] \in 1 .. Half
          BY <1>0, <3>3, <4>2 DEF Ahead
        <5>. QED
          BY <3>3, <5>3, <5>4, <5>5
      <4>. QED
        BY <3>3, <4>1, <4>2
    <3>6. t \in 0 .. Modulus - 1 /\ n \in Int /\ n \in Ahead
      <4>1. n \in Int /\ n \in Ahead
        BY <1>0, <1>a, <3>5
      <4>. QED
        BY <1>0, <3>5, <4>1, WordOf
    <3>7. cb' = [cb EXCEPT ![h].sta = TRUE, ![h].time = t] /\ tq' = Enqueued(tq, h, t)
      BY <2>2, <3>1
    <3>8. cb'[h].time = t /\ \A g \in Hdr \ {h} : cb'[g] = cb[g]
      BY <1>0, <2>0, <3>6, <3>7, StartsBlock
    <3>9. due' \in [Hdr -> Int] /\ due'[h] = n /\ \A g \in Hdr \ {h} : due'[g] = due[g]
      BY <1>0, <2>0, <2>2, <3>2, <3>6 DEF TimeTypeOK
    <3>10. h \notin Range(tq) /\ \A e \in Core : h \notin Range(hq[e])
      BY <2>0, <2>2, GoodBlocks
    <3>11. /\ Enqueued(tq, h, t) \in Seq(Hdr)
           /\ Range(Enqueued(tq, h, t)) = Range(tq) \cup {h}
           /\ OrderedBy(Enqueued(tq, h, t), Unranked)
      <4>1. tq \in Seq(Hdr) /\ h \in Hdr \ Range(tq) /\ OrderedBy(tq, Unranked)
        BY <1>0, <2>0, <3>10 DEF EventsInv
      <4>. QED
        BY <4>1, EnqueuedKeeps
    <3>12. OnlyTimeOf(h)
      BY <2>0, <2>2, <3>5, <3>6, <3>7, <3>8, <3>9, <3>10, <3>11 DEF OnlyTimeOf
    <3>13. OrderedBy(tq, DueOrder) /\ Range(tq) \subseteq Range(tq) \ {h}
      BY <3>10 DEF TimesInv
    <3>14. due'[h] \in 1 .. Half /\ t = (cur + due'[h]) % Modulus
      BY <3>5, <3>9
    <3>. QED
      BY <1>0, <2>0, <3>7, <3>8, <3>12, <3>13, <3>14, EntersInTime
  <2>3. CASE /\ Registered(h, cb[h].tim + PERIOD)
             /\ cb' = [cb EXCEPT ![h].sta = TRUE, ![h].time = Later(cur, cb[h].tim + PERIOD)]
             /\ due' = [due EXCEPT ![h] = cb[h].tim + PERIOD]
    <3>1. PICK d, t : d = cb[h].tim + PERIOD /\ t = Later(cur, d)
      OBVIOUS
    <3>2. d \in 1 .. Half /\ d \in Int
      BY <1>b, <2>a, <3>1
    <3>3. t \in 0 .. Modulus - 1
      BY <1>0, <3>1, <3>2, LaterIsWord
    <3>4. /\ cb' = [cb EXCEPT ![h].sta = TRUE, ![h].time = t]
          /\ Registered(h, d) /\ due' = [due EXCEPT ![h] = d]
      BY <2>3, <3>1
    <3>5. cb'[h].time = t /\ \A g \in Hdr \ {h} : cb'[g] = cb[g]
      BY <1>0, <2>0, <3>3, <3>4, StartsBlock
    <3>6. cb'[h].time = Later(cur, d)
      BY <3>1, <3>5
    <3>. QED
      BY <2>0, <3>2, <3>4, <3>5, <3>6, RegistersInTime
  <2>. QED
    BY <1>5, <2>1, <2>2, <2>3 DEF tk_sta_cyc
<1>6. ASSUME NEW h \in Cyc, NEW phs \in BOOLEAN, NEW prc \in Assprc, NEW first \in Reltim,
             NEW tim \in Reltim \ {0}, tk_cre_cyc(c, h, phs, prc, first, tim)
      PROVE  TimesInv'
  <2>0. h \in Hdr /\ ~cb[h].made /\ ~cb[h].sta /\ UNCHANGED <<cur, ticking>>
    BY <1>0, <1>6, GoodBlocks DEF tk_cre_cyc, Calls
  <2>a. h \notin Range(tq) /\ \A e \in Core : h \notin Range(hq[e])
    BY <2>0, GoodBlocks
  <2>b. first + PERIOD \in 1 .. Half /\ PERIOD + tim \in 1 .. Half
    BY <1>b
  <2>c. PICK b : b = [made |-> TRUE, sta |-> TRUE, time |-> Later(cur, first + PERIOD),
                      tim |-> tim, phs |-> phs, prc |-> prc]
    OBVIOUS
  <2>d. b.time = Later(cur, first + PERIOD) /\ (b.phs <=> phs)
    BY <2>c, Zenon
  <2>1. CASE /\ Registered(h, first + PERIOD) /\ cb' = [cb EXCEPT ![h] = b]
             /\ due' = [due EXCEPT ![h] = first + PERIOD]
    <3>1. cb'[h] = b /\ \A g \in Hdr \ {h} : cb'[g] = cb[g]
      BY <1>0, <2>0, <2>1
    <3>2. cb'[h].time = Later(cur, first + PERIOD)
      BY <2>d, <3>1
    <3>. QED
      BY <2>0, <2>b, <2>1, <3>1, <3>2, RegistersInTime
  <2>2. CASE /\ first = 0 /\ Remote(c, prc) /\ Hand(c, prc, h) /\ cb' = [cb EXCEPT ![h] = b]
             /\ due' = [due EXCEPT ![h] = PERIOD] /\ UNCHANGED tq
    <3>1. cb'[h] = b /\ \A g \in Hdr \ {h} : cb'[g] = cb[g]
      BY <1>0, <2>0, <2>2
    <3>2. prc \in Core /\ h \in Hdr \ Range(hq[prc])
      BY <2>0, <2>2, <2>a DEF Remote
    <3>3. /\ hq' \in [Core -> Seq(Hdr)] /\ \A e \in Core : OrderedBy(hq'[e], Unranked)
          /\ Range(hq'[prc]) = Range(hq[prc]) \cup {h}
          /\ \A e \in Core \ {prc} : hq'[e] = hq[e]
          /\ active' \in [Core -> BOOLEAN] /\ request' \in [Core -> BOOLEAN]
          /\ at' \in [Core -> {"out", "tick", "drain", "body"}]
      BY <2>2, <3>2, HandedEvent
    <3>4. \A g \in Hdr \ {h}, e \in Core : g \in Range(hq'[e]) => g \in Range(hq[e])
      BY <3>2, <3>3
    <3>5. due' \in [Hdr -> Int] /\ due'[h] = PERIOD /\ \A g \in Hdr \ {h} : due'[g] = due[g]
      BY <1>0, <2>0, <2>2 DEF TimeTypeOK
    <3>6. cb'[h].time = (cur + due'[h]) % Modulus
      <4>1. first + PERIOD = PERIOD
        BY <1>0, <2>2
      <4>. QED
        BY <2>d, <3>1, <3>5, <4>1 DEF Later
    <3>7. OnlyTimeOf(h)
      BY <1>0, <1>a, <2>0, <2>2, <3>1, <3>4, <3>5, <3>6 DEF OnlyTimeOf
    <3>8. OrderedBy(tq', DueOrder) /\ h \notin Range(tq')
      BY <2>2, <2>a DEF TimesInv
    <3>. QED
      BY <2>0, <3>7, <3>8, LeavesInTime
  <2>3. CASE /\ Registered(h, PERIOD + tim)
             /\ cb' = [cb EXCEPT ![h] = [b EXCEPT !.time = Later(cur, PERIOD + tim)]]
             /\ due' = [due EXCEPT ![h] = PERIOD + tim]
    <3>1. PICK b2 : b2 = [b EXCEPT !.time = Later(cur, PERIOD + tim)]
      OBVIOUS
    <3>2. b2.time = Later(cur, PERIOD + tim)
      BY <2>c, <3>1
    <3>3. cb'[h] = b2 /\ \A g \in Hdr \ {h} : cb'[g] = cb[g]
      BY <1>0, <2>0, <2>3, <3>1
    <3>4. cb'[h].time = Later(cur, PERIOD + tim)
      BY <3>2, <3>3
    <3>. QED
      BY <2>0, <2>b, <2>3, <3>3, <3>4, RegistersInTime
  <2>4. CASE /\ cb' = [cb EXCEPT ![h] = [b EXCEPT !.sta = FALSE]]
             /\ due' = [due EXCEPT ![h] = IF phs THEN first + PERIOD ELSE 0]
             /\ UNCHANGED <<tq, hq, active, request, at>>
    <3>1. PICK d, b2 : d = (IF phs THEN first + PERIOD ELSE 0) /\ b2 = [b EXCEPT !.sta = FALSE]
      OBVIOUS
    <3>2. b2 = [made |-> TRUE, sta |-> FALSE, time |-> Later(cur, first + PERIOD),
                tim |-> tim, phs |-> phs, prc |-> prc]
      BY <2>c, <3>1
    <3>3. b2.time = Later(cur, first + PERIOD) /\ ~b2.sta /\ (b2.phs <=> phs)
      BY <3>2, Zenon
    <3>4. cb'[h] = b2 /\ \A g \in Hdr \ {h} : cb'[g] = cb[g]
      BY <1>0, <2>0, <2>4, <3>1
    <3>5. d \in Ahead /\ due' = [due EXCEPT ![h] = d]
      BY <1>a, <2>b, <2>4, <3>1
    <3>6. cb'[h].sta \/ cb'[h].phs => cb'[h].time = (cur + d) % Modulus
      BY <3>1, <3>3, <3>4 DEF Later
    <3>. QED
      BY <1>2, <2>0, <2>4, <3>4, <3>5, <3>6
  <2>. QED
    BY <1>6, <2>c, <2>1, <2>2, <2>3, <2>4 DEF tk_cre_cyc
<1>. QED
  BY <1>1, <1>3, <1>4, <1>5, <1>6

LEMMA InitTimes == TimeInit => TimesInv
<1>. SUFFICES ASSUME TimeInit PROVE TimesInv
  OBVIOUS
<1>1. tq = << >> /\ \A c \in Core : hq[c] = << >>
  BY DEF TimeInit
<1>2. Range(<< >>) = {} /\ OrderedBy(<< >>, DueOrder)
  BY DEF Range, OrderedBy
<1>3. 0 \in Ahead
  BY Words DEF Ahead
<1>4. \A h \in Hdr : due[h] = 0 /\ cb[h] = NoBlock
  BY DEF TimeInit
<1>5. ~NoBlock.sta /\ ~NoBlock.phs
  BY Zenon DEF NoBlock
<1>. QED
  BY <1>1, <1>2, <1>3, <1>4, <1>5 DEF TimesInv

LEMMA TimesInvariant ==
    ASSUME ShortIntervals
    PROVE  TimeSpec => []TimesInv
<1>1. EventsInv /\ TimesInv /\ [TimeNext]_timevars => TimesInv'
  <2>. SUFFICES ASSUME EventsInv, TimesInv, [TimeNext]_timevars PROVE TimesInv'
    OBVIOUS
  <2>1. CASE UNCHANGED timevars
    BY <2>1 DEF timevars, TimesInv, DueOrder, Ahead
  <2>2. CASE TimeNext
    BY <2>2, TickKeepsTimes, ExpireKeepsTimes, HandlersKeepTimes, CallsKeepTimes DEF TimeNext
  <2>. QED
    BY <2>1, <2>2
<1>. QED
  BY <1>1, InitTimes, EventsInvariant, PTL DEF TimeSpec

\* timer.c: "start the timer event upon arriving at start time".  Once the tick
\* is over nothing that has come due is left, however often the clock has
\* wrapped around, if no interval is within TIMER_PERIOD of the longest.
THEOREM ArrivalStarts ==
    ASSUME ShortIntervals
    PROVE  TimeSpec => []StartsOnArrival
<1>1. EventsInv /\ TimesInv => StartsOnArrival
  <2>. SUFFICES ASSUME EventsInv, TimesInv, ~ticking, NEW i \in DOMAIN tq PROVE due[tq[i]] > 0
    BY DEF StartsOnArrival
  <2>1. tq \in Seq(Hdr)
    BY DEF EventsInv, TimeTypeOK
  <2>2. tq[i] \in Range(tq)
    BY <2>1, InRange
  <2>. QED
    BY <2>2 DEF TimesInv
<1>. QED
  BY <1>1, EventsInvariant, TimesInvariant, PTL

\* timer.c: the tick hands on no event before its time, under the same
\* condition.
THEOREM TickIsNotEarly ==
    ASSUME ShortIntervals
    PROVE  TimeSpec => NeverEarly
<1>. DEFINE early == at[0] = "tick" => \A h \in Hdr :
         (\E c \in Core : ~Contains(hq[c], h) /\ Contains(hq'[c], h)) => due[h] <= 0
<1>1. EventsInv /\ TimesInv /\ [TimeNext]_timevars => [early]_timevars
  <2>. SUFFICES ASSUME EventsInv, TimesInv, TimeNext, at[0] = "tick", NEW h \in Hdr, NEW c \in Core,
                       ~Contains(hq[c], h), Contains(hq'[c], h)
                PROVE  due[h] <= 0
    OBVIOUS
  <2>0. /\ 0 \in Core /\ cur \in Int /\ tq \in Seq(Hdr) /\ hq \in [Core -> Seq(Hdr)] /\ TimeTypeOK
    BY Words DEF Core, EventsInv, TimeTypeOK
  <2>1. h \notin Range(hq[c])
    BY <2>0, InRange DEF Contains
  <2>2. ~LockFree
    BY <2>0 DEF LockFree
  <2>3. ASSUME UNCHANGED hq PROVE FALSE
    BY <2>3
  <2>4. CASE Expire
    <3>1. PICK g, d : g = Head(tq) /\ d = (IF cb[g].prc = 1 THEN 1 ELSE 0)
      OBVIOUS
    <3>2. /\ tq # << >> /\ Reached(cb[g].time) /\ Hand(0, d, g)
      BY <2>4, <3>1, Zenon DEF Expire
    <3>3. g \in Hdr /\ g \in Range(tq)
      BY <2>0, <3>1, <3>2, TailKeeps DEF TimesInv
    <3>4. due[g] <= 0
      <4>1. PICK n, t : n = due[g] /\ t = cb[g].time
        OBVIOUS
      <4>2. n \in Ahead /\ t = (cur + n) % Modulus
        BY <3>3, <4>1 DEF TimesInv
      <4>3. Reached(t) <=> n <= 0
        BY <2>0, <4>2, WordOf
      <4>. QED
        BY <3>2, <4>1, <4>3
    <3>5. hq' \in [Core -> Seq(Hdr)] /\ Range(hq'[d]) = Range(hq[d]) \cup {g}
          /\ \A e \in Core \ {d} : hq'[e] = hq[e]
      <4>1. d \in Core /\ g \in Hdr \ Range(hq[d])
        BY <3>1, <3>3 DEF Core, EventsInv
      <4>2. /\ hq' \in [Core -> Seq(Hdr)] /\ \A e \in Core : OrderedBy(hq'[e], Unranked)
            /\ Range(hq'[d]) = Range(hq[d]) \cup {g}
            /\ \A e \in Core \ {d} : hq'[e] = hq[e]
            /\ active' \in [Core -> BOOLEAN] /\ request' \in [Core -> BOOLEAN]
            /\ at' \in [Core -> {"out", "tick", "drain", "body"}]
        BY <2>0, <3>2, <4>1, HandedEvent
      <4>. QED
        BY <4>2
    <3>6. h \in Range(hq'[c])
      BY <3>5, InRange DEF Contains
    <3>7. h = g
      BY <2>1, <3>5, <3>6
    <3>. QED
      BY <3>4, <3>7
  <2>5. ASSUME NEW d \in Core, Start(d) PROVE FALSE
    <3>1. hq[d] # << >> /\ hq' = [hq EXCEPT ![d] = Tail(hq[d])]
      BY <2>5 DEF Start
    <3>2. hq[d] \in Seq(Hdr) /\ OrderedBy(hq[d], Unranked)
      BY <2>0 DEF EventsInv
    <3>3. Tail(hq[d]) \in Seq(Hdr) /\ Range(Tail(hq[d])) = Range(hq[d]) \ {Head(hq[d])}
      BY <3>1, <3>2, TailKeeps
    <3>4. \A e \in Core : hq'[e] \in Seq(Hdr) /\ (\A x \in Range(hq'[e]) : x \in Range(hq[e]))
      BY <2>0, <3>1, <3>3
    <3>5. h \in Range(hq'[c])
      BY <3>4, InRange DEF Contains
    <3>. QED
      BY <2>1, <3>4, <3>5
  <2>6. CASE Tick \/ EndTick
    BY <2>3, <2>6 DEF Tick, EndTick
  <2>7. ASSUME NEW d \in Core, TakeRequest(d) \/ Resume(d) \/ EndDrain(d) PROVE FALSE
    BY <2>3, <2>7 DEF TakeRequest, Resume, EndDrain
  <2>8. ASSUME NEW d \in Core, Calls(d) PROVE FALSE
    BY <2>2, <2>8 DEF Calls
  <2>9. ASSUME NEW d \in Core, NEW x, tk_sta_cyc(d, x) \/ Stop(d, x) \/ Delete(d, x) PROVE FALSE
    BY <2>8, <2>9 DEF tk_sta_cyc, Stop, Delete
  <2>10. ASSUME NEW d \in Core, NEW x, NEW y, tk_cre_alm(d, x, y) \/ tk_sta_alm(d, x, y) PROVE FALSE
    BY <2>8, <2>10 DEF tk_cre_alm, tk_sta_alm
  <2>11. ASSUME NEW d \in Core, NEW x, NEW y, NEW z, NEW v, NEW w, tk_cre_cyc(d, x, y, z, v, w) PROVE FALSE
    BY <2>8, <2>11 DEF tk_cre_cyc
  <2>. QED
    BY <2>4, <2>5, <2>6, <2>7, <2>9, <2>10, <2>11 DEF TimeNext
<1>. QED
  BY <1>1, EventsInvariant, TimesInvariant, PTL DEF TimeSpec, NeverEarly
=============================================================================
