---------------------------- MODULE DeviceProofs ----------------------------
(***************************************************************************)
(* Proofs about module DeviceIO, for any number of tasks, descriptors and  *)
(* requests and every set of open modes: a request is in the hands of one  *)
(* task, and the task that closes a descriptor goes on exactly when the    *)
(* last task has left the driver.                                          *)
(*                                                                         *)
(* Neither is inductive.  ReqCB.tskid has to name the task that is in the  *)
(* driver with the request, and only while it is (Taken); a queue holds    *)
(* the requests that name its descriptor (Registered); a task that waits   *)
(* for any request is in the driver alone, which is why abort_cnt is 1     *)
(* for it (Alone); then abort_cnt is the number of tasks in the driver,    *)
(* and the last one of them signals (Counting).  This needs that nobody    *)
(* waits for any request while another task is starting one (~Mixed).      *)
(***************************************************************************)
EXTENDS DeviceIO, QueueFacts

-----------------------------------------------------------------------------
(***************************************************************************)
(* The inductive invariant.                                                *)
(***************************************************************************)
DPoint == {"out", "openfn", "opened", "refused", "execfn", "waitfn", "waitany",
           "abort", "aborting", "abortwait", "aborted", "drain", "drainwait",
           "close", "closefn", "closed"}
Cb == [q : {"free", "open", "closing"}, resid : BOOLEAN, unit : Unit \cup {0},
       mode : SUBSET {"read", "write", "rexcl", "wexcl"}, requestq : Seq(Req),
       waitone : Int, waireqlst : Seq(Req), abort_tskid : Task \cup {None},
       abort_cnt : Int, sem : 0 .. 1]

DevTypes ==
    /\ DOMAIN opncb = Opn /\ \A o \in Opn : opncb[o] \in Cb
    /\ reqcb \in [Req -> [opncb : Opn \cup {None}, tskid : Task \cup {None}]]
    /\ DOMAIN call = Task
    /\ \A t \in Task : call[t] \in [at : DPoint, dd : Opn \cup {None}, reqs : Seq(Req)]

Dd(t)   == call[t].dd
Reqs(t) == call[t].reqs

\* The stages of opening, using and closing a descriptor.
Opens(t)   == call[t].at \in {"openfn", "opened", "refused"}
Using(t)   == call[t].at \in {"execfn", "waitfn", "waitany"}
Asks(t)    == call[t].at \in {"abort", "aborting", "abortwait"}
Counts(t)  == call[t].at \in {"aborting", "abortwait"}
Aborts(t)  == call[t].at \in {"aborting", "abortwait", "aborted"}
Empties(t) == call[t].at \in {"drain", "drainwait", "close"}
Ends(t)    == call[t].at \in {"closefn", "closed"}
Owner(t)   == Opens(t) \/ Asks(t) \/ Aborts(t) \/ Empties(t) \/ Ends(t)
Users(o)   == {t \in Task : Using(t) /\ Dd(t) = o}

\* A descriptor that is being opened or closed belongs to the task that does it.
OwnerHolds ==
    \A t \in Task : Owner(t) =>
      /\ Dd(t) \in Opn /\ ~opncb[Dd(t)].resid
      /\ opncb[Dd(t)].q = IF Ends(t) THEN "closing" ELSE "open"
OneOwner == \A t, u \in Task : Owner(t) /\ Owner(u) /\ Dd(t) = Dd(u) => t = u
HeldIsOpen == \A o \in Opn : opncb[o].resid => opncb[o].q = "open"
Owned == OwnerHolds /\ OneOwner /\ HeldIsOpen

\* ReqCB.tskid is the task that is in the driver with the request; when a
\* descriptor has been aborted nobody is.
UserHolds ==
    \A t \in Task : Using(t) =>
      /\ Dd(t) \in Opn /\ opncb[Dd(t)].q = "open"
      /\ Reqs(t) # << >> /\ (~At(t, "waitany") => Reqs(t) = <<Head(Reqs(t))>>)
UserNamed ==
    \A t \in Task : Using(t) =>
      \A r \in Range(Reqs(t)) : r \in Req /\ reqcb[r].opncb = Dd(t) /\ reqcb[r].tskid = t
NamedUses ==
    \A t \in Task, r \in Req : reqcb[r].tskid = t => Using(t) /\ r \in Range(Reqs(t))
UsersAborted == \A t, u \in Task : Using(t) /\ Owner(u) /\ Dd(t) = Dd(u) => Asks(u)
Taken == UserHolds /\ UserNamed /\ NamedUses /\ UsersAborted

\* The requests of a descriptor are the ones in its queue, once each.
NoOrder == [r \in Req |-> 0]
Once == \A o \in Opn : OrderedBy(opncb[o].requestq, NoOrder)
QueueIsNamed == \A o \in Opn, r \in Req : r \in Range(opncb[o].requestq) <=> reqcb[r].opncb = o
FreeIsEmpty == \A o \in Opn : opncb[o].q = "free" => opncb[o].requestq = << >>
OwnerIsEmpty ==
    \A t \in Task : Opens(t) \/ At(t, "close") \/ Ends(t) => opncb[Dd(t)].requestq = << >>
DrainsNamed ==
    \A t \in Task : At(t, "drainwait") =>
      Reqs(t) = <<Head(Reqs(t))>> /\ Head(Reqs(t)) \in Req /\ reqcb[Head(Reqs(t))].opncb = Dd(t)
Registered == Once /\ QueueIsNamed /\ FreeIsEmpty /\ OwnerIsEmpty /\ DrainsNamed

\* Who waits for any request of a descriptor is alone in the driver with it.
ListKept == \A t \in Task : At(t, "waitany") => opncb[Dd(t)].waireqlst # << >>
ListAlone ==
    \A o \in Opn : opncb[o].waireqlst # << >> =>
      \E t \in Task : At(t, "waitany") /\ Users(o) = {t}
Alone == ListKept /\ ListAlone

\* abort_cnt is the number of tasks that have still to come back, and the
\* semaphore is signalled by the last one.
AborterNamed == \A t \in Task : Aborts(t) => opncb[Dd(t)].abort_tskid = t
NamedAborts ==
    \A t \in Task, o \in Opn : opncb[o].abort_tskid = t => Aborts(t) /\ Dd(t) = o
SemIsAborts ==
    \A o \in Opn : opncb[o].sem # 0 => \E t \in Task : (Aborts(t) \/ Empties(t)) /\ Dd(t) = o
CountIsUsers == \A t \in Task : Counts(t) => opncb[Dd(t)].abort_cnt = Cardinality(Users(Dd(t)))
LastSignals ==
    \A t \in Task : Counts(t) =>
      /\ opncb[Dd(t)].sem # 0 => opncb[Dd(t)].abort_cnt = 0
      /\ At(t, "abortwait") /\ opncb[Dd(t)].abort_cnt = 0 => opncb[Dd(t)].sem # 0
Counting == AborterNamed /\ NamedAborts /\ SemIsAborts /\ CountIsUsers /\ LastSignals

DevInv == DevTypes /\ Owned /\ Taken /\ Registered /\ Alone /\ Counting

-----------------------------------------------------------------------------
(***************************************************************************)
(* Facts about the variables.                                              *)
(***************************************************************************)
\* A task is at one stage at a time.
LEMMA Stages ==
    \A u : /\ Opens(u) \/ Asks(u) \/ Counts(u) \/ Aborts(u) \/ Empties(u) \/ Ends(u) => Owner(u)
           /\ Counts(u) <=> Aborts(u) /\ Asks(u)
           /\ At(u, "waitany") => Using(u)
           /\ At(u, "drainwait") \/ At(u, "close") => Empties(u)
           /\ At(u, "abortwait") => Counts(u)
           /\ Using(u) => ~Owner(u)
           /\ Ends(u) => ~Asks(u) /\ ~Aborts(u) /\ ~Empties(u) /\ ~Opens(u)
           /\ Empties(u) => ~Asks(u) /\ ~Aborts(u) /\ ~Opens(u)
           /\ Opens(u) => ~Asks(u) /\ ~Aborts(u)
           /\ Counts(u) /\ ~At(u, "abortwait") => At(u, "aborting")
BY DEF Opens, Using, Asks, Counts, Aborts, Empties, Ends, Owner, At

\* What the variables can hold.
LEMMA ReqKinds ==
    ASSUME DevTypes
    PROVE  \A r \in Req : /\ reqcb[r].tskid # None => reqcb[r].tskid \in Task
                          /\ reqcb[r].opncb \in Opn \cup {None}
                          /\ reqcb[r] = [opncb |-> reqcb[r].opncb, tskid |-> reqcb[r].tskid]
<1>. HIDE DEF Opn, Req
<1>. SUFFICES ASSUME NEW r \in Req
     PROVE  /\ reqcb[r].tskid \in Task \cup {None}
            /\ reqcb[r].opncb \in Opn \cup {None}
            /\ reqcb[r] = [opncb |-> reqcb[r].opncb, tskid |-> reqcb[r].tskid]
  OBVIOUS
<1>. QED
  BY DEF DevTypes

LEMMA CallKinds ==
    ASSUME DevTypes
    PROVE  \A t \in Task : Dd(t) \in Opn \cup {None} /\ Reqs(t) \in Seq(Req)
BY DEF DevTypes, Dd, Reqs

LEMMA CbKinds ==
    ASSUME DevTypes
    PROVE  \A o \in Opn : /\ opncb[o].abort_tskid # None => opncb[o].abort_tskid \in Task
                          /\ opncb[o].requestq \in Seq(Req)
                          /\ opncb[o].waireqlst \in Seq(Req)
                          /\ opncb[o].abort_cnt \in Int
                          /\ opncb[o].sem \in 0 .. 1
BY DEF DevTypes, Cb

\* A step of t does not move the other tasks.
OthersStay(t) ==
    /\ \A u \in Task \ {t} :
         /\ Opens(u)' <=> Opens(u)
         /\ Using(u)' <=> Using(u)
         /\ Asks(u)' <=> Asks(u)
         /\ Counts(u)' <=> Counts(u)
         /\ Aborts(u)' <=> Aborts(u)
         /\ Empties(u)' <=> Empties(u)
         /\ Ends(u)' <=> Ends(u)
         /\ Owner(u)' <=> Owner(u)
         /\ Dd(u)' = Dd(u) /\ Reqs(u)' = Reqs(u)
         /\ \A p : At(u, p)' <=> At(u, p)
    /\ \A o : Users(o)' = IF Using(t)' /\ Dd(t)' = o THEN Users(o) \cup {t} ELSE Users(o) \ {t}

\* Only the task that makes the step moves.
LEMMA Others ==
    ASSUME NEW t \in Task, \A u \in Task \ {t} : call'[u] = call[u]
    PROVE  OthersStay(t)
BY DEF OthersStay, Opens, Using, Asks, Counts, Aborts, Empties, Ends, Owner, Dd, Reqs, At,
   Users

\* The tasks in the driver can be counted.
LEMMA UsersFinite ==
    ASSUME IsFiniteSet(Task), NEW o
    PROVE  /\ IsFiniteSet(Users(o)) /\ Cardinality(Users(o)) \in Nat
           /\ Cardinality(Users(o)) = 0 <=> Users(o) = {}
<1>1. IsFiniteSet(Users(o))
  BY FS_Subset DEF Users
<1>. QED
  BY <1>1, FS_CardinalityType, FS_EmptySet

-----------------------------------------------------------------------------
(***************************************************************************)
(* Tasks that are back from the driver.                                    *)
(***************************************************************************)
\* What becomes of the descriptors when t is back from the driver of descriptor
\* o with the requests D complete.
Settled(cbs, t, o, D) ==
    /\ DOMAIN cbs = Opn /\ \A x \in Opn : cbs[x] \in Cb
    /\ \A x \in Opn :
         /\ cbs[x].q = opncb[x].q /\ cbs[x].resid = opncb[x].resid
         /\ cbs[x].abort_tskid = opncb[x].abort_tskid
         /\ Range(cbs[x].requestq) = Range(opncb[x].requestq) \ D
         /\ OrderedBy(cbs[x].requestq, NoOrder)
         /\ opncb[x].requestq = << >> => cbs[x].requestq = << >>
         /\ x # o => /\ cbs[x].waireqlst = opncb[x].waireqlst
                     /\ cbs[x].abort_cnt = opncb[x].abort_cnt /\ cbs[x].sem = opncb[x].sem
    /\ cbs[o].waireqlst = IF At(t, "waitany") THEN << >> ELSE opncb[o].waireqlst
    /\ opncb[o].abort_tskid = None =>
         cbs[o].abort_cnt = opncb[o].abort_cnt /\ cbs[o].sem = opncb[o].sem
    /\ opncb[o].abort_tskid # None =>
         /\ cbs[o].abort_cnt = opncb[o].abort_cnt - 1
         /\ cbs[o].sem = IF opncb[o].abort_cnt = 1 THEN 1 ELSE opncb[o].sem

\* The requests of t are in nobody's hands, and those in D are free.
Left(reqs, t, D) ==
    /\ reqs \in [Req -> [opncb : Opn \cup {None}, tskid : Task \cup {None}]]
    /\ \A s \in Req : /\ reqs[s].tskid = IF s \in Range(Reqs(t)) THEN None ELSE reqcb[s].tskid
                      /\ reqs[s].opncb = IF s \in D THEN None ELSE reqcb[s].opncb

CameBack(t, o, D) ==
    /\ Using(t) /\ o = Dd(t) /\ Returns(t)
    /\ D \subseteq Range(Reqs(t))
    /\ Settled(opncb', t, o, D)
    /\ Left(reqcb', t, D)

\* knl_delReqCB() takes one request out of a queue, and keeps the others.
LEMMA UnqueuedKeeps ==
    ASSUME NEW q \in Seq(Req), NEW r \in Req, OrderedBy(q, NoOrder)
    PROVE  /\ Unqueued(q, r) \in Seq(Req)
           /\ Range(Unqueued(q, r)) = Range(q) \ {r}
           /\ OrderedBy(Unqueued(q, r), NoOrder)
           /\ q = << >> => Unqueued(q, r) = << >>
<1>1. Unqueued(q, r) = Without(q, r)
  BY DEF Unqueued, Without
<1>2. q = << >> => Unqueued(q, r) = << >>
  BY DEF Unqueued, Range
<1>. QED
  BY <1>1, <1>2, WithoutKeeps

-----------------------------------------------------------------------------
(***************************************************************************)
(* Opening and closing.                                                    *)
(***************************************************************************)
\* tk_opn_dev(): the descriptor was free, so nobody used it.
LEMMA OpnDevKeeps ==
    ASSUME DevInv, NEW t \in Task, NEW u \in Unit, NEW m \in OpenMode, tk_opn_dev(t, u, m)
    PROVE  DevInv'
<1>. USE DEF DevInv
<1>1. PICK o \in Opn :
        /\ opncb[o].q = "free"
        /\ opncb' = [opncb EXCEPT ![o] = [FreeOpn EXCEPT !.q = "open", !.unit = u, !.mode = m]]
        /\ call' = [call EXCEPT ![t] =
                      [Outside EXCEPT !.dd = o,
                                      !.at = IF knl_chkopen(opncb, u) THEN "opened" ELSE "openfn"]]
  BY DEF tk_opn_dev
<1>2. PICK p \in {"opened", "openfn"} : p = IF knl_chkopen(opncb, u) THEN "opened" ELSE "openfn"
  OBVIOUS
<1>3. /\ At(t, "out") /\ reqcb' = reqcb
      /\ m \in SUBSET {"read", "write", "rexcl", "wexcl"}
  BY DeviceAssumption DEF tk_opn_dev
<1>e. /\ \A x \in Opn \ {o} : opncb'[x] = opncb[x]
      /\ DOMAIN opncb' = Opn /\ reqcb' = reqcb
      /\ opncb'[o] = [q |-> "open", resid |-> FALSE, unit |-> u, mode |-> m, requestq |-> << >>,
                      waitone |-> 0, waireqlst |-> << >>, abort_tskid |-> None,
                      abort_cnt |-> 0, sem |-> 0]
  BY <1>1, <1>3 DEF DevTypes, FreeOpn
<1>c. /\ \A x \in Task \ {t} : call'[x] = call[x]
      /\ DOMAIN call' = Task /\ call[t].at = "out"
      /\ call'[t] = [at |-> p, dd |-> o, reqs |-> << >>]
      /\ call'[t].at \in {"opened", "openfn"} /\ Dd(t)' = o
  BY <1>1, <1>2, <1>3 DEF DevTypes, Outside, At, Dd
<1>. HIDE DEF Opn, Req
<1>Types. DevTypes'
  <2>1. opncb'[o] \in Cb
    BY <1>3, <1>e DEF Cb
  <2>2. call'[t] \in [at : DPoint, dd : Opn \cup {None}, reqs : Seq(Req)]
    BY <1>c DEF DPoint
  <2>. QED
    BY <1>e, <1>c, <2>1, <2>2 DEF DevTypes
<1>s. /\ ~Opens(t) /\ ~Using(t) /\ ~Asks(t) /\ ~Counts(t) /\ ~Aborts(t) /\ ~Empties(t)
      /\ ~Ends(t) /\ ~Owner(t) /\ ~At(t, "waitany") /\ ~At(t, "drainwait")
      /\ ~At(t, "close") /\ ~At(t, "abortwait")
      /\ Opens(t)' /\ ~Using(t)' /\ ~Asks(t)' /\ ~Counts(t)' /\ ~Aborts(t)' /\ ~Empties(t)'
      /\ ~Ends(t)' /\ Owner(t)' /\ ~At(t, "waitany")' /\ ~At(t, "drainwait")'
      /\ ~At(t, "close")' /\ ~At(t, "abortwait")'
  BY <1>c DEF Opens, Using, Asks, Counts, Aborts, Empties, Ends, Owner, At, Outside
<1>o. OthersStay(t)
  BY <1>c, Others
<1>. USE DEF OthersStay
<1>u. /\ \A x \in Task : Using(x) \/ Owner(x) => Dd(x) # o /\ Dd(x) \in Opn
      /\ \A x : Users(x)' = Users(x)
      /\ \A r \in Req : reqcb[r].opncb # o
  BY <1>1, <1>o, <1>s DEF Owned, OwnerHolds, Taken, UserHolds, Users, Registered,
     QueueIsNamed, FreeIsEmpty, Range
<1>Owned. Owned'
  BY <1>e, <1>c, <1>s, <1>o, Stages, <1>u DEF Owned, OwnerHolds, OneOwner, HeldIsOpen
<1>Taken. Taken'
  BY <1>e, <1>c, <1>s, <1>o, Stages, <1>u, DeviceAssumption DEF Taken, UserHolds,
     UserNamed, NamedUses, UsersAborted
<1>Registered. Registered'
  BY <1>e, <1>c, <1>s, <1>o, Stages, <1>u DEF Registered, Once, QueueIsNamed, FreeIsEmpty,
     OwnerIsEmpty, DrainsNamed, OrderedBy, Range
<1>Alone. Alone'
  BY <1>e, <1>c, <1>s, <1>o, Stages, <1>u DEF Alone, ListKept, ListAlone
<1>Counting. Counting'
  BY <1>e, <1>c, <1>s, <1>o, Stages, <1>u, DeviceAssumption DEF Counting, AborterNamed,
     NamedAborts, SemIsAborts, CountIsUsers, LastSignals
<1>. QED
  BY <1>Types, <1>Owned, <1>Taken, <1>Registered, <1>Alone, <1>Counting DEF Owned, Taken,
     Registered, Alone, Counting

\* openfn() returns.
LEMMA OpenFnKeeps ==
    ASSUME DevInv, NEW t \in Task, OpenFn(t)
    PROVE  DevInv'
<1>. USE DEF DevInv
<1>1. PICK o \in Opn : o = Dd(t)
  BY DEF OpenFn, At, Owned, OwnerHolds, Owner, Opens, Asks, Aborts, Empties, Ends
<1>2. PICK p \in {"opened", "refused"} : Goto(t, p)
  BY  DEF OpenFn, Drains, Dd
<1>3. /\ At(t, "openfn") /\ reqcb' = reqcb
      /\ opncb' = opncb
  BY <1>1 DEF OpenFn, Dd
<1>e. /\ \A x \in Opn \ {o} : opncb'[x] = opncb[x]
      /\ DOMAIN opncb' = Opn /\ reqcb' = reqcb
      /\ opncb'[o].q = opncb[o].q
      /\ opncb'[o].resid = opncb[o].resid
      /\ opncb'[o].requestq = opncb[o].requestq
      /\ opncb'[o].waireqlst = opncb[o].waireqlst
      /\ opncb'[o].abort_tskid = opncb[o].abort_tskid
      /\ opncb'[o].abort_cnt = opncb[o].abort_cnt
      /\ opncb'[o].sem = opncb[o].sem
  BY <1>3 DEF DevTypes
<1>c. /\ \A x \in Task \ {t} : call'[x] = call[x]
      /\ DOMAIN call' = Task /\ call[t].at = "openfn" /\ Dd(t) = o
      /\ call'[t].at \in {"opened", "refused"} /\ call'[t].at = p /\ Dd(t)' = o /\ Reqs(t)' = Reqs(t)
      /\ call'[t] \in [at : DPoint, dd : Opn \cup {None}, reqs : Seq(Req)]
  BY <1>1, <1>2, <1>3 DEF DevTypes, Goto, At, Dd, Reqs, DPoint
<1>. HIDE DEF Opn, Req
<1>Types. DevTypes'
  BY <1>e, <1>3, <1>c DEF DevTypes
<1>s. /\ Opens(t) /\ ~Using(t) /\ ~Asks(t) /\ ~Counts(t) /\ ~Aborts(t) /\ ~Empties(t)
      /\ ~Ends(t) /\ Owner(t) /\ ~At(t, "waitany") /\ ~At(t, "drainwait") /\ ~At(t, "close")
      /\ ~At(t, "abortwait")
      /\ Opens(t)' /\ ~Using(t)' /\ ~Asks(t)' /\ ~Counts(t)' /\ ~Aborts(t)' /\ ~Empties(t)'
      /\ ~Ends(t)' /\ Owner(t)' /\ ~At(t, "waitany")' /\ ~At(t, "drainwait")'
      /\ ~At(t, "close")' /\ ~At(t, "abortwait")'
  BY <1>c DEF Opens, Using, Asks, Counts, Aborts, Empties, Ends, Owner, At, Outside
<1>o. OthersStay(t)
  BY <1>c, Others
<1>. USE DEF OthersStay
<1>u. /\ \A x \in Task \ {t} : Owner(x) => Dd(x) \in Opn \ {o}
      /\ \A x \in Task : Using(x) => Dd(x) \in Opn
      /\ \A x : Users(x)' = Users(x)
  BY <1>1, <1>s, <1>o DEF Owned, OneOwner, OwnerHolds, Taken, UserHolds, Users
<1>Owned. Owned'
  BY <1>e, <1>c, <1>s, <1>o, Stages, <1>u DEF Owned, OwnerHolds, OneOwner, HeldIsOpen
<1>Taken. Taken'
  BY <1>e, <1>c, <1>s, <1>o, Stages, <1>u, DeviceAssumption DEF Taken, UserHolds,
     UserNamed, NamedUses, UsersAborted
<1>Registered. Registered'
  BY <1>e, <1>c, <1>s, <1>o, Stages, <1>u DEF Registered, Once, QueueIsNamed, FreeIsEmpty,
     OwnerIsEmpty, DrainsNamed
<1>Alone. Alone'
  BY <1>e, <1>c, <1>s, <1>o, Stages, <1>u DEF Alone, ListKept, ListAlone
<1>Counting. Counting'
  BY <1>e, <1>c, <1>s, <1>o, Stages, <1>u, DeviceAssumption DEF Counting, AborterNamed,
     NamedAborts, SemIsAborts, CountIsUsers, LastSignals
<1>. QED
  BY <1>Types, <1>Owned, <1>Taken, <1>Registered, <1>Alone, <1>Counting DEF Owned, Taken,
     Registered, Alone, Counting

\* abort_tskid is cleared.
LEMMA AbortedKeeps ==
    ASSUME DevInv, NEW t \in Task, Aborted(t)
    PROVE  DevInv'
<1>. USE DEF DevInv
<1>1. PICK o \in Opn : o = Dd(t)
  BY DEF Aborted, At, Owned, OwnerHolds, Owner, Opens, Asks, Aborts, Empties, Ends
<1>2. PICK p \in {"drain"} : Goto(t, p)
  BY  DEF Aborted, Drains, Dd
<1>3. /\ At(t, "aborted") /\ reqcb' = reqcb
      /\ opncb' = [opncb EXCEPT ![o].abort_tskid = None]
  BY <1>1 DEF Aborted, Dd
<1>e. /\ \A x \in Opn \ {o} : opncb'[x] = opncb[x]
      /\ DOMAIN opncb' = Opn /\ reqcb' = reqcb
      /\ opncb'[o].q = opncb[o].q
      /\ opncb'[o].resid = opncb[o].resid
      /\ opncb'[o].requestq = opncb[o].requestq
      /\ opncb'[o].waireqlst = opncb[o].waireqlst
      /\ opncb'[o].abort_tskid = None
      /\ opncb'[o].abort_cnt = opncb[o].abort_cnt
      /\ opncb'[o].sem = opncb[o].sem
  BY <1>3 DEF DevTypes, Cb
<1>b. opncb'[o] \in Cb
  <2>1. PICK b \in Cb : b = opncb[o]
    BY DEF DevTypes
  <2>2. opncb'[o] = [b EXCEPT !.abort_tskid = None]
    BY <1>3, <2>1 DEF DevTypes
  <2>3. opncb'[o] = [q |-> b.q,
                       resid |-> b.resid,
                       unit |-> b.unit,
                       mode |-> b.mode,
                       requestq |-> b.requestq,
                       waitone |-> b.waitone,
                       waireqlst |-> b.waireqlst,
                       abort_tskid |-> None,
                       abort_cnt |-> b.abort_cnt,
                       sem |-> b.sem]
    BY <2>2 DEF Cb
  <2>. QED
    BY <2>3 DEF Cb
<1>c. /\ \A x \in Task \ {t} : call'[x] = call[x]
      /\ DOMAIN call' = Task /\ call[t].at = "aborted" /\ Dd(t) = o
      /\ call'[t].at \in {"drain"} /\ call'[t].at = p /\ Dd(t)' = o /\ Reqs(t)' = Reqs(t)
      /\ call'[t] \in [at : DPoint, dd : Opn \cup {None}, reqs : Seq(Req)]
  BY <1>1, <1>2, <1>3 DEF DevTypes, Goto, At, Dd, Reqs, DPoint
<1>. HIDE DEF Opn, Req
<1>Types. DevTypes'
  BY <1>e, <1>b, <1>c DEF DevTypes
<1>s. /\ ~Opens(t) /\ ~Using(t) /\ ~Asks(t) /\ ~Counts(t) /\ Aborts(t) /\ ~Empties(t)
      /\ ~Ends(t) /\ Owner(t) /\ ~At(t, "waitany") /\ ~At(t, "drainwait") /\ ~At(t, "close")
      /\ ~At(t, "abortwait")
      /\ ~Opens(t)' /\ ~Using(t)' /\ ~Asks(t)' /\ ~Counts(t)' /\ ~Aborts(t)' /\ Empties(t)'
      /\ ~Ends(t)' /\ Owner(t)' /\ ~At(t, "waitany")' /\ ~At(t, "drainwait")'
      /\ ~At(t, "close")' /\ ~At(t, "abortwait")'
  BY <1>c DEF Opens, Using, Asks, Counts, Aborts, Empties, Ends, Owner, At, Outside
<1>o. OthersStay(t)
  BY <1>c, Others
<1>. USE DEF OthersStay
<1>u. /\ \A x \in Task \ {t} : Owner(x) => Dd(x) \in Opn \ {o}
      /\ \A x \in Task : Using(x) => Dd(x) \in Opn
      /\ \A x : Users(x)' = Users(x)
  BY <1>1, <1>s, <1>o DEF Owned, OneOwner, OwnerHolds, Taken, UserHolds, Users
<1>Owned. Owned'
  BY <1>e, <1>c, <1>s, <1>o, Stages, <1>u DEF Owned, OwnerHolds, OneOwner, HeldIsOpen
<1>Taken. Taken'
  BY <1>e, <1>c, <1>s, <1>o, Stages, <1>u, DeviceAssumption DEF Taken, UserHolds,
     UserNamed, NamedUses, UsersAborted
<1>Registered. Registered'
  BY <1>e, <1>c, <1>s, <1>o, Stages, <1>u DEF Registered, Once, QueueIsNamed, FreeIsEmpty,
     OwnerIsEmpty, DrainsNamed
<1>Alone. Alone'
  BY <1>e, <1>c, <1>s, <1>o, Stages, <1>u DEF Alone, ListKept, ListAlone
<1>Counting. Counting'
  BY <1>e, <1>c, <1>s, <1>o, Stages, <1>u, DeviceAssumption DEF Counting, AborterNamed,
     NamedAborts, SemIsAborts, CountIsUsers, LastSignals
<1>. QED
  BY <1>Types, <1>Owned, <1>Taken, <1>Registered, <1>Alone, <1>Counting DEF Owned, Taken,
     Registered, Alone, Counting

\* The descriptor leaves the queue of open ones, empty.
LEMMA CloseKeeps ==
    ASSUME DevInv, NEW t \in Task, knl_close_device(t)
    PROVE  DevInv'
<1>. USE DEF DevInv
<1>1. PICK o \in Opn : o = Dd(t)
  BY DEF knl_close_device, At, Owned, OwnerHolds, Owner, Opens, Asks, Aborts, Empties, Ends
<1>2. PICK p \in {"closed", "closefn"} : Goto(t, p)
  BY  DEF knl_close_device, Drains, Dd
<1>3. /\ At(t, "close") /\ reqcb' = reqcb
      /\ opncb' = [opncb EXCEPT ![o].q = "closing", ![o].sem = 0]
  BY <1>1 DEF knl_close_device, Dd
<1>e. /\ \A x \in Opn \ {o} : opncb'[x] = opncb[x]
      /\ DOMAIN opncb' = Opn /\ reqcb' = reqcb
      /\ opncb'[o].q = "closing"
      /\ opncb'[o].resid = opncb[o].resid
      /\ opncb'[o].requestq = opncb[o].requestq
      /\ opncb'[o].waireqlst = opncb[o].waireqlst
      /\ opncb'[o].abort_tskid = opncb[o].abort_tskid
      /\ opncb'[o].abort_cnt = opncb[o].abort_cnt
      /\ opncb'[o].sem = 0
  BY <1>3 DEF DevTypes, Cb
<1>b. opncb'[o] \in Cb
  <2>1. PICK b \in Cb : b = opncb[o]
    BY DEF DevTypes
  <2>2. opncb'[o] = [b EXCEPT !.q = "closing", !.sem = 0]
    BY <1>3, <2>1 DEF DevTypes
  <2>3. opncb'[o] = [q |-> "closing",
                       resid |-> b.resid,
                       unit |-> b.unit,
                       mode |-> b.mode,
                       requestq |-> b.requestq,
                       waitone |-> b.waitone,
                       waireqlst |-> b.waireqlst,
                       abort_tskid |-> b.abort_tskid,
                       abort_cnt |-> b.abort_cnt,
                       sem |-> 0]
    BY <2>2 DEF Cb
  <2>. QED
    BY <2>3 DEF Cb
<1>c. /\ \A x \in Task \ {t} : call'[x] = call[x]
      /\ DOMAIN call' = Task /\ call[t].at = "close" /\ Dd(t) = o
      /\ call'[t].at \in {"closed", "closefn"} /\ call'[t].at = p /\ Dd(t)' = o /\ Reqs(t)' = Reqs(t)
      /\ call'[t] \in [at : DPoint, dd : Opn \cup {None}, reqs : Seq(Req)]
  BY <1>1, <1>2, <1>3 DEF DevTypes, Goto, At, Dd, Reqs, DPoint
<1>. HIDE DEF Opn, Req
<1>Types. DevTypes'
  BY <1>e, <1>b, <1>c DEF DevTypes
<1>s. /\ ~Opens(t) /\ ~Using(t) /\ ~Asks(t) /\ ~Counts(t) /\ ~Aborts(t) /\ Empties(t)
      /\ ~Ends(t) /\ Owner(t) /\ ~At(t, "waitany") /\ ~At(t, "drainwait") /\ At(t, "close")
      /\ ~At(t, "abortwait")
      /\ ~Opens(t)' /\ ~Using(t)' /\ ~Asks(t)' /\ ~Counts(t)' /\ ~Aborts(t)' /\ ~Empties(t)'
      /\ Ends(t)' /\ Owner(t)' /\ ~At(t, "waitany")' /\ ~At(t, "drainwait")'
      /\ ~At(t, "close")' /\ ~At(t, "abortwait")'
  BY <1>c DEF Opens, Using, Asks, Counts, Aborts, Empties, Ends, Owner, At, Outside
<1>o. OthersStay(t)
  BY <1>c, Others
<1>. USE DEF OthersStay
<1>u. /\ \A x \in Task \ {t} : Owner(x) => Dd(x) \in Opn \ {o}
      /\ \A x \in Task : Using(x) => Dd(x) \in Opn
      /\ \A x : Users(x)' = Users(x)
  BY <1>1, <1>s, <1>o DEF Owned, OneOwner, OwnerHolds, Taken, UserHolds, Users
<1>Owned. Owned'
  BY <1>e, <1>c, <1>s, <1>o, Stages, <1>u DEF Owned, OwnerHolds, OneOwner, HeldIsOpen
<1>Taken. Taken'
  BY <1>e, <1>c, <1>s, <1>o, Stages, <1>u, DeviceAssumption DEF Taken, UserHolds,
     UserNamed, NamedUses, UsersAborted
<1>Registered. Registered'
  BY <1>e, <1>c, <1>s, <1>o, Stages, <1>u DEF Registered, Once, QueueIsNamed, FreeIsEmpty,
     OwnerIsEmpty, DrainsNamed
<1>Alone. Alone'
  BY <1>e, <1>c, <1>s, <1>o, Stages, <1>u DEF Alone, ListKept, ListAlone
<1>Counting. Counting'
  BY <1>e, <1>c, <1>s, <1>o, Stages, <1>u, DeviceAssumption DEF Counting, AborterNamed,
     NamedAborts, SemIsAborts, CountIsUsers, LastSignals
<1>. QED
  BY <1>Types, <1>Owned, <1>Taken, <1>Registered, <1>Alone, <1>Counting DEF Owned, Taken,
     Registered, Alone, Counting

\* closefn() returns.
LEMMA CloseFnKeeps ==
    ASSUME DevInv, NEW t \in Task, CloseFn(t)
    PROVE  DevInv'
<1>. USE DEF DevInv
<1>1. PICK o \in Opn : o = Dd(t)
  BY DEF CloseFn, At, Owned, OwnerHolds, Owner, Opens, Asks, Aborts, Empties, Ends
<1>2. PICK p \in {"closed"} : Goto(t, p)
  BY  DEF CloseFn, Drains, Dd
<1>3. /\ At(t, "closefn") /\ reqcb' = reqcb
      /\ opncb' = opncb
  BY <1>1 DEF CloseFn, Dd
<1>e. /\ \A x \in Opn \ {o} : opncb'[x] = opncb[x]
      /\ DOMAIN opncb' = Opn /\ reqcb' = reqcb
      /\ opncb'[o].q = opncb[o].q
      /\ opncb'[o].resid = opncb[o].resid
      /\ opncb'[o].requestq = opncb[o].requestq
      /\ opncb'[o].waireqlst = opncb[o].waireqlst
      /\ opncb'[o].abort_tskid = opncb[o].abort_tskid
      /\ opncb'[o].abort_cnt = opncb[o].abort_cnt
      /\ opncb'[o].sem = opncb[o].sem
  BY <1>3 DEF DevTypes
<1>c. /\ \A x \in Task \ {t} : call'[x] = call[x]
      /\ DOMAIN call' = Task /\ call[t].at = "closefn" /\ Dd(t) = o
      /\ call'[t].at \in {"closed"} /\ call'[t].at = p /\ Dd(t)' = o /\ Reqs(t)' = Reqs(t)
      /\ call'[t] \in [at : DPoint, dd : Opn \cup {None}, reqs : Seq(Req)]
  BY <1>1, <1>2, <1>3 DEF DevTypes, Goto, At, Dd, Reqs, DPoint
<1>. HIDE DEF Opn, Req
<1>Types. DevTypes'
  BY <1>e, <1>3, <1>c DEF DevTypes
<1>s. /\ ~Opens(t) /\ ~Using(t) /\ ~Asks(t) /\ ~Counts(t) /\ ~Aborts(t) /\ ~Empties(t)
      /\ Ends(t) /\ Owner(t) /\ ~At(t, "waitany") /\ ~At(t, "drainwait") /\ ~At(t, "close")
      /\ ~At(t, "abortwait")
      /\ ~Opens(t)' /\ ~Using(t)' /\ ~Asks(t)' /\ ~Counts(t)' /\ ~Aborts(t)' /\ ~Empties(t)'
      /\ Ends(t)' /\ Owner(t)' /\ ~At(t, "waitany")' /\ ~At(t, "drainwait")'
      /\ ~At(t, "close")' /\ ~At(t, "abortwait")'
  BY <1>c DEF Opens, Using, Asks, Counts, Aborts, Empties, Ends, Owner, At, Outside
<1>o. OthersStay(t)
  BY <1>c, Others
<1>. USE DEF OthersStay
<1>u. /\ \A x \in Task \ {t} : Owner(x) => Dd(x) \in Opn \ {o}
      /\ \A x \in Task : Using(x) => Dd(x) \in Opn
      /\ \A x : Users(x)' = Users(x)
  BY <1>1, <1>s, <1>o DEF Owned, OneOwner, OwnerHolds, Taken, UserHolds, Users
<1>Owned. Owned'
  BY <1>e, <1>c, <1>s, <1>o, Stages, <1>u DEF Owned, OwnerHolds, OneOwner, HeldIsOpen
<1>Taken. Taken'
  BY <1>e, <1>c, <1>s, <1>o, Stages, <1>u, DeviceAssumption DEF Taken, UserHolds,
     UserNamed, NamedUses, UsersAborted
<1>Registered. Registered'
  BY <1>e, <1>c, <1>s, <1>o, Stages, <1>u DEF Registered, Once, QueueIsNamed, FreeIsEmpty,
     OwnerIsEmpty, DrainsNamed
<1>Alone. Alone'
  BY <1>e, <1>c, <1>s, <1>o, Stages, <1>u DEF Alone, ListKept, ListAlone
<1>Counting. Counting'
  BY <1>e, <1>c, <1>s, <1>o, Stages, <1>u, DeviceAssumption DEF Counting, AborterNamed,
     NamedAborts, SemIsAborts, CountIsUsers, LastSignals
<1>. QED
  BY <1>Types, <1>Owned, <1>Taken, <1>Registered, <1>Alone, <1>Counting DEF Owned, Taken,
     Registered, Alone, Counting

\* abort_cnt is looked at: tasks are still in the driver,
LEMMA AbortTestWaits ==
    ASSUME DevInv, NEW t \in Task, AbortTest(t), opncb[Dd(t)].abort_cnt > 0
    PROVE  DevInv'
<1>. USE DEF DevInv
<1>1. PICK o \in Opn : o = Dd(t)
  BY DEF AbortTest, At, Owned, OwnerHolds, Owner, Opens, Asks, Aborts, Empties, Ends
<1>2. PICK p \in {"abortwait"} : Goto(t, p)
  BY  DEF AbortTest, Drains, Dd
<1>3. /\ At(t, "aborting") /\ reqcb' = reqcb
      /\ opncb' = opncb
  BY <1>1 DEF AbortTest, Dd
<1>e. /\ \A x \in Opn \ {o} : opncb'[x] = opncb[x]
      /\ DOMAIN opncb' = Opn /\ reqcb' = reqcb
      /\ opncb'[o].q = opncb[o].q
      /\ opncb'[o].resid = opncb[o].resid
      /\ opncb'[o].requestq = opncb[o].requestq
      /\ opncb'[o].waireqlst = opncb[o].waireqlst
      /\ opncb'[o].abort_tskid = opncb[o].abort_tskid
      /\ opncb'[o].abort_cnt = opncb[o].abort_cnt
      /\ opncb'[o].sem = opncb[o].sem
  BY <1>3 DEF DevTypes
<1>c. /\ \A x \in Task \ {t} : call'[x] = call[x]
      /\ DOMAIN call' = Task /\ call[t].at = "aborting" /\ Dd(t) = o
      /\ call'[t].at \in {"abortwait"} /\ call'[t].at = p /\ Dd(t)' = o /\ Reqs(t)' = Reqs(t)
      /\ call'[t] \in [at : DPoint, dd : Opn \cup {None}, reqs : Seq(Req)]
  BY <1>1, <1>2, <1>3 DEF DevTypes, Goto, At, Dd, Reqs, DPoint
<1>. HIDE DEF Opn, Req
<1>Types. DevTypes'
  BY <1>e, <1>3, <1>c DEF DevTypes
<1>s. /\ ~Opens(t) /\ ~Using(t) /\ Asks(t) /\ Counts(t) /\ Aborts(t) /\ ~Empties(t)
      /\ ~Ends(t) /\ Owner(t) /\ ~At(t, "waitany") /\ ~At(t, "drainwait") /\ ~At(t, "close")
      /\ ~At(t, "abortwait")
      /\ ~Opens(t)' /\ ~Using(t)' /\ Asks(t)' /\ Counts(t)' /\ Aborts(t)' /\ ~Empties(t)'
      /\ ~Ends(t)' /\ Owner(t)' /\ ~At(t, "waitany")' /\ ~At(t, "drainwait")'
      /\ ~At(t, "close")' /\ At(t, "abortwait")'
  BY <1>c DEF Opens, Using, Asks, Counts, Aborts, Empties, Ends, Owner, At, Outside
<1>o. OthersStay(t)
  BY <1>c, Others
<1>. USE DEF OthersStay
<1>u. /\ \A x \in Task \ {t} : Owner(x) => Dd(x) \in Opn \ {o}
      /\ \A x \in Task : Using(x) => Dd(x) \in Opn
      /\ \A x : Users(x)' = Users(x)
      /\ opncb[o].abort_cnt # 0
  BY <1>1, <1>s, <1>o DEF Owned, OneOwner, OwnerHolds, Taken, UserHolds, Users
<1>Owned. Owned'
  BY <1>e, <1>c, <1>s, <1>o, Stages, <1>u DEF Owned, OwnerHolds, OneOwner, HeldIsOpen
<1>Taken. Taken'
  BY <1>e, <1>c, <1>s, <1>o, Stages, <1>u, DeviceAssumption DEF Taken, UserHolds,
     UserNamed, NamedUses, UsersAborted
<1>Registered. Registered'
  BY <1>e, <1>c, <1>s, <1>o, Stages, <1>u DEF Registered, Once, QueueIsNamed, FreeIsEmpty,
     OwnerIsEmpty, DrainsNamed
<1>Alone. Alone'
  BY <1>e, <1>c, <1>s, <1>o, Stages, <1>u DEF Alone, ListKept, ListAlone
<1>Counting. Counting'
  BY <1>e, <1>c, <1>s, <1>o, Stages, <1>u, DeviceAssumption DEF Counting, AborterNamed,
     NamedAborts, SemIsAborts, CountIsUsers, LastSignals
<1>. QED
  BY <1>Types, <1>Owned, <1>Taken, <1>Registered, <1>Alone, <1>Counting DEF Owned, Taken,
     Registered, Alone, Counting

\* or none is, since abort_cnt counts them.
LEMMA AbortTestEnds ==
    ASSUME DevInv, NEW t \in Task, AbortTest(t), ~(opncb[Dd(t)].abort_cnt > 0), IsFiniteSet(Task)
    PROVE  DevInv'
<1>. USE DEF DevInv
<1>1. PICK o \in Opn : o = Dd(t)
  BY DEF AbortTest, At, Owned, OwnerHolds, Owner, Opens, Asks, Aborts, Empties, Ends
<1>0. \A x \in Task : Using(x) => Dd(x) # o
  <2>1. opncb[o].abort_cnt \in Int /\ ~(opncb[o].abort_cnt > 0) /\ At(t, "aborting")
    BY <1>1, CbKinds DEF AbortTest, Dd
  <2>2. Counts(t)
    BY <2>1 DEF Counts, At
  <2>3. Cardinality(Users(o)) \in Nat /\ opncb[o].abort_cnt = Cardinality(Users(o))
    BY <1>1, <2>2, UsersFinite DEF Counting, CountIsUsers
  <2>4. Users(o) = {}
    BY <2>1, <2>3, UsersFinite
  <2>. QED
    BY <2>4 DEF Users
<1>2. PICK p \in {"aborted"} : Goto(t, p)
  BY  DEF AbortTest, Drains, Dd
<1>3. /\ At(t, "aborting") /\ reqcb' = reqcb
      /\ opncb' = opncb
  BY <1>1 DEF AbortTest, Dd
<1>e. /\ \A x \in Opn \ {o} : opncb'[x] = opncb[x]
      /\ DOMAIN opncb' = Opn /\ reqcb' = reqcb
      /\ opncb'[o].q = opncb[o].q
      /\ opncb'[o].resid = opncb[o].resid
      /\ opncb'[o].requestq = opncb[o].requestq
      /\ opncb'[o].waireqlst = opncb[o].waireqlst
      /\ opncb'[o].abort_tskid = opncb[o].abort_tskid
      /\ opncb'[o].abort_cnt = opncb[o].abort_cnt
      /\ opncb'[o].sem = opncb[o].sem
  BY <1>3 DEF DevTypes
<1>c. /\ \A x \in Task \ {t} : call'[x] = call[x]
      /\ DOMAIN call' = Task /\ call[t].at = "aborting" /\ Dd(t) = o
      /\ call'[t].at \in {"aborted"} /\ call'[t].at = p /\ Dd(t)' = o /\ Reqs(t)' = Reqs(t)
      /\ call'[t] \in [at : DPoint, dd : Opn \cup {None}, reqs : Seq(Req)]
  BY <1>1, <1>2, <1>3 DEF DevTypes, Goto, At, Dd, Reqs, DPoint
<1>. HIDE DEF Opn, Req
<1>Types. DevTypes'
  BY <1>e, <1>3, <1>c DEF DevTypes
<1>s. /\ ~Opens(t) /\ ~Using(t) /\ Asks(t) /\ Counts(t) /\ Aborts(t) /\ ~Empties(t)
      /\ ~Ends(t) /\ Owner(t) /\ ~At(t, "waitany") /\ ~At(t, "drainwait") /\ ~At(t, "close")
      /\ ~At(t, "abortwait")
      /\ ~Opens(t)' /\ ~Using(t)' /\ ~Asks(t)' /\ ~Counts(t)' /\ Aborts(t)' /\ ~Empties(t)'
      /\ ~Ends(t)' /\ Owner(t)' /\ ~At(t, "waitany")' /\ ~At(t, "drainwait")'
      /\ ~At(t, "close")' /\ ~At(t, "abortwait")'
  BY <1>c DEF Opens, Using, Asks, Counts, Aborts, Empties, Ends, Owner, At, Outside
<1>o. OthersStay(t)
  BY <1>c, Others
<1>. USE DEF OthersStay
<1>u. /\ \A x \in Task \ {t} : Owner(x) => Dd(x) \in Opn \ {o}
      /\ \A x \in Task : Using(x) => Dd(x) \in Opn
      /\ \A x : Users(x)' = Users(x)
      /\ \A x \in Task : Using(x) => Dd(x) # o
  <2>1. /\ \A x \in Task \ {t} : Owner(x) => Dd(x) \in Opn \ {o}
        /\ \A x \in Task : Using(x) => Dd(x) \in Opn
        /\ \A x : Users(x)' = Users(x)
    BY <1>1, <1>s, <1>o DEF Owned, OneOwner, OwnerHolds, Taken, UserHolds, Users
  <2>. QED
    BY <1>0, <2>1
<1>Owned. Owned'
  BY <1>e, <1>c, <1>s, <1>o, Stages, <1>u DEF Owned, OwnerHolds, OneOwner, HeldIsOpen
<1>Taken. Taken'
  BY <1>e, <1>c, <1>s, <1>o, Stages, <1>u, DeviceAssumption DEF Taken, UserHolds,
     UserNamed, NamedUses, UsersAborted
<1>Registered. Registered'
  BY <1>e, <1>c, <1>s, <1>o, Stages, <1>u DEF Registered, Once, QueueIsNamed, FreeIsEmpty,
     OwnerIsEmpty, DrainsNamed
<1>Alone. Alone'
  BY <1>e, <1>c, <1>s, <1>o, Stages, <1>u DEF Alone, ListKept, ListAlone
<1>Counting. Counting'
  BY <1>e, <1>c, <1>s, <1>o, Stages, <1>u, DeviceAssumption DEF Counting, AborterNamed,
     NamedAborts, SemIsAborts, CountIsUsers, LastSignals
<1>. QED
  BY <1>Types, <1>Owned, <1>Taken, <1>Registered, <1>Alone, <1>Counting DEF Owned, Taken,
     Registered, Alone, Counting

\* tk_wai_sem() returns: the last task in the driver has signalled.
LEMMA AbortWaitKeeps ==
    ASSUME DevInv, NEW t \in Task, AbortWait(t), IsFiniteSet(Task)
    PROVE  DevInv'
<1>. USE DEF DevInv
<1>1. PICK o \in Opn : o = Dd(t)
  BY DEF AbortWait, At, Owned, OwnerHolds, Owner, Opens, Asks, Aborts, Empties, Ends
<1>0. /\ opncb[o].sem = 1 /\ opncb[o].sem - 1 = 0
      /\ \A x \in Task : Using(x) => Dd(x) # o
  <2>1. opncb[o].sem > 0 /\ opncb[o].sem \in 0 .. 1 /\ At(t, "abortwait")
    BY <1>1, CbKinds DEF AbortWait, Dd
  <2>2. Cardinality(Users(o)) = 0
    BY <1>1, <2>1, Stages DEF Counting, CountIsUsers, LastSignals
  <2>3. Users(o) = {}
    BY <2>2, UsersFinite
  <2>. QED
    BY <2>1, <2>3 DEF Users
<1>2. PICK p \in {"aborted"} : Goto(t, p)
  BY  DEF AbortWait, Drains, Dd
<1>3. /\ At(t, "abortwait") /\ reqcb' = reqcb
      /\ opncb' = [opncb EXCEPT ![o].sem = 0]
  BY <1>1, <1>0 DEF AbortWait, Dd
<1>e. /\ \A x \in Opn \ {o} : opncb'[x] = opncb[x]
      /\ DOMAIN opncb' = Opn /\ reqcb' = reqcb
      /\ opncb'[o].q = opncb[o].q
      /\ opncb'[o].resid = opncb[o].resid
      /\ opncb'[o].requestq = opncb[o].requestq
      /\ opncb'[o].waireqlst = opncb[o].waireqlst
      /\ opncb'[o].abort_tskid = opncb[o].abort_tskid
      /\ opncb'[o].abort_cnt = opncb[o].abort_cnt
      /\ opncb'[o].sem = 0
  BY <1>3 DEF DevTypes, Cb
<1>b. opncb'[o] \in Cb
  <2>1. PICK b \in Cb : b = opncb[o]
    BY DEF DevTypes
  <2>2. opncb'[o] = [b EXCEPT !.sem = 0]
    BY <1>3, <2>1 DEF DevTypes
  <2>3. opncb'[o] = [q |-> b.q,
                       resid |-> b.resid,
                       unit |-> b.unit,
                       mode |-> b.mode,
                       requestq |-> b.requestq,
                       waitone |-> b.waitone,
                       waireqlst |-> b.waireqlst,
                       abort_tskid |-> b.abort_tskid,
                       abort_cnt |-> b.abort_cnt,
                       sem |-> 0]
    BY <2>2 DEF Cb
  <2>. QED
    BY <2>3 DEF Cb
<1>c. /\ \A x \in Task \ {t} : call'[x] = call[x]
      /\ DOMAIN call' = Task /\ call[t].at = "abortwait" /\ Dd(t) = o
      /\ call'[t].at \in {"aborted"} /\ call'[t].at = p /\ Dd(t)' = o /\ Reqs(t)' = Reqs(t)
      /\ call'[t] \in [at : DPoint, dd : Opn \cup {None}, reqs : Seq(Req)]
  BY <1>1, <1>2, <1>3 DEF DevTypes, Goto, At, Dd, Reqs, DPoint
<1>. HIDE DEF Opn, Req
<1>Types. DevTypes'
  BY <1>e, <1>b, <1>c DEF DevTypes
<1>s. /\ ~Opens(t) /\ ~Using(t) /\ Asks(t) /\ Counts(t) /\ Aborts(t) /\ ~Empties(t)
      /\ ~Ends(t) /\ Owner(t) /\ ~At(t, "waitany") /\ ~At(t, "drainwait") /\ ~At(t, "close")
      /\ At(t, "abortwait")
      /\ ~Opens(t)' /\ ~Using(t)' /\ ~Asks(t)' /\ ~Counts(t)' /\ Aborts(t)' /\ ~Empties(t)'
      /\ ~Ends(t)' /\ Owner(t)' /\ ~At(t, "waitany")' /\ ~At(t, "drainwait")'
      /\ ~At(t, "close")' /\ ~At(t, "abortwait")'
  BY <1>c DEF Opens, Using, Asks, Counts, Aborts, Empties, Ends, Owner, At, Outside
<1>o. OthersStay(t)
  BY <1>c, Others
<1>. USE DEF OthersStay
<1>u. /\ \A x \in Task \ {t} : Owner(x) => Dd(x) \in Opn \ {o}
      /\ \A x \in Task : Using(x) => Dd(x) \in Opn
      /\ \A x : Users(x)' = Users(x)
      /\ \A x \in Task : Using(x) => Dd(x) # o
  <2>1. /\ \A x \in Task \ {t} : Owner(x) => Dd(x) \in Opn \ {o}
        /\ \A x \in Task : Using(x) => Dd(x) \in Opn
        /\ \A x : Users(x)' = Users(x)
    BY <1>1, <1>s, <1>o DEF Owned, OneOwner, OwnerHolds, Taken, UserHolds, Users
  <2>. QED
    BY <1>0, <2>1
<1>Owned. Owned'
  BY <1>e, <1>c, <1>s, <1>o, Stages, <1>u DEF Owned, OwnerHolds, OneOwner, HeldIsOpen
<1>Taken. Taken'
  BY <1>e, <1>c, <1>s, <1>o, Stages, <1>u, DeviceAssumption DEF Taken, UserHolds,
     UserNamed, NamedUses, UsersAborted
<1>Registered. Registered'
  BY <1>e, <1>c, <1>s, <1>o, Stages, <1>u DEF Registered, Once, QueueIsNamed, FreeIsEmpty,
     OwnerIsEmpty, DrainsNamed
<1>Alone. Alone'
  BY <1>e, <1>c, <1>s, <1>o, Stages, <1>u DEF Alone, ListKept, ListAlone
<1>Counting. Counting'
  BY <1>e, <1>c, <1>s, <1>o, Stages, <1>u, DeviceAssumption DEF Counting, AborterNamed,
     NamedAborts, SemIsAborts, CountIsUsers, LastSignals
<1>. QED
  BY <1>Types, <1>Owned, <1>Taken, <1>Registered, <1>Alone, <1>Counting DEF Owned, Taken,
     Registered, Alone, Counting

\* abort_allrequest(): what it counts are the tasks in the driver, a task that
\* waits for any request being there alone.
LEMMA AbortAllKeeps ==
    ASSUME DevInv, NEW t \in Task, abort_allrequest(t), IsFiniteSet(Task)
    PROVE  DevInv'
<1>. USE DEF DevInv
<1>1. PICK o \in Opn : o = Dd(t)
  BY DEF abort_allrequest, At, Owned, OwnerHolds, Owner, Opens, Asks, Aborts, Empties, Ends
<1>. DEFINE busy == {r \in Range(opncb[o].requestq) : reqcb[r].tskid # None}
<1>0. PICK n : n = IF opncb[o].waireqlst # << >> THEN 1 ELSE Cardinality(busy)
  OBVIOUS
<1>n. n = Cardinality(Users(o)) /\ n \in Int
  <2>1. CASE opncb[o].waireqlst # << >>
    <3>1. PICK u : Users(o) = {u}
      BY <2>1 DEF Alone, ListAlone
    <3>2. Cardinality({u}) = 1
      BY FS_Singleton
    <3>. QED
      BY <1>0, <2>1, <3>1, <3>2
  <2>2. CASE opncb[o].waireqlst = << >>
    <3>. DEFINE f == [r \in busy |-> reqcb[r].tskid]
    <3>. HIDE DEF Opn, Req
    <3>1. \A r \in busy : /\ r \in Req /\ reqcb[r].opncb = o
                          /\ reqcb[r].tskid \in Users(o) /\ r \in Range(Reqs(reqcb[r].tskid))
      <4>1. \A r \in Range(opncb[o].requestq) : r \in Req
        BY CbKinds DEF Range
      <4>2. \A r \in busy : r \in Req /\ reqcb[r].opncb = o /\ reqcb[r].tskid \in Task
        BY <4>1, ReqKinds DEF Registered, QueueIsNamed
      <4>3. \A r \in Req, u \in Task :
              reqcb[r].tskid = u => Using(u) /\ r \in Range(Reqs(u)) /\ Dd(u) = reqcb[r].opncb
        BY DEF Taken, NamedUses, UserNamed
      <4>. QED
        BY <4>2, <4>3 DEF Users
    <3>2. \A u \in Users(o) : Reqs(u) = <<Head(Reqs(u))>> /\ Range(Reqs(u)) = {Head(Reqs(u))}
      <4>1. \A u \in Users(o) : Reqs(u) = <<Head(Reqs(u))>>
        BY <2>2 DEF Users, Taken, UserHolds, Alone, ListKept
      <4>2. \A h : Range(<<h>>) = {h}
        BY DEF Range
      <4>. QED
        BY <4>1, <4>2
    <3>3. f \in Injection(busy, Users(o))
      BY <3>1, <3>2 DEF Injection, IsInjective
    <3>4. \A u \in Users(o) : \E r \in busy : f[r] = u
      <4>1. \A u \in Users(o) : LET r == Head(Reqs(u))
                                IN  r \in Req /\ reqcb[r].opncb = o /\ reqcb[r].tskid = u
        BY <3>2 DEF Users, Taken, UserNamed
      <4>2. \A u \in Users(o) : u # None
        BY DeviceAssumption DEF Users
      <4>3. \A u \in Users(o) : Head(Reqs(u)) \in busy
        BY <4>1, <4>2 DEF Registered, QueueIsNamed
      <4>. QED
        BY <4>1, <4>3
    <3>5. f \in Surjection(busy, Users(o))
      BY <3>3, <3>4 DEF Surjection, Injection
    <3>6. IsFiniteSet(Users(o)) /\ Cardinality(Users(o)) \in Nat
      BY UsersFinite
    <3>. HIDE DEF f, busy
    <3>7. Cardinality(busy) = Cardinality(Users(o))
      BY <3>3, <3>5, <3>6, FS_Injection
    <3>. QED
      BY <1>0, <2>2, <3>6, <3>7
  <2>. QED
    BY <2>1, <2>2
<1>2. PICK p \in {"aborting"} : Goto(t, p)
  BY  DEF abort_allrequest, Drains, Dd
<1>3. /\ At(t, "abort") /\ reqcb' = reqcb
      /\ opncb' = [opncb EXCEPT ![o].abort_tskid = t, ![o].abort_cnt = n]
  BY <1>1, <1>0 DEF abort_allrequest, Dd
<1>e. /\ \A x \in Opn \ {o} : opncb'[x] = opncb[x]
      /\ DOMAIN opncb' = Opn /\ reqcb' = reqcb
      /\ opncb'[o].q = opncb[o].q
      /\ opncb'[o].resid = opncb[o].resid
      /\ opncb'[o].requestq = opncb[o].requestq
      /\ opncb'[o].waireqlst = opncb[o].waireqlst
      /\ opncb'[o].abort_tskid = t
      /\ opncb'[o].abort_cnt = n
      /\ opncb'[o].sem = opncb[o].sem
  BY <1>3 DEF DevTypes, Cb
<1>b. opncb'[o] \in Cb
  <2>1. PICK b \in Cb : b = opncb[o]
    BY DEF DevTypes
  <2>2. opncb'[o] = [b EXCEPT !.abort_tskid = t, !.abort_cnt = n]
    BY <1>3, <2>1 DEF DevTypes
  <2>3. opncb'[o] = [q |-> b.q,
                       resid |-> b.resid,
                       unit |-> b.unit,
                       mode |-> b.mode,
                       requestq |-> b.requestq,
                       waitone |-> b.waitone,
                       waireqlst |-> b.waireqlst,
                       abort_tskid |-> t,
                       abort_cnt |-> n,
                       sem |-> b.sem]
    BY <2>2 DEF Cb
  <2>. QED
    BY <2>3, <1>n DEF Cb
<1>c. /\ \A x \in Task \ {t} : call'[x] = call[x]
      /\ DOMAIN call' = Task /\ call[t].at = "abort" /\ Dd(t) = o
      /\ call'[t].at \in {"aborting"} /\ call'[t].at = p /\ Dd(t)' = o /\ Reqs(t)' = Reqs(t)
      /\ call'[t] \in [at : DPoint, dd : Opn \cup {None}, reqs : Seq(Req)]
  BY <1>1, <1>2, <1>3 DEF DevTypes, Goto, At, Dd, Reqs, DPoint
<1>. HIDE DEF Opn, Req
<1>Types. DevTypes'
  BY <1>e, <1>b, <1>c DEF DevTypes
<1>s. /\ ~Opens(t) /\ ~Using(t) /\ Asks(t) /\ ~Counts(t) /\ ~Aborts(t) /\ ~Empties(t)
      /\ ~Ends(t) /\ Owner(t) /\ ~At(t, "waitany") /\ ~At(t, "drainwait") /\ ~At(t, "close")
      /\ ~At(t, "abortwait")
      /\ ~Opens(t)' /\ ~Using(t)' /\ Asks(t)' /\ Counts(t)' /\ Aborts(t)' /\ ~Empties(t)'
      /\ ~Ends(t)' /\ Owner(t)' /\ ~At(t, "waitany")' /\ ~At(t, "drainwait")'
      /\ ~At(t, "close")' /\ ~At(t, "abortwait")'
  BY <1>c DEF Opens, Using, Asks, Counts, Aborts, Empties, Ends, Owner, At, Outside
<1>o. OthersStay(t)
  BY <1>c, Others
<1>. USE DEF OthersStay
<1>u. /\ \A x \in Task \ {t} : Owner(x) => Dd(x) \in Opn \ {o}
      /\ \A x \in Task : Using(x) => Dd(x) \in Opn
      /\ \A x : Users(x)' = Users(x)
      /\ opncb[o].sem = 0 /\ n = Cardinality(Users(o))
  <2>1. /\ \A x \in Task \ {t} : Owner(x) => Dd(x) \in Opn \ {o}
        /\ \A x \in Task : Using(x) => Dd(x) \in Opn
        /\ \A x : Users(x)' = Users(x)
    BY <1>1, <1>s, <1>o DEF Owned, OneOwner, OwnerHolds, Taken, UserHolds, Users
  <2>2. \A x \in Task : Owner(x) /\ Dd(x) = o => x = t
    BY <1>1, <1>s DEF Owned, OneOwner
  <2>3. opncb[o].sem = 0
    BY <1>s, <2>2, Stages DEF Counting, SemIsAborts
  <2>. QED
    BY <1>n, <2>1, <2>3
<1>Owned. Owned'
  BY <1>e, <1>c, <1>s, <1>o, Stages, <1>u DEF Owned, OwnerHolds, OneOwner, HeldIsOpen
<1>Taken. Taken'
  BY <1>e, <1>c, <1>s, <1>o, Stages, <1>u, DeviceAssumption DEF Taken, UserHolds,
     UserNamed, NamedUses, UsersAborted
<1>Registered. Registered'
  BY <1>e, <1>c, <1>s, <1>o, Stages, <1>u DEF Registered, Once, QueueIsNamed, FreeIsEmpty,
     OwnerIsEmpty, DrainsNamed
<1>Alone. Alone'
  BY <1>e, <1>c, <1>s, <1>o, Stages, <1>u DEF Alone, ListKept, ListAlone
<1>Counting. Counting'
  BY <1>e, <1>c, <1>s, <1>o, Stages, <1>u, DeviceAssumption DEF Counting, AborterNamed,
     NamedAborts, SemIsAborts, CountIsUsers, LastSignals
<1>. QED
  BY <1>Types, <1>Owned, <1>Taken, <1>Registered, <1>Alone, <1>Counting DEF Owned, Taken,
     Registered, Alone, Counting

\* The loop of abort_allrequest() begins, with no request left,
LEMMA DrainEnds ==
    ASSUME DevInv, NEW t \in Task, Drain(t), opncb[Dd(t)].requestq = << >>
    PROVE  DevInv'
<1>. USE DEF DevInv
<1>1. PICK o \in Opn : o = Dd(t)
  BY DEF Drain, At, Owned, OwnerHolds, Owner, Opens, Asks, Aborts, Empties, Ends
<1>2. PICK p \in {"close"} : call' = [call EXCEPT ![t].reqs = << >>, ![t].at = p]
  BY  DEF Drain, Drains, Dd
<1>3. /\ At(t, "drain") /\ reqcb' = reqcb
      /\ opncb' = opncb
  BY <1>1 DEF Drain, Dd
<1>e. /\ \A x \in Opn \ {o} : opncb'[x] = opncb[x]
      /\ DOMAIN opncb' = Opn /\ reqcb' = reqcb
      /\ opncb'[o].q = opncb[o].q
      /\ opncb'[o].resid = opncb[o].resid
      /\ opncb'[o].requestq = opncb[o].requestq
      /\ opncb'[o].waireqlst = opncb[o].waireqlst
      /\ opncb'[o].abort_tskid = opncb[o].abort_tskid
      /\ opncb'[o].abort_cnt = opncb[o].abort_cnt
      /\ opncb'[o].sem = opncb[o].sem
  BY <1>3 DEF DevTypes
<1>d. call'[t] = [at |-> p, dd |-> o, reqs |-> << >>]
  BY <1>1, <1>2 DEF DevTypes, Dd
<1>c. /\ \A x \in Task \ {t} : call'[x] = call[x]
      /\ DOMAIN call' = Task /\ call[t].at = "drain" /\ Dd(t) = o
      /\ call'[t].at \in {"close"} /\ call'[t].at = p /\ Dd(t)' = o /\ Reqs(t)' = << >>
      /\ call'[t] \in [at : DPoint, dd : Opn \cup {None}, reqs : Seq(Req)]
  BY <1>1, <1>2, <1>3 DEF DevTypes, Goto, At, Dd, Reqs, DPoint
<1>. HIDE DEF Opn, Req
<1>Types. DevTypes'
  BY <1>e, <1>3, <1>c DEF DevTypes
<1>s. /\ ~Opens(t) /\ ~Using(t) /\ ~Asks(t) /\ ~Counts(t) /\ ~Aborts(t) /\ Empties(t)
      /\ ~Ends(t) /\ Owner(t) /\ ~At(t, "waitany") /\ ~At(t, "drainwait") /\ ~At(t, "close")
      /\ ~At(t, "abortwait")
      /\ ~Opens(t)' /\ ~Using(t)' /\ ~Asks(t)' /\ ~Counts(t)' /\ ~Aborts(t)' /\ Empties(t)'
      /\ ~Ends(t)' /\ Owner(t)' /\ ~At(t, "waitany")' /\ ~At(t, "drainwait")'
      /\ At(t, "close")' /\ ~At(t, "abortwait")'
  BY <1>c DEF Opens, Using, Asks, Counts, Aborts, Empties, Ends, Owner, At, Outside
<1>o. OthersStay(t)
  BY <1>c, Others
<1>. USE DEF OthersStay
<1>u. /\ \A x \in Task \ {t} : Owner(x) => Dd(x) \in Opn \ {o}
      /\ \A x \in Task : Using(x) => Dd(x) \in Opn
      /\ \A x : Users(x)' = Users(x)
      /\ opncb[o].requestq = << >>
  BY <1>1, <1>s, <1>o DEF Owned, OneOwner, OwnerHolds, Taken, UserHolds, Users
<1>Owned. Owned'
  BY <1>e, <1>c, <1>s, <1>o, Stages, <1>u DEF Owned, OwnerHolds, OneOwner, HeldIsOpen
<1>Taken. Taken'
  BY <1>e, <1>c, <1>s, <1>o, Stages, <1>u, DeviceAssumption DEF Taken, UserHolds,
     UserNamed, NamedUses, UsersAborted
<1>Registered. Registered'
  BY <1>e, <1>c, <1>s, <1>o, Stages, <1>u DEF Registered, Once, QueueIsNamed, FreeIsEmpty,
     OwnerIsEmpty, DrainsNamed
<1>Alone. Alone'
  BY <1>e, <1>c, <1>s, <1>o, Stages, <1>u DEF Alone, ListKept, ListAlone
<1>Counting. Counting'
  BY <1>e, <1>c, <1>s, <1>o, Stages, <1>u, DeviceAssumption DEF Counting, AborterNamed,
     NamedAborts, SemIsAborts, CountIsUsers, LastSignals
<1>. QED
  BY <1>Types, <1>Owned, <1>Taken, <1>Registered, <1>Alone, <1>Counting DEF Owned, Taken,
     Registered, Alone, Counting

\* or with a first one.
LEMMA DrainWaits ==
    ASSUME DevInv, NEW t \in Task, Drain(t), opncb[Dd(t)].requestq # << >>
    PROVE  DevInv'
<1>. USE DEF DevInv
<1>1. PICK o \in Opn : o = Dd(t)
  BY DEF Drain, At, Owned, OwnerHolds, Owner, Opens, Asks, Aborts, Empties, Ends
<1>0. PICK h \in Req : h = Head(opncb[o].requestq) /\ reqcb[h].opncb = o
  <2>1. opncb[o].requestq \in Seq(Req) /\ opncb[o].requestq # << >>
    BY <1>1, CbKinds
  <2>2. Head(opncb[o].requestq) \in Req /\ Head(opncb[o].requestq) \in Range(opncb[o].requestq)
    BY <2>1 DEF Range
  <2>. QED
    BY <2>2 DEF Registered, QueueIsNamed
<1>2. PICK p \in {"drainwait"} : call' = [call EXCEPT ![t].reqs = <<h>>, ![t].at = p]
  BY <1>0, <1>1 DEF Drain, Drains, Dd
<1>3. /\ At(t, "drain") /\ reqcb' = reqcb
      /\ opncb' = opncb
  BY <1>1, <1>0, <1>0, <1>1 DEF Drain, Dd
<1>e. /\ \A x \in Opn \ {o} : opncb'[x] = opncb[x]
      /\ DOMAIN opncb' = Opn /\ reqcb' = reqcb
      /\ opncb'[o].q = opncb[o].q
      /\ opncb'[o].resid = opncb[o].resid
      /\ opncb'[o].requestq = opncb[o].requestq
      /\ opncb'[o].waireqlst = opncb[o].waireqlst
      /\ opncb'[o].abort_tskid = opncb[o].abort_tskid
      /\ opncb'[o].abort_cnt = opncb[o].abort_cnt
      /\ opncb'[o].sem = opncb[o].sem
  BY <1>3 DEF DevTypes
<1>d. call'[t] = [at |-> p, dd |-> o, reqs |-> <<h>>]
  BY <1>1, <1>2 DEF DevTypes, Dd
<1>c. /\ \A x \in Task \ {t} : call'[x] = call[x]
      /\ DOMAIN call' = Task /\ call[t].at = "drain" /\ Dd(t) = o
      /\ call'[t].at \in {"drainwait"} /\ call'[t].at = p /\ Dd(t)' = o /\ Reqs(t)' = <<h>>
      /\ call'[t] \in [at : DPoint, dd : Opn \cup {None}, reqs : Seq(Req)]
  <2>1. <<h>> \in Seq(Req)
    OBVIOUS
  <2>2. call'[t] \in [at : DPoint, dd : Opn \cup {None}, reqs : Seq(Req)]
    BY <1>d, <2>1 DEF DPoint
  <2>3. /\ \A x \in Task \ {t} : call'[x] = call[x]
        /\ DOMAIN call' = Task
    BY <1>2 DEF DevTypes
  <2>. QED
    BY <1>1, <1>3, <1>d, <2>2, <2>3 DEF At, Dd, Reqs
<1>. HIDE DEF Opn, Req
<1>Types. DevTypes'
  BY <1>e, <1>3, <1>c DEF DevTypes
<1>s. /\ ~Opens(t) /\ ~Using(t) /\ ~Asks(t) /\ ~Counts(t) /\ ~Aborts(t) /\ Empties(t)
      /\ ~Ends(t) /\ Owner(t) /\ ~At(t, "waitany") /\ ~At(t, "drainwait") /\ ~At(t, "close")
      /\ ~At(t, "abortwait")
      /\ ~Opens(t)' /\ ~Using(t)' /\ ~Asks(t)' /\ ~Counts(t)' /\ ~Aborts(t)' /\ Empties(t)'
      /\ ~Ends(t)' /\ Owner(t)' /\ ~At(t, "waitany")' /\ At(t, "drainwait")'
      /\ ~At(t, "close")' /\ ~At(t, "abortwait")'
  BY <1>c DEF Opens, Using, Asks, Counts, Aborts, Empties, Ends, Owner, At, Outside
<1>o. OthersStay(t)
  BY <1>c, Others
<1>. USE DEF OthersStay
<1>u. /\ \A x \in Task \ {t} : Owner(x) => Dd(x) \in Opn \ {o}
      /\ \A x \in Task : Using(x) => Dd(x) \in Opn
      /\ \A x : Users(x)' = Users(x)
      /\ reqcb[h].opncb = o /\ h \in Req /\ Head(<<h>>) = h
  <2>1. /\ \A x \in Task \ {t} : Owner(x) => Dd(x) \in Opn \ {o}
        /\ \A x \in Task : Using(x) => Dd(x) \in Opn
        /\ \A x : Users(x)' = Users(x)
    BY <1>1, <1>s, <1>o DEF Owned, OneOwner, OwnerHolds, Taken, UserHolds, Users
  <2>. QED
    BY <1>0, <2>1
<1>Owned. Owned'
  BY <1>e, <1>c, <1>s, <1>o, Stages, <1>u DEF Owned, OwnerHolds, OneOwner, HeldIsOpen
<1>Taken. Taken'
  BY <1>e, <1>c, <1>s, <1>o, Stages, <1>u, DeviceAssumption DEF Taken, UserHolds,
     UserNamed, NamedUses, UsersAborted
<1>Registered. Registered'
  BY <1>e, <1>c, <1>s, <1>o, Stages, <1>u DEF Registered, Once, QueueIsNamed, FreeIsEmpty,
     OwnerIsEmpty, DrainsNamed
<1>Alone. Alone'
  BY <1>e, <1>c, <1>s, <1>o, Stages, <1>u DEF Alone, ListKept, ListAlone
<1>Counting. Counting'
  BY <1>e, <1>c, <1>s, <1>o, Stages, <1>u, DeviceAssumption DEF Counting, AborterNamed,
     NamedAborts, SemIsAborts, CountIsUsers, LastSignals
<1>. QED
  BY <1>Types, <1>Owned, <1>Taken, <1>Registered, <1>Alone, <1>Counting DEF Owned, Taken,
     Registered, Alone, Counting

\* The end of tk_opn_dev().
LEMMA OpenedKeeps ==
    ASSUME DevInv, NEW t \in Task, Opened(t), At(t, "opened")
    PROVE  DevInv'
<1>. USE DEF DevInv
<1>1. PICK o \in Opn : o = Dd(t)
  BY DEF Opened, At, Owned, OwnerHolds, Owner, Opens, Asks, Aborts, Empties, Ends
<1>3. /\ At(t, "opened") /\ reqcb' = reqcb /\ Returns(t)
      /\ opncb' = [opncb EXCEPT ![o].resid = TRUE]
  BY <1>1 DEF Opened, Dd, At
<1>e. /\ \A x \in Opn \ {o} : opncb'[x] = opncb[x]
      /\ DOMAIN opncb' = Opn /\ reqcb' = reqcb
      /\ opncb'[o].q = opncb[o].q
      /\ opncb'[o].resid = TRUE
      /\ opncb'[o].requestq = opncb[o].requestq
      /\ opncb'[o].waireqlst = opncb[o].waireqlst
      /\ opncb'[o].abort_tskid = opncb[o].abort_tskid
      /\ opncb'[o].abort_cnt = opncb[o].abort_cnt
      /\ opncb'[o].sem = opncb[o].sem
  BY <1>3 DEF DevTypes, Cb
<1>b. opncb'[o] \in Cb
  <2>1. PICK b \in Cb : b = opncb[o]
    BY DEF DevTypes
  <2>2. opncb'[o] = [b EXCEPT !.resid = TRUE]
    BY <1>3, <2>1 DEF DevTypes
  <2>. QED
    BY <2>1, <2>2 DEF Cb
<1>c. /\ \A x \in Task \ {t} : call'[x] = call[x]
      /\ DOMAIN call' = Task /\ call[t].at = "opened" /\ Dd(t) = o
      /\ call'[t].at = "out"
      /\ call'[t] \in [at : DPoint, dd : Opn \cup {None}, reqs : Seq(Req)]
  BY <1>1, <1>3 DEF DevTypes, Returns, Outside, At, Dd, DPoint
<1>. HIDE DEF Opn, Req
<1>Types. DevTypes'
  BY <1>e, <1>b, <1>c DEF DevTypes
<1>s. /\ Opens(t) /\ ~Using(t) /\ ~Asks(t) /\ ~Counts(t) /\ ~Aborts(t) /\ ~Empties(t)
      /\ ~Ends(t) /\ Owner(t) /\ ~At(t, "waitany") /\ ~At(t, "drainwait") /\ ~At(t, "close")
      /\ ~At(t, "abortwait")
      /\ ~Opens(t)' /\ ~Using(t)' /\ ~Asks(t)' /\ ~Counts(t)' /\ ~Aborts(t)' /\ ~Empties(t)'
      /\ ~Ends(t)' /\ ~Owner(t)' /\ ~At(t, "waitany")' /\ ~At(t, "drainwait")'
      /\ ~At(t, "close")' /\ ~At(t, "abortwait")'
  BY <1>c DEF Opens, Using, Asks, Counts, Aborts, Empties, Ends, Owner, At, Outside
<1>o. OthersStay(t)
  BY <1>c, Others
<1>. USE DEF OthersStay
<1>u. /\ \A x \in Task \ {t} : Owner(x) => Dd(x) \in Opn \ {o}
      /\ \A x \in Task : Using(x) => Dd(x) \in Opn \ {o}
      /\ opncb[o].requestq = << >>
      /\ \A x : Users(x)' = Users(x)
  BY <1>1, <1>s, <1>o DEF Owned, OneOwner, OwnerHolds, Taken, UserHolds, UsersAborted,
     Users, Registered, OwnerIsEmpty
<1>Owned. Owned'
  BY <1>e, <1>c, <1>s, <1>o, Stages, <1>u DEF Owned, OwnerHolds, OneOwner, HeldIsOpen
<1>Taken. Taken'
  BY <1>e, <1>c, <1>s, <1>o, Stages, <1>u, DeviceAssumption DEF Taken, UserHolds,
     UserNamed, NamedUses, UsersAborted
<1>Registered. Registered'
  BY <1>e, <1>c, <1>s, <1>o, Stages, <1>u DEF Registered, Once, QueueIsNamed, FreeIsEmpty,
     OwnerIsEmpty, DrainsNamed
<1>Alone. Alone'
  BY <1>e, <1>c, <1>s, <1>o, Stages, <1>u DEF Alone, ListKept, ListAlone
<1>Counting. Counting'
  BY <1>e, <1>c, <1>s, <1>o, Stages, <1>u, DeviceAssumption DEF Counting, AborterNamed,
     NamedAborts, SemIsAborts, CountIsUsers, LastSignals
<1>. QED
  BY <1>Types, <1>Owned, <1>Taken, <1>Registered, <1>Alone, <1>Counting DEF Owned, Taken,
     Registered, Alone, Counting

\* openfn() failed.
LEMMA RefusedKeeps ==
    ASSUME DevInv, NEW t \in Task, Opened(t), At(t, "refused")
    PROVE  DevInv'
<1>. USE DEF DevInv
<1>1. PICK o \in Opn : o = Dd(t)
  BY DEF Opened, At, Owned, OwnerHolds, Owner, Opens, Asks, Aborts, Empties, Ends
<1>3. /\ At(t, "refused") /\ reqcb' = reqcb /\ Returns(t)
      /\ opncb' = [opncb EXCEPT ![o] = FreeOpn]
  BY <1>1 DEF Opened, Dd, At
<1>e. /\ \A x \in Opn \ {o} : opncb'[x] = opncb[x]
      /\ DOMAIN opncb' = Opn /\ reqcb' = reqcb
      /\ opncb'[o] = [q |-> "free", resid |-> FALSE, unit |-> 0, mode |-> {}, requestq |-> << >>,
                      waitone |-> 0, waireqlst |-> << >>, abort_tskid |-> None,
                      abort_cnt |-> 0, sem |-> 0]
  BY <1>3 DEF DevTypes, FreeOpn
<1>b. opncb'[o] \in Cb
  BY <1>e DEF Cb
<1>c. /\ \A x \in Task \ {t} : call'[x] = call[x]
      /\ DOMAIN call' = Task /\ call[t].at = "refused" /\ Dd(t) = o
      /\ call'[t].at = "out"
      /\ call'[t] \in [at : DPoint, dd : Opn \cup {None}, reqs : Seq(Req)]
  BY <1>1, <1>3 DEF DevTypes, Returns, Outside, At, Dd, DPoint
<1>. HIDE DEF Opn, Req
<1>Types. DevTypes'
  BY <1>e, <1>b, <1>c DEF DevTypes
<1>s. /\ Opens(t) /\ ~Using(t) /\ ~Asks(t) /\ ~Counts(t) /\ ~Aborts(t) /\ ~Empties(t)
      /\ ~Ends(t) /\ Owner(t) /\ ~At(t, "waitany") /\ ~At(t, "drainwait") /\ ~At(t, "close")
      /\ ~At(t, "abortwait")
      /\ ~Opens(t)' /\ ~Using(t)' /\ ~Asks(t)' /\ ~Counts(t)' /\ ~Aborts(t)' /\ ~Empties(t)'
      /\ ~Ends(t)' /\ ~Owner(t)' /\ ~At(t, "waitany")' /\ ~At(t, "drainwait")'
      /\ ~At(t, "close")' /\ ~At(t, "abortwait")'
  BY <1>c DEF Opens, Using, Asks, Counts, Aborts, Empties, Ends, Owner, At, Outside
<1>o. OthersStay(t)
  BY <1>c, Others
<1>. USE DEF OthersStay
<1>u. /\ \A x \in Task \ {t} : Owner(x) => Dd(x) \in Opn \ {o}
      /\ \A x \in Task : Using(x) => Dd(x) \in Opn \ {o}
      /\ opncb[o].requestq = << >>
      /\ \A x : Users(x)' = Users(x)
  BY <1>1, <1>s, <1>o DEF Owned, OneOwner, OwnerHolds, Taken, UserHolds, UsersAborted,
     Users, Registered, OwnerIsEmpty
<1>Owned. Owned'
  BY <1>e, <1>c, <1>s, <1>o, Stages, <1>u DEF Owned, OwnerHolds, OneOwner, HeldIsOpen
<1>Taken. Taken'
  BY <1>e, <1>c, <1>s, <1>o, Stages, <1>u, DeviceAssumption DEF Taken, UserHolds,
     UserNamed, NamedUses, UsersAborted
<1>Registered. Registered'
  BY <1>e, <1>c, <1>s, <1>o, Stages, <1>u DEF Registered, Once, QueueIsNamed, FreeIsEmpty,
     OwnerIsEmpty, DrainsNamed, OrderedBy, Range
<1>Alone. Alone'
  BY <1>e, <1>c, <1>s, <1>o, Stages, <1>u DEF Alone, ListKept, ListAlone
<1>Counting. Counting'
  BY <1>e, <1>c, <1>s, <1>o, Stages, <1>u, DeviceAssumption DEF Counting, AborterNamed,
     NamedAborts, SemIsAborts, CountIsUsers, LastSignals
<1>. QED
  BY <1>Types, <1>Owned, <1>Taken, <1>Registered, <1>Alone, <1>Counting DEF Owned, Taken,
     Registered, Alone, Counting

\* The descriptor becomes free.
LEMMA ClosedKeeps ==
    ASSUME DevInv, NEW t \in Task, Closed(t)
    PROVE  DevInv'
<1>. USE DEF DevInv
<1>1. PICK o \in Opn : o = Dd(t)
  BY DEF Closed, At, Owned, OwnerHolds, Owner, Opens, Asks, Aborts, Empties, Ends
<1>3. /\ At(t, "closed") /\ reqcb' = reqcb /\ Returns(t)
      /\ opncb' = [opncb EXCEPT ![o] = FreeOpn]
  BY <1>1 DEF Closed, Dd, At
<1>e. /\ \A x \in Opn \ {o} : opncb'[x] = opncb[x]
      /\ DOMAIN opncb' = Opn /\ reqcb' = reqcb
      /\ opncb'[o] = [q |-> "free", resid |-> FALSE, unit |-> 0, mode |-> {}, requestq |-> << >>,
                      waitone |-> 0, waireqlst |-> << >>, abort_tskid |-> None,
                      abort_cnt |-> 0, sem |-> 0]
  BY <1>3 DEF DevTypes, FreeOpn
<1>b. opncb'[o] \in Cb
  BY <1>e DEF Cb
<1>c. /\ \A x \in Task \ {t} : call'[x] = call[x]
      /\ DOMAIN call' = Task /\ call[t].at = "closed" /\ Dd(t) = o
      /\ call'[t].at = "out"
      /\ call'[t] \in [at : DPoint, dd : Opn \cup {None}, reqs : Seq(Req)]
  BY <1>1, <1>3 DEF DevTypes, Returns, Outside, At, Dd, DPoint
<1>. HIDE DEF Opn, Req
<1>Types. DevTypes'
  BY <1>e, <1>b, <1>c DEF DevTypes
<1>s. /\ ~Opens(t) /\ ~Using(t) /\ ~Asks(t) /\ ~Counts(t) /\ ~Aborts(t) /\ ~Empties(t)
      /\ Ends(t) /\ Owner(t) /\ ~At(t, "waitany") /\ ~At(t, "drainwait") /\ ~At(t, "close")
      /\ ~At(t, "abortwait")
      /\ ~Opens(t)' /\ ~Using(t)' /\ ~Asks(t)' /\ ~Counts(t)' /\ ~Aborts(t)' /\ ~Empties(t)'
      /\ ~Ends(t)' /\ ~Owner(t)' /\ ~At(t, "waitany")' /\ ~At(t, "drainwait")'
      /\ ~At(t, "close")' /\ ~At(t, "abortwait")'
  BY <1>c DEF Opens, Using, Asks, Counts, Aborts, Empties, Ends, Owner, At, Outside
<1>o. OthersStay(t)
  BY <1>c, Others
<1>. USE DEF OthersStay
<1>u. /\ \A x \in Task \ {t} : Owner(x) => Dd(x) \in Opn \ {o}
      /\ \A x \in Task : Using(x) => Dd(x) \in Opn \ {o}
      /\ opncb[o].requestq = << >>
      /\ \A x : Users(x)' = Users(x)
  BY <1>1, <1>s, <1>o DEF Owned, OneOwner, OwnerHolds, Taken, UserHolds, UsersAborted,
     Users, Registered, OwnerIsEmpty
<1>Owned. Owned'
  BY <1>e, <1>c, <1>s, <1>o, Stages, <1>u DEF Owned, OwnerHolds, OneOwner, HeldIsOpen
<1>Taken. Taken'
  BY <1>e, <1>c, <1>s, <1>o, Stages, <1>u, DeviceAssumption DEF Taken, UserHolds,
     UserNamed, NamedUses, UsersAborted
<1>Registered. Registered'
  BY <1>e, <1>c, <1>s, <1>o, Stages, <1>u DEF Registered, Once, QueueIsNamed, FreeIsEmpty,
     OwnerIsEmpty, DrainsNamed, OrderedBy, Range
<1>Alone. Alone'
  BY <1>e, <1>c, <1>s, <1>o, Stages, <1>u DEF Alone, ListKept, ListAlone
<1>Counting. Counting'
  BY <1>e, <1>c, <1>s, <1>o, Stages, <1>u, DeviceAssumption DEF Counting, AborterNamed,
     NamedAborts, SemIsAborts, CountIsUsers, LastSignals
<1>. QED
  BY <1>Types, <1>Owned, <1>Taken, <1>Registered, <1>Alone, <1>Counting DEF Owned, Taken,
     Registered, Alone, Counting

-----------------------------------------------------------------------------
(***************************************************************************)
(* Calls that begin.                                                       *)
(***************************************************************************)
\* tk_cls_dev(): the task becomes the owner of the descriptor.
LEMMA ClsKeeps ==
    ASSUME DevInv, NEW t \in Task, NEW o \in Opn, tk_cls_dev(t, o)
    PROVE  DevInv'
<1>. USE DEF DevInv
<1>1. /\ opncb' = [opncb EXCEPT ![o].resid = FALSE] /\ reqcb' = reqcb
      /\ opncb[o].resid /\ At(t, "out")
      /\ call' = [call EXCEPT ![t] = [Outside EXCEPT !.at = "abort", !.dd = o]]
  BY DEF tk_cls_dev
<1>e. /\ \A x \in Opn \ {o} : opncb'[x] = opncb[x]
      /\ DOMAIN opncb' = Opn /\ reqcb' = reqcb
      /\ opncb'[o].q = opncb[o].q
      /\ opncb'[o].unit = opncb[o].unit
      /\ opncb'[o].mode = opncb[o].mode
      /\ opncb'[o].requestq = opncb[o].requestq
      /\ opncb'[o].waitone = opncb[o].waitone
      /\ opncb'[o].waireqlst = opncb[o].waireqlst
      /\ opncb'[o].abort_tskid = opncb[o].abort_tskid
      /\ opncb'[o].abort_cnt = opncb[o].abort_cnt
      /\ opncb'[o].sem = opncb[o].sem
      /\ ~opncb'[o].resid
  BY <1>1 DEF DevTypes, Cb
<1>b. opncb'[o] \in Cb
  <2>1. PICK b \in Cb : b = opncb[o]
    BY DEF DevTypes
  <2>2. opncb'[o] = [b EXCEPT !.resid = FALSE]
    BY <1>1, <2>1 DEF DevTypes
  <2>. QED
    BY <2>1, <2>2 DEF Cb
<1>c. /\ \A x \in Task \ {t} : call'[x] = call[x]
      /\ DOMAIN call' = Task /\ call[t].at = "out" /\ Dd(t)' = o
      /\ call'[t].at = "abort"
      /\ call'[t] \in [at : DPoint, dd : Opn \cup {None}, reqs : Seq(Req)]
  <2>1. call'[t] = [at |-> "abort", dd |-> o, reqs |-> << >>]
    BY <1>1 DEF DevTypes, Outside
  <2>2. call'[t] \in [at : DPoint, dd : Opn \cup {None}, reqs : Seq(Req)]
    BY <2>1 DEF DPoint
  <2>. QED
    BY <1>1, <2>1, <2>2 DEF DevTypes, At, Dd
<1>. HIDE DEF Opn, Req
<1>Types. DevTypes'
  BY <1>e, <1>b, <1>c DEF DevTypes
<1>s. /\ ~Opens(t) /\ ~Using(t) /\ ~Asks(t) /\ ~Counts(t) /\ ~Aborts(t) /\ ~Empties(t)
      /\ ~Ends(t) /\ ~Owner(t) /\ ~At(t, "waitany") /\ ~At(t, "drainwait")
      /\ ~At(t, "close") /\ ~At(t, "abortwait")
      /\ ~Opens(t)' /\ ~Using(t)' /\ Asks(t)' /\ ~Counts(t)' /\ ~Aborts(t)' /\ ~Empties(t)'
      /\ ~Ends(t)' /\ Owner(t)' /\ ~At(t, "waitany")' /\ ~At(t, "drainwait")'
      /\ ~At(t, "close")' /\ ~At(t, "abortwait")'
  BY <1>c DEF Opens, Using, Asks, Counts, Aborts, Empties, Ends, Owner, At, Outside
<1>o. OthersStay(t)
  BY <1>c, Others
<1>. USE DEF OthersStay
<1>u. /\ \A x \in Task \ {t} : Owner(x) => Dd(x) \in Opn \ {o}
      /\ \A x \in Task : Using(x) => Dd(x) \in Opn
      /\ \A x : Users(x)' = Users(x)
      /\ opncb[o].q = "open"
  BY <1>1, <1>s, <1>o DEF Owned, OwnerHolds, HeldIsOpen, Taken, UserHolds, Users
<1>Owned. Owned'
  BY <1>e, <1>c, <1>s, <1>o, Stages, <1>u DEF Owned, OwnerHolds, OneOwner, HeldIsOpen
<1>Taken. Taken'
  BY <1>e, <1>c, <1>s, <1>o, Stages, <1>u, DeviceAssumption DEF Taken, UserHolds,
     UserNamed, NamedUses, UsersAborted
<1>Registered. Registered'
  BY <1>e, <1>c, <1>s, <1>o, Stages, <1>u DEF Registered, Once, QueueIsNamed, FreeIsEmpty,
     OwnerIsEmpty, DrainsNamed
<1>Alone. Alone'
  BY <1>e, <1>c, <1>s, <1>o, Stages, <1>u DEF Alone, ListKept, ListAlone
<1>Counting. Counting'
  BY <1>e, <1>c, <1>s, <1>o, Stages, <1>u, DeviceAssumption DEF Counting, AborterNamed,
     NamedAborts, SemIsAborts, CountIsUsers, LastSignals
<1>. QED
  BY <1>Types, <1>Owned, <1>Taken, <1>Registered, <1>Alone, <1>Counting DEF Owned, Taken,
     Registered, Alone, Counting

\* knl_request(): the request was in no queue.
LEMMA RequestKeeps ==
    ASSUME DevInv, NEW t \in Task, NEW o \in Opn, ~Mixed, knl_request(t, o)
    PROVE  DevInv'
<1>. USE DEF DevInv
<1>1. PICK r \in Req :
        /\ \A p \in Opn : r \notin Range(opncb[p].requestq)
        /\ opncb' = [opncb EXCEPT ![o].requestq = Append(@, r)]
        /\ reqcb' = [reqcb EXCEPT ![r] = [opncb |-> o, tskid |-> t]]
        /\ call' = [call EXCEPT ![t] = [at |-> "execfn", dd |-> o, reqs |-> <<r>>]]
  BY DEF knl_request
<1>2. At(t, "out") /\ opncb[o].resid /\ opncb[o].waireqlst = << >>
  BY DEF knl_request
<1>q. /\ opncb[o].requestq \in Seq(Req)
      /\ Append(opncb[o].requestq, r) \in Seq(Req)
      /\ Range(Append(opncb[o].requestq, r)) = Range(opncb[o].requestq) \cup {r}
      /\ OrderedBy(Append(opncb[o].requestq, r), NoOrder)
  <2>1. opncb[o].requestq \in Seq(Req) /\ OrderedBy(opncb[o].requestq, NoOrder)
    BY CbKinds DEF Registered, Once
  <2>2. NoOrder \in [Req -> Nat] /\ \A x \in Req : NoOrder[x] <= NoOrder[r]
    BY DEF NoOrder
  <2>. QED
    BY <1>1, <2>1, <2>2, AppendKeeps
<1>e. /\ \A x \in Opn \ {o} : opncb'[x] = opncb[x]
      /\ DOMAIN opncb' = Opn
      /\ opncb'[o].q = opncb[o].q
      /\ opncb'[o].resid = opncb[o].resid
      /\ opncb'[o].unit = opncb[o].unit
      /\ opncb'[o].mode = opncb[o].mode
      /\ opncb'[o].waitone = opncb[o].waitone
      /\ opncb'[o].waireqlst = opncb[o].waireqlst
      /\ opncb'[o].abort_tskid = opncb[o].abort_tskid
      /\ opncb'[o].abort_cnt = opncb[o].abort_cnt
      /\ opncb'[o].sem = opncb[o].sem
      /\ opncb'[o].requestq = Append(opncb[o].requestq, r)
      /\ \A s \in Req \ {r} : reqcb'[s] = reqcb[s]
      /\ reqcb'[r].opncb = o /\ reqcb'[r].tskid = t
  BY <1>1 DEF DevTypes, Cb
<1>b. opncb'[o] \in Cb
  <2>1. PICK b \in Cb : b = opncb[o]
    BY DEF DevTypes
  <2>2. PICK y \in Seq(Req) : y = Append(opncb[o].requestq, r)
    BY <1>q
  <2>3. opncb'[o] = [b EXCEPT !.requestq = y]
    BY <1>1, <2>1, <2>2 DEF DevTypes
  <2>. QED
    BY <2>1, <2>2, <2>3 DEF Cb
<1>c. /\ \A x \in Task \ {t} : call'[x] = call[x]
      /\ DOMAIN call' = Task /\ call[t].at = "out" /\ Dd(t)' = o
      /\ call'[t].at = "execfn" /\ Reqs(t)' = <<r>>
      /\ call'[t] \in [at : DPoint, dd : Opn \cup {None}, reqs : Seq(Req)]
  BY <1>1, <1>2 DEF DevTypes, At, Dd, Reqs, DPoint
<1>. HIDE DEF Opn, Req
<1>Types. DevTypes'
  <2>1. reqcb' \in [Req -> [opncb : Opn \cup {None}, tskid : Task \cup {None}]]
    BY <1>1 DEF DevTypes
  <2>. QED
    <3>1. DOMAIN opncb' = Opn /\ \A x \in Opn : opncb'[x] \in Cb
      BY <1>e, <1>b DEF DevTypes
    <3>2. \A x \in Task : call'[x] \in [at : DPoint, dd : Opn \cup {None}, reqs : Seq(Req)]
      BY <1>c DEF DevTypes
    <3>. QED
      BY <1>c, <2>1, <3>1, <3>2 DEF DevTypes
<1>s. /\ ~Opens(t) /\ ~Using(t) /\ ~Asks(t) /\ ~Counts(t) /\ ~Aborts(t) /\ ~Empties(t)
      /\ ~Ends(t) /\ ~Owner(t) /\ ~At(t, "waitany") /\ ~At(t, "drainwait")
      /\ ~At(t, "close") /\ ~At(t, "abortwait")
      /\ ~Opens(t)' /\ Using(t)' /\ ~Asks(t)' /\ ~Counts(t)' /\ ~Aborts(t)' /\ ~Empties(t)'
      /\ ~Ends(t)' /\ ~Owner(t)' /\ ~At(t, "waitany")' /\ ~At(t, "drainwait")'
      /\ ~At(t, "close")' /\ ~At(t, "abortwait")'
  BY <1>c DEF Opens, Using, Asks, Counts, Aborts, Empties, Ends, Owner, At, Outside
<1>o. OthersStay(t)
  BY <1>c, Others
<1>. USE DEF OthersStay
<1>f. Range(<<r>>) = {r} /\ Head(<<r>>) = r /\ <<r>> # << >>
  BY DEF Range
<1>g. reqcb[r].opncb \notin Opn
  BY <1>1 DEF Registered, QueueIsNamed
<1>u. /\ \A x \in Task : Owner(x) => Dd(x) \in Opn \ {o}
      /\ \A x \in Task : Using(x) => Dd(x) \in Opn /\ r \notin Range(Reqs(x)) /\ reqcb[r].tskid # x
      /\ \A x : x # o => Users(x)' = Users(x)
      /\ opncb[o].q = "open"
  <2>3. \A x : x # o => Users(x)' = Users(x)
    BY <1>c, <1>s, <1>o DEF Users
  <2>1. \A x \in Task : Using(x) => Dd(x) \in Opn /\ r \notin Range(Reqs(x))
    BY <1>g DEF Taken, UserHolds, UserNamed
  <2>2. \A x \in Task : Using(x) => reqcb[r].tskid # x
    BY <2>1 DEF Taken, NamedUses
  <2>. QED
    BY <1>2, <2>1, <2>2, <2>3 DEF Owned, OwnerHolds, HeldIsOpen
<1>Owned. Owned'
  BY <1>e, <1>s, <1>o, <1>u DEF Owned, OwnerHolds, OneOwner, HeldIsOpen
<1>UserHolds. UserHolds'
  <2>. SUFFICES ASSUME NEW x \in Task, Using(x)'
       PROVE  /\ Dd(x)' \in Opn /\ opncb'[Dd(x)'].q = "open"
              /\ Reqs(x)' # << >> /\ (~At(x, "waitany")' => Reqs(x)' = <<Head(Reqs(x)')>>)
    BY DEF UserHolds
  <2>1. CASE x = t
    BY <1>e, <1>c, <1>u, <1>f, <2>1
  <2>2. CASE x # t
    BY <1>e, <1>o, <1>u, <2>2 DEF Taken, UserHolds
  <2>. QED
    BY <2>1, <2>2
<1>UserNamed. UserNamed'
  BY <1>e, <1>c, <1>s, <1>o, Stages, <1>u, <1>f, <1>g, <1>2 DEF Taken, UserHolds,
     UserNamed, NamedUses, UsersAborted
<1>NamedUses. NamedUses'
  BY <1>e, <1>c, <1>s, <1>o, Stages, <1>u, <1>f, <1>g, <1>2, DeviceAssumption DEF Taken,
     UserHolds, UserNamed, NamedUses, UsersAborted
<1>UsersAborted. UsersAborted'
  BY <1>e, <1>c, <1>s, <1>o, Stages, <1>u, <1>f, <1>g, <1>2 DEF Taken, UserHolds,
     UserNamed, NamedUses, UsersAborted
<1>Once. Once'
  BY <1>e, <1>q DEF Registered, Once
<1>QueueIsNamed. QueueIsNamed'
  <2>1. \A s \in Req : s \in Range(opncb'[o].requestq) <=> reqcb'[s].opncb = o
    BY <1>e, <1>q, <1>g DEF Registered, QueueIsNamed
  <2>2. \A x \in Opn \ {o}, s \in Req : s \in Range(opncb'[x].requestq) <=> reqcb'[s].opncb = x
    BY <1>1, <1>e, <1>g DEF Registered, QueueIsNamed
  <2>. QED
    BY <2>1, <2>2 DEF QueueIsNamed
<1>FreeIsEmpty. FreeIsEmpty'
  BY <1>e, <1>u DEF Registered, FreeIsEmpty
<1>OwnerIsEmpty. OwnerIsEmpty'
  BY <1>e, <1>c, <1>s, <1>o, Stages, <1>u, <1>f, <1>g, <1>2 DEF Registered, Once,
     QueueIsNamed, FreeIsEmpty, OwnerIsEmpty, DrainsNamed
<1>DrainsNamed. DrainsNamed'
  BY <1>e, <1>c, <1>s, <1>o, Stages, <1>u, <1>f, <1>g, <1>2 DEF Registered, Once,
     QueueIsNamed, FreeIsEmpty, OwnerIsEmpty, DrainsNamed
<1>ListKept. ListKept'
  BY <1>e, <1>c, <1>s, <1>o, Stages, <1>u, <1>f, <1>g, <1>2 DEF Alone, ListKept, ListAlone
<1>ListAlone. ListAlone'
  <2>. SUFFICES ASSUME NEW x \in Opn, opncb'[x].waireqlst # << >>
       PROVE  \E y \in Task : At(y, "waitany")' /\ Users(x)' = {y}
    BY DEF ListAlone
  <2>1. x # o /\ opncb[x].waireqlst # << >>
    BY <1>2, <1>e
  <2>2. PICK y \in Task : At(y, "waitany") /\ Users(x) = {y}
    BY <2>1 DEF Alone, ListAlone
  <2>. QED
    BY <1>s, <1>o, <1>u, <2>1, <2>2
<1>AborterNamed. AborterNamed'
  BY <1>e, <1>c, <1>s, <1>o, Stages, <1>u, <1>f, <1>g, <1>2 DEF Counting, AborterNamed,
     NamedAborts, SemIsAborts, CountIsUsers, LastSignals
<1>NamedAborts. NamedAborts'
  BY <1>e, <1>c, <1>s, <1>o, Stages, <1>u, <1>f, <1>g, <1>2, DeviceAssumption DEF Counting,
     AborterNamed, NamedAborts, SemIsAborts, CountIsUsers, LastSignals
<1>SemIsAborts. SemIsAborts'
  BY <1>e, <1>c, <1>s, <1>o, Stages, <1>u, <1>f, <1>g, <1>2 DEF Counting, AborterNamed,
     NamedAborts, SemIsAborts, CountIsUsers, LastSignals
<1>CountIsUsers. CountIsUsers'
  BY <1>e, <1>c, <1>s, <1>o, Stages, <1>u, <1>f, <1>g, <1>2 DEF Counting, AborterNamed,
     NamedAborts, SemIsAborts, CountIsUsers, LastSignals
<1>LastSignals. LastSignals'
  BY <1>e, <1>c, <1>s, <1>o, Stages, <1>u, <1>f, <1>g, <1>2 DEF Counting, AborterNamed,
     NamedAborts, SemIsAborts, CountIsUsers, LastSignals
<1>. QED
  BY <1>Types, <1>Owned, <1>UserHolds, <1>UserNamed, <1>NamedUses, <1>UsersAborted,
     <1>Once, <1>QueueIsNamed, <1>FreeIsEmpty, <1>OwnerIsEmpty, <1>DrainsNamed,
     <1>ListKept, <1>ListAlone, <1>AborterNamed, <1>NamedAborts, <1>SemIsAborts,
     <1>CountIsUsers, <1>LastSignals DEF Owned, Taken, Registered, Alone, Counting

\* tk_wai_dev() for a request that is in nobody's hands.
LEMMA WaiKeeps ==
    ASSUME DevInv, NEW t \in Task, NEW o \in Opn, NEW r \in Req, tk_wai_dev(t, o, r)
    PROVE  DevInv'
<1>. USE DEF DevInv
<1>1. /\ opncb' = [opncb EXCEPT ![o].waitone = @ + 1]
      /\ reqcb' = [reqcb EXCEPT ![r].tskid = t]
      /\ call' = [call EXCEPT ![t] = [at |-> "waitfn", dd |-> o, reqs |-> <<r>>]]
  BY DEF tk_wai_dev
<1>2. /\ At(t, "out") /\ opncb[o].resid /\ opncb[o].waireqlst = << >>
      /\ reqcb[r].opncb = o /\ reqcb[r].tskid = None
  BY DEF tk_wai_dev
<1>e. /\ \A x \in Opn \ {o} : opncb'[x] = opncb[x]
      /\ DOMAIN opncb' = Opn
      /\ opncb'[o].q = opncb[o].q
      /\ opncb'[o].resid = opncb[o].resid
      /\ opncb'[o].unit = opncb[o].unit
      /\ opncb'[o].mode = opncb[o].mode
      /\ opncb'[o].requestq = opncb[o].requestq
      /\ opncb'[o].waireqlst = opncb[o].waireqlst
      /\ opncb'[o].abort_tskid = opncb[o].abort_tskid
      /\ opncb'[o].abort_cnt = opncb[o].abort_cnt
      /\ opncb'[o].sem = opncb[o].sem
  BY <1>1 DEF DevTypes, Cb
<1>r. /\ \A s \in Req \ {r} : reqcb'[s] = reqcb[s]
      /\ reqcb'[r].opncb = o /\ reqcb'[r].tskid = t
  <2>1. reqcb[r] = [opncb |-> reqcb[r].opncb, tskid |-> reqcb[r].tskid]
    BY ReqKinds
  <2>. QED
    BY <1>1, <1>2, <2>1 DEF DevTypes
<1>b. opncb'[o] \in Cb
  <2>1. PICK b \in Cb : b = opncb[o]
    BY DEF DevTypes
  <2>2. PICK n \in Int : n = b.waitone + 1
    BY DEF Cb
  <2>3. opncb'[o] = [b EXCEPT !.waitone = n]
    BY <1>1, <2>1, <2>2 DEF DevTypes
  <2>. QED
    BY <2>3 DEF Cb
<1>c. /\ \A x \in Task \ {t} : call'[x] = call[x]
      /\ DOMAIN call' = Task /\ call[t].at = "out" /\ Dd(t)' = o
      /\ call'[t].at = "waitfn" /\ Reqs(t)' = <<r>>
      /\ call'[t] \in [at : DPoint, dd : Opn \cup {None}, reqs : Seq(Req)]
  BY <1>1, <1>2 DEF DevTypes, At, Dd, Reqs, DPoint
<1>. HIDE DEF Opn, Req
<1>Types. DevTypes'
  <2>1. reqcb' \in [Req -> [opncb : Opn \cup {None}, tskid : Task \cup {None}]]
    BY <1>1 DEF DevTypes
  <2>. QED
    BY <1>e, <1>b, <1>c, <2>1 DEF DevTypes
<1>s. /\ ~Opens(t) /\ ~Using(t) /\ ~Asks(t) /\ ~Counts(t) /\ ~Aborts(t) /\ ~Empties(t)
      /\ ~Ends(t) /\ ~Owner(t) /\ ~At(t, "waitany") /\ ~At(t, "drainwait")
      /\ ~At(t, "close") /\ ~At(t, "abortwait")
      /\ ~Opens(t)' /\ Using(t)' /\ ~Asks(t)' /\ ~Counts(t)' /\ ~Aborts(t)' /\ ~Empties(t)'
      /\ ~Ends(t)' /\ ~Owner(t)' /\ ~At(t, "waitany")' /\ ~At(t, "drainwait")'
      /\ ~At(t, "close")' /\ ~At(t, "abortwait")'
  BY <1>c DEF Opens, Using, Asks, Counts, Aborts, Empties, Ends, Owner, At, Outside
<1>o. OthersStay(t)
  BY <1>c, Others
<1>. USE DEF OthersStay
<1>f. Range(<<r>>) = {r} /\ Head(<<r>>) = r /\ <<r>> # << >>
  BY DEF Range
<1>u. /\ \A x \in Task : Owner(x) => Dd(x) \in Opn \ {o}
      /\ \A x \in Task : Using(x) => r \notin Range(Reqs(x))
      /\ \A x \in Task : Using(x) => Dd(x) \in Opn
      /\ \A x : x # o => Users(x)' = Users(x)
      /\ opncb[o].q = "open"
  <2>1. \A x : x # o => Users(x)' = Users(x)
    BY <1>c, <1>s, <1>o DEF Users
  <2>2. \A x \in Task : Using(x) => Dd(x) \in Opn /\ r \notin Range(Reqs(x))
    BY <1>2, DeviceAssumption DEF Taken, UserHolds, UserNamed
  <2>. QED
    BY <1>2, <2>1, <2>2 DEF Owned, OwnerHolds, HeldIsOpen
<1>Owned. Owned'
  BY <1>e, <1>c, <1>s, <1>o, Stages, <1>u, <1>f, <1>r, <1>2 DEF Owned, OwnerHolds,
     OneOwner, HeldIsOpen
<1>UserHolds. UserHolds'
  <2>. SUFFICES ASSUME NEW x \in Task, Using(x)'
       PROVE  /\ Dd(x)' \in Opn /\ opncb'[Dd(x)'].q = "open"
              /\ Reqs(x)' # << >> /\ (~At(x, "waitany")' => Reqs(x)' = <<Head(Reqs(x)')>>)
    BY DEF UserHolds
  <2>1. CASE x = t
    BY <1>e, <1>c, <1>s, <1>u, <1>f, <2>1
  <2>2. CASE x # t
    BY <1>e, <1>o, <1>u, <2>2 DEF Taken, UserHolds
  <2>. QED
    BY <2>1, <2>2
<1>UserNamed. UserNamed'
  BY <1>e, <1>c, <1>s, <1>o, Stages, <1>u, <1>f, <1>r, <1>2 DEF Taken, UserHolds,
     UserNamed, NamedUses, UsersAborted
<1>NamedUses. NamedUses'
  BY <1>e, <1>c, <1>s, <1>o, Stages, <1>u, <1>f, <1>r, <1>2, DeviceAssumption DEF Taken,
     UserHolds, UserNamed, NamedUses, UsersAborted
<1>UsersAborted. UsersAborted'
  BY <1>e, <1>c, <1>s, <1>o, Stages, <1>u, <1>f, <1>r, <1>2 DEF Taken, UserHolds,
     UserNamed, NamedUses, UsersAborted
<1>Registered. Registered'
  BY <1>e, <1>c, <1>s, <1>o, Stages, <1>u, <1>f, <1>r, <1>2 DEF Registered, Once,
     QueueIsNamed, FreeIsEmpty, OwnerIsEmpty, DrainsNamed
<1>ListKept. ListKept'
  BY <1>e, <1>c, <1>s, <1>o, Stages, <1>u, <1>f, <1>r, <1>2 DEF Alone, ListKept, ListAlone
<1>ListAlone. ListAlone'
  <2>. SUFFICES ASSUME NEW x \in Opn, opncb'[x].waireqlst # << >>
       PROVE  \E y \in Task : At(y, "waitany")' /\ Users(x)' = {y}
    BY DEF ListAlone
  <2>1. x # o /\ opncb[x].waireqlst # << >>
    BY <1>2, <1>e
  <2>2. PICK y \in Task : At(y, "waitany") /\ Users(x) = {y}
    BY <2>1 DEF Alone, ListAlone
  <2>. QED
    BY <1>s, <1>o, <1>u, <2>1, <2>2
<1>Counting. Counting'
  BY <1>e, <1>c, <1>s, <1>o, Stages, <1>u, <1>f, <1>r, <1>2, DeviceAssumption DEF Counting,
     AborterNamed, NamedAborts, SemIsAborts, CountIsUsers, LastSignals
<1>. QED
  BY <1>Types, <1>Owned, <1>UserHolds, <1>UserNamed, <1>NamedUses, <1>UsersAborted,
     <1>Registered, <1>ListKept, <1>ListAlone, <1>Counting DEF Owned, Taken, Registered,
     Alone, Counting

\* tk_wai_dev() for any request: all of them are in nobody's hands.
LEMMA WaitAnyKeeps ==
    ASSUME DevInv, NEW t \in Task, NEW o \in Opn, ~Mixed, WaitAny(t, o)
    PROVE  DevInv'
<1>. USE DEF DevInv
<1>0. PICK q \in Seq(Req) : q = opncb[o].requestq
  BY CbKinds
<1>1. /\ opncb' = [opncb EXCEPT ![o].waireqlst = q]
      /\ reqcb' = [r \in Req |-> IF r \in Range(q) THEN [reqcb[r] EXCEPT !.tskid = t] ELSE reqcb[r]]
      /\ call' = [call EXCEPT ![t] = [at |-> "waitany", dd |-> o, reqs |-> q]]
  BY <1>0 DEF WaitAny
<1>2. /\ At(t, "out") /\ opncb[o].resid /\ opncb[o].waireqlst = << >>
      /\ q # << >> /\ \A r \in Range(q) : r \in Req /\ reqcb[r].tskid = None /\ reqcb[r].opncb = o
  <2>1. /\ At(t, "out") /\ opncb[o].resid /\ opncb[o].waireqlst = << >>
        /\ q # << >> /\ \A r \in Range(q) : reqcb[r].tskid = None
    BY <1>0 DEF WaitAny
  <2>2. \A r \in Range(q) : r \in Req
    BY DEF Range
  <2>. QED
    BY <1>0, <2>1, <2>2 DEF Registered, QueueIsNamed
<1>e. /\ \A x \in Opn \ {o} : opncb'[x] = opncb[x]
      /\ DOMAIN opncb' = Opn
      /\ opncb'[o].q = opncb[o].q
      /\ opncb'[o].resid = opncb[o].resid
      /\ opncb'[o].unit = opncb[o].unit
      /\ opncb'[o].mode = opncb[o].mode
      /\ opncb'[o].requestq = opncb[o].requestq
      /\ opncb'[o].waitone = opncb[o].waitone
      /\ opncb'[o].abort_tskid = opncb[o].abort_tskid
      /\ opncb'[o].abort_cnt = opncb[o].abort_cnt
      /\ opncb'[o].sem = opncb[o].sem
      /\ opncb'[o].waireqlst = q
  BY <1>1 DEF DevTypes, Cb
<1>r. /\ \A s \in Req : reqcb'[s].opncb = reqcb[s].opncb
      /\ \A s \in Req : reqcb'[s].tskid = IF s \in Range(q) THEN t ELSE reqcb[s].tskid
      /\ reqcb' \in [Req -> [opncb : Opn \cup {None}, tskid : Task \cup {None}]]
  <2>1. reqcb' = [s \in Req |-> IF s \in Range(q) THEN [reqcb[s] EXCEPT !.tskid = t] ELSE reqcb[s]]
    BY <1>1
  <2>2. \A s \in Req : /\ reqcb[s] \in [opncb : Opn \cup {None}, tskid : Task \cup {None}]
                       /\ reqcb[s] = [opncb |-> reqcb[s].opncb, tskid |-> reqcb[s].tskid]
    BY ReqKinds DEF DevTypes
  <2>3. \A s \in Req : reqcb'[s] = [opncb |-> reqcb[s].opncb,
                                    tskid |-> IF s \in Range(q) THEN t ELSE reqcb[s].tskid]
    BY <2>1, <2>2
  <2>4. DOMAIN reqcb' = Req /\ reqcb' = [s \in Req |-> reqcb'[s]]
    BY <2>1
  <2>5. ASSUME NEW s \in Req
        PROVE  reqcb'[s] \in [opncb : Opn \cup {None}, tskid : Task \cup {None}]
    <3>1. PICK x \in Opn \cup {None}, y \in Task \cup {None} : reqcb[s] = [opncb |-> x, tskid |-> y]
      BY <2>2
    <3>2. reqcb[s].opncb = x /\ reqcb[s].tskid = y
      BY <3>1
    <3>3. reqcb'[s] = [opncb |-> reqcb[s].opncb,
                       tskid |-> IF s \in Range(q) THEN t ELSE reqcb[s].tskid]
      BY <2>3
    <3>4. reqcb'[s] = [opncb |-> x, tskid |-> IF s \in Range(q) THEN t ELSE y]
      BY <3>2, <3>3
    <3>. QED
      BY <3>4
  <2>. QED
    BY <2>3, <2>4, <2>5
<1>b. opncb'[o] \in Cb
  <2>1. PICK b \in Cb : b = opncb[o]
    BY DEF DevTypes
  <2>2. opncb'[o] = [b EXCEPT !.waireqlst = q]
    BY <1>1, <2>1 DEF DevTypes
  <2>. QED
    BY <2>1, <2>2 DEF Cb
<1>c. /\ \A x \in Task \ {t} : call'[x] = call[x]
      /\ DOMAIN call' = Task /\ call[t].at = "out" /\ Dd(t)' = o
      /\ call'[t].at = "waitany" /\ Reqs(t)' = q
      /\ call'[t] \in [at : DPoint, dd : Opn \cup {None}, reqs : Seq(Req)]
  BY <1>1, <1>2 DEF DevTypes, At, Dd, Reqs, DPoint
<1>. HIDE DEF Opn, Req
<1>Types. DevTypes'
  BY <1>e, <1>r, <1>b, <1>c DEF DevTypes
<1>s. /\ ~Opens(t) /\ ~Using(t) /\ ~Asks(t) /\ ~Counts(t) /\ ~Aborts(t) /\ ~Empties(t)
      /\ ~Ends(t) /\ ~Owner(t) /\ ~At(t, "waitany") /\ ~At(t, "drainwait")
      /\ ~At(t, "close") /\ ~At(t, "abortwait")
      /\ ~Opens(t)' /\ Using(t)' /\ ~Asks(t)' /\ ~Counts(t)' /\ ~Aborts(t)' /\ ~Empties(t)'
      /\ ~Ends(t)' /\ ~Owner(t)' /\ At(t, "waitany")' /\ ~At(t, "drainwait")'
      /\ ~At(t, "close")' /\ ~At(t, "abortwait")'
  BY <1>c DEF Opens, Using, Asks, Counts, Aborts, Empties, Ends, Owner, At, Outside
<1>o. OthersStay(t)
  BY <1>c, Others
<1>. USE DEF OthersStay
<1>u. /\ \A x \in Task : Owner(x) => Dd(x) \in Opn \ {o}
      /\ \A x \in Task : Using(x) => \A r \in Range(Reqs(x)) : r \notin Range(q)
      /\ \A x \in Task : Using(x) => Dd(x) \in Opn
      /\ \A x : x # o => Users(x)' = Users(x)
      /\ opncb[o].q = "open"
      /\ Users(o)' = {t}
  <2>1. \A x : x # o => Users(x)' = Users(x)
    BY <1>c, <1>s, <1>o DEF Users
  <2>2. \A x \in Task : Using(x) => Dd(x) \in Opn /\ \A r \in Range(Reqs(x)) : r \notin Range(q)
    BY <1>2, DeviceAssumption DEF Taken, UserHolds, UserNamed
  <2>3. \A x \in Task : Using(x) => Head(Reqs(x)) \in Range(Reqs(x))
    BY CallKinds DEF Taken, UserHolds, Range
  <2>4. \A x \in Task : Using(x) => Dd(x) # o
    BY <1>0, <2>2, <2>3 DEF Taken, UserNamed, Registered, QueueIsNamed
  <2>5. Users(o)' = {t}
    BY <1>c, <1>s, <1>o, <2>4 DEF Users
  <2>. QED
    BY <1>2, <2>1, <2>2, <2>5 DEF Owned, OwnerHolds, HeldIsOpen
<1>OwnerHolds. OwnerHolds'
  BY <1>e, <1>c, <1>s, <1>o, Stages, <1>u, <1>r, <1>2 DEF Owned, OwnerHolds, OneOwner,
     HeldIsOpen
<1>OneOwner. OneOwner'
  BY <1>e, <1>c, <1>s, <1>o, Stages, <1>u, <1>r, <1>2 DEF Owned, OwnerHolds, OneOwner,
     HeldIsOpen
<1>HeldIsOpen. HeldIsOpen'
  BY <1>e, <1>c, <1>s, <1>o, Stages, <1>u, <1>r, <1>2 DEF Owned, OwnerHolds, OneOwner,
     HeldIsOpen
<1>UserHolds. UserHolds'
  <2>. SUFFICES ASSUME NEW x \in Task, Using(x)'
       PROVE  /\ Dd(x)' \in Opn /\ opncb'[Dd(x)'].q = "open"
              /\ Reqs(x)' # << >> /\ (~At(x, "waitany")' => Reqs(x)' = <<Head(Reqs(x)')>>)
    BY DEF UserHolds
  <2>1. CASE x = t
    BY <1>e, <1>c, <1>s, <1>u, <1>2, <2>1
  <2>2. CASE x # t
    BY <1>e, <1>o, <1>u, <2>2 DEF Taken, UserHolds
  <2>. QED
    BY <2>1, <2>2
<1>UserNamed. UserNamed'
  <2>. SUFFICES ASSUME NEW x \in Task, Using(x)', NEW r \in Range(Reqs(x)')
       PROVE  r \in Req /\ reqcb'[r].opncb = Dd(x)' /\ reqcb'[r].tskid = x
    BY DEF UserNamed
  <2>1. CASE x = t
    BY <1>c, <1>2, <1>r, <2>1
  <2>2. CASE x # t
    BY <1>o, <1>u, <1>r, <2>2 DEF Taken, UserNamed
  <2>. QED
    BY <2>1, <2>2
<1>NamedUses. NamedUses'
  BY <1>e, <1>c, <1>s, <1>o, Stages, <1>u, <1>r, <1>2, DeviceAssumption DEF Taken,
     UserHolds, UserNamed, NamedUses, UsersAborted
<1>UsersAborted. UsersAborted'
  BY <1>e, <1>c, <1>s, <1>o, Stages, <1>u, <1>r, <1>2 DEF Taken, UserHolds, UserNamed,
     NamedUses, UsersAborted
<1>Once. Once'
  BY <1>e DEF Registered, Once
<1>QueueIsNamed. QueueIsNamed'
  BY <1>e, <1>c, <1>s, <1>o, Stages, <1>u, <1>r, <1>2 DEF Registered, Once, QueueIsNamed,
     FreeIsEmpty, OwnerIsEmpty, DrainsNamed
<1>FreeIsEmpty. FreeIsEmpty'
  BY <1>e DEF Registered, FreeIsEmpty
<1>OwnerIsEmpty. OwnerIsEmpty'
  BY <1>e, <1>c, <1>s, <1>o, Stages, <1>u, <1>r, <1>2 DEF Registered, Once, QueueIsNamed,
     FreeIsEmpty, OwnerIsEmpty, DrainsNamed
<1>DrainsNamed. DrainsNamed'
  BY <1>e, <1>c, <1>s, <1>o, Stages, <1>u, <1>r, <1>2 DEF Registered, Once, QueueIsNamed,
     FreeIsEmpty, OwnerIsEmpty, DrainsNamed
<1>ListKept. ListKept'
  BY <1>e, <1>c, <1>s, <1>o, Stages, <1>u, <1>r, <1>2 DEF Alone, ListKept, ListAlone
<1>ListAlone. ListAlone'
  <2>. SUFFICES ASSUME NEW x \in Opn, opncb'[x].waireqlst # << >>
       PROVE  \E y \in Task : At(y, "waitany")' /\ Users(x)' = {y}
    BY DEF ListAlone
  <2>1. CASE x = o
    BY <1>s, <1>u, <2>1
  <2>2. CASE x # o
    <3>1. PICK y \in Task : At(y, "waitany") /\ Users(x) = {y}
      BY <1>e, <2>2 DEF Alone, ListAlone
    <3>. QED
      BY <1>s, <1>o, <1>u, <2>2, <3>1
  <2>. QED
    BY <2>1, <2>2
<1>AborterNamed. AborterNamed'
  BY <1>e, <1>c, <1>s, <1>o, Stages, <1>u, <1>r, <1>2 DEF Counting, AborterNamed,
     NamedAborts, SemIsAborts, CountIsUsers, LastSignals
<1>NamedAborts. NamedAborts'
  BY <1>e, <1>c, <1>s, <1>o, Stages, <1>u, <1>r, <1>2, DeviceAssumption DEF Counting,
     AborterNamed, NamedAborts, SemIsAborts, CountIsUsers, LastSignals
<1>SemIsAborts. SemIsAborts'
  BY <1>e, <1>c, <1>s, <1>o, Stages, <1>u, <1>r, <1>2 DEF Counting, AborterNamed,
     NamedAborts, SemIsAborts, CountIsUsers, LastSignals
<1>CountIsUsers. CountIsUsers'
  BY <1>e, <1>c, <1>s, <1>o, Stages, <1>u, <1>r, <1>2 DEF Counting, AborterNamed,
     NamedAborts, SemIsAborts, CountIsUsers, LastSignals
<1>LastSignals. LastSignals'
  BY <1>e, <1>c, <1>s, <1>o, Stages, <1>u, <1>r, <1>2 DEF Counting, AborterNamed,
     NamedAborts, SemIsAborts, CountIsUsers, LastSignals
<1>. QED
  BY <1>Types, <1>OwnerHolds, <1>OneOwner, <1>HeldIsOpen, <1>UserHolds, <1>UserNamed,
     <1>NamedUses, <1>UsersAborted, <1>Once, <1>QueueIsNamed, <1>FreeIsEmpty,
     <1>OwnerIsEmpty, <1>DrainsNamed, <1>ListKept, <1>ListAlone, <1>AborterNamed,
     <1>NamedAborts, <1>SemIsAborts, <1>CountIsUsers, <1>LastSignals DEF Owned, Taken,
     Registered, Alone, Counting

\* A task is back from the driver.  If the descriptor is being closed, abort_cnt
\* was the number of tasks there, with this one.
LEMMA ReturnKeeps ==
    ASSUME DevInv, NEW t \in Task, IsFiniteSet(Task), NEW o \in Opn, NEW D, CameBack(t, o, D)
    PROVE  DevInv'
<1>. USE DEF DevInv
<1>e. /\ DOMAIN opncb' = Opn
      /\ \A x \in Opn : /\ opncb'[x].q = opncb[x].q /\ opncb'[x].resid = opncb[x].resid
                        /\ opncb'[x].abort_tskid = opncb[x].abort_tskid
                        /\ Range(opncb'[x].requestq) = Range(opncb[x].requestq) \ D
                        /\ OrderedBy(opncb'[x].requestq, NoOrder)
                        /\ opncb[x].requestq = << >> => opncb'[x].requestq = << >>
                        /\ x # o => /\ opncb'[x].waireqlst = opncb[x].waireqlst
                                    /\ opncb'[x].abort_cnt = opncb[x].abort_cnt /\ opncb'[x].sem = opncb[x].sem
      /\ \A s \in Req : /\ reqcb'[s].tskid = IF s \in Range(Reqs(t)) THEN None ELSE reqcb[s].tskid
                        /\ reqcb'[s].opncb = IF s \in D THEN None ELSE reqcb[s].opncb
      /\ D \subseteq Range(Reqs(t)) /\ o = Dd(t)
  BY DEF CameBack, Settled, Left
<1>c. /\ \A x \in Task \ {t} : call'[x] = call[x]
      /\ DOMAIN call' = Task /\ call[t].at \in {"execfn", "waitfn", "waitany"}
      /\ call'[t].at = "out"
      /\ call'[t] \in [at : DPoint, dd : Opn \cup {None}, reqs : Seq(Req)]
  BY DEF DevTypes, CameBack, Using, Returns, Outside, DPoint
<1>x. None \notin Opn
  BY DeviceAssumption DEF Opn
<1>. HIDE DEF Opn, Req
<1>Types. DevTypes'
  <2>1. /\ \A x \in Opn : opncb'[x] \in Cb
        /\ reqcb' \in [Req -> [opncb : Opn \cup {None}, tskid : Task \cup {None}]]
    BY DEF CameBack, Settled, Left
  <2>. QED
    BY <1>e, <1>c, <2>1 DEF DevTypes
<1>s. /\ ~Opens(t) /\ Using(t) /\ ~Asks(t) /\ ~Counts(t) /\ ~Aborts(t) /\ ~Empties(t)
      /\ ~Ends(t) /\ ~Owner(t) /\ ~At(t, "drainwait") /\ ~At(t, "close")
      /\ ~At(t, "abortwait")
      /\ ~Opens(t)' /\ ~Using(t)' /\ ~Asks(t)' /\ ~Counts(t)' /\ ~Aborts(t)' /\ ~Empties(t)'
      /\ ~Ends(t)' /\ ~Owner(t)' /\ ~At(t, "waitany")' /\ ~At(t, "drainwait")'
      /\ ~At(t, "close")' /\ ~At(t, "abortwait")'
  BY <1>c DEF Opens, Using, Asks, Counts, Aborts, Empties, Ends, Owner, At, Outside
<1>o. OthersStay(t)
  BY <1>c, Others
<1>. USE DEF OthersStay
<1>u. /\ \A x \in Task \ {t} : Using(x) => /\ Dd(x) \in Opn
                                             /\ \A r \in Range(Reqs(x)) : r \notin Range(Reqs(t))
      /\ \A x \in Task : Owner(x) => Dd(x) \in Opn /\ (Dd(x) = o => Asks(x))
      /\ \A r \in Range(Reqs(t)) : r \in Req /\ reqcb[r].opncb = o /\ reqcb[r].tskid = t
      /\ \A x : x # o => Users(x)' = Users(x)
      /\ Users(o)' = Users(o) \ {t} /\ t \in Users(o)
  <2>1. t \in Users(o) /\ \A x : x # o => t \notin Users(x)
    BY <1>s, <1>e DEF Users
  <2>2. /\ \A x : x # o => Users(x)' = Users(x)
        /\ Users(o)' = Users(o) \ {t}
    BY <1>s, <1>o, <2>1
  <2>. QED
    BY <1>e, <1>s, <2>1, <2>2 DEF Taken, UserHolds, UserNamed, UsersAborted, Owned,
       OwnerHolds
<1>g. \A x \in Task : Counts(x) /\ Dd(x) = o =>
        /\ opncb'[o].abort_cnt = Cardinality(Users(o)')
        /\ opncb'[o].sem # 0 <=> opncb'[o].abort_cnt = 0
  <2>. SUFFICES ASSUME NEW x \in Task, Counts(x), Dd(x) = o
       PROVE  /\ opncb'[o].abort_cnt = Cardinality(Users(o)')
              /\ opncb'[o].sem # 0 <=> opncb'[o].abort_cnt = 0
    OBVIOUS
  <2>1. opncb[o].abort_tskid # None
    BY Stages, DeviceAssumption DEF Counting, AborterNamed
  <2>2. /\ opncb'[o].abort_cnt = opncb[o].abort_cnt - 1
        /\ opncb'[o].sem = IF opncb[o].abort_cnt = 1 THEN 1 ELSE opncb[o].sem
    BY <2>1 DEF CameBack, Settled, Left
  <2>3. /\ opncb[o].abort_cnt = Cardinality(Users(o))
        /\ opncb[o].sem # 0 => opncb[o].abort_cnt = 0
    BY DEF Counting, CountIsUsers, LastSignals
  <2>4. IsFiniteSet(Users(o)) /\ Cardinality(Users(o)) \in Nat /\ Cardinality(Users(o)) # 0
    BY <1>u, UsersFinite
  <2>5. Cardinality(Users(o)') = Cardinality(Users(o)) - 1
    <3>1. Users(o)' = Users(o) \ {t} /\ t \in Users(o)
      BY <1>u
    <3>2. PICK S : S = Users(o)
      OBVIOUS
    <3>3. Cardinality(S \ {t}) = Cardinality(S) - 1
      BY <2>4, <3>1, <3>2, FS_RemoveElement
    <3>. QED
      BY <3>1, <3>2, <3>3
  <2>. QED
    BY <2>2, <2>3, <2>4, <2>5
<1>n. /\ opncb[o].abort_tskid = None => opncb'[o].sem = opncb[o].sem
      /\ opncb[o].abort_tskid # None => opncb[o].abort_tskid \in Task
  BY CbKinds DEF CameBack, Settled, Left
<1>w. opncb'[o].waireqlst = IF At(t, "waitany") THEN << >> ELSE opncb[o].waireqlst
  BY DEF CameBack, Settled, Left
<1>Owned. Owned'
  BY <1>e, <1>c, <1>s, <1>o, Stages, <1>u DEF Owned, OwnerHolds, OneOwner, HeldIsOpen
<1>Taken. Taken'
  BY <1>e, <1>c, <1>s, <1>o, Stages, <1>u, DeviceAssumption DEF Taken, UserHolds,
     UserNamed, NamedUses, UsersAborted
<1>Once. Once'
  BY <1>e, <1>c, <1>s, <1>o, Stages, <1>u DEF Registered, Once, QueueIsNamed, FreeIsEmpty,
     OwnerIsEmpty, DrainsNamed
<1>QueueIsNamed. QueueIsNamed'
  BY <1>x, <1>u, <1>e DEF Registered, QueueIsNamed
<1>FreeIsEmpty. FreeIsEmpty'
  BY <1>e, <1>c, <1>s, <1>o, Stages, <1>u DEF Registered, Once, QueueIsNamed, FreeIsEmpty,
     OwnerIsEmpty, DrainsNamed
<1>OwnerIsEmpty. OwnerIsEmpty'
  BY <1>u, <1>e, <1>o, <1>s, Stages DEF Registered, OwnerIsEmpty
<1>DrainsNamed. DrainsNamed'
  BY <1>e, <1>c, <1>s, <1>o, Stages, <1>u DEF Registered, Once, QueueIsNamed, FreeIsEmpty,
     OwnerIsEmpty, DrainsNamed
<1>ListKept. ListKept'
  <2>. SUFFICES ASSUME NEW x \in Task, At(x, "waitany")' PROVE opncb'[Dd(x)'].waireqlst # << >>
    BY DEF ListKept
  <2>1. x # t /\ At(x, "waitany") /\ Dd(x)' = Dd(x) /\ Using(x) /\ Dd(x) \in Opn
    BY <1>s, <1>o, <1>u, <1>c, Stages DEF At
  <2>2. opncb[Dd(x)].waireqlst # << >>
    BY <2>1 DEF Alone, ListKept
  <2>3. CASE Dd(x) = o
    <3>1. PICK y \in Task : Users(o) = {y}
      BY <2>2, <2>3 DEF Alone, ListAlone
    <3>. QED
      BY <1>u, <2>1, <2>3, <3>1 DEF Users
  <2>4. CASE Dd(x) # o
    BY <1>e, <2>1, <2>2, <2>4
  <2>. QED
    BY <2>3, <2>4
<1>ListAlone. ListAlone'
  <2>. SUFFICES ASSUME NEW x \in Opn, opncb'[x].waireqlst # << >>
       PROVE  \E y \in Task : At(y, "waitany")' /\ Users(x)' = {y}
    BY DEF ListAlone
  <2>1. opncb[x].waireqlst # << >> /\ (x = o => ~At(t, "waitany"))
    BY <1>e, <1>w
  <2>2. PICK y \in Task : At(y, "waitany") /\ Users(x) = {y}
    BY <2>1 DEF Alone, ListAlone
  <2>3. x # o /\ y # t
    BY <1>u, <1>s, <2>1, <2>2 DEF Users
  <2>. QED
    BY <1>o, <1>u, <2>2, <2>3
<1>AborterNamed. AborterNamed'
  BY <1>u, <1>e, <1>o, <1>s, Stages DEF Counting, AborterNamed
<1>NamedAborts. NamedAborts'
  BY <1>e, <1>c, <1>s, <1>o, Stages, <1>u, DeviceAssumption DEF Counting, AborterNamed,
     NamedAborts, SemIsAborts, CountIsUsers, LastSignals
<1>SemIsAborts. SemIsAborts'
  <2>. SUFFICES ASSUME NEW x \in Opn, opncb'[x].sem # 0
       PROVE  \E y \in Task : (Aborts(y)' \/ Empties(y)') /\ Dd(y)' = x
    BY DEF SemIsAborts
  <2>1. \E y \in Task : (Aborts(y) \/ Empties(y)) /\ Dd(y) = x
    BY <1>e, <1>n DEF Counting, SemIsAborts, NamedAborts
  <2>. QED
    BY <1>o, <1>s, <2>1
<1>CountIsUsers. CountIsUsers'
  <2>. SUFFICES ASSUME NEW x \in Task, Counts(x)'
       PROVE  opncb'[Dd(x)'].abort_cnt = Cardinality(Users(Dd(x))')
    BY DEF CountIsUsers
  <2>1. Counts(x) /\ Dd(x)' = Dd(x) /\ Dd(x) \in Opn
    BY <1>s, <1>o, <1>u, Stages
  <2>2. CASE Dd(x) = o
    BY <1>g, <2>1, <2>2
  <2>3. CASE Dd(x) # o
    BY <1>e, <1>u, <2>1, <2>3 DEF Counting, CountIsUsers
  <2>. QED
    BY <2>2, <2>3
<1>LastSignals. LastSignals'
  BY <1>u, <1>g, <1>e, <1>o, <1>s, Stages DEF Counting, LastSignals
<1>. QED
  BY <1>Types, <1>Owned, <1>Taken, <1>Once, <1>QueueIsNamed, <1>FreeIsEmpty,
     <1>OwnerIsEmpty, <1>DrainsNamed, <1>ListKept, <1>ListAlone, <1>AborterNamed,
     <1>NamedAborts, <1>SemIsAborts, <1>CountIsUsers, <1>LastSignals DEF Owned, Taken,
     Registered, Alone, Counting

\* The notification of the task that closes a descriptor.
LEMMA BackKeeps ==
    ASSUME NEW b \in Cb
    PROVE  /\ Back(b) \in Cb
           /\ Back(b).q = b.q
           /\ Back(b).resid = b.resid
           /\ Back(b).unit = b.unit
           /\ Back(b).mode = b.mode
           /\ Back(b).requestq = b.requestq
           /\ Back(b).waitone = b.waitone
           /\ Back(b).waireqlst = b.waireqlst
           /\ Back(b).abort_tskid = b.abort_tskid
           /\ b.abort_tskid = None => Back(b).abort_cnt = b.abort_cnt /\ Back(b).sem = b.sem
           /\ b.abort_tskid # None => /\ Back(b).abort_cnt = b.abort_cnt - 1
                                      /\ Back(b).sem = IF b.abort_cnt = 1 THEN 1 ELSE b.sem
<1>1. CASE b.abort_tskid = None
  BY <1>1 DEF Back
<1>2. CASE b.abort_tskid # None
  <2>1. PICK n \in Int, s \in 0 .. 1 : n = b.abort_cnt - 1 /\ s = IF b.abort_cnt = 1 THEN 1 ELSE b.sem
    BY DEF Cb
  <2>2. Back(b) = [q |-> b.q,
                   resid |-> b.resid,
                   unit |-> b.unit,
                   mode |-> b.mode,
                   requestq |-> b.requestq,
                   waitone |-> b.waitone,
                   waireqlst |-> b.waireqlst,
                   abort_tskid |-> b.abort_tskid,
                   abort_cnt |-> n,
                   sem |-> s]
    BY <1>2, <2>1 DEF Back, Cb
  <2>3. Back(b) \in Cb
    BY <2>2 DEF Cb
  <2>. QED
    BY <1>2, <2>1, <2>2, <2>3
<1>. QED
  BY <1>1, <1>2

\* A request is unregistered: one descriptor,
LEMMA UnregisteredKeeps ==
    ASSUME NEW cbs, NEW r \in Req, NEW x \in Opn, cbs[x] \in Cb, OrderedBy(cbs[x].requestq, NoOrder)
    PROVE  /\ DOMAIN Unregistered(cbs, r) = Opn
           /\ Unregistered(cbs, r)[x] \in Cb
           /\ Unregistered(cbs, r)[x].q = cbs[x].q
           /\ Unregistered(cbs, r)[x].resid = cbs[x].resid
           /\ Unregistered(cbs, r)[x].unit = cbs[x].unit
           /\ Unregistered(cbs, r)[x].mode = cbs[x].mode
           /\ Unregistered(cbs, r)[x].waitone = cbs[x].waitone
           /\ Unregistered(cbs, r)[x].waireqlst = cbs[x].waireqlst
           /\ Unregistered(cbs, r)[x].abort_tskid = cbs[x].abort_tskid
           /\ Unregistered(cbs, r)[x].abort_cnt = cbs[x].abort_cnt
           /\ Unregistered(cbs, r)[x].sem = cbs[x].sem
           /\ Range(Unregistered(cbs, r)[x].requestq) = Range(cbs[x].requestq) \ {r}
           /\ OrderedBy(Unregistered(cbs, r)[x].requestq, NoOrder)
           /\ cbs[x].requestq = << >> => Unregistered(cbs, r)[x].requestq = << >>
<1>1. PICK b \in Cb : b = cbs[x]
  OBVIOUS
<1>. HIDE DEF Opn, Req
<1>2. /\ b.requestq \in Seq(Req) /\ OrderedBy(b.requestq, NoOrder)
  BY <1>1 DEF Cb
<1>3. PICK s \in Seq(Req) : s = Unqueued(b.requestq, r)
  BY <1>2, UnqueuedKeeps
<1>4. Unregistered(cbs, r)[x] = [q |-> b.q,
                   resid |-> b.resid,
                   unit |-> b.unit,
                   mode |-> b.mode,
                   requestq |-> s,
                   waitone |-> b.waitone,
                   waireqlst |-> b.waireqlst,
                   abort_tskid |-> b.abort_tskid,
                   abort_cnt |-> b.abort_cnt,
                   sem |-> b.sem]
  BY <1>1, <1>3 DEF Unregistered, Cb
<1>5. Unregistered(cbs, r)[x] \in Cb
  BY <1>4 DEF Cb
<1>6. DOMAIN Unregistered(cbs, r) = Opn
  BY DEF Unregistered
<1>7. /\ Range(s) = Range(b.requestq) \ {r} /\ OrderedBy(s, NoOrder)
      /\ b.requestq = << >> => s = << >>
  BY <1>2, <1>3, UnqueuedKeeps
<1>. QED
  BY <1>1, <1>4, <1>5, <1>6, <1>7

\* A task that leaves its requests registered.
LEMMA BackSettles ==
    ASSUME DevInv, NEW t \in Task, NEW o \in Opn, NEW b \in Cb,
           b.waireqlst = IF At(t, "waitany") THEN << >> ELSE opncb[o].waireqlst,
           b.q = opncb[o].q,
           b.resid = opncb[o].resid,
           b.unit = opncb[o].unit,
           b.mode = opncb[o].mode,
           b.requestq = opncb[o].requestq,
           b.abort_tskid = opncb[o].abort_tskid,
           b.abort_cnt = opncb[o].abort_cnt,
           b.sem = opncb[o].sem
    PROVE  Settled([opncb EXCEPT ![o] = Back(b)], t, o, {})
<1>. PICK back : back = [opncb EXCEPT ![o] = Back(b)]
  OBVIOUS
<1>. HIDE DEF Opn, Req
<1>1. /\ DOMAIN back = Opn /\ back[o] = Back(b)
      /\ \A x \in Opn : back[x] \in Cb /\ (x # o => back[x] = opncb[x])
  BY BackKeeps DEF DevInv, DevTypes
<1>2. /\ Back(b).q = b.q /\ Back(b).resid = b.resid /\ Back(b).abort_tskid = b.abort_tskid
      /\ Back(b).requestq = b.requestq /\ Back(b).waireqlst = b.waireqlst
      /\ b.abort_tskid = None => Back(b).abort_cnt = b.abort_cnt /\ Back(b).sem = b.sem
      /\ b.abort_tskid # None => /\ Back(b).abort_cnt = b.abort_cnt - 1
                                 /\ Back(b).sem = IF b.abort_cnt = 1 THEN 1 ELSE b.sem
  BY BackKeeps
<1>3. \A x \in Opn :
        /\ back[x].q = opncb[x].q /\ back[x].resid = opncb[x].resid
        /\ back[x].abort_tskid = opncb[x].abort_tskid
        /\ back[x].requestq = opncb[x].requestq
  BY <1>1, <1>2
<1>4. \A x \in Opn : OrderedBy(opncb[x].requestq, NoOrder)
  BY DEF DevInv, Registered, Once
<1>5. \A x \in Opn : x # o =>
        /\ back[x].waireqlst = opncb[x].waireqlst
        /\ back[x].abort_cnt = opncb[x].abort_cnt /\ back[x].sem = opncb[x].sem
  BY <1>1
<1>6. \A x \in Opn : /\ Range(back[x].requestq) = Range(opncb[x].requestq) \ {}
                     /\ OrderedBy(back[x].requestq, NoOrder)
                     /\ opncb[x].requestq = << >> => back[x].requestq = << >>
  BY <1>3, <1>4
<1>7. /\ back[o].waireqlst = b.waireqlst
      /\ opncb[o].abort_tskid = None =>
           back[o].abort_cnt = opncb[o].abort_cnt /\ back[o].sem = opncb[o].sem
      /\ opncb[o].abort_tskid # None =>
           /\ back[o].abort_cnt = opncb[o].abort_cnt - 1
           /\ back[o].sem = IF opncb[o].abort_cnt = 1 THEN 1 ELSE opncb[o].sem
  BY <1>1, <1>2
<1>. QED
  BY <1>1, <1>3, <1>5, <1>6, <1>7 DEF Settled

\* and all of them.
LEMMA UnregisteredAll ==
    ASSUME NEW cbs, NEW r \in Req, NEW c, c = Unregistered(cbs, r),
           \A x \in Opn : cbs[x] \in Cb /\ OrderedBy(cbs[x].requestq, NoOrder)
    PROVE  /\ DOMAIN c = Opn
           /\ \A x \in Opn :
                /\ c[x] \in Cb
                /\ c[x].q = cbs[x].q /\ c[x].resid = cbs[x].resid
                /\ c[x].waireqlst = cbs[x].waireqlst
                /\ c[x].abort_tskid = cbs[x].abort_tskid
                /\ c[x].abort_cnt = cbs[x].abort_cnt /\ c[x].sem = cbs[x].sem
                /\ Range(c[x].requestq) = Range(cbs[x].requestq) \ {r}
                /\ OrderedBy(c[x].requestq, NoOrder)
                /\ cbs[x].requestq = << >> => c[x].requestq = << >>
<1>. HIDE DEF Opn, Req
<1>1. DOMAIN c = Opn
  BY DEF Unregistered
<1>2. ASSUME NEW x \in Opn
      PROVE  /\ c[x] \in Cb
             /\ c[x].q = cbs[x].q /\ c[x].resid = cbs[x].resid
             /\ c[x].waireqlst = cbs[x].waireqlst
             /\ c[x].abort_tskid = cbs[x].abort_tskid
             /\ c[x].abort_cnt = cbs[x].abort_cnt /\ c[x].sem = cbs[x].sem
             /\ Range(c[x].requestq) = Range(cbs[x].requestq) \ {r}
             /\ OrderedBy(c[x].requestq, NoOrder)
             /\ cbs[x].requestq = << >> => c[x].requestq = << >>
  <2>1. cbs[x] \in Cb /\ OrderedBy(cbs[x].requestq, NoOrder)
    OBVIOUS
  <2>. QED
    BY <2>1, UnregisteredKeeps
<1>. QED
  BY <1>1, <1>2

LEMMA QueuesWithout ==
    ASSUME NEW r \in Req, opncb' = Unregistered(opncb, r),
           \A x \in Opn : opncb[x] \in Cb /\ OrderedBy(opncb[x].requestq, NoOrder)
    PROVE  /\ DOMAIN opncb' = Opn
           /\ \A x \in Opn :
                /\ opncb'[x] \in Cb
                /\ opncb'[x].q = opncb[x].q /\ opncb'[x].resid = opncb[x].resid
                /\ opncb'[x].waireqlst = opncb[x].waireqlst
                /\ opncb'[x].abort_tskid = opncb[x].abort_tskid
                /\ opncb'[x].abort_cnt = opncb[x].abort_cnt /\ opncb'[x].sem = opncb[x].sem
                /\ Range(opncb'[x].requestq) = Range(opncb[x].requestq) \ {r}
                /\ OrderedBy(opncb'[x].requestq, NoOrder)
                /\ opncb[x].requestq = << >> => opncb'[x].requestq = << >>
<1>. HIDE DEF Opn, Req
<1>1. PICK cbs : cbs = opncb
  OBVIOUS
<1>2. PICK c : c = Unregistered(cbs, r)
  OBVIOUS
<1>3. opncb' = c
  BY <1>1, <1>2 DEF Unregistered
<1>4. \A x \in Opn : cbs[x] \in Cb /\ OrderedBy(cbs[x].requestq, NoOrder)
  BY <1>1
<1>5. /\ DOMAIN c = Opn
      /\ \A x \in Opn :
           /\ c[x] \in Cb
           /\ c[x].q = cbs[x].q /\ c[x].resid = cbs[x].resid
           /\ c[x].waireqlst = cbs[x].waireqlst
           /\ c[x].abort_tskid = cbs[x].abort_tskid
           /\ c[x].abort_cnt = cbs[x].abort_cnt /\ c[x].sem = cbs[x].sem
           /\ Range(c[x].requestq) = Range(cbs[x].requestq) \ {r}
           /\ OrderedBy(c[x].requestq, NoOrder)
           /\ cbs[x].requestq = << >> => c[x].requestq = << >>
  BY <1>2, <1>4, UnregisteredAll
<1>. QED
  BY <1>1, <1>3, <1>5

\* A task that unregisters one of them.
LEMMA UnregisteredSettles ==
    ASSUME NEW t \in Task, NEW o \in Opn, NEW back, NEW r \in Req, Settled(back, t, o, {})
    PROVE  Settled(Unregistered(back, r), t, o, {r})
<1>. PICK cbs : cbs = Unregistered(back, r)
  OBVIOUS
<1>. HIDE DEF Opn, Req
<1>1. /\ DOMAIN cbs = Opn
      /\ \A x \in Opn :
           /\ cbs[x] \in Cb
           /\ cbs[x].q = back[x].q /\ cbs[x].resid = back[x].resid
           /\ cbs[x].abort_tskid = back[x].abort_tskid
           /\ cbs[x].waireqlst = back[x].waireqlst
           /\ cbs[x].abort_cnt = back[x].abort_cnt /\ cbs[x].sem = back[x].sem
           /\ Range(cbs[x].requestq) = Range(back[x].requestq) \ {r}
           /\ OrderedBy(cbs[x].requestq, NoOrder)
           /\ back[x].requestq = << >> => cbs[x].requestq = << >>
  BY UnregisteredAll DEF Settled
<1>2. /\ \A x \in Opn :
           /\ cbs[x].q = opncb[x].q /\ cbs[x].resid = opncb[x].resid
           /\ cbs[x].abort_tskid = opncb[x].abort_tskid
           /\ x # o => /\ cbs[x].waireqlst = opncb[x].waireqlst
                       /\ cbs[x].abort_cnt = opncb[x].abort_cnt /\ cbs[x].sem = opncb[x].sem
  BY <1>1 DEF Settled
<1>3. \A x \in Opn : /\ Range(cbs[x].requestq) = Range(opncb[x].requestq) \ {r}
                     /\ OrderedBy(cbs[x].requestq, NoOrder)
                     /\ opncb[x].requestq = << >> => cbs[x].requestq = << >>
  <2>1. \A x \in Opn : /\ Range(back[x].requestq) = Range(opncb[x].requestq) \ {}
                       /\ opncb[x].requestq = << >> => back[x].requestq = << >>
    BY DEF Settled
  <2>. QED
    BY <1>1, <2>1
<1>4. /\ cbs[o].waireqlst = IF At(t, "waitany") THEN << >> ELSE opncb[o].waireqlst
      /\ opncb[o].abort_tskid = None =>
           cbs[o].abort_cnt = opncb[o].abort_cnt /\ cbs[o].sem = opncb[o].sem
      /\ opncb[o].abort_tskid # None =>
           /\ cbs[o].abort_cnt = opncb[o].abort_cnt - 1
           /\ cbs[o].sem = IF opncb[o].abort_cnt = 1 THEN 1 ELSE opncb[o].sem
  BY <1>1 DEF Settled
<1>. QED
  BY <1>1, <1>2, <1>3, <1>4 DEF Settled

\* execfn() returns.
LEMMA StartedKeeps ==
    ASSUME DevInv, IsFiniteSet(Task), NEW t \in Task, Started(t)
    PROVE  DevInv'
<1>. USE DEF DevInv
<1>1. PICK o \in Opn : o = Dd(t)
  BY DEF Started, At, Using, Taken, UserHolds
<1>2. PICK r \in Req : r = Head(Reqs(t)) /\ Range(Reqs(t)) = {r}
  <2>1. Using(t) /\ ~At(t, "waitany")
    BY DEF Started, At, Using
  <2>2. Reqs(t) = <<Head(Reqs(t))>>
    BY <2>1 DEF Taken, UserHolds
  <2>3. Range(Reqs(t)) = {Head(Reqs(t))}
    BY <2>2 DEF Range
  <2>. QED
    BY <2>1, <2>3 DEF Taken, UserNamed
<1>3. Using(t) /\ Returns(t) /\ ~At(t, "waitany")
  BY DEF Started, At, Using
<1>4. PICK back : back = [opncb EXCEPT ![o] = Back(opncb[o])]
  OBVIOUS
<1>5. \/ opncb' = back /\ reqcb' = [reqcb EXCEPT ![r].tskid = None]
      \/ opncb' = Unregistered(back, r) /\ reqcb' = Freed(r)
  BY <1>1, <1>2, <1>4 DEF Started, Dd, Reqs
<1>. HIDE DEF Opn, Req
<1>6. Settled(back, t, o, {})
  BY <1>3, <1>4, BackSettles DEF DevTypes
<1>7. CASE opncb' = back /\ reqcb' = [reqcb EXCEPT ![r].tskid = None]
  <2>1. Left(reqcb', t, {})
    BY <1>2, <1>7, ReqKinds DEF DevTypes, Left
  <2>. QED
    BY <1>1, <1>3, <1>6, <1>7, <2>1, ReturnKeeps DEF CameBack
<1>8. CASE opncb' = Unregistered(back, r) /\ reqcb' = Freed(r)
  <2>1. Left(reqcb', t, {r})
    BY <1>2, <1>8, ReqKinds DEF DevTypes, Left, Freed, FreeReq
  <2>2. Settled(opncb', t, o, {r})
    BY <1>6, <1>8, UnregisteredSettles
  <2>. QED
    BY <1>1, <1>2, <1>3, <2>1, <2>2, ReturnKeeps DEF CameBack
<1>. QED
  BY <1>5, <1>7, <1>8

\* waitfn() returns.
LEMMA WaitedKeeps ==
    ASSUME DevInv, IsFiniteSet(Task), NEW t \in Task, Waited(t)
    PROVE  DevInv'
<1>. USE DEF DevInv
<1>1. PICK o \in Opn : o = Dd(t)
  BY DEF Waited, At, Using, Taken, UserHolds
<1>2. PICK mine \in SUBSET Req : mine = Range(Reqs(t))
  <2>. HIDE DEF Opn, Req
  <2>1. PICK q \in Seq(Req) : q = Reqs(t)
    BY CallKinds
  <2>2. Range(q) \subseteq Req
    BY <2>1 DEF Range
  <2>. QED
    BY <2>1, <2>2
<1>3. Using(t) /\ Returns(t)
  BY DEF Waited, At, Using
<1>4. PICK w : w = IF At(t, "waitany") THEN << >> ELSE opncb[o].waireqlst
  OBVIOUS
<1>5. PICK n : n = IF At(t, "waitany") THEN opncb[o].waitone ELSE opncb[o].waitone - 1
  OBVIOUS
<1>6. PICK b : b = [opncb[o] EXCEPT !.waireqlst = w, !.waitone = n]
  OBVIOUS
<1>7. PICK back : back = [opncb EXCEPT ![o] = Back(b)]
  OBVIOUS
<1>8. PICK left : left = [r \in Req |-> IF r \in mine THEN [reqcb[r] EXCEPT !.tskid = None] ELSE reqcb[r]]
  OBVIOUS
<1>9. \/ opncb' = back /\ reqcb' = left
      \/ \E r \in mine : opncb' = Unregistered(back, r) /\ reqcb' = [left EXCEPT ![r] = FreeReq]
  BY <1>1, <1>2, <1>4, <1>5, <1>6, <1>7, <1>8 DEF Waited, DevTypes, Dd, Reqs
<1>. HIDE DEF Opn, Req
<1>10. Settled(back, t, o, {})
  <2>1. PICK c \in Cb : c = opncb[o]
    BY DEF DevTypes
  <2>2. w \in Seq(Req) /\ n \in Int
    BY <1>4, <1>5, <2>1 DEF Cb
  <2>3. b = [q |-> c.q,
                     resid |-> c.resid,
                     unit |-> c.unit,
                     mode |-> c.mode,
                     requestq |-> c.requestq,
                     waitone |-> n,
                     waireqlst |-> w,
                     abort_tskid |-> c.abort_tskid,
                     abort_cnt |-> c.abort_cnt,
                     sem |-> c.sem]
    BY <1>6, <2>1 DEF Cb
  <2>4. b \in Cb
    BY <2>1, <2>2, <2>3 DEF Cb
  <2>. QED
    BY <1>4, <1>7, <2>1, <2>3, <2>4, BackSettles
<1>11. Left(left, t, {})
  BY <1>2, <1>8, ReqKinds DEF DevTypes, Left
<1>12. CASE opncb' = back /\ reqcb' = left
  BY <1>1, <1>3, <1>10, <1>11, <1>12, ReturnKeeps DEF CameBack
<1>13. ASSUME NEW r \in mine, opncb' = Unregistered(back, r), reqcb' = [left EXCEPT ![r] = FreeReq]
       PROVE  DevInv'
  <2>1. Left(reqcb', t, {r})
    BY <1>2, <1>11, <1>13 DEF Left, FreeReq
  <2>2. Settled(opncb', t, o, {r})
    BY <1>10, <1>13, UnregisteredSettles
  <2>. QED
    BY <1>1, <1>2, <1>3, <2>1, <2>2, ReturnKeeps DEF CameBack
<1>. QED
  BY <1>9, <1>12, <1>13

-----------------------------------------------------------------------------
(***************************************************************************)
(* The requests that remain when a descriptor is closed.                   *)
(***************************************************************************)
\* waitfn() returns to the task that closes, and no request is left,
LEMMA DrainedEnds ==
    ASSUME DevInv, NEW t \in Task, Drained(t), opncb'[Dd(t)].requestq = << >>
    PROVE  DevInv'
<1>. USE DEF DevInv
<1>. PICK r : r = Head(Reqs(t))
  OBVIOUS
<1>1. PICK o \in Opn : o = Dd(t)
  BY DEF Drained, At, Owned, OwnerHolds, Owner, Opens, Asks, Aborts, Empties, Ends
<1>2. At(t, "drainwait") /\ r \in Req /\ reqcb[r].opncb = o
  BY <1>1 DEF Drained, Registered, DrainsNamed
<1>3. /\ opncb' = Unregistered(opncb, r) /\ reqcb' = Freed(r)
      /\ Drains(t, opncb'[o].requestq)
  BY <1>1 DEF Drained, Dd, Reqs
<1>. HIDE DEF Opn, Req
<1>e. /\ DOMAIN opncb' = Opn
      /\ \A x \in Opn : /\ opncb'[x] \in Cb
                        /\ opncb'[x].q = opncb[x].q /\ opncb'[x].resid = opncb[x].resid
                        /\ opncb'[x].waireqlst = opncb[x].waireqlst
                        /\ opncb'[x].abort_tskid = opncb[x].abort_tskid
                        /\ opncb'[x].abort_cnt = opncb[x].abort_cnt /\ opncb'[x].sem = opncb[x].sem
                        /\ Range(opncb'[x].requestq) = Range(opncb[x].requestq) \ {r}
                        /\ OrderedBy(opncb'[x].requestq, NoOrder)
                        /\ opncb[x].requestq = << >> => opncb'[x].requestq = << >>
  <2>1. \A x \in Opn : opncb[x] \in Cb /\ OrderedBy(opncb[x].requestq, NoOrder)
    BY DEF DevTypes, Registered, Once
  <2>. QED
    BY <1>2, <1>3, <2>1, QueuesWithout
<1>v. /\ \A x \in Task : Using(x) => Dd(x) \in Opn /\ Dd(x) # o
      /\ \A u \in Task : reqcb[r].tskid # u
  <2>1. Owner(t) /\ ~Asks(t)
    BY <1>2 DEF At, Owner, Empties, Asks
  <2>2. \A x \in Task : Using(x) => Dd(x) \in Opn /\ Dd(x) # o
    BY <1>1, <2>1 DEF Taken, UserHolds, UsersAborted
  <2>3. \A u \in Task : reqcb[r].tskid = u => Using(u) /\ Dd(u) = o
    BY <1>2 DEF Taken, NamedUses, UserNamed
  <2>. QED
    BY <2>2, <2>3
<1>f. /\ reqcb' \in [Req -> [opncb : Opn \cup {None}, tskid : Task \cup {None}]]
      /\ \A s \in Req : /\ reqcb'[s].tskid = reqcb[s].tskid
                        /\ reqcb'[s].opncb = IF s = r THEN None ELSE reqcb[s].opncb
  <2>1. reqcb[r].tskid = None
    BY <1>2, <1>v, ReqKinds
  <2>. QED
    BY <1>2, <1>3, <2>1 DEF DevTypes, Freed, FreeReq
<1>0. opncb'[o].requestq = << >>
  BY <1>1
<1>h. << >> \in Seq(Req)
  BY <1>0
<1>d. call'[t] = [at |-> "close", dd |-> o, reqs |-> << >>]
  BY <1>0, <1>1, <1>3 DEF DevTypes, Drains, Dd
<1>c. /\ \A x \in Task \ {t} : call'[x] = call[x]
      /\ DOMAIN call' = Task /\ call[t].at = "drainwait" /\ Dd(t) = o
      /\ call'[t].at = "close" /\ Dd(t)' = o /\ Reqs(t)' = << >>
      /\ call'[t] \in [at : DPoint, dd : Opn \cup {None}, reqs : Seq(Req)]
  <2>1. call'[t] \in [at : DPoint, dd : Opn \cup {None}, reqs : Seq(Req)]
    BY <1>d, <1>h DEF DPoint
  <2>2. /\ \A x \in Task \ {t} : call'[x] = call[x]
        /\ DOMAIN call' = Task
    BY <1>3 DEF DevTypes, Drains
  <2>. QED
    BY <1>1, <1>2, <1>d, <2>1, <2>2 DEF At, Dd, Reqs
<1>x. None \notin Opn
  BY DeviceAssumption DEF Opn
<1>Types. DevTypes'
  BY <1>e, <1>f, <1>c DEF DevTypes
<1>s. /\ ~Opens(t) /\ ~Using(t) /\ ~Asks(t) /\ ~Counts(t) /\ ~Aborts(t) /\ Empties(t)
      /\ ~Ends(t) /\ Owner(t) /\ ~At(t, "waitany") /\ At(t, "drainwait") /\ ~At(t, "close")
      /\ ~At(t, "abortwait")
      /\ ~Opens(t)' /\ ~Using(t)' /\ ~Asks(t)' /\ ~Counts(t)' /\ ~Aborts(t)' /\ Empties(t)'
      /\ ~Ends(t)' /\ Owner(t)' /\ ~At(t, "waitany")' /\ ~At(t, "drainwait")'
      /\ At(t, "close")' /\ ~At(t, "abortwait")'
  BY <1>c DEF Opens, Using, Asks, Counts, Aborts, Empties, Ends, Owner, At, Outside
<1>o. OthersStay(t)
  BY <1>c, Others
<1>. USE DEF OthersStay
<1>u. /\ \A x \in Task \ {t} : Owner(x) => Dd(x) \in Opn \ {o}
      /\ \A x : Users(x)' = Users(x)
      /\ \A x \in Task : Using(x) => Dd(x) \in Opn /\ Dd(x) # o
      /\ opncb'[o].requestq = << >>
  <2>1. /\ \A x \in Task \ {t} : Owner(x) => Dd(x) \in Opn \ {o}
        /\ \A x : Users(x)' = Users(x)
    BY <1>1, <1>s, <1>o DEF Owned, OneOwner, OwnerHolds, Users
  <2>. QED
    BY <1>0, <1>v, <2>1
<1>Owned. Owned'
  BY <1>e, <1>c, <1>s, <1>o, Stages, <1>u DEF Owned, OwnerHolds, OneOwner, HeldIsOpen
<1>UserHolds. UserHolds'
  BY <1>e, <1>c, <1>s, <1>o, Stages, <1>u DEF Taken, UserHolds, UserNamed, NamedUses,
     UsersAborted
<1>UserNamed. UserNamed'
  BY <1>u, <1>v, <1>f, <1>s, <1>o, <1>c, <1>2 DEF Taken, UserNamed
<1>NamedUses. NamedUses'
  BY <1>u, <1>f, <1>s, <1>o, <1>c, DeviceAssumption DEF Taken, NamedUses
<1>UsersAborted. UsersAborted'
  BY <1>e, <1>c, <1>s, <1>o, Stages, <1>u DEF Taken, UserHolds, UserNamed, NamedUses,
     UsersAborted
<1>Once. Once'
  BY <1>e DEF Registered, Once
<1>QueueIsNamed. QueueIsNamed'
  <2>. SUFFICES ASSUME NEW x \in Opn, NEW s \in Req
       PROVE  s \in Range(opncb'[x].requestq) <=> reqcb'[s].opncb = x
    BY DEF QueueIsNamed
  <2>1. Range(opncb'[x].requestq) = Range(opncb[x].requestq) \ {r}
    BY <1>e
  <2>2. s \in Range(opncb[x].requestq) <=> reqcb[s].opncb = x
    BY DEF Registered, QueueIsNamed
  <2>3. reqcb'[s].opncb = IF s = r THEN None ELSE reqcb[s].opncb
    BY <1>f
  <2>. QED
    BY <1>x, <2>1, <2>2, <2>3
<1>FreeIsEmpty. FreeIsEmpty'
  BY <1>e DEF Registered, FreeIsEmpty
<1>OwnerIsEmpty. OwnerIsEmpty'
  BY <1>u, <1>e, <1>s, <1>o, <1>c, <1>0, Stages DEF Registered, OwnerIsEmpty
<1>DrainsNamed. DrainsNamed'
  BY <1>u, <1>f, <1>s, <1>o, <1>c, <1>x, <1>2, Stages DEF Registered, DrainsNamed
<1>Alone. Alone'
  BY <1>e, <1>c, <1>s, <1>o, Stages, <1>u DEF Alone, ListKept, ListAlone
<1>Counting. Counting'
  BY <1>e, <1>c, <1>s, <1>o, Stages, <1>u, DeviceAssumption DEF Counting, AborterNamed,
     NamedAborts, SemIsAborts, CountIsUsers, LastSignals
<1>. QED
  BY <1>Types, <1>Owned, <1>UserHolds, <1>UserNamed, <1>NamedUses, <1>UsersAborted,
     <1>Once, <1>QueueIsNamed, <1>FreeIsEmpty, <1>OwnerIsEmpty, <1>DrainsNamed, <1>Alone,
     <1>Counting DEF Owned, Taken, Registered, Alone, Counting

\* or there is a next one.
LEMMA DrainedWaits ==
    ASSUME DevInv, NEW t \in Task, Drained(t), opncb'[Dd(t)].requestq # << >>
    PROVE  DevInv'
<1>. USE DEF DevInv
<1>. PICK r : r = Head(Reqs(t))
  OBVIOUS
<1>1. PICK o \in Opn : o = Dd(t)
  BY DEF Drained, At, Owned, OwnerHolds, Owner, Opens, Asks, Aborts, Empties, Ends
<1>2. At(t, "drainwait") /\ r \in Req /\ reqcb[r].opncb = o
  BY <1>1 DEF Drained, Registered, DrainsNamed
<1>3. /\ opncb' = Unregistered(opncb, r) /\ reqcb' = Freed(r)
      /\ Drains(t, opncb'[o].requestq)
  BY <1>1 DEF Drained, Dd, Reqs
<1>. HIDE DEF Opn, Req
<1>e. /\ DOMAIN opncb' = Opn
      /\ \A x \in Opn : /\ opncb'[x] \in Cb
                        /\ opncb'[x].q = opncb[x].q /\ opncb'[x].resid = opncb[x].resid
                        /\ opncb'[x].waireqlst = opncb[x].waireqlst
                        /\ opncb'[x].abort_tskid = opncb[x].abort_tskid
                        /\ opncb'[x].abort_cnt = opncb[x].abort_cnt /\ opncb'[x].sem = opncb[x].sem
                        /\ Range(opncb'[x].requestq) = Range(opncb[x].requestq) \ {r}
                        /\ OrderedBy(opncb'[x].requestq, NoOrder)
                        /\ opncb[x].requestq = << >> => opncb'[x].requestq = << >>
  <2>1. \A x \in Opn : opncb[x] \in Cb /\ OrderedBy(opncb[x].requestq, NoOrder)
    BY DEF DevTypes, Registered, Once
  <2>. QED
    BY <1>2, <1>3, <2>1, QueuesWithout
<1>v. /\ \A x \in Task : Using(x) => Dd(x) \in Opn /\ Dd(x) # o
      /\ \A u \in Task : reqcb[r].tskid # u
  <2>1. Owner(t) /\ ~Asks(t)
    BY <1>2 DEF At, Owner, Empties, Asks
  <2>2. \A x \in Task : Using(x) => Dd(x) \in Opn /\ Dd(x) # o
    BY <1>1, <2>1 DEF Taken, UserHolds, UsersAborted
  <2>3. \A u \in Task : reqcb[r].tskid = u => Using(u) /\ Dd(u) = o
    BY <1>2 DEF Taken, NamedUses, UserNamed
  <2>. QED
    BY <2>2, <2>3
<1>f. /\ reqcb' \in [Req -> [opncb : Opn \cup {None}, tskid : Task \cup {None}]]
      /\ \A s \in Req : /\ reqcb'[s].tskid = reqcb[s].tskid
                        /\ reqcb'[s].opncb = IF s = r THEN None ELSE reqcb[s].opncb
  <2>1. reqcb[r].tskid = None
    BY <1>2, <1>v, ReqKinds
  <2>. QED
    BY <1>2, <1>3, <2>1 DEF DevTypes, Freed, FreeReq
<1>0. PICK h \in Req : /\ h = Head(opncb'[o].requestq) /\ opncb'[o].requestq # << >>
                       /\ reqcb'[h].opncb = o
  <2>1. opncb'[o].requestq \in Seq(Req) /\ opncb'[o].requestq # << >>
    BY <1>1, <1>e DEF Cb
  <2>2. Head(opncb'[o].requestq) \in Req /\ Head(opncb'[o].requestq) \in Range(opncb'[o].requestq)
    BY <2>1 DEF Range
  <2>3. Head(opncb'[o].requestq) \in Range(opncb[o].requestq) /\ Head(opncb'[o].requestq) # r
    BY <1>e, <2>2
  <2>. QED
    BY <1>f, <2>1, <2>2, <2>3 DEF Registered, QueueIsNamed
<1>h. <<h>> \in Seq(Req)
  BY <1>0
<1>d. call'[t] = [at |-> "drainwait", dd |-> o, reqs |-> <<h>>]
  BY <1>0, <1>1, <1>3 DEF DevTypes, Drains, Dd
<1>c. /\ \A x \in Task \ {t} : call'[x] = call[x]
      /\ DOMAIN call' = Task /\ call[t].at = "drainwait" /\ Dd(t) = o
      /\ call'[t].at = "drainwait" /\ Dd(t)' = o /\ Reqs(t)' = <<h>>
      /\ call'[t] \in [at : DPoint, dd : Opn \cup {None}, reqs : Seq(Req)]
  <2>1. call'[t] \in [at : DPoint, dd : Opn \cup {None}, reqs : Seq(Req)]
    BY <1>d, <1>h DEF DPoint
  <2>2. /\ \A x \in Task \ {t} : call'[x] = call[x]
        /\ DOMAIN call' = Task
    BY <1>3 DEF DevTypes, Drains
  <2>. QED
    BY <1>1, <1>2, <1>d, <2>1, <2>2 DEF At, Dd, Reqs
<1>x. None \notin Opn
  BY DeviceAssumption DEF Opn
<1>Types. DevTypes'
  BY <1>e, <1>f, <1>c DEF DevTypes
<1>s. /\ ~Opens(t) /\ ~Using(t) /\ ~Asks(t) /\ ~Counts(t) /\ ~Aborts(t) /\ Empties(t)
      /\ ~Ends(t) /\ Owner(t) /\ ~At(t, "waitany") /\ At(t, "drainwait") /\ ~At(t, "close")
      /\ ~At(t, "abortwait")
      /\ ~Opens(t)' /\ ~Using(t)' /\ ~Asks(t)' /\ ~Counts(t)' /\ ~Aborts(t)' /\ Empties(t)'
      /\ ~Ends(t)' /\ Owner(t)' /\ ~At(t, "waitany")' /\ At(t, "drainwait")'
      /\ ~At(t, "close")' /\ ~At(t, "abortwait")'
  BY <1>c DEF Opens, Using, Asks, Counts, Aborts, Empties, Ends, Owner, At, Outside
<1>o. OthersStay(t)
  BY <1>c, Others
<1>. USE DEF OthersStay
<1>u. /\ \A x \in Task \ {t} : Owner(x) => Dd(x) \in Opn \ {o}
      /\ \A x : Users(x)' = Users(x)
      /\ \A x \in Task : Using(x) => Dd(x) \in Opn /\ Dd(x) # o
      /\ reqcb'[h].opncb = o /\ h \in Req /\ Head(<<h>>) = h
  <2>1. /\ \A x \in Task \ {t} : Owner(x) => Dd(x) \in Opn \ {o}
        /\ \A x : Users(x)' = Users(x)
    BY <1>1, <1>s, <1>o DEF Owned, OneOwner, OwnerHolds, Users
  <2>. QED
    BY <1>0, <1>v, <2>1
<1>Owned. Owned'
  BY <1>e, <1>c, <1>s, <1>o, Stages, <1>u DEF Owned, OwnerHolds, OneOwner, HeldIsOpen
<1>UserHolds. UserHolds'
  BY <1>e, <1>c, <1>s, <1>o, Stages, <1>u DEF Taken, UserHolds, UserNamed, NamedUses,
     UsersAborted
<1>UserNamed. UserNamed'
  BY <1>u, <1>v, <1>f, <1>s, <1>o, <1>c, <1>2 DEF Taken, UserNamed
<1>NamedUses. NamedUses'
  BY <1>u, <1>f, <1>s, <1>o, <1>c, DeviceAssumption DEF Taken, NamedUses
<1>UsersAborted. UsersAborted'
  BY <1>e, <1>c, <1>s, <1>o, Stages, <1>u DEF Taken, UserHolds, UserNamed, NamedUses,
     UsersAborted
<1>Once. Once'
  BY <1>e DEF Registered, Once
<1>QueueIsNamed. QueueIsNamed'
  <2>. SUFFICES ASSUME NEW x \in Opn, NEW s \in Req
       PROVE  s \in Range(opncb'[x].requestq) <=> reqcb'[s].opncb = x
    BY DEF QueueIsNamed
  <2>1. Range(opncb'[x].requestq) = Range(opncb[x].requestq) \ {r}
    BY <1>e
  <2>2. s \in Range(opncb[x].requestq) <=> reqcb[s].opncb = x
    BY DEF Registered, QueueIsNamed
  <2>3. reqcb'[s].opncb = IF s = r THEN None ELSE reqcb[s].opncb
    BY <1>f
  <2>. QED
    BY <1>x, <2>1, <2>2, <2>3
<1>FreeIsEmpty. FreeIsEmpty'
  BY <1>e DEF Registered, FreeIsEmpty
<1>OwnerIsEmpty. OwnerIsEmpty'
  BY <1>u, <1>e, <1>s, <1>o, <1>c, Stages DEF Registered, OwnerIsEmpty
<1>DrainsNamed. DrainsNamed'
  BY <1>u, <1>f, <1>s, <1>o, <1>c, <1>x, <1>2, <1>0, Stages DEF Registered, DrainsNamed
<1>Alone. Alone'
  BY <1>e, <1>c, <1>s, <1>o, Stages, <1>u DEF Alone, ListKept, ListAlone
<1>Counting. Counting'
  BY <1>e, <1>c, <1>s, <1>o, Stages, <1>u, DeviceAssumption DEF Counting, AborterNamed,
     NamedAborts, SemIsAborts, CountIsUsers, LastSignals
<1>. QED
  BY <1>Types, <1>Owned, <1>UserHolds, <1>UserNamed, <1>NamedUses, <1>UsersAborted,
     <1>Once, <1>QueueIsNamed, <1>FreeIsEmpty, <1>OwnerIsEmpty, <1>DrainsNamed, <1>Alone,
     <1>Counting DEF Owned, Taken, Registered, Alone, Counting

\* Steps that concern only the registration of the device.
LEMMA IdleKeeps ==
    ASSUME DevInv, UNCHANGED <<opncb, reqcb, call>>
    PROVE  DevInv'
BY DEF DevInv, DevTypes, Owned, OwnerHolds, OneOwner, HeldIsOpen,
       Taken, UserHolds, UserNamed, NamedUses, UsersAborted,
       Registered, Once, QueueIsNamed, FreeIsEmpty, OwnerIsEmpty, DrainsNamed,
       Alone, ListKept, ListAlone,
       Counting, AborterNamed, NamedAborts, SemIsAborts, CountIsUsers, LastSignals,
       Opens, Using, Asks, Counts, Aborts, Empties, Ends, Owner, Users, Dd, Reqs, At

\* No descriptor is in use.
LEMMA DevInitially == DevInit => DevInv
<1>. SUFFICES ASSUME DevInit PROVE DevInv
  OBVIOUS
<1>. USE DEF DevInit
<1>1. DevTypes
  <2>1. FreeOpn \in Cb
    BY DEF FreeOpn, Cb
  <2>2. FreeReq \in [opncb : Opn \cup {None}, tskid : Task \cup {None}]
    BY DEF FreeReq
  <2>3. Outside \in [at : DPoint, dd : Opn \cup {None}, reqs : Seq(Req)]
    BY DEF Outside, DPoint
  <2>. QED
    BY <2>1, <2>2, <2>3 DEF DevTypes
<1>2. /\ \A u \in Task : /\ ~Opens(u) /\ ~Using(u) /\ ~Asks(u) /\ ~Counts(u) /\ ~Aborts(u)
                         /\ ~Empties(u) /\ ~Ends(u) /\ ~Owner(u) /\ \A p : At(u, p) => p = "out"
      /\ \A o \in Opn : /\ ~opncb[o].resid /\ opncb[o].requestq = << >>
                        /\ opncb[o].waireqlst = << >> /\ opncb[o].abort_tskid = None
                        /\ opncb[o].sem = 0
      /\ \A r \in Req : reqcb[r].opncb = None /\ reqcb[r].tskid = None
      /\ None \notin Task /\ None \notin Opn
  BY DeviceAssumption DEF Outside, FreeOpn, FreeReq, Opn, At,
     Opens, Using, Asks, Counts, Aborts, Empties, Ends, Owner
<1>. HIDE DEF DevInit, Opn, Req
<1>3. Owned
  BY <1>2 DEF Owned, OwnerHolds, OneOwner, HeldIsOpen
<1>4. Taken
  BY <1>2 DEF Taken, UserHolds, UserNamed, NamedUses, UsersAborted
<1>5. Registered
  BY <1>2 DEF Registered, Once, QueueIsNamed, FreeIsEmpty, OwnerIsEmpty, DrainsNamed,
     OrderedBy, Range
<1>6. Alone
  BY <1>2 DEF Alone, ListKept, ListAlone
<1>7. Counting
  BY <1>2 DEF Counting, AborterNamed, NamedAborts, SemIsAborts, CountIsUsers, LastSignals
<1>. QED
  BY <1>1, <1>3, <1>4, <1>5, <1>6, <1>7 DEF DevInv

-----------------------------------------------------------------------------
(***************************************************************************)
(* The theorems.                                                           *)
(***************************************************************************)
\* Every step keeps the invariant.
LEMMA DevNextKeeps ==
    ASSUME DevInv, ~Mixed, IsFiniteSet(Task), [DevNext]_devvars
    PROVE  DevInv'
<1>1. CASE UNCHANGED devvars
  BY <1>1, IdleKeeps DEF devvars
<1>2. ASSUME NEW t \in Task, NEW register \in BOOLEAN, tk_def_dev(t, register) PROVE DevInv'
  BY <1>2, IdleKeeps DEF tk_def_dev
<1>3. ASSUME NEW t \in Task, Opened(t) PROVE DevInv'
  BY <1>3, OpenedKeeps, RefusedKeeps DEF Opened
<1>4. ASSUME NEW t \in Task, AbortTest(t) PROVE DevInv'
  BY <1>4, AbortTestWaits, AbortTestEnds
<1>5. ASSUME NEW t \in Task, Drain(t) PROVE DevInv'
  BY <1>5, DrainEnds, DrainWaits
<1>6. ASSUME NEW t \in Task, Drained(t) PROVE DevInv'
  BY <1>6, DrainedEnds, DrainedWaits
<1>7. ASSUME NEW t \in Task, NEW o \in Opn,
             \/ tk_cls_dev(t, o) \/ knl_request(t, o) \/ WaitAny(t, o)
             \/ \E r \in Req : tk_wai_dev(t, o, r)
      PROVE DevInv'
  BY <1>7, ClsKeeps, RequestKeeps, WaitAnyKeeps, WaiKeeps
<1>8. ASSUME NEW t \in Task, NEW u \in Unit, NEW m \in OpenMode, tk_opn_dev(t, u, m) PROVE DevInv'
  BY <1>8, OpnDevKeeps
<1>9. ASSUME NEW t \in Task,
             \/ OpenFn(t) \/ abort_allrequest(t) \/ AbortWait(t) \/ Aborted(t)
             \/ knl_close_device(t) \/ CloseFn(t) \/ Closed(t) \/ Started(t) \/ Waited(t)
      PROVE DevInv'
  BY <1>9, OpenFnKeeps, AbortAllKeeps, AbortWaitKeeps, AbortedKeeps, CloseKeeps,
     CloseFnKeeps,
     ClosedKeeps, StartedKeeps, WaitedKeeps
<1>. QED
  BY <1>1, <1>2, <1>3, <1>4, <1>5, <1>6, <1>7, <1>8, <1>9 DEF DevNext

\* Who is in the driver with which request, and what the task that closes a
\* descriptor waits for.
LEMMA DevInvHolds == ASSUME ~Mixed, IsFiniteSet(Task) PROVE DevSpec => []DevInv
BY DevInitially, DevNextKeeps, PTL DEF DevSpec

\* A request is in the hands of one task, and stays registered for as long as a
\* task is in the driver with it.
THEOREM OneProcesses ==
    ASSUME ~Mixed, IsFiniteSet(Task) PROVE DevSpec => []ProcessedByOne
<1>1. DevInv => ProcessedByOne
  <2>. SUFFICES ASSUME DevInv, NEW t \in Task, InDriver(t)
       PROVE  /\ opncb[Dd(t)].q = "open"
              /\ \A r \in Range(Reqs(t)) :
                   reqcb[r].opncb = Dd(t) /\ r \in Range(opncb[Dd(t)].requestq)
              /\ \A u \in Task : InDriver(u) /\ Range(Reqs(u)) \cap Range(Reqs(t)) # {} => u = t
    BY DEF ProcessedByOne, Dd, Reqs
  <2>. USE DEF DevInv
  <2>1. \A u \in Task : InDriver(u) => Using(u) \/ (At(u, "drainwait") /\ Owner(u) /\ ~Asks(u))
    BY DEF InDriver, Using, At, Owner, Empties, Asks
  <2>2. \A u \in Task : InDriver(u) =>
          /\ Dd(u) \in Opn /\ opncb[Dd(u)].q = "open"
          /\ \A r \in Range(Reqs(u)) : r \in Req /\ reqcb[r].opncb = Dd(u)
    <3>. SUFFICES ASSUME NEW u \in Task, InDriver(u)
         PROVE  /\ Dd(u) \in Opn /\ opncb[Dd(u)].q = "open"
                /\ \A r \in Range(Reqs(u)) : r \in Req /\ reqcb[r].opncb = Dd(u)
      OBVIOUS
    <3>1. CASE Using(u)
      BY <3>1 DEF Taken, UserHolds, UserNamed
    <3>2. CASE At(u, "drainwait")
      <4>1. Owner(u) /\ ~Ends(u)
        BY <3>2 DEF At, Owner, Empties, Ends
      <4>2. /\ Reqs(u) = <<Head(Reqs(u))>> /\ Head(Reqs(u)) \in Req
            /\ reqcb[Head(Reqs(u))].opncb = Dd(u)
        BY <3>2 DEF Registered, DrainsNamed
      <4>3. Range(Reqs(u)) = {Head(Reqs(u))}
        BY <4>2 DEF Range
      <4>. QED
        BY <4>1, <4>2, <4>3 DEF Owned, OwnerHolds
    <3>. QED
      BY <2>1, <3>1, <3>2
  <2>3. \A u \in Task : InDriver(u) /\ Range(Reqs(u)) \cap Range(Reqs(t)) # {} => u = t
    <3>. SUFFICES ASSUME NEW u \in Task, InDriver(u), NEW r \in Range(Reqs(u)) \cap Range(Reqs(t))
         PROVE  u = t
      OBVIOUS
    <3>1. Dd(u) = Dd(t)
      BY <2>2
    <3>2. CASE Using(u) /\ Using(t)
      BY <3>2 DEF Taken, UserNamed
    <3>. QED
      BY <2>1, <3>1, <3>2 DEF Owned, OneOwner, Taken, UsersAborted
  <2>. QED
    BY <2>2, <2>3 DEF Registered, QueueIsNamed
<1>. QED
  BY <1>1, DevInvHolds, PTL

\* The task that closes a descriptor goes on when the last task has left the
\* driver, and not earlier.
THEOREM ClosingIsSignalled ==
    ASSUME ~Mixed, IsFiniteSet(Task) PROVE DevSpec => []AbortIsSignalled
<1>1. DevInv => AbortIsSignalled
  <2>. DEFINE There(t) == {u \in Task \ {t} : InDriver(u) /\ Dd(u) = Dd(t)}
  <2>. SUFFICES ASSUME DevInv, NEW t \in Task
       PROVE  /\ At(t, "abortwait") /\ opncb[Dd(t)].sem = 0
                 => opncb[Dd(t)].abort_cnt = Cardinality(There(t)) /\ There(t) # {}
              /\ call[t].at \in {"drain", "drainwait", "close", "closefn", "closed"} => There(t) = {}
    BY DEF AbortIsSignalled, Dd
  <2>. USE DEF DevInv
  <2>1. \A u \in Task : InDriver(u) <=> Using(u) \/ At(u, "drainwait")
    BY DEF InDriver, Using, At
  <2>2. \A u \in Task : At(u, "drainwait") => Owner(u)
    BY Stages
  <2>3. Owner(t) => \A u \in There(t) : Using(u)
    BY <2>1, <2>2 DEF Owned, OneOwner
  <2>4. CASE At(t, "abortwait") /\ opncb[Dd(t)].sem = 0
    <3>1. Owner(t) /\ ~Using(t) /\ Counts(t)
      BY <2>4, Stages
    <3>2. There(t) = Users(Dd(t))
      BY <2>1, <2>3, <3>1 DEF Users
    <3>3. opncb[Dd(t)].abort_cnt = Cardinality(Users(Dd(t))) /\ opncb[Dd(t)].abort_cnt # 0
      BY <2>4, <3>1 DEF Counting, CountIsUsers, LastSignals
    <3>4. Users(Dd(t)) # {}
      BY <3>3, UsersFinite
    <3>. QED
      BY <2>4, <3>2, <3>3, <3>4 DEF At
  <2>5. CASE call[t].at \in {"drain", "drainwait", "close", "closefn", "closed"}
    <3>1. Owner(t) /\ ~Asks(t)
      BY <2>5 DEF Owner, Empties, Ends, Asks
    <3>2. There(t) = {}
      BY <2>3, <3>1 DEF Taken, UsersAborted
    <3>. QED
      BY <2>5, <3>2 DEF At
  <2>. QED
    BY <2>4, <2>5
<1>. QED
  BY <1>1, DevInvHolds, PTL
=============================================================================
