------------------------------ MODULE DeviceIO ------------------------------
(***************************************************************************)
(* Device management (device.c, deviceio.c): tasks open and close a        *)
(* device, start requests and wait for them.  What is done between         *)
(* LockDM() and UnlockDM() is a step (module FastMLock); the functions of  *)
(* the driver are called in between, and return in any order.  A task that *)
(* closes a descriptor has the requests in the driver aborted, waits until *)
(* the tasks that are there have left it, and unregisters what remains.    *)
(***************************************************************************)
EXTENDS Integers, FiniteSets, Sequences, SequencesExt, Tasks

CONSTANTS
    MaxOpn,    \* MAX_OPNDEV
    MaxReq,    \* MAX_REQDEV
    Unit,      \* subunits, 0 is the physical device
    OpenMode,  \* the open modes considered
    Mixed      \* some task waits for any request of a descriptor while another
               \* one is starting a request of it

ASSUME DeviceAssumption ==
    /\ MaxOpn \in Nat \ {0} /\ MaxReq \in Nat \ {0}
    /\ \A m \in OpenMode : m \subseteq {"read", "write", "rexcl", "wexcl"}
    /\ Mixed \in BOOLEAN
    /\ None \notin Task \cup (1 .. MaxOpn)

Opn == 1 .. MaxOpn
Req == 1 .. MaxReq

VARIABLES
    ddev,     \* the device is registered
    opncb,    \* the descriptors: OpnCB, with the semaphore abort_semid as "sem"
    reqcb,    \* ReqCB.opncb and ReqCB.tskid
    call,     \* where each task is, with the descriptor and requests it uses
    drvopen   \* the units the driver has been opened for and not closed

devvars == <<ddev, opncb, reqcb, call, drvopen>>

FreeOpn == [q |-> "free", resid |-> FALSE, unit |-> 0, mode |-> {}, requestq |-> << >>,
            waitone |-> 0, waireqlst |-> << >>, abort_tskid |-> None, abort_cnt |-> 0, sem |-> 0]
FreeReq == [opncb |-> None, tskid |-> None]
Outside == [at |-> "out", dd |-> None, reqs |-> << >>]

DevTypeOK ==
    /\ ddev \in BOOLEAN
    /\ DOMAIN opncb = Opn
    /\ \A o \in Opn : /\ opncb[o].q \in {"free", "open", "closing"}
                      /\ opncb[o].requestq \in Seq(Req) /\ opncb[o].sem \in 0 .. 1
    /\ reqcb \in [Req -> [opncb : Opn \cup {None}, tskid : Task \cup {None}]]
    /\ drvopen \subseteq Unit

DevInit ==
    /\ ddev = FALSE
    /\ opncb = [o \in Opn |-> FreeOpn]
    /\ reqcb = [r \in Req |-> FreeReq]
    /\ call = [t \in Task |-> Outside]
    /\ drvopen = {}

At(t, p) == call[t].at = p
Goto(t, p) == call' = [call EXCEPT ![t].at = p]
Returns(t) == call' = [call EXCEPT ![t] = Outside]

-----------------------------------------------------------------------------
(***************************************************************************)
(* Registration, opening and closing.                                      *)
(***************************************************************************)
\* knl_chkopen(), and chkopenmode(): a mode excludes others on the same unit,
\* or on all if one of the two is the physical device.
knl_chkopen(cbs, u) == \E o \in Opn : cbs[o].q = "open" /\ cbs[o].unit = u

chkopenmode(u, m) ==
    LET near == {o \in Opn : opncb[o].q = "open" /\ (u = 0 \/ opncb[o].unit \in {0, u})}
        used(x) == \E o \in near : x \in opncb[o].mode
    IN  \A x, y \in {"read", "write", "rexcl", "wexcl"} :
          <<x, y>> \in {<<"rexcl", "read">>, <<"wexcl", "write">>,
                        <<"read", "rexcl">>, <<"write", "wexcl">>}
          => ~(x \in m /\ used(y))

\* tk_def_dev()
tk_def_dev(t, register) ==
    /\ At(t, "out")
    /\ ddev # register
    /\ ~register => \A o \in Opn : opncb[o].q # "open"
    /\ ddev' = register
    /\ UNCHANGED <<opncb, reqcb, call, drvopen>>

\* tk_opn_dev(): the driver is called for the first descriptor of a unit
\* (no TDA_OPENREQ).
tk_opn_dev(t, u, m) ==
    /\ At(t, "out") /\ ddev
    /\ chkopenmode(u, m)
    /\ \E o \in Opn :
         /\ opncb[o].q = "free"
         /\ opncb' = [opncb EXCEPT ![o] = [FreeOpn EXCEPT !.q = "open", !.unit = u, !.mode = m]]
         /\ call' = [call EXCEPT ![t] =
                       [Outside EXCEPT !.dd = o,
                                       !.at = IF knl_chkopen(opncb, u) THEN "opened" ELSE "openfn"]]
    /\ UNCHANGED <<ddev, reqcb, drvopen>>

\* openfn() succeeds, or not.
OpenFn(t) ==
    /\ At(t, "openfn")
    /\ \/ Goto(t, "opened") /\ drvopen' = drvopen \cup {opncb[call[t].dd].unit}
       \/ Goto(t, "refused") /\ UNCHANGED drvopen
    /\ UNCHANGED <<ddev, opncb, reqcb>>

\* The end of tk_opn_dev().
Opened(t) ==
    /\ \/ /\ At(t, "opened")
          /\ opncb' = [opncb EXCEPT ![call[t].dd].resid = TRUE]
       \/ /\ At(t, "refused")
          /\ opncb' = [opncb EXCEPT ![call[t].dd] = FreeOpn]
    /\ Returns(t)
    /\ UNCHANGED <<ddev, reqcb, drvopen>>

\* tk_cls_dev()
tk_cls_dev(t, o) ==
    /\ At(t, "out") /\ opncb[o].resid
    /\ opncb' = [opncb EXCEPT ![o].resid = FALSE]
    /\ call' = [call EXCEPT ![t] = [Outside EXCEPT !.at = "abort", !.dd = o]]
    /\ UNCHANGED <<ddev, reqcb, drvopen>>

\* The task goes on to wait for the first remaining request, or to close the
\* descriptor if there is none: the loop of abort_allrequest().
Drains(t, q) ==
    call' = [call EXCEPT ![t].reqs = IF q = << >> THEN << >> ELSE <<Head(q)>>,
                         ![t].at = IF q = << >> THEN "close" ELSE "drainwait"]

\* abort_allrequest(): abortfn() is called for what is in the driver.
abort_allrequest(t) ==
    LET o == call[t].dd
        cb == opncb[o]
        busy == {r \in Range(cb.requestq) : reqcb[r].tskid # None}
        cnt == IF cb.waireqlst # << >> THEN 1 ELSE Cardinality(busy)
    IN
    /\ At(t, "abort")
    /\ opncb' = [opncb EXCEPT ![o].abort_tskid = t, ![o].abort_cnt = cnt]
    /\ Goto(t, "aborting")
    /\ UNCHANGED <<ddev, reqcb, drvopen>>

\* abort_cnt is looked at after UnlockDM().
AbortTest(t) ==
    /\ At(t, "aborting")
    /\ Goto(t, IF opncb[call[t].dd].abort_cnt > 0 THEN "abortwait" ELSE "aborted")
    /\ UNCHANGED <<ddev, opncb, reqcb, drvopen>>

\* tk_wai_sem(), without a timeout.
AbortWait(t) ==
    /\ At(t, "abortwait") /\ opncb[call[t].dd].sem > 0
    /\ opncb' = [opncb EXCEPT ![call[t].dd].sem = @ - 1]
    /\ Goto(t, "aborted")
    /\ UNCHANGED <<ddev, reqcb, drvopen>>

Aborted(t) ==
    /\ At(t, "aborted")
    /\ opncb' = [opncb EXCEPT ![call[t].dd].abort_tskid = None]
    /\ Goto(t, "drain")
    /\ UNCHANGED <<ddev, reqcb, drvopen>>

\* knl_delReqCB(): out of the queue it is in.
Unqueued(q, r) == IF r \in Range(q) THEN RemoveAt(q, CHOOSE i \in DOMAIN q : q[i] = r) ELSE q
Unregistered(cbs, r) == [o \in Opn |-> [cbs[o] EXCEPT !.requestq = Unqueued(@, r)]]
Freed(r) == [reqcb EXCEPT ![r] = FreeReq]

Drain(t) ==
    /\ At(t, "drain")
    /\ Drains(t, opncb[call[t].dd].requestq)
    /\ UNCHANGED <<ddev, opncb, reqcb, drvopen>>

\* waitfn() has returned: the request is complete.
Drained(t) ==
    LET r == Head(call[t].reqs) IN
    /\ At(t, "drainwait")
    /\ opncb' = Unregistered(opncb, r)
    /\ reqcb' = Freed(r)
    /\ Drains(t, opncb'[call[t].dd].requestq)
    /\ UNCHANGED <<ddev, drvopen>>

\* knl_close_device(), from abort_allrequest() to the call of closefn(), which
\* is for the last descriptor of a unit.
knl_close_device(t) ==
    LET o == call[t].dd IN
    /\ At(t, "close")
    /\ opncb' = [opncb EXCEPT ![o].q = "closing", ![o].sem = 0]
    /\ Goto(t, IF knl_chkopen(opncb', opncb[o].unit) THEN "closed" ELSE "closefn")
    /\ UNCHANGED <<ddev, reqcb, drvopen>>

CloseFn(t) ==
    /\ At(t, "closefn")
    /\ drvopen' = drvopen \ {opncb[call[t].dd].unit}
    /\ Goto(t, "closed")
    /\ UNCHANGED <<ddev, opncb, reqcb>>

\* The descriptor returns to the free queue.
Closed(t) ==
    /\ At(t, "closed")
    /\ opncb' = [opncb EXCEPT ![call[t].dd] = FreeOpn]
    /\ Returns(t)
    /\ UNCHANGED <<ddev, reqcb, drvopen>>

-----------------------------------------------------------------------------
(***************************************************************************)
(* Requests.                                                               *)
(***************************************************************************)
\* A task is back from the driver: if descriptor o is being closed, the last
\* one of those that were there notifies the task that closes it.
Back(cb) ==
    IF cb.abort_tskid = None THEN cb
    ELSE [cb EXCEPT !.abort_cnt = @ - 1, !.sem = IF cb.abort_cnt = 1 THEN 1 ELSE @]

\* knl_request(), to the call of execfn().
knl_request(t, o) ==
    /\ At(t, "out") /\ opncb[o].resid
    /\ ~Mixed => opncb[o].waireqlst = << >>
    /\ \E r \in Req :
         /\ \A p \in Opn : r \notin Range(opncb[p].requestq)
         /\ opncb' = [opncb EXCEPT ![o].requestq = Append(@, r)]
         /\ reqcb' = [reqcb EXCEPT ![r] = [opncb |-> o, tskid |-> t]]
         /\ call' = [call EXCEPT ![t] = [at |-> "execfn", dd |-> o, reqs |-> <<r>>]]
    /\ UNCHANGED <<ddev, drvopen>>

\* Mutant: a task whose request was refused returns at once.
StartedRefused(t) ==
    LET o == call[t].dd
        r == Head(call[t].reqs)
        back == [opncb EXCEPT ![o] = Back(@)]
    IN
    /\ At(t, "execfn")
    /\ \/ /\ opncb' = back
          /\ reqcb' = [reqcb EXCEPT ![r].tskid = None]
       \/ /\ opncb' = Unregistered(opncb, r)
          /\ reqcb' = Freed(r)
    /\ Returns(t)
    /\ UNCHANGED <<ddev, drvopen>>

\* execfn() has accepted the request, or not.
Started(t) ==
    LET o == call[t].dd
        r == Head(call[t].reqs)
        back == [opncb EXCEPT ![o] = Back(@)]
    IN
    /\ At(t, "execfn")
    /\ \/ /\ opncb' = back
          /\ reqcb' = [reqcb EXCEPT ![r].tskid = None]
       \/ /\ opncb' = Unregistered(back, r)
          /\ reqcb' = Freed(r)
    /\ Returns(t)
    /\ UNCHANGED <<ddev, drvopen>>

\* Mutant: several tasks may wait for one request.
tk_wai_devShared(t, o, r) ==
    /\ At(t, "out") /\ opncb[o].resid
    /\ reqcb[r].opncb = o
    /\ opncb[o].waireqlst = << >>
    /\ reqcb' = [reqcb EXCEPT ![r].tskid = t]
    /\ opncb' = [opncb EXCEPT ![o].waitone = @ + 1]
    /\ call' = [call EXCEPT ![t] = [at |-> "waitfn", dd |-> o, reqs |-> <<r>>]]
    /\ UNCHANGED <<ddev, drvopen>>

\* tk_wai_dev() for request r, to the call of waitfn().
tk_wai_dev(t, o, r) ==
    /\ At(t, "out") /\ opncb[o].resid
    /\ reqcb[r].opncb = o
    /\ opncb[o].waireqlst = << >> /\ reqcb[r].tskid = None
    /\ reqcb' = [reqcb EXCEPT ![r].tskid = t]
    /\ opncb' = [opncb EXCEPT ![o].waitone = @ + 1]
    /\ call' = [call EXCEPT ![t] = [at |-> "waitfn", dd |-> o, reqs |-> <<r>>]]
    /\ UNCHANGED <<ddev, drvopen>>

\* tk_wai_dev() for any request of the descriptor.
WaitAny(t, o) ==
    LET q == opncb[o].requestq IN
    /\ At(t, "out") /\ opncb[o].resid
    /\ opncb[o].waireqlst = << >> /\ opncb[o].waitone = 0
    /\ q # << >>
    /\ ~Mixed => \A r \in Range(q) : reqcb[r].tskid = None
    /\ reqcb' = [r \in Req |-> IF r \in Range(q) THEN [reqcb[r] EXCEPT !.tskid = t] ELSE reqcb[r]]
    /\ opncb' = [opncb EXCEPT ![o].waireqlst = q]
    /\ call' = [call EXCEPT ![t] = [at |-> "waitany", dd |-> o, reqs |-> q]]
    /\ UNCHANGED <<ddev, drvopen>>

\* waitfn() has returned with an error, or with one of the requests complete.
Waited(t) ==
    LET o == call[t].dd
        mine == Range(call[t].reqs)
        freed == [opncb EXCEPT ![o].waireqlst = IF At(t, "waitany") THEN << >> ELSE @,
                               ![o].waitone = IF At(t, "waitany") THEN @ ELSE @ - 1]
        back == [freed EXCEPT ![o] = Back(@)]
        left == [r \in Req |-> IF r \in mine THEN [reqcb[r] EXCEPT !.tskid = None] ELSE reqcb[r]]
    IN
    /\ At(t, "waitfn") \/ At(t, "waitany")
    /\ \/ opncb' = back /\ reqcb' = left
       \/ \E r \in mine :
            /\ opncb' = Unregistered(back, r)
            /\ reqcb' = [left EXCEPT ![r] = FreeReq]
    /\ Returns(t)
    /\ UNCHANGED <<ddev, drvopen>>

DevNext ==
    \E t \in Task :
      \/ \E register \in BOOLEAN : tk_def_dev(t, register)
      \/ \E u \in Unit, m \in OpenMode : tk_opn_dev(t, u, m)
      \/ OpenFn(t) \/ Opened(t)
      \/ \E o \in Opn :
           \/ tk_cls_dev(t, o) \/ knl_request(t, o) \/ WaitAny(t, o)
           \/ \E r \in Req : tk_wai_dev(t, o, r)
      \/ abort_allrequest(t) \/ AbortTest(t) \/ AbortWait(t) \/ Aborted(t)
      \/ Drain(t) \/ Drained(t)
      \/ knl_close_device(t) \/ CloseFn(t) \/ Closed(t)
      \/ Started(t) \/ Waited(t)

DevSpec == DevInit /\ [][DevNext]_devvars

-----------------------------------------------------------------------------
InDriver(t) == call[t].at \in {"execfn", "waitfn", "waitany", "drainwait"}

\* A request stays registered, with the descriptor it was made for, for as long
\* as a task is in the driver with it, and is in the hands of one task: it is
\* unregistered when it is complete, by a task, by the end of a start that was
\* refused, or by the task that closes the descriptor, and not by two of them.
ProcessedByOne ==
    \A t \in Task : InDriver(t) =>
      LET cb == opncb[call[t].dd] IN
      /\ cb.q = "open"
      /\ \A r \in Range(call[t].reqs) :
           reqcb[r].opncb = call[t].dd /\ r \in Range(cb.requestq)
      /\ \A u \in Task : InDriver(u) /\ Range(call[u].reqs) \cap Range(call[t].reqs) # {} => u = t

\* "Wait for completion of abort request processing" (abort_allrequest()): the
\* task that closes a descriptor is notified, by the last task that was in the
\* driver and not earlier.  While it waits, either it has been notified or
\* abort_cnt tasks, one at least, are still there; when it goes on, none is.
AbortIsSignalled ==
    \A t \in Task :
      LET o == call[t].dd
          there == {u \in Task \ {t} : InDriver(u) /\ call[u].dd = o}
      IN  /\ At(t, "abortwait") /\ opncb[o].sem = 0
             => opncb[o].abort_cnt = Cardinality(there) /\ there # {}
          /\ call[t].at \in {"drain", "drainwait", "close", "closefn", "closed"} => there = {}

\* "Indicate that open processing is completed" (tk_opn_dev()): a unit with a
\* descriptor that is open is one the driver has been opened for.
DriverIsOpen == \A o \in Opn : opncb[o].resid => opncb[o].unit \in drvopen
=============================================================================
