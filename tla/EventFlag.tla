------------------------------ MODULE EventFlag ------------------------------
(***************************************************************************)
(* Event flags (eventflag.c).  A pattern is the set of its bits.           *)
(***************************************************************************)
EXTENDS WaitQueue

CONSTANTS
    Bit,
    Mode    \* wfmode: any or all of the bits, and what is cleared afterwards

VARIABLES
    wmul,     \* TA_WMUL
    flgptn

flgvars == <<wmul, flgptn>>

Patterns == (SUBSET Bit) \ {{}}

FlgInit == wmul = FALSE /\ flgptn = {}

\* knl_eventflag_cond().
knl_eventflag_cond(waiptn, mode) ==
    IF mode.orw THEN flgptn \cap waiptn # {} ELSE waiptn \subseteq flgptn

Cleared(waiptn, mode) ==
    CASE mode.clr = "none" -> flgptn
      [] mode.clr = "bits" -> flgptn \ waiptn
      [] mode.clr = "all"  -> {}

tk_cre_flg(bypri, multi, iflgptn) ==
    /\ Create(bypri)
    /\ wmul' = multi /\ flgptn' = iflgptn

tk_del_flg == Delete /\ UNCHANGED flgvars

tk_set_flg(setptn) ==
    /\ Unlocked /\ exists
    /\ flgptn' = flgptn \cup setptn
    /\ rest' = queue["wait"]
    /\ UNCHANGED <<gcb, tcb, wmul>>

\* One turn of the loop of tk_set_flg() for the next task.
SetServe ==
    LET t == Head(rest)
        mode == winfo[t].mode
    IN
    /\ rest # << >>
    /\ UNCHANGED wmul
    /\ \/ /\ ~knl_eventflag_cond(winfo[t].waiptn, mode)
          /\ rest' = Tail(rest)
          /\ UNCHANGED <<gcb, tcb, flgptn>>
       \/ /\ knl_eventflag_cond(winfo[t].waiptn, mode)
          /\ ReleaseOk(t, "wait", flgptn)
          /\ flgptn' = Cleared(winfo[t].waiptn, mode)
          /\ rest' = IF mode.clr = "all" \/ (mode.clr = "bits" /\ flgptn' = {})
                     THEN << >> ELSE Tail(rest)

tk_clr_flg(clrptn) ==
    /\ Unlocked /\ exists
    /\ flgptn' = flgptn \cap clrptn
    /\ UNCHANGED <<wvars, wmul>>

tk_wai_flg(t, waiptn, mode) ==
    /\ Calls(t)
    /\ wmul \/ queue["wait"] = << >>
    /\ UNCHANGED wmul
    /\ \/ /\ knl_eventflag_cond(waiptn, mode)
          /\ flgptn' = Cleared(waiptn, mode)
          /\ Completes(t, flgptn)
          /\ UNCHANGED rest
       \/ /\ ~knl_eventflag_cond(waiptn, mode)
          /\ MakeWait(t, "wait", [waiptn |-> waiptn, mode |-> mode], tpri)
          /\ UNCHANGED flgptn

\* There is no release hook.
FlgWithdraw(t) == Withdrawn(t, "wait") /\ rest' = << >> /\ UNCHANGED flgvars

FlgReorder(t, p) == tpri /\ Reordered(t, "wait", p) /\ UNCHANGED <<rest, flgvars>>

FlgNext ==
    \/ \E bypri, multi \in BOOLEAN, ptn \in {{}, Bit} : tk_cre_flg(bypri, multi, ptn)
    \/ tk_del_flg
    \/ \E ptn \in Patterns : tk_set_flg(ptn) \/ tk_clr_flg(Bit \ ptn)
    \/ SetServe
    \/ \E t \in Task :
         \/ \E ptn \in Patterns, mode \in Mode : tk_wai_flg(t, ptn, mode)
         \/ FlgWithdraw(t)
         \/ \E p \in Pri :
              \/ FlgReorder(t, p)
              \/ ChangePriority(t, p, IF tpri THEN {"wait"} ELSE {}) /\ UNCHANGED flgvars
         \/ Return(t) /\ UNCHANGED flgvars

-----------------------------------------------------------------------------
\* No task waits for a pattern that is there once the call that set it is
\* over, although the loop clears bits between two tasks; and without TA_WMUL
\* one task waits at most.
FlgNobodyLeft ==
    Unlocked =>
      /\ \A t \in Range(queue["wait"]) :
           ~knl_eventflag_cond(winfo[t].waiptn, winfo[t].mode)
      /\ exists /\ ~wmul => Len(queue["wait"]) <= 1
=============================================================================
