----------------------------- MODULE IpiProofs -----------------------------
(***************************************************************************)
(* No inter-processor request is lost, whatever the depth of the FIFO and  *)
(* however many requests are made.                                         *)
(***************************************************************************)
EXTENDS Ipi, TLAPS

\* The handler keeps nothing back: outside its last phase it has taken nothing.
NothingLeftBehind == \A c \in Cpu : irq[c] # "act" => got[c] = {}

\* Strengthening: not only the reasons still owed but every non-empty mask is
\* followed by a doorbell, so that acting on one request does not strand its
\* repetition.
Announced ==
    \A c \in Cpu : pending[c] # {} =>
        \/ fifo[c] > 0
        \/ \E l \in Level : snd[Peer(c)][l] # "none"
        \/ irq[c] \in {"drain", "take"}

IInv == IpiTypeOK /\ NothingLeftBehind /\ Announced /\ NoLostReason

\* Nothing has been sent at the start.
LEMMA InductiveInit == IpiInit => IInv
  BY FifoAssumption
     DEF IpiInit, IInv, IpiTypeOK, NothingLeftBehind, Announced, NoLostReason, Cpu, Level, Reason

\* Every step preserves the invariant.
LEMMA Inductive ==
  ASSUME IInv, [IpiNext]_ipivars
  PROVE  IInv'
  <1> USE FifoAssumption DEF IInv, IpiTypeOK, NothingLeftBehind, Announced, NoLostReason, Cpu, Level, Reason,
          Peer, Active, Acted
  <1>1. ASSUME NEW c \in Cpu, NEW r \in Reason, Request(c, r)
        PROVE  IInv'
    BY <1>1 DEF Request, StartSend
  <1>2. ASSUME NEW c \in Cpu, NEW l \in Level, ReadStatus(c, l)
        PROVE  IInv'
    BY <1>2 DEF ReadStatus
  <1>3. ASSUME NEW c \in Cpu, NEW l \in Level, WriteDoorbell(c, l)
        PROVE  IInv'
    BY <1>3 DEF WriteDoorbell
  <1>4. ASSUME NEW c \in Cpu, Interrupt(c)
        PROVE  IInv'
    BY <1>4 DEF Interrupt
  <1>5. ASSUME NEW c \in Cpu, Drain(c)
        PROVE  IInv'
    BY <1>5 DEF Drain
  <1>6. ASSUME NEW c \in Cpu, Drained(c)
        PROVE  IInv'
    BY <1>6 DEF Drained
  <1>7. ASSUME NEW c \in Cpu, Take(c)
        PROVE  IInv'
    BY <1>7 DEF Take
  <1>8. ASSUME NEW c \in Cpu, ServePing(c)
        PROVE  IInv'
    <2>1. IpiTypeOK'
      BY <1>8 DEF ServePing
    <2>2. NothingLeftBehind'
      BY <1>8 DEF ServePing
    <2>3. Announced'
      BY <1>8 DEF ServePing
    <2>4. NoLostReason'
      BY <1>8 DEF ServePing
    <2> QED
      BY <2>1, <2>2, <2>3, <2>4
  <1>9. ASSUME NEW c \in Cpu, ServePong(c)
        PROVE  IInv'
    <2>1. IpiTypeOK'
      BY <1>9 DEF ServePong
    <2>2. NothingLeftBehind'
      BY <1>9 DEF ServePong
    <2>3. Announced'
      BY <1>9 DEF ServePong
    <2>4. NoLostReason'
      BY <1>9 DEF ServePong
    <2> QED
      BY <2>1, <2>2, <2>3, <2>4
  <1>10. ASSUME NEW c \in Cpu, ServeReschedule(c)
         PROVE  IInv'
    BY <1>10 DEF ServeReschedule
  <1>11. ASSUME NEW c \in Cpu, ServeTimeHandler(c)
         PROVE  IInv'
    <2>1. IpiTypeOK'
      BY <1>11 DEF ServeTimeHandler
    <2>2. NothingLeftBehind'
      BY <1>11 DEF ServeTimeHandler
    <2>3. Announced'
      BY <1>11 DEF ServeTimeHandler
    <2>4. NoLostReason'
      BY <1>11 DEF ServeTimeHandler
    <2> QED
      BY <2>1, <2>2, <2>3, <2>4
  <1>12. ASSUME NEW c \in Cpu, CallbackRequests(c)
         PROVE  IInv'
    BY <1>12 DEF CallbackRequests, StartSend
  <1>13. ASSUME NEW c \in Cpu, Return(c)
         PROVE  IInv'
    BY <1>13 DEF Return
  <1>14. ASSUME NEW c \in Cpu, Mask(c) \/ Unmask(c)
         PROVE  IInv'
    <2>1. CASE Mask(c)
      BY <2>1 DEF Mask
    <2>2. CASE Unmask(c)
      BY <2>2 DEF Unmask
    <2> QED
      BY <1>14, <2>1, <2>2
  <1>15. ASSUME NEW c \in Cpu, IpiDispatch(c)
         PROVE  IInv'
    <2>1. IpiTypeOK'
      BY <1>15 DEF IpiDispatch
    <2>2. NothingLeftBehind'
      BY <1>15 DEF IpiDispatch
    <2>3. Announced'
      BY <1>15 DEF IpiDispatch
    <2>4. NoLostReason'
      BY <1>15 DEF IpiDispatch
    <2> QED
      BY <2>1, <2>2, <2>3, <2>4
  <1>16. CASE UNCHANGED ipivars
    BY <1>16 DEF ipivars
  <1>17. ASSUME NEW c \in Cpu, Sending(c)
         PROVE  IInv'
    BY ONLY <1>2, <1>3, <1>17, c \in Cpu DEF Sending
  <1>18. ASSUME NEW c \in Cpu, Handle(c)
         PROVE  IInv'
    BY ONLY <1>5, <1>6, <1>7, <1>8, <1>9, <1>10, <1>11, <1>13, <1>18, c \in Cpu DEF Handle
  <1> QED
    BY ONLY [IpiNext]_ipivars, <1>1, <1>4, <1>12, <1>14, <1>15, <1>16, <1>17, <1>18 DEF IpiNext
-----------------------------------------------------------------------------
\* The masks, the FIFO level and the handlers keep their types; the FIFO never
\* holds more than its depth and is never read when empty.
THEOREM TypeCorrect == IpiSpec => []IpiTypeOK
  <1>1. IInv => IpiTypeOK
    BY DEF IInv
  <1>2. IInv /\ [IpiNext]_ipivars => IInv'
    BY Inductive
  <1> QED
    BY <1>1, <1>2, InductiveInit, PTL DEF IpiSpec

\* knl_ipi_send() and knl_ipi_take() lose no reason.
THEOREM Delivery == IpiSpec => []NoLostReason
  <1>1. IInv => NoLostReason
    BY DEF IInv
  <1>2. IInv /\ [IpiNext]_ipivars => IInv'
    BY Inductive
  <1> QED
    BY <1>1, <1>2, InductiveInit, PTL DEF IpiSpec

=============================================================================
