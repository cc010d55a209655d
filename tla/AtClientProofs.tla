--------------------------- MODULE AtClientProofs ---------------------------
(***************************************************************************)
(* Machine-checked proofs about AtClient: for any set of calling threads,  *)
(* any buffer size and any behaviour of the modem, the lock discipline of  *)
(* client->resp holds and the tokens of resp_notice never pile up.         *)
(***************************************************************************)
EXTENDS AtClient, TLAPS

(***************************************************************************)
(* Which function a caller can be in at each place, and that its response  *)
(* object exists there.                                                    *)
(***************************************************************************)
OpAt ==
    \A c \in Callers :
      /\ pc[c] \in {"idle", "lock"} => tries[c] = 0
      /\ pc[c] \in {"loop", "delete"} => op[c] = "wait_connect"
      /\ pc[c] \in {"take", "wait", "timedout", "taken"} => op[c] # "noresp"
      /\ pc[c] = "send" => op[c] # "wait_connect"

ObjAt ==
    \A c \in Callers :
      pc[c] # "idle" /\ op[c] # "noresp" /\ ~obj[c].alive
        => op[c] = "wait_connect" /\ pc[c] = "exit"

(***************************************************************************)
(* TokenBound and NoLostWakeup are not inductive: a caller that goes round *)
(* the loop of wait_connect again must not bring a second token along, and *)
(* a caller about to wait has a token to take or a response to come.       *)
(***************************************************************************)
TokenAt ==
    \A c \in Callers :
      /\ pc[c] = "loop" /\ tries[c] > 0 => resp_notice + Armed <= 1
      /\ pc[c] \in {"send", "loop", "take", "timedout"} /\ op[c] # "noresp"
           => resp = c \/ resp_notice > 0
      /\ pc[c] = "send" /\ op[c] = "noresp" => resp_notice <= 1

IInv ==
    /\ TypeOK
    /\ LockOwner
    /\ RespOwner
    /\ RespAlive
    /\ OpAt
    /\ ObjAt
    /\ NoLostWakeup
    /\ TokenBound
    /\ TokenAt

-----------------------------------------------------------------------------
\* Init, the state at_client_para_init leaves, satisfies the invariant.
LEMMA InitIInv == Init => IInv
<1> SUFFICES ASSUME Init PROVE IInv
    OBVIOUS
<1> USE NoneAssumption, LineNumsAssumption, BoundsAssumption
<1>1. TypeOK
  <2>1. obj \in [Callers -> RespObject]
    BY DEF Init, RespObject, NoObject
  <2>2. tries \in [Callers -> 0..MaxTries] /\ tx \in 0..MaxTx
    BY DEF Init
  <2>3. rx \in Seq(Lines)
    BY DEF Init
  <2>4. ended \in [Callers -> BOOLEAN] /\ desync \in BOOLEAN
    BY DEF Init
  <2>5. /\ pc \in [Callers -> PCs] /\ op \in [Callers -> Ops]
        /\ result \in [Callers -> Results]
    BY DEF Init, PCs, Inside, Ops, Results
  <2> QED
    BY <2>1, <2>2, <2>3, <2>4, <2>5 DEF Init, TypeOK, Statuses
<1>2. LockOwner /\ RespOwner /\ RespAlive /\ OpAt /\ ObjAt /\ NoLostWakeup /\ TokenAt
    BY DEF Init, LockOwner, RespOwner, RespAlive, OpAt, ObjAt, NoLostWakeup, TokenAt, Inside
<1>3. TokenBound
    BY DEF Init, TokenBound, Armed, BeforeTake
<1> QED BY <1>1, <1>2, <1>3 DEF IInv
-----------------------------------------------------------------------------
(* One lemma per action: a step of the action keeps the invariant.          *)

\* rt_sem_release keeps the semaphore a counter and the callers at known places.
LEMMA SemReleaseType ==
    ASSUME TypeOK, rt_sem_release
    PROVE  resp_notice' \in Nat /\ pc' \in [Callers -> PCs]
<1>1. CASE \E c \in Callers : pc[c] = "wait"
  <2>1. PICK c \in Callers : pc' = [pc EXCEPT ![c] = "taken"]
    BY <1>1 DEF rt_sem_release, Goto
  <2>2. pc' \in [Callers -> PCs]
    BY <2>1 DEF TypeOK, PCs, Inside
  <2> QED BY <1>1, <2>2 DEF rt_sem_release, TypeOK
<1>2. CASE ~\E c \in Callers : pc[c] = "wait"
  BY <1>2 DEF rt_sem_release, TypeOK
<1> QED BY <1>1, <1>2

\* ExecBegin keeps the invariant.
LEMMA ExecBeginIInv ==
    ASSUME IInv, NEW c \in Callers, NEW n \in LineNums, ExecBegin(c, n)
    PROVE  IInv'
<1> USE NoneAssumption, LineNumsAssumption, BoundsAssumption DEF Goto, Return, Inside,
        clientVars, callerVars, modemVars, ghostVars
<1>1. TypeOK'
  <2>1. obj' \in [Callers -> RespObject]
    <3>1. obj[c] \in RespObject
      BY DEF IInv, TypeOK
    <3>2. at_create_resp(c, n) \in RespObject
      BY <3>1 DEF RespObject, at_create_resp
    <3> QED BY <3>2 DEF IInv, TypeOK, ExecBegin
  <2>2. pc' \in [Callers -> PCs] /\ op' \in [Callers -> Ops]
    BY DEF IInv, TypeOK, ExecBegin, PCs, Ops
  <2> QED BY <2>1, <2>2 DEF IInv, TypeOK, ExecBegin
<1>2. LockOwner'
    BY DEF IInv, TypeOK, LockOwner, ExecBegin, at_create_resp, RespObject
<1>3. RespOwner'
    BY DEF IInv, TypeOK, LockOwner, RespOwner, OpAt, ExecBegin, at_create_resp, RespObject, Ops
<1>4. RespAlive'
    BY DEF IInv, RespAlive, ExecBegin, at_create_resp
<1>5. OpAt'
    BY DEF IInv, TypeOK, OpAt, ExecBegin, at_create_resp, RespObject, Ops, PCs
<1>6. ObjAt'
    BY DEF IInv, TypeOK, OpAt, ObjAt, RespOwner, ExecBegin, at_create_resp, RespObject, Ops, PCs
<1>7. NoLostWakeup'
    BY DEF IInv, NoLostWakeup, ExecBegin
<1>8. TokenBound'
    BY DEF IInv, TokenBound, Armed, BeforeTake, ExecBegin
<1>9. TokenAt'
    BY DEF IInv, TokenAt, Armed, ExecBegin
<1> QED BY <1>1, <1>2, <1>3, <1>4, <1>5, <1>6, <1>7, <1>8, <1>9 DEF IInv

\* ExecBeginNoResp keeps the invariant.
LEMMA ExecBeginNoRespIInv ==
    ASSUME IInv, NEW c \in Callers, ExecBeginNoResp(c)
    PROVE  IInv'
<1> USE NoneAssumption, LineNumsAssumption, BoundsAssumption DEF Goto, Return, Inside,
        clientVars, callerVars, modemVars, ghostVars
<1>1. TypeOK'
    BY DEF IInv, TypeOK, ExecBeginNoResp, PCs, Ops, Results, Statuses, Lines
<1>2. LockOwner'
    BY DEF IInv, TypeOK, LockOwner, ExecBeginNoResp
<1>3. RespOwner'
    BY DEF IInv, TypeOK, LockOwner, RespOwner, OpAt, ExecBeginNoResp, Ops
<1>4. RespAlive'
    BY DEF IInv, TypeOK, LockOwner, RespOwner, RespAlive, OpAt, ObjAt, ExecBeginNoResp, Ops
<1>5. OpAt'
    BY DEF IInv, TypeOK, OpAt, ExecBeginNoResp, Ops, PCs
<1>6. ObjAt'
    BY DEF IInv, TypeOK, OpAt, ObjAt, RespOwner, ExecBeginNoResp, Ops, PCs
<1>7. NoLostWakeup'
    BY DEF IInv, TypeOK, NoLostWakeup, TokenAt, OpAt, LockOwner, RespOwner, ExecBeginNoResp
<1>8. TokenBound'
    BY DEF IInv, TokenBound, Armed, BeforeTake, ExecBeginNoResp
<1>9. TokenAt'
    BY DEF IInv, TokenAt, Armed, ExecBeginNoResp
<1> QED BY <1>1, <1>2, <1>3, <1>4, <1>5, <1>6, <1>7, <1>8, <1>9 DEF IInv

\* ExecArm keeps the invariant.
LEMMA ExecArmIInv ==
    ASSUME IInv, NEW c \in Callers, ExecArm(c)
    PROVE  IInv'
<1> USE NoneAssumption, LineNumsAssumption, BoundsAssumption DEF Goto, Return, Inside,
        clientVars, callerVars, modemVars, ghostVars
<1>1. TypeOK'
    BY DEF IInv, TypeOK, ExecArm, CanTake, PCs, Ops, Results, Statuses, Lines
<1>2. LockOwner'
    BY DEF IInv, TypeOK, LockOwner, ExecArm, CanTake
<1>3. RespOwner'
    BY DEF IInv, TypeOK, LockOwner, RespOwner, OpAt, ExecArm, CanTake, Ops
<1>4. RespAlive'
    BY DEF IInv, TypeOK, LockOwner, RespOwner, RespAlive, OpAt, ObjAt, ExecArm, CanTake, Ops
<1>5. OpAt'
    BY DEF IInv, TypeOK, OpAt, ExecArm, CanTake, Ops, PCs
<1>6. ObjAt'
    BY DEF IInv, TypeOK, OpAt, ObjAt, RespOwner, ExecArm, CanTake, Ops, PCs
<1>7. NoLostWakeup'
    BY DEF IInv, TypeOK, NoLostWakeup, TokenAt, OpAt, LockOwner, RespOwner, ExecArm, CanTake
<1>8. TokenBound'
    BY DEF IInv, TypeOK, TokenBound, Armed, BeforeTake, LockOwner, ExecArm, CanTake
<1>9. TokenAt'
    BY DEF IInv, TypeOK, TokenBound, TokenAt, Armed, BeforeTake, LockOwner, ExecArm, CanTake
<1> QED BY <1>1, <1>2, <1>3, <1>4, <1>5, <1>6, <1>7, <1>8, <1>9 DEF IInv

\* ExecSend keeps the invariant.
LEMMA ExecSendIInv ==
    ASSUME IInv, NEW c \in Callers, ExecSend(c)
    PROVE  IInv'
<1> USE NoneAssumption, LineNumsAssumption, BoundsAssumption DEF Goto, Return, Inside,
        clientVars, callerVars, modemVars, ghostVars
<1>o. /\ obj' \in [Callers -> RespObject]
      /\ \A d \in Callers : obj'[d].alive = obj[d].alive
  <2>1. CASE obj' = obj
    BY <2>1 DEF IInv, TypeOK
  <2>2. CASE obj' = [obj EXCEPT ![c].line_counts = 0]
    <3>1. obj \in [Callers -> RespObject]
      BY DEF IInv, TypeOK
    <3>2. obj' \in [Callers -> RespObject]
      BY <2>2, <3>1 DEF RespObject
    <3>3. ASSUME NEW d \in Callers PROVE obj'[d].alive = obj[d].alive
      BY <2>2, <3>1 DEF RespObject
    <3> QED BY <3>2, <3>3
  <2> QED BY <2>1, <2>2 DEF ExecSend
<1>1. TypeOK'
  <2>1. tx' \in 0..MaxTx
    BY DEF IInv, TypeOK, ExecSend, Write
  <2>2. obj' \in [Callers -> RespObject]
    BY <1>o
  <2>3. pc' \in [Callers -> PCs]
    <3>1. pc \in [Callers -> PCs] /\ "take" \in PCs /\ "exit" \in PCs
      BY DEF IInv, TypeOK, PCs
    <3>2. pc' = [pc EXCEPT ![c] = "take"] \/ pc' = [pc EXCEPT ![c] = "exit"]
      BY DEF ExecSend
    <3> QED
      BY <3>1, <3>2
  <2>4. result' \in [Callers -> Results] /\ desync' \in BOOLEAN
    BY DEF IInv, TypeOK, ExecSend, Results
  <2> QED
    BY <2>1, <2>2, <2>3, <2>4 DEF IInv, TypeOK, ExecSend
<1>2. LockOwner'
    BY DEF IInv, TypeOK, LockOwner, ExecSend, Write, RespObject
<1>3. RespOwner'
    BY DEF IInv, TypeOK, LockOwner, RespOwner, OpAt, ExecSend, Write, RespObject, Ops
<1>b. /\ pc[c] = "send" /\ (op[c] = "exec" => pc' = [pc EXCEPT ![c] = "take"])
      /\ (op[c] # "exec" => pc' = [pc EXCEPT ![c] = "exit"])
      /\ UNCHANGED <<op, resp, lock, resp_notice, tries>>
    BY DEF ExecSend
<1>4. RespAlive'
    BY <1>o, <1>b DEF IInv, TypeOK, RespOwner, RespAlive, OpAt
<1>5. OpAt'
  <2>1. op[c] \in {"exec", "noresp"} /\ pc \in [Callers -> PCs]
    BY DEF IInv, TypeOK, ExecSend
  <2>2. pc'[c] = (IF op[c] = "exec" THEN "take" ELSE "exit")
    BY <1>b, <2>1
  <2>3. \A d \in Callers : d # c => pc'[d] = pc[d]
    BY <1>b, <2>1
  <2> QED
    BY <1>b, <2>1, <2>2, <2>3 DEF IInv, OpAt
<1>6. ObjAt'
  <2> SUFFICES ASSUME NEW d \in Callers, pc'[d] # "idle", op[d] # "noresp", ~obj[d].alive
               PROVE  op[d] = "wait_connect" /\ pc'[d] = "exit"
    BY <1>o, <1>b DEF ObjAt
  <2>1. CASE d = c
    BY <1>b, <2>1 DEF IInv, ObjAt, OpAt
  <2>2. CASE d # c
    <3>1. pc'[d] = pc[d]
      BY <1>b, <2>2 DEF IInv, TypeOK
    <3> QED
      BY <3>1 DEF IInv, ObjAt
  <2> QED
    BY <2>1, <2>2
<1>7. NoLostWakeup'
    BY DEF IInv, TypeOK, NoLostWakeup, ExecSend
<1>8. TokenBound'
  <2>1. CASE op[c] = "exec"
    BY <1>b, <2>1 DEF IInv, TypeOK, TokenBound, Armed, BeforeTake
  <2>2. CASE op[c] # "exec"
    <3>1. resp = None
      BY <2>2, <1>b DEF IInv, TypeOK, RespOwner, LockOwner, OpAt, Ops
    <3>2. resp_notice <= 1
      BY <2>2, <1>b DEF IInv, TypeOK, OpAt, Ops, TokenAt
    <3> QED BY <3>1, <3>2, <1>b DEF IInv, TypeOK, TokenBound, Armed
  <2> QED BY <2>1, <2>2
<1>9. TokenAt'
    BY DEF IInv, TypeOK, TokenAt, Armed, ExecSend
<1> QED BY <1>1, <1>2, <1>3, <1>4, <1>5, <1>6, <1>7, <1>8, <1>9 DEF IInv

\* ExecTimedOut keeps the invariant.
LEMMA ExecTimedOutIInv ==
    ASSUME IInv, NEW c \in Callers, ExecTimedOut(c)
    PROVE  IInv'
<1> USE NoneAssumption, LineNumsAssumption, BoundsAssumption DEF Goto, Return, Inside,
        clientVars, callerVars, modemVars, ghostVars
<1>1. TypeOK'
    BY DEF IInv, TypeOK, ExecTimedOut, PCs, Ops, Results, Statuses, Lines
<1>2. LockOwner'
    BY DEF IInv, TypeOK, LockOwner, ExecTimedOut
<1>3. RespOwner'
    BY DEF IInv, TypeOK, LockOwner, RespOwner, OpAt, ExecTimedOut, Ops
<1>4. RespAlive'
    BY DEF IInv, TypeOK, LockOwner, RespOwner, RespAlive, OpAt, ObjAt, ExecTimedOut, Ops
<1>5. OpAt'
    BY DEF IInv, TypeOK, OpAt, ExecTimedOut, Ops, PCs
<1>6. ObjAt'
    BY DEF IInv, TypeOK, OpAt, ObjAt, RespOwner, ExecTimedOut, Ops, PCs
<1>7. NoLostWakeup'
    BY DEF IInv, TypeOK, NoLostWakeup, TokenAt, OpAt, LockOwner, RespOwner, ExecTimedOut
<1>8. TokenBound'
    BY DEF IInv, TokenBound, Armed, BeforeTake, ExecTimedOut
<1>9. TokenAt'
    BY DEF IInv, TokenAt, Armed, ExecTimedOut
<1> QED BY <1>1, <1>2, <1>3, <1>4, <1>5, <1>6, <1>7, <1>8, <1>9 DEF IInv

\* ExecTaken keeps the invariant.
LEMMA ExecTakenIInv ==
    ASSUME IInv, NEW c \in Callers, ExecTaken(c)
    PROVE  IInv'
<1> USE NoneAssumption, LineNumsAssumption, BoundsAssumption DEF Goto, Return, Inside,
        clientVars, callerVars, modemVars, ghostVars
<1>1. TypeOK'
    BY DEF IInv, TypeOK, ExecTaken, PCs, Ops, Results, Statuses, Lines
<1>2. LockOwner'
    BY DEF IInv, TypeOK, LockOwner, ExecTaken
<1>3. RespOwner'
    BY DEF IInv, TypeOK, LockOwner, RespOwner, OpAt, ExecTaken, Ops
<1>4. RespAlive'
    BY DEF IInv, TypeOK, LockOwner, RespOwner, RespAlive, OpAt, ObjAt, ExecTaken, Ops
<1>5. OpAt'
    BY DEF IInv, TypeOK, OpAt, ExecTaken, Ops, PCs
<1>6. ObjAt'
    BY DEF IInv, TypeOK, OpAt, ObjAt, RespOwner, ExecTaken, Ops, PCs
<1>7. NoLostWakeup'
    BY DEF IInv, TypeOK, NoLostWakeup, TokenAt, OpAt, LockOwner, RespOwner, ExecTaken
<1>8. TokenBound'
    BY DEF IInv, TokenBound, Armed, BeforeTake, ExecTaken
<1>9. TokenAt'
    BY DEF IInv, TokenAt, Armed, ExecTaken
<1> QED BY <1>1, <1>2, <1>3, <1>4, <1>5, <1>6, <1>7, <1>8, <1>9 DEF IInv

\* ExecExit keeps the invariant.
LEMMA ExecExitIInv ==
    ASSUME IInv, NEW c \in Callers, ExecExit(c)
    PROVE  IInv'
<1> USE NoneAssumption, LineNumsAssumption, BoundsAssumption DEF Goto, Return, Inside,
        clientVars, callerVars, modemVars, ghostVars
<1>1. TypeOK'
    BY DEF IInv, TypeOK, ExecExit, Released, PCs, Ops, Results, Statuses, Lines
<1>2. LockOwner'
    BY DEF IInv, TypeOK, LockOwner, ExecExit, Released
<1>3. RespOwner'
    BY DEF IInv, TypeOK, LockOwner, RespOwner, OpAt, ExecExit, Released, Ops
<1>4. RespAlive'
    BY DEF IInv, TypeOK, LockOwner, RespOwner, RespAlive, OpAt, ObjAt, ExecExit, Released, Ops
<1>5. OpAt'
    BY DEF IInv, TypeOK, OpAt, ExecExit, Released, Ops, PCs
<1>6. ObjAt'
    BY DEF IInv, TypeOK, OpAt, ObjAt, RespOwner, ExecExit, Released, Ops, PCs
<1>7. NoLostWakeup'
    BY DEF IInv, TypeOK, NoLostWakeup, TokenAt, OpAt, LockOwner, RespOwner, ExecExit, Released
<1>8. TokenBound'
    BY DEF IInv, TypeOK, TokenBound, Armed, BeforeTake, ExecExit
<1>9. TokenAt'
    BY DEF IInv, TokenAt, LockOwner, ExecExit
<1> QED BY <1>1, <1>2, <1>3, <1>4, <1>5, <1>6, <1>7, <1>8, <1>9 DEF IInv

\* WaitConnectBegin keeps the invariant.
LEMMA WaitConnectBeginIInv ==
    ASSUME IInv, NEW c \in Callers, WaitConnectBegin(c)
    PROVE  IInv'
<1> USE NoneAssumption, LineNumsAssumption, BoundsAssumption DEF Goto, Return, Inside,
        clientVars, callerVars, modemVars, ghostVars
<1>1. TypeOK'
    BY DEF IInv, TypeOK, WaitConnectBegin, RespObject, PCs, Ops, Results, Statuses, Lines
<1>2. LockOwner'
    BY DEF IInv, TypeOK, LockOwner, WaitConnectBegin, RespObject
<1>3. RespOwner'
    BY DEF IInv, TypeOK, LockOwner, RespOwner, OpAt, WaitConnectBegin, RespObject, Ops
<1>4. RespAlive'
    BY DEF IInv, RespAlive, WaitConnectBegin
<1>5. OpAt'
    BY DEF IInv, TypeOK, OpAt, WaitConnectBegin, RespObject, Ops, PCs
<1>6. ObjAt'
    BY DEF IInv, TypeOK, OpAt, ObjAt, RespOwner, WaitConnectBegin, RespObject, Ops, PCs
<1>7. NoLostWakeup'
    BY DEF IInv, NoLostWakeup, WaitConnectBegin
<1>8. TokenBound'
    BY DEF IInv, TokenBound, Armed, BeforeTake, WaitConnectBegin
<1>9. TokenAt'
    BY DEF IInv, TokenAt, Armed, WaitConnectBegin
<1> QED BY <1>1, <1>2, <1>3, <1>4, <1>5, <1>6, <1>7, <1>8, <1>9 DEF IInv

\* WaitConnectArm keeps the invariant.
LEMMA WaitConnectArmIInv ==
    ASSUME IInv, NEW c \in Callers, WaitConnectArm(c)
    PROVE  IInv'
<1> USE NoneAssumption, LineNumsAssumption, BoundsAssumption DEF Goto, Return, Inside,
        clientVars, callerVars, modemVars, ghostVars
<1>1. TypeOK'
    BY DEF IInv, TypeOK, WaitConnectArm, CanTake, PCs, Ops, Results, Statuses, Lines
<1>2. LockOwner'
    BY DEF IInv, TypeOK, LockOwner, WaitConnectArm, CanTake
<1>3. RespOwner'
    BY DEF IInv, TypeOK, LockOwner, RespOwner, OpAt, WaitConnectArm, CanTake, Ops
<1>4. RespAlive'
    BY DEF IInv, TypeOK, LockOwner, RespOwner, RespAlive, OpAt, ObjAt, WaitConnectArm, CanTake, Ops
<1>5. OpAt'
    BY DEF IInv, TypeOK, OpAt, WaitConnectArm, CanTake, Ops, PCs
<1>6. ObjAt'
    BY DEF IInv, TypeOK, OpAt, ObjAt, RespOwner, WaitConnectArm, CanTake, Ops, PCs
<1>7. NoLostWakeup'
    BY DEF IInv, TypeOK, NoLostWakeup, TokenAt, OpAt, LockOwner, RespOwner, WaitConnectArm, CanTake
<1>8. TokenBound'
    BY DEF IInv, TypeOK, TokenBound, Armed, BeforeTake, LockOwner, WaitConnectArm, CanTake
<1>9. TokenAt'
    BY DEF IInv, TokenAt, LockOwner, OpAt, WaitConnectArm, CanTake
<1> QED BY <1>1, <1>2, <1>3, <1>4, <1>5, <1>6, <1>7, <1>8, <1>9 DEF IInv

\* WaitConnectTimeout keeps the invariant.
LEMMA WaitConnectTimeoutIInv ==
    ASSUME IInv, NEW c \in Callers, WaitConnectTimeout(c)
    PROVE  IInv'
<1> USE NoneAssumption, LineNumsAssumption, BoundsAssumption DEF Goto, Return, Inside,
        clientVars, callerVars, modemVars, ghostVars
<1>1. TypeOK'
    BY DEF IInv, TypeOK, WaitConnectTimeout, PCs, Ops, Results, Statuses, Lines
<1>2. LockOwner'
    BY DEF IInv, TypeOK, LockOwner, WaitConnectTimeout
<1>3. RespOwner'
    BY DEF IInv, TypeOK, LockOwner, RespOwner, OpAt, WaitConnectTimeout, Ops
<1>4. RespAlive'
    BY DEF IInv, TypeOK, LockOwner, RespOwner, RespAlive, OpAt, ObjAt, WaitConnectTimeout, Ops
<1>5. OpAt'
    BY DEF IInv, TypeOK, OpAt, WaitConnectTimeout, Ops, PCs
<1>6. ObjAt'
    BY DEF IInv, TypeOK, OpAt, ObjAt, RespOwner, WaitConnectTimeout, Ops, PCs
<1>7. NoLostWakeup'
    BY DEF IInv, TypeOK, NoLostWakeup, TokenAt, OpAt, LockOwner, RespOwner, WaitConnectTimeout
<1>8. TokenBound'
    BY DEF IInv, TokenBound, TokenAt, Armed, BeforeTake, WaitConnectTimeout
<1>9. TokenAt'
    BY DEF IInv, TokenAt, Armed, WaitConnectTimeout
<1> QED BY <1>1, <1>2, <1>3, <1>4, <1>5, <1>6, <1>7, <1>8, <1>9 DEF IInv

\* WaitConnectProbe keeps the invariant.
LEMMA WaitConnectProbeIInv ==
    ASSUME IInv, NEW c \in Callers, WaitConnectProbe(c)
    PROVE  IInv'
<1> USE NoneAssumption, LineNumsAssumption, BoundsAssumption DEF Goto, Return, Inside,
        clientVars, callerVars, modemVars, ghostVars
<1>1. TypeOK'
  <2>1. tries' \in [Callers -> 0..MaxTries] /\ tx' \in 0..MaxTx
    BY DEF IInv, TypeOK, WaitConnectProbe, Write
  <2>2. obj' \in [Callers -> RespObject]
    <3>1. obj \in [Callers -> RespObject]
      BY DEF IInv, TypeOK
    <3>2. [obj[c] EXCEPT !.line_counts = 0] \in RespObject
      BY <3>1 DEF RespObject
    <3>3. obj' = [obj EXCEPT ![c] = [obj[c] EXCEPT !.line_counts = 0]]
      BY <3>1 DEF WaitConnectProbe, RespObject
    <3> QED
      BY <3>1, <3>2, <3>3
  <2>3. pc' \in [Callers -> PCs]
    BY DEF IInv, TypeOK, WaitConnectProbe, PCs
  <2> QED
    BY <2>1, <2>2, <2>3 DEF IInv, TypeOK, WaitConnectProbe
<1>2. LockOwner'
    BY DEF IInv, TypeOK, LockOwner, WaitConnectProbe, Write, RespObject
<1>3. RespOwner'
    BY DEF IInv, TypeOK, LockOwner, RespOwner, OpAt, WaitConnectProbe, Write, RespObject, Ops
<1>4. RespAlive'
    BY DEF IInv, RespAlive, WaitConnectProbe
<1>5. OpAt'
    BY DEF IInv, TypeOK, OpAt, WaitConnectProbe, Write, RespObject, Ops, PCs
<1>6. ObjAt'
    BY DEF IInv, TypeOK, OpAt, ObjAt, RespOwner, WaitConnectProbe, Write, RespObject, Ops, PCs
<1>7. NoLostWakeup'
    BY DEF IInv, NoLostWakeup, WaitConnectProbe
<1>8. TokenBound'
    BY DEF IInv, TokenBound, Armed, BeforeTake, WaitConnectProbe
<1>9. TokenAt'
    BY DEF IInv, TypeOK, TokenAt, Armed, WaitConnectProbe
<1> QED BY <1>1, <1>2, <1>3, <1>4, <1>5, <1>6, <1>7, <1>8, <1>9 DEF IInv

\* WaitConnectRetry keeps the invariant.
LEMMA WaitConnectRetryIInv ==
    ASSUME IInv, NEW c \in Callers, WaitConnectRetry(c)
    PROVE  IInv'
<1> USE NoneAssumption, LineNumsAssumption, BoundsAssumption DEF Goto, Return, Inside,
        clientVars, callerVars, modemVars, ghostVars
<1>1. TypeOK'
    BY DEF IInv, TypeOK, WaitConnectRetry, PCs, Ops, Results, Statuses, Lines
<1>2. LockOwner'
    BY DEF IInv, TypeOK, LockOwner, WaitConnectRetry
<1>3. RespOwner'
    BY DEF IInv, TypeOK, LockOwner, RespOwner, OpAt, WaitConnectRetry, Ops
<1>4. RespAlive'
    BY DEF IInv, TypeOK, LockOwner, RespOwner, RespAlive, OpAt, ObjAt, WaitConnectRetry, Ops
<1>5. OpAt'
    BY DEF IInv, TypeOK, OpAt, WaitConnectRetry, Ops, PCs
<1>6. ObjAt'
    BY DEF IInv, TypeOK, OpAt, ObjAt, RespOwner, WaitConnectRetry, Ops, PCs
<1>7. NoLostWakeup'
    BY DEF IInv, TypeOK, NoLostWakeup, TokenAt, OpAt, LockOwner, RespOwner, WaitConnectRetry
<1>8. TokenBound'
    BY DEF IInv, TypeOK, TokenBound, Armed, BeforeTake, WaitConnectRetry
<1>9. TokenAt'
    BY DEF IInv, TokenBound, TokenAt, Armed, BeforeTake, LockOwner, WaitConnectRetry
<1> QED BY <1>1, <1>2, <1>3, <1>4, <1>5, <1>6, <1>7, <1>8, <1>9 DEF IInv

\* WaitConnectTaken keeps the invariant.
LEMMA WaitConnectTakenIInv ==
    ASSUME IInv, NEW c \in Callers, WaitConnectTaken(c)
    PROVE  IInv'
<1> USE NoneAssumption, LineNumsAssumption, BoundsAssumption DEF Goto, Return, Inside,
        clientVars, callerVars, modemVars, ghostVars
<1>1. TypeOK'
    BY DEF IInv, TypeOK, WaitConnectTaken, PCs, Ops, Results, Statuses, Lines
<1>2. LockOwner'
    BY DEF IInv, TypeOK, LockOwner, WaitConnectTaken
<1>3. RespOwner'
    BY DEF IInv, TypeOK, LockOwner, RespOwner, OpAt, WaitConnectTaken, Ops
<1>4. RespAlive'
    BY DEF IInv, TypeOK, LockOwner, RespOwner, RespAlive, OpAt, ObjAt, WaitConnectTaken, Ops
<1>5. OpAt'
    BY DEF IInv, TypeOK, OpAt, WaitConnectTaken, Ops, PCs
<1>6. ObjAt'
    BY DEF IInv, TypeOK, OpAt, ObjAt, RespOwner, WaitConnectTaken, Ops, PCs
<1>7. NoLostWakeup'
    BY DEF IInv, TypeOK, NoLostWakeup, TokenAt, OpAt, LockOwner, RespOwner, WaitConnectTaken
<1>8. TokenBound'
    BY DEF IInv, TokenBound, Armed, BeforeTake, WaitConnectTaken
<1>9. TokenAt'
    BY DEF IInv, TokenAt, Armed, WaitConnectTaken
<1> QED BY <1>1, <1>2, <1>3, <1>4, <1>5, <1>6, <1>7, <1>8, <1>9 DEF IInv

\* WaitConnectDelete keeps the invariant.
LEMMA WaitConnectDeleteIInv ==
    ASSUME IInv, NEW c \in Callers, WaitConnectDelete(c)
    PROVE  IInv'
<1> USE NoneAssumption, LineNumsAssumption, BoundsAssumption DEF Goto, Return, Inside,
        clientVars, callerVars, modemVars, ghostVars
<1>1. TypeOK'
    BY DEF IInv, TypeOK, WaitConnectDelete, RespObject, NoObject, PCs, Ops, Results, Statuses, Lines
<1>2. LockOwner'
    BY DEF IInv, TypeOK, LockOwner, WaitConnectDelete, RespObject, NoObject
<1>3. RespOwner'
    BY DEF IInv, TypeOK, LockOwner, RespOwner, OpAt, WaitConnectDelete, RespObject, NoObject, Ops
<1>4. RespAlive'
    BY DEF IInv, TypeOK, RespAlive, OpAt, WaitConnectDelete
<1>5. OpAt'
    BY DEF IInv, TypeOK, OpAt, WaitConnectDelete, RespObject, NoObject, Ops, PCs
<1>6. ObjAt'
    BY DEF IInv, TypeOK, OpAt, ObjAt, RespOwner, WaitConnectDelete, RespObject, NoObject, Ops, PCs
<1>7. NoLostWakeup'
    BY DEF IInv, NoLostWakeup, WaitConnectDelete
<1>8. TokenBound'
    BY DEF IInv, TokenBound, Armed, BeforeTake, WaitConnectDelete
<1>9. TokenAt'
    BY DEF IInv, TokenAt, Armed, WaitConnectDelete
<1> QED BY <1>1, <1>2, <1>3, <1>4, <1>5, <1>6, <1>7, <1>8, <1>9 DEF IInv

\* rt_sem_take keeps the invariant.
LEMMA rt_sem_takeIInv ==
    ASSUME IInv, NEW c \in Callers, rt_sem_take(c)
    PROVE  IInv'
<1> USE NoneAssumption, LineNumsAssumption, BoundsAssumption DEF Goto, Return, Inside,
        clientVars, callerVars, modemVars, ghostVars
<1>1. TypeOK'
  <2>1. resp_notice' \in Nat
    BY DEF IInv, TypeOK, rt_sem_take
  <2>2. pc' \in [Callers -> PCs]
    BY DEF IInv, TypeOK, rt_sem_take, PCs
  <2> QED
    BY <2>1, <2>2 DEF IInv, TypeOK, rt_sem_take
<1>2. LockOwner'
    BY DEF IInv, TypeOK, LockOwner, rt_sem_take
<1>3. RespOwner'
    BY DEF IInv, TypeOK, LockOwner, RespOwner, OpAt, rt_sem_take, Ops
<1>4. RespAlive'
    BY DEF IInv, TypeOK, LockOwner, RespOwner, RespAlive, OpAt, ObjAt, rt_sem_take, Ops
<1>5. OpAt'
    BY DEF IInv, TypeOK, OpAt, rt_sem_take, Ops, PCs
<1>6. ObjAt'
    BY DEF IInv, TypeOK, OpAt, ObjAt, RespOwner, rt_sem_take, Ops, PCs
<1>7. NoLostWakeup'
    BY DEF IInv, TypeOK, NoLostWakeup, TokenAt, OpAt, LockOwner, RespOwner, rt_sem_take
<1>8. TokenBound'
    BY DEF IInv, TypeOK, TokenBound, Armed, rt_sem_take
<1>9. TokenAt'
    BY DEF IInv, TypeOK, TokenAt, LockOwner, rt_sem_take
<1> QED BY <1>1, <1>2, <1>3, <1>4, <1>5, <1>6, <1>7, <1>8, <1>9 DEF IInv

\* rt_thread_timeout keeps the invariant.
LEMMA rt_thread_timeoutIInv ==
    ASSUME IInv, NEW c \in Callers, rt_thread_timeout(c)
    PROVE  IInv'
<1> USE NoneAssumption, LineNumsAssumption, BoundsAssumption DEF Goto, Return, Inside,
        clientVars, callerVars, modemVars, ghostVars
<1>1. TypeOK'
    BY DEF IInv, TypeOK, rt_thread_timeout, PCs, Ops, Results, Statuses, Lines
<1>2. LockOwner'
    BY DEF IInv, TypeOK, LockOwner, rt_thread_timeout
<1>3. RespOwner'
    BY DEF IInv, TypeOK, LockOwner, RespOwner, OpAt, rt_thread_timeout, Ops
<1>4. RespAlive'
    BY DEF IInv, TypeOK, LockOwner, RespOwner, RespAlive, OpAt, ObjAt, rt_thread_timeout, Ops
<1>5. OpAt'
    BY DEF IInv, TypeOK, OpAt, rt_thread_timeout, Ops, PCs
<1>6. ObjAt'
    BY DEF IInv, TypeOK, OpAt, ObjAt, RespOwner, rt_thread_timeout, Ops, PCs
<1>7. NoLostWakeup'
    BY DEF IInv, TypeOK, NoLostWakeup, TokenAt, OpAt, LockOwner, RespOwner, rt_thread_timeout
<1>8. TokenBound'
    BY DEF IInv, TokenBound, Armed, BeforeTake, rt_thread_timeout
<1>9. TokenAt'
    BY DEF IInv, TokenAt, NoLostWakeup, Armed, rt_thread_timeout
<1> QED BY <1>1, <1>2, <1>3, <1>4, <1>5, <1>6, <1>7, <1>8, <1>9 DEF IInv

\* SectionTake keeps the invariant.
LEMMA SectionTakeIInv ==
    ASSUME IInv, NEW c \in Callers, SectionTake(c)
    PROVE  IInv'
<1> USE NoneAssumption, LineNumsAssumption, BoundsAssumption DEF Goto, Return, Inside,
        clientVars, callerVars, modemVars, ghostVars
<1>1. TypeOK'
    BY DEF IInv, TypeOK, SectionTake, PCs, Ops, Results, Statuses, Lines
<1>2. LockOwner'
    BY DEF IInv, TypeOK, LockOwner, SectionTake
<1>3. RespOwner'
    BY DEF IInv, TypeOK, LockOwner, RespOwner, OpAt, SectionTake, Ops
<1>4. RespAlive'
    BY DEF IInv, TypeOK, LockOwner, RespOwner, RespAlive, OpAt, ObjAt, SectionTake, Ops
<1>5. OpAt'
    BY DEF IInv, TypeOK, OpAt, SectionTake, Ops, PCs
<1>6. ObjAt'
    BY DEF IInv, TypeOK, OpAt, ObjAt, RespOwner, SectionTake, Ops, PCs
<1>7. NoLostWakeup'
    BY DEF IInv, TypeOK, NoLostWakeup, TokenAt, OpAt, LockOwner, RespOwner, SectionTake
<1>8. TokenBound'
    BY DEF IInv, TokenBound, Armed, BeforeTake, SectionTake
<1>9. TokenAt'
    BY DEF IInv, TokenAt, Armed, SectionTake
<1> QED BY <1>1, <1>2, <1>3, <1>4, <1>5, <1>6, <1>7, <1>8, <1>9 DEF IInv

\* SectionRelease keeps the invariant.
LEMMA SectionReleaseIInv ==
    ASSUME IInv, NEW c \in Callers, SectionRelease(c)
    PROVE  IInv'
<1> USE NoneAssumption, LineNumsAssumption, BoundsAssumption DEF Goto, Return, Inside,
        clientVars, callerVars, modemVars, ghostVars
<1>1. TypeOK'
    BY DEF IInv, TypeOK, SectionRelease, PCs, Ops, Results, Statuses, Lines
<1>2. LockOwner'
    BY DEF IInv, TypeOK, LockOwner, SectionRelease
<1>3. RespOwner'
    BY DEF IInv, TypeOK, LockOwner, RespOwner, OpAt, SectionRelease, Ops
<1>4. RespAlive'
    BY DEF IInv, TypeOK, LockOwner, RespOwner, RespAlive, OpAt, ObjAt, SectionRelease, Ops
<1>5. OpAt'
    BY DEF IInv, TypeOK, OpAt, SectionRelease, Ops, PCs
<1>6. ObjAt'
    BY DEF IInv, TypeOK, OpAt, ObjAt, RespOwner, SectionRelease, Ops, PCs
<1>7. NoLostWakeup'
    BY DEF IInv, TypeOK, NoLostWakeup, TokenAt, OpAt, LockOwner, RespOwner, SectionRelease
<1>8. TokenBound'
    BY DEF IInv, TokenBound, Armed, BeforeTake, SectionRelease
<1>9. TokenAt'
    BY DEF IInv, TokenAt, Armed, SectionRelease
<1> QED BY <1>1, <1>2, <1>3, <1>4, <1>5, <1>6, <1>7, <1>8, <1>9 DEF IInv

\* at_delete_resp keeps the invariant.
LEMMA at_delete_respIInv ==
    ASSUME IInv, NEW c \in Callers, at_delete_resp(c)
    PROVE  IInv'
<1> USE NoneAssumption, LineNumsAssumption, BoundsAssumption DEF Goto, Return, Inside,
        clientVars, callerVars, modemVars, ghostVars
<1>1. TypeOK'
    BY DEF IInv, TypeOK, at_delete_resp, RespObject, NoObject, PCs, Ops, Results, Statuses, Lines
<1>2. LockOwner'
    BY DEF IInv, TypeOK, LockOwner, at_delete_resp, RespObject, NoObject
<1>3. RespOwner'
    BY DEF IInv, TypeOK, LockOwner, RespOwner, OpAt, at_delete_resp, RespObject, NoObject, Ops
<1>4. RespAlive'
    BY DEF IInv, RespOwner, RespAlive, at_delete_resp
<1>5. OpAt'
    BY DEF IInv, TypeOK, OpAt, at_delete_resp, RespObject, NoObject, Ops, PCs
<1>6. ObjAt'
    BY DEF IInv, TypeOK, OpAt, ObjAt, RespOwner, at_delete_resp, RespObject, NoObject, Ops, PCs
<1>7. NoLostWakeup'
    BY DEF IInv, NoLostWakeup, at_delete_resp
<1>8. TokenBound'
    BY DEF IInv, TokenBound, Armed, BeforeTake, at_delete_resp
<1>9. TokenAt'
    BY DEF IInv, TokenAt, Armed, at_delete_resp
<1> QED BY <1>1, <1>2, <1>3, <1>4, <1>5, <1>6, <1>7, <1>8, <1>9 DEF IInv

\* ParserOther keeps the invariant.
LEMMA ParserOtherIInv ==
    ASSUME IInv, ParserOther
    PROVE  IInv'
<1> USE NoneAssumption, LineNumsAssumption, BoundsAssumption DEF Goto, Return, Inside,
        clientVars, callerVars, modemVars, ghostVars
<1>1. TypeOK'
    BY DEF IInv, TypeOK, ParserOther, PCs, Ops, Results, Statuses, Lines
<1>2. LockOwner'
    BY DEF IInv, TypeOK, LockOwner, ParserOther
<1>3. RespOwner'
    BY DEF IInv, TypeOK, LockOwner, RespOwner, OpAt, ParserOther, Ops
<1>4. RespAlive'
    BY DEF IInv, TypeOK, LockOwner, RespOwner, RespAlive, OpAt, ObjAt, ParserOther, Ops
<1>5. OpAt'
    BY DEF IInv, TypeOK, OpAt, ParserOther, Ops, PCs
<1>6. ObjAt'
    BY DEF IInv, TypeOK, OpAt, ObjAt, RespOwner, ParserOther, Ops, PCs
<1>7. NoLostWakeup'
    BY DEF IInv, TypeOK, NoLostWakeup, TokenAt, OpAt, LockOwner, RespOwner, ParserOther
<1>8. TokenBound'
    BY DEF IInv, TokenBound, Armed, BeforeTake, ParserOther
<1>9. TokenAt'
    BY DEF IInv, TokenAt, Armed, ParserOther
<1> QED BY <1>1, <1>2, <1>3, <1>4, <1>5, <1>6, <1>7, <1>8, <1>9 DEF IInv

\* ParserLine keeps the invariant.
LEMMA ParserLineIInv ==
    ASSUME IInv, ParserLine
    PROVE  IInv'
<1> USE NoneAssumption, LineNumsAssumption, BoundsAssumption DEF Goto, Return, Inside,
        clientVars, callerVars, modemVars, ghostVars
<1>1. TypeOK'
  <2>1. rx' \in Seq(Lines)
    BY DEF IInv, TypeOK, ParserLine
  <2>2. resp_notice' \in Nat /\ pc' \in [Callers -> PCs]
    BY SemReleaseType DEF IInv, TypeOK, ParserLine
  <2>3. resp' \in Callers \cup {None} /\ resp_status' \in Statuses
    BY DEF IInv, TypeOK, ParserLine, Statuses, LineStatus
  <2>4. obj' \in [Callers -> RespObject]
    <3>1. resp \in Callers /\ obj[resp] \in RespObject
      BY DEF IInv, TypeOK, ParserLine
    <3>2. StoredLine(obj[resp]) \in RespObject
      BY <3>1 DEF RespObject, StoredLine
    <3> QED BY <3>1, <3>2 DEF IInv, TypeOK, ParserLine
  <2>5. ended' \in [Callers -> BOOLEAN]
    BY DEF IInv, TypeOK, ParserLine
  <2> QED
    BY <2>1, <2>2, <2>3, <2>4, <2>5 DEF IInv, TypeOK, ParserLine
<1>2. LockOwner'
    BY DEF IInv, TypeOK, LockOwner, ParserLine, rt_sem_release
<1>3. RespOwner'
    BY DEF IInv, RespOwner, ParserLine
<1>4. RespAlive'
    BY DEF IInv, RespAlive, ParserLine, StoredLine
<1>5. OpAt'
    BY DEF IInv, TypeOK, OpAt, ParserLine, rt_sem_release
<1>6. ObjAt'
    BY DEF IInv, TypeOK, ObjAt, ParserLine, StoredLine, rt_sem_release
<1>7. NoLostWakeup'
    BY DEF IInv, TypeOK, NoLostWakeup, ParserLine, rt_sem_release
<1>8. TokenBound'
  <2>1. CASE ~EndsResponse(Head(rx), obj[resp])
    <3>1. UNCHANGED <<resp, resp_notice, pc>>
      BY <2>1 DEF ParserLine
    <3> QED BY <3>1 DEF IInv, TokenBound, Armed, BeforeTake
  <2>2. CASE EndsResponse(Head(rx), obj[resp]) /\ \E d \in Callers : pc[d] = "wait"
    <3>1. resp' = None /\ resp_notice' = 0
      BY <2>2 DEF IInv, NoLostWakeup, ParserLine, rt_sem_release
    <3> QED BY <3>1 DEF TokenBound, Armed
  <2>3. CASE EndsResponse(Head(rx), obj[resp]) /\ ~\E d \in Callers : pc[d] = "wait"
    <3>1. resp # None /\ resp' = None /\ resp_notice' = resp_notice + 1 /\ pc' = pc
      BY <2>3 DEF ParserLine, rt_sem_release
    <3>2. resp_notice \in Nat
      BY DEF IInv, TypeOK
    <3> QED BY <3>1, <3>2 DEF IInv, TokenBound, Armed, BeforeTake
  <2> QED BY <2>1, <2>2, <2>3
<1>9. TokenAt'
  <2>1. CASE ~EndsResponse(Head(rx), obj[resp])
    <3>1. UNCHANGED <<resp, resp_notice, pc, op, tries>>
      BY <2>1 DEF ParserLine
    <3> QED BY <3>1 DEF IInv, TokenAt, Armed
  <2>2. CASE EndsResponse(Head(rx), obj[resp]) /\ \E d \in Callers : pc[d] = "wait"
    <3>1. PICK d \in Callers : pc[d] = "wait" /\ pc' = [pc EXCEPT ![d] = "taken"]
      BY <2>2 DEF ParserLine, rt_sem_release
    <3>2. \A e \in Callers : pc'[e] \in {"send", "loop", "take", "timedout"} => FALSE
      BY <3>1 DEF IInv, TypeOK, LockOwner
    <3> QED BY <3>2 DEF TokenAt
  <2>3. CASE EndsResponse(Head(rx), obj[resp]) /\ ~\E d \in Callers : pc[d] = "wait"
    <3>1. /\ resp' = None /\ resp_notice' = resp_notice + 1
          /\ UNCHANGED <<pc, op, tries>>
      BY <2>3 DEF ParserLine, rt_sem_release
    <3> QED
      BY <3>1 DEF IInv, TypeOK, TokenAt, Armed, RespOwner, LockOwner, ParserLine
  <2> QED BY <2>1, <2>2, <2>3
<1> QED BY <1>1, <1>2, <1>3, <1>4, <1>5, <1>6, <1>7, <1>8, <1>9 DEF IInv

\* ParserLineFreed keeps the invariant.
LEMMA ParserLineFreedIInv ==
    ASSUME IInv, ParserLineFreed
    PROVE  IInv'
<1> USE NoneAssumption, LineNumsAssumption, BoundsAssumption DEF Goto, Return, Inside,
        clientVars, callerVars, modemVars, ghostVars
<1>1. TypeOK'
  <2>1. rx' \in Seq(Lines)
    BY DEF IInv, TypeOK, ParserLineFreed
  <2>2. resp_notice' \in Nat /\ pc' \in [Callers -> PCs]
    BY SemReleaseType DEF IInv, TypeOK, ParserLineFreed
  <2>3. resp' \in Callers \cup {None} /\ resp_status' \in Statuses
    BY DEF IInv, TypeOK, ParserLineFreed, Statuses
  <2> QED
    BY <2>1, <2>2, <2>3 DEF IInv, TypeOK, ParserLineFreed
<1>2. LockOwner'
    BY DEF IInv, TypeOK, LockOwner, ParserLineFreed, rt_sem_release
<1>3. RespOwner'
    BY DEF IInv, TypeOK, LockOwner, RespOwner, OpAt, ParserLineFreed, rt_sem_release, Ops
<1>4. RespAlive'
    BY DEF IInv, RespAlive, ParserLineFreed
<1>5. OpAt'
    BY DEF IInv, TypeOK, OpAt, ParserLineFreed, rt_sem_release, Ops, PCs
<1>6. ObjAt'
    BY DEF IInv, TypeOK, OpAt, ObjAt, RespOwner, ParserLineFreed, rt_sem_release, Ops, PCs
<1>7. NoLostWakeup'
    BY DEF IInv, TypeOK, NoLostWakeup, ParserLineFreed, rt_sem_release
<1>8. TokenBound'
    BY DEF IInv, TypeOK, TokenBound, Armed, BeforeTake, ParserLineFreed, rt_sem_release
<1>9. TokenAt'
    BY DEF IInv, TypeOK, TokenAt, Armed, LockOwner, RespOwner, ParserLineFreed, rt_sem_release
<1> QED BY <1>1, <1>2, <1>3, <1>4, <1>5, <1>6, <1>7, <1>8, <1>9 DEF IInv

\* CliEnter keeps the invariant.
LEMMA CliEnterIInv ==
    ASSUME IInv, CliEnter
    PROVE  IInv'
<1> USE NoneAssumption, LineNumsAssumption, BoundsAssumption DEF Goto, Return, Inside,
        clientVars, callerVars, modemVars, ghostVars
<1>1. TypeOK'
    BY DEF IInv, TypeOK, CliEnter, PCs, Ops, Results, Statuses, Lines
<1>2. LockOwner'
    BY DEF IInv, TypeOK, LockOwner, CliEnter
<1>3. RespOwner'
    BY DEF IInv, TypeOK, LockOwner, RespOwner, OpAt, CliEnter, Ops
<1>4. RespAlive'
    BY DEF IInv, TypeOK, LockOwner, RespOwner, RespAlive, OpAt, ObjAt, CliEnter, Ops
<1>5. OpAt'
    BY DEF IInv, TypeOK, OpAt, CliEnter, Ops, PCs
<1>6. ObjAt'
    BY DEF IInv, TypeOK, OpAt, ObjAt, RespOwner, CliEnter, Ops, PCs
<1>7. NoLostWakeup'
    BY DEF IInv, TypeOK, NoLostWakeup, TokenAt, OpAt, LockOwner, RespOwner, CliEnter
<1>8. TokenBound'
    BY DEF IInv, TokenBound, Armed, BeforeTake, CliEnter
<1>9. TokenAt'
    BY DEF IInv, TokenAt, Armed, CliEnter
<1> QED BY <1>1, <1>2, <1>3, <1>4, <1>5, <1>6, <1>7, <1>8, <1>9 DEF IInv

\* CliLeave keeps the invariant.
LEMMA CliLeaveIInv ==
    ASSUME IInv, CliLeave
    PROVE  IInv'
<1> USE NoneAssumption, LineNumsAssumption, BoundsAssumption DEF Goto, Return, Inside,
        clientVars, callerVars, modemVars, ghostVars
<1>1. TypeOK'
    BY DEF IInv, TypeOK, CliLeave, PCs, Ops, Results, Statuses, Lines
<1>2. LockOwner'
    BY DEF IInv, TypeOK, LockOwner, CliLeave
<1>3. RespOwner'
    BY DEF IInv, TypeOK, LockOwner, RespOwner, OpAt, CliLeave, Ops
<1>4. RespAlive'
    BY DEF IInv, TypeOK, LockOwner, RespOwner, RespAlive, OpAt, ObjAt, CliLeave, Ops
<1>5. OpAt'
    BY DEF IInv, TypeOK, OpAt, CliLeave, Ops, PCs
<1>6. ObjAt'
    BY DEF IInv, TypeOK, OpAt, ObjAt, RespOwner, CliLeave, Ops, PCs
<1>7. NoLostWakeup'
    BY DEF IInv, TypeOK, NoLostWakeup, TokenAt, OpAt, LockOwner, RespOwner, CliLeave
<1>8. TokenBound'
    BY DEF IInv, TokenBound, Armed, BeforeTake, CliLeave
<1>9. TokenAt'
    BY DEF IInv, TokenAt, Armed, CliLeave
<1> QED BY <1>1, <1>2, <1>3, <1>4, <1>5, <1>6, <1>7, <1>8, <1>9 DEF IInv

\* CliLine keeps the invariant.
LEMMA CliLineIInv ==
    ASSUME IInv, CliLine
    PROVE  IInv'
<1> USE NoneAssumption, LineNumsAssumption, BoundsAssumption DEF Goto, Return, Inside,
        clientVars, callerVars, modemVars, ghostVars
<1>1. TypeOK'
    BY DEF IInv, TypeOK, CliLine, PCs, Ops, Results, Statuses, Lines
<1>2. LockOwner'
    BY DEF IInv, TypeOK, LockOwner, CliLine
<1>3. RespOwner'
    BY DEF IInv, TypeOK, LockOwner, RespOwner, OpAt, CliLine, Ops
<1>4. RespAlive'
    BY DEF IInv, TypeOK, LockOwner, RespOwner, RespAlive, OpAt, ObjAt, CliLine, Ops
<1>5. OpAt'
    BY DEF IInv, TypeOK, OpAt, CliLine, Ops, PCs
<1>6. ObjAt'
    BY DEF IInv, TypeOK, OpAt, ObjAt, RespOwner, CliLine, Ops, PCs
<1>7. NoLostWakeup'
    BY DEF IInv, TypeOK, NoLostWakeup, TokenAt, OpAt, LockOwner, RespOwner, CliLine
<1>8. TokenBound'
    BY DEF IInv, TokenBound, Armed, BeforeTake, CliLine
<1>9. TokenAt'
    BY DEF IInv, TokenAt, Armed, CliLine
<1> QED BY <1>1, <1>2, <1>3, <1>4, <1>5, <1>6, <1>7, <1>8, <1>9 DEF IInv

\* ModemReply keeps the invariant.
LEMMA ModemReplyIInv ==
    ASSUME IInv, ModemReply
    PROVE  IInv'
<1> USE NoneAssumption, LineNumsAssumption, BoundsAssumption DEF Goto, Return, Inside,
        clientVars, callerVars, modemVars, ghostVars
<1>1. TypeOK'
  <2>1. PICK r \in Replies : rx' = rx \o r
    BY DEF ModemReply
  <2>2. r \in Seq(Lines)
    <3>1. <<"OK">> \in Seq(Lines)
      BY DEF Lines
    <3>2. <<"data", "OK">> \in Seq(Lines)
      BY DEF Lines
    <3>3. <<"ERROR">> \in Seq(Lines)
      BY DEF Lines
    <3>4. << >> \in Seq(Lines)
      OBVIOUS
    <3> QED BY <3>1, <3>2, <3>3, <3>4 DEF Replies
  <2>3. rx \in Seq(Lines) /\ rx' \in Seq(Lines)
    BY <2>1, <2>2 DEF IInv, TypeOK
  <2>4. tx' \in 0..MaxTx
    BY DEF IInv, TypeOK, ModemReply
  <2> QED
    BY <2>3, <2>4 DEF IInv, TypeOK, ModemReply
<1>2. LockOwner'
    BY DEF IInv, TypeOK, LockOwner, ModemReply, Replies
<1>3. RespOwner'
    BY DEF IInv, TypeOK, LockOwner, RespOwner, OpAt, ModemReply, Replies, Ops
<1>4. RespAlive'
    BY DEF IInv, TypeOK, LockOwner, RespOwner, RespAlive, OpAt, ObjAt, ModemReply, Replies, Ops
<1>5. OpAt'
    BY DEF IInv, TypeOK, OpAt, ModemReply, Replies, Ops, PCs
<1>6. ObjAt'
    BY DEF IInv, TypeOK, OpAt, ObjAt, RespOwner, ModemReply, Replies, Ops, PCs
<1>7. NoLostWakeup'
    BY DEF IInv, TypeOK, NoLostWakeup, TokenAt, OpAt, LockOwner, RespOwner, ModemReply, Replies
<1>8. TokenBound'
    BY DEF IInv, TokenBound, Armed, BeforeTake, ModemReply
<1>9. TokenAt'
    BY DEF IInv, TokenAt, Armed, ModemReply
<1> QED BY <1>1, <1>2, <1>3, <1>4, <1>5, <1>6, <1>7, <1>8, <1>9 DEF IInv

\* ModemUrc keeps the invariant.
LEMMA ModemUrcIInv ==
    ASSUME IInv, ModemUrc
    PROVE  IInv'
<1> USE NoneAssumption, LineNumsAssumption, BoundsAssumption DEF Goto, Return, Inside,
        clientVars, callerVars, modemVars, ghostVars
<1>1. TypeOK'
    BY DEF IInv, TypeOK, ModemUrc, PCs, Ops, Results, Statuses, Lines
<1>2. LockOwner'
    BY DEF IInv, TypeOK, LockOwner, ModemUrc
<1>3. RespOwner'
    BY DEF IInv, TypeOK, LockOwner, RespOwner, OpAt, ModemUrc, Ops
<1>4. RespAlive'
    BY DEF IInv, TypeOK, LockOwner, RespOwner, RespAlive, OpAt, ObjAt, ModemUrc, Ops
<1>5. OpAt'
    BY DEF IInv, TypeOK, OpAt, ModemUrc, Ops, PCs
<1>6. ObjAt'
    BY DEF IInv, TypeOK, OpAt, ObjAt, RespOwner, ModemUrc, Ops, PCs
<1>7. NoLostWakeup'
    BY DEF IInv, TypeOK, NoLostWakeup, TokenAt, OpAt, LockOwner, RespOwner, ModemUrc
<1>8. TokenBound'
    BY DEF IInv, TokenBound, Armed, BeforeTake, ModemUrc
<1>9. TokenAt'
    BY DEF IInv, TokenAt, Armed, ModemUrc
<1> QED BY <1>1, <1>2, <1>3, <1>4, <1>5, <1>6, <1>7, <1>8, <1>9 DEF IInv

-----------------------------------------------------------------------------
\* Every step of the client, the console and the modem keeps the invariant.
LEMMA NextIInv == IInv /\ [Next]_vars => IInv'
<1> SUFFICES ASSUME IInv, [Next]_vars PROVE IInv'
    OBVIOUS
<1>1. ASSUME NEW c \in Callers, CallStep(c) PROVE IInv'
    BY <1>1, ExecArmIInv, ExecSendIInv, ExecTimedOutIInv, ExecTakenIInv, ExecExitIInv,
       WaitConnectArmIInv, WaitConnectTimeoutIInv, WaitConnectProbeIInv, WaitConnectRetryIInv,
       WaitConnectTakenIInv, WaitConnectDeleteIInv, rt_sem_takeIInv, rt_thread_timeoutIInv
       DEF CallStep
<1>2. ASSUME NEW c \in Callers, CallBegin(c) PROVE IInv'
    BY <1>2, ExecBeginIInv, ExecBeginNoRespIInv, WaitConnectBeginIInv, SectionTakeIInv,
       SectionReleaseIInv, at_delete_respIInv
       DEF CallBegin
<1>3. CASE Parser
    BY <1>3, ParserOtherIInv, ParserLineIInv, ParserLineFreedIInv DEF Parser
<1>4. CASE Cli
    BY <1>4, CliEnterIInv, CliLeaveIInv, CliLineIInv DEF Cli
<1>5. CASE Modem
    BY <1>5, ModemReplyIInv, ModemUrcIInv DEF Modem
<1>6. CASE UNCHANGED vars
    BY <1>6 DEF IInv, TypeOK, LockOwner, RespOwner, RespAlive, OpAt, ObjAt, NoLostWakeup,
       TokenBound, TokenAt, Armed, BeforeTake, vars, clientVars, callerVars, modemVars, ghostVars
<1> QED BY <1>1, <1>2, <1>3, <1>4, <1>5, <1>6 DEF Next

\* The inductive invariant holds in every reachable state.
THEOREM Invariance == Spec => []IInv
<1> QED BY InitIInv, NextIInv, PTL DEF Spec

\* Type correctness of the AT client, for any number of calling threads.
THEOREM TypeCorrect == Spec => []TypeOK
<1>1. IInv => TypeOK
    BY DEF IInv
<1> QED BY <1>1, Invariance, PTL

\* The mutex client->lock keeps two callers out of the client at the same time.
THEOREM MutualExclusion == Spec => []LockOwner
<1>1. IInv => LockOwner
    BY DEF IInv
<1> QED BY <1>1, Invariance, PTL

\* The parser only ever fills the response of the caller inside its call, which
\* exists except at the end of wait_connect.
THEOREM ResponseOwnership == Spec => []RespSound
<1>1. IInv => RespSound
    BY DEF IInv, RespSound
<1> QED BY <1>1, Invariance, PTL

\* The tokens a late response leaves in resp_notice never exceed one outside a
\* call and two inside it, however many commands time out.
THEOREM TokensBounded == Spec => []TokenBound
<1>1. IInv => TokenBound
    BY DEF IInv
<1> QED BY <1>1, Invariance, PTL

\* A caller never sleeps on resp_notice while its response has already ended.
THEOREM WakeupNotLost == Spec => []NoLostWakeup
<1>1. IInv => NoLostWakeup
    BY DEF IInv
<1> QED BY <1>1, Invariance, PTL
-----------------------------------------------------------------------------
(* The channel between two calls                                            *)

\* No response line is on its way.
AllUrc == \A i \in 1..Len(rx) : rx[i] = "urc"

\* The places between the command and the result of its response.
Asking == {"take", "wait", "timedout", "taken"}

\* The modem owes at most one answer; nothing but reports follows its last line.
OneAnswer ==
    /\ tx <= 1
    /\ tx = 1 => AllUrc
    /\ \A i, j \in 1..Len(rx) : i < j /\ rx[i] \in {"OK", "ERROR"} => rx[j] = "urc"

\* What QuietChannel needs: as long as every command waited for its whole answer, the
\* channel is quiet whenever no command is under way, and quiet again once a response
\* that an end marker ends is complete.
Channel ==
    ~desync =>
      /\ (\A c \in Callers : pc[c] \notin Asking) => tx = 0 /\ AllUrc /\ resp_notice = 0
      /\ \A c \in Callers :
           /\ pc[c] \in {"send", "loop"} /\ op[c] # "noresp" => resp = c
           /\ pc[c] \in Asking => /\ OneAnswer
                                  /\ resp = None /\ obj[c].line_num = 0 => tx = 0 /\ AllUrc
           /\ pc[c] = "take" => resp_notice + Armed <= 1
           /\ pc[c] = "taken" => resp_notice = 0 /\ resp = None
           /\ pc[c] \in {"delete", "exit"} => resp = None
           /\ op[c] = "wait_connect" => obj[c].line_num = 0

\* The parser or the console takes the first line.
LEMMA LineTaken ==
    ASSUME rx \in Seq(Lines), rx # << >>, rx' = Tail(rx), tx' = tx
    PROVE  /\ AllUrc => AllUrc'
           /\ AllUrc => Head(rx) = "urc"
           /\ OneAnswer => OneAnswer'
           /\ OneAnswer /\ Head(rx) # "urc" => tx # 1
           /\ OneAnswer /\ Head(rx) \in {"OK", "ERROR"} => AllUrc'
<1>1. /\ Len(rx) \in Nat /\ Len(rx) > 0 /\ Head(rx) = rx[1] /\ Len(rx') = Len(rx) - 1
      /\ \A i \in 1..Len(rx') : rx'[i] = rx[i + 1]
    OBVIOUS
<1>2. \A i \in 1..Len(rx') : i + 1 \in 1..Len(rx) /\ 1 < i + 1
    BY <1>1
<1>3. 1 \in 1..Len(rx)
    BY <1>1
<1>4. AllUrc => AllUrc' /\ Head(rx) = "urc"
    BY <1>1, <1>2, <1>3 DEF AllUrc
<1>5. OneAnswer => OneAnswer'
  <2>1. ASSUME OneAnswer, NEW i \in 1..Len(rx'), NEW j \in 1..Len(rx'), i < j,
               rx'[i] \in {"OK", "ERROR"}
        PROVE  rx'[j] = "urc"
    <3>1. i + 1 < j + 1
        BY <2>1
    <3> QED BY <1>1, <1>2, <2>1, <3>1 DEF OneAnswer
  <2> QED BY <1>4, <2>1 DEF OneAnswer
<1>6. OneAnswer /\ Head(rx) # "urc" => tx # 1
    BY <1>4 DEF OneAnswer
<1>7. OneAnswer /\ Head(rx) \in {"OK", "ERROR"} => AllUrc'
    BY <1>1, <1>2, <1>3 DEF OneAnswer, AllUrc
<1> QED BY <1>4, <1>5, <1>6, <1>7

\* The modem reports an event.
LEMMA LineAdded ==
    ASSUME rx \in Seq(Lines), rx' = Append(rx, "urc"), tx' = tx
    PROVE  (AllUrc => AllUrc') /\ (OneAnswer => OneAnswer')
<1>1. /\ Len(rx) \in Nat /\ Len(rx') = Len(rx) + 1 /\ rx'[Len(rx) + 1] = "urc"
      /\ \A i \in 1..Len(rx) : rx'[i] = rx[i]
    OBVIOUS
<1>2. \A i \in 1..Len(rx') : i \in 1..Len(rx) \/ i = Len(rx) + 1
    BY <1>1
<1>3. AllUrc => AllUrc'
    BY <1>1, <1>2 DEF AllUrc
<1>4. ASSUME OneAnswer, NEW i \in 1..Len(rx'), NEW j \in 1..Len(rx'), i < j,
             rx'[i] \in {"OK", "ERROR"}
      PROVE  rx'[j] = "urc"
  <2>1. CASE j = Len(rx) + 1
    BY <1>1, <2>1
  <2>2. CASE j \in 1..Len(rx)
    <3>1. i \in 1..Len(rx)
      BY <1>1, <1>4, <2>2
    <3> QED BY <1>1, <1>4, <2>2, <3>1 DEF OneAnswer
  <2> QED BY <1>2, <2>1, <2>2
<1> QED BY <1>3, <1>4 DEF OneAnswer

\* The modem answers the only command.
LEMMA AnswerAdded ==
    ASSUME rx \in Seq(Lines), NEW r \in Replies, rx' = rx \o r, AllUrc, tx' = 0
    PROVE  OneAnswer'
<1>1. r \in Seq(Lines) /\ Len(r) \in 0..2 /\ (Len(r) = 2 => r[1] = "data")
  <2>1. CASE r = <<"OK">>
    BY <2>1 DEF Lines
  <2>2. CASE r = <<"data", "OK">>
    BY <2>2 DEF Lines
  <2>3. CASE r = <<"ERROR">>
    BY <2>3 DEF Lines
  <2>4. CASE r = << >>
    BY <2>4
  <2> QED BY <2>1, <2>2, <2>3, <2>4 DEF Replies
<1>2. /\ Len(rx) \in Nat /\ Len(rx') = Len(rx) + Len(r)
      /\ \A i \in 1..Len(rx) : rx'[i] = rx[i]
      /\ \A i \in 1..Len(r) : rx'[Len(rx) + i] = r[i]
    BY <1>1
<1>3. ASSUME NEW i \in 1..Len(rx'), NEW j \in 1..Len(rx'), i < j PROVE rx'[i] \in {"urc", "data"}
  <2>1. CASE i \in 1..Len(rx)
    BY <1>2, <2>1 DEF AllUrc
  <2>2. CASE i > Len(rx)
    <3>1. i = Len(rx) + 1 /\ Len(r) = 2 /\ 1 \in 1..Len(r)
      BY <1>1, <1>2, <1>3, <2>2
    <3> QED BY <1>1, <1>2, <3>1
  <2> QED BY <1>2, <2>1, <2>2
<1>4. \A i, j \in 1..Len(rx') : i < j => rx'[i] \notin {"OK", "ERROR"}
    BY <1>3
<1> QED BY <1>4 DEF OneAnswer

\* The parts of the channel that a step leaves alone.
LEMMA ChannelSame ==
    UNCHANGED <<tx, rx>> => (AllUrc' <=> AllUrc) /\ (OneAnswer' <=> OneAnswer)
    BY DEF AllUrc, OneAnswer

\* The start: nothing has been sent.
LEMMA InitChannel == Init => Channel
    BY DEF Init, Channel, AllUrc, Asking

\* ExecBegin keeps the channel in order.
LEMMA ExecBeginChannel ==
    ASSUME IInv, Channel, NEW c \in Callers, NEW n \in LineNums, ExecBegin(c, n)
    PROVE  Channel'
<1> USE NoneAssumption DEF Goto, Return, Inside, clientVars, callerVars, modemVars, ghostVars
<1>1. (AllUrc' <=> AllUrc) /\ (OneAnswer' <=> OneAnswer)
    BY ChannelSame DEF ExecBegin
<1> QED
    BY <1>1 DEF IInv, TypeOK, Channel, Asking, Armed, ExecBegin

\* ExecBeginNoResp keeps the channel in order.
LEMMA ExecBeginNoRespChannel ==
    ASSUME IInv, Channel, NEW c \in Callers, ExecBeginNoResp(c)
    PROVE  Channel'
<1> USE NoneAssumption DEF Goto, Return, Inside, clientVars, callerVars, modemVars, ghostVars
<1>1. (AllUrc' <=> AllUrc) /\ (OneAnswer' <=> OneAnswer)
    BY ChannelSame DEF ExecBeginNoResp
<1> QED
    BY <1>1 DEF IInv, TypeOK, LockOwner, RespOwner, OpAt, Channel, Asking, Armed, ExecBeginNoResp

\* WaitConnectBegin keeps the channel in order.
LEMMA WaitConnectBeginChannel ==
    ASSUME IInv, Channel, NEW c \in Callers, WaitConnectBegin(c)
    PROVE  Channel'
<1> USE NoneAssumption DEF Goto, Return, Inside, clientVars, callerVars, modemVars, ghostVars
<1>1. (AllUrc' <=> AllUrc) /\ (OneAnswer' <=> OneAnswer)
    BY ChannelSame DEF WaitConnectBegin
<1> QED
    BY <1>1 DEF IInv, TypeOK, LockOwner, RespOwner, OpAt, Channel, Asking, Armed, WaitConnectBegin

\* SectionTake keeps the channel in order.
LEMMA SectionTakeChannel == ASSUME IInv, Channel, NEW c \in Callers, SectionTake(c) PROVE Channel'
<1> USE NoneAssumption DEF Goto, Return, Inside, clientVars, callerVars, modemVars, ghostVars
<1>1. (AllUrc' <=> AllUrc) /\ (OneAnswer' <=> OneAnswer)
    BY ChannelSame DEF SectionTake
<1> QED
    BY <1>1 DEF IInv, TypeOK, LockOwner, RespOwner, OpAt, Channel, Asking, Armed, SectionTake

\* SectionRelease keeps the channel in order.
LEMMA SectionReleaseChannel ==
    ASSUME IInv, Channel, NEW c \in Callers, SectionRelease(c)
    PROVE  Channel'
<1> USE NoneAssumption DEF Goto, Return, Inside, clientVars, callerVars, modemVars, ghostVars
<1>1. (AllUrc' <=> AllUrc) /\ (OneAnswer' <=> OneAnswer)
    BY ChannelSame DEF SectionRelease
<1> QED
    BY <1>1 DEF IInv, TypeOK, LockOwner, RespOwner, OpAt, Channel, Asking, Armed, SectionRelease

\* at_delete_resp keeps the channel in order.
LEMMA at_delete_respChannel ==
    ASSUME IInv, Channel, NEW c \in Callers, at_delete_resp(c)
    PROVE  Channel'
<1> USE NoneAssumption DEF Goto, Return, Inside, clientVars, callerVars, modemVars, ghostVars
<1>1. (AllUrc' <=> AllUrc) /\ (OneAnswer' <=> OneAnswer)
    BY ChannelSame DEF at_delete_resp
<1> QED
    BY <1>1 DEF Channel, Asking, Armed, at_delete_resp, NoObject

\* ExecArm keeps the channel in order.
LEMMA ExecArmChannel == ASSUME IInv, Channel, NEW c \in Callers, ExecArm(c) PROVE Channel'
<1> USE NoneAssumption DEF Goto, Return, Inside, clientVars, callerVars, modemVars, ghostVars
<1>1. (AllUrc' <=> AllUrc) /\ (OneAnswer' <=> OneAnswer)
    BY ChannelSame DEF ExecArm
<1>2. /\ \A d \in Callers : pc[d] \notin Inside
      /\ \A d \in Callers : d # c => pc'[d] = pc[d]
      /\ pc'[c] \notin Asking
    BY DEF IInv, TypeOK, LockOwner, ExecArm, CanTake, Asking
<1>3. \A d \in Callers : pc[d] \notin Asking /\ pc'[d] \notin Asking
    BY <1>2 DEF Asking
<1> QED
    BY <1>1, <1>2, <1>3 DEF IInv, TypeOK, Channel, Asking, ExecArm

\* ExecTimedOut keeps the channel in order.
LEMMA ExecTimedOutChannel == ASSUME IInv, Channel, NEW c \in Callers, ExecTimedOut(c) PROVE Channel'
<1> USE NoneAssumption DEF Goto, Return, Inside, clientVars, callerVars, modemVars, ghostVars
<1>1. (AllUrc' <=> AllUrc) /\ (OneAnswer' <=> OneAnswer)
    BY ChannelSame DEF ExecTimedOut
<1> QED
    BY <1>1 DEF IInv, TypeOK, LockOwner, RespOwner, OpAt, Channel, Asking, Armed, ExecTimedOut

\* ExecTaken keeps the channel in order.
LEMMA ExecTakenChannel == ASSUME IInv, Channel, NEW c \in Callers, ExecTaken(c) PROVE Channel'
<1> USE NoneAssumption DEF Goto, Return, Inside, clientVars, callerVars, modemVars, ghostVars
<1>1. (AllUrc' <=> AllUrc) /\ (OneAnswer' <=> OneAnswer)
    BY ChannelSame DEF ExecTaken
<1> QED
    BY <1>1 DEF IInv, TypeOK, LockOwner, RespOwner, OpAt, Channel, Asking, Armed, ExecTaken

\* ExecExit keeps the channel in order.
LEMMA ExecExitChannel == ASSUME IInv, Channel, NEW c \in Callers, ExecExit(c) PROVE Channel'
<1> USE NoneAssumption DEF Goto, Return, Inside, clientVars, callerVars, modemVars, ghostVars
<1>1. (AllUrc' <=> AllUrc) /\ (OneAnswer' <=> OneAnswer)
    BY ChannelSame DEF ExecExit
<1> QED
    BY <1>1 DEF IInv, TypeOK, LockOwner, RespOwner, OpAt, Channel, Asking, Armed, ExecExit

\* WaitConnectArm keeps the channel in order.
LEMMA WaitConnectArmChannel ==
    ASSUME IInv, Channel, NEW c \in Callers, WaitConnectArm(c)
    PROVE  Channel'
<1> USE NoneAssumption DEF Goto, Return, Inside, clientVars, callerVars, modemVars, ghostVars
<1>1. (AllUrc' <=> AllUrc) /\ (OneAnswer' <=> OneAnswer)
    BY ChannelSame DEF WaitConnectArm
<1>2. /\ \A d \in Callers : pc[d] \notin Inside
      /\ \A d \in Callers : d # c => pc'[d] = pc[d]
      /\ pc'[c] \notin Asking
    BY DEF IInv, TypeOK, LockOwner, WaitConnectArm, CanTake, Asking
<1>3. \A d \in Callers : pc[d] \notin Asking /\ pc'[d] \notin Asking
    BY <1>2 DEF Asking
<1> QED
    BY <1>1, <1>2, <1>3 DEF IInv, TypeOK, Channel, Asking, WaitConnectArm

\* WaitConnectTimeout keeps the channel in order.
LEMMA WaitConnectTimeoutChannel ==
    ASSUME IInv, Channel, NEW c \in Callers, WaitConnectTimeout(c)
    PROVE  Channel'
<1> USE NoneAssumption DEF Goto, Return, Inside, clientVars, callerVars, modemVars, ghostVars
<1>1. (AllUrc' <=> AllUrc) /\ (OneAnswer' <=> OneAnswer)
    BY ChannelSame DEF WaitConnectTimeout
<1> QED
    BY <1>1 DEF IInv, TypeOK, LockOwner, RespOwner, OpAt, Channel, Asking, Armed, WaitConnectTimeout

\* WaitConnectRetry keeps the channel in order.
LEMMA WaitConnectRetryChannel ==
    ASSUME IInv, Channel, NEW c \in Callers, WaitConnectRetry(c)
    PROVE  Channel'
<1> USE NoneAssumption DEF Goto, Return, Inside, clientVars, callerVars, modemVars, ghostVars
<1>1. (AllUrc' <=> AllUrc) /\ (OneAnswer' <=> OneAnswer)
    BY ChannelSame DEF WaitConnectRetry
<1> QED
    BY <1>1 DEF IInv, TypeOK, LockOwner, RespOwner, OpAt, Channel, Asking, Armed, WaitConnectRetry

\* WaitConnectTaken keeps the channel in order.
LEMMA WaitConnectTakenChannel ==
    ASSUME IInv, Channel, NEW c \in Callers, WaitConnectTaken(c)
    PROVE  Channel'
<1> USE NoneAssumption DEF Goto, Return, Inside, clientVars, callerVars, modemVars, ghostVars
<1>1. (AllUrc' <=> AllUrc) /\ (OneAnswer' <=> OneAnswer)
    BY ChannelSame DEF WaitConnectTaken
<1> QED
    BY <1>1 DEF IInv, TypeOK, LockOwner, RespOwner, OpAt, Channel, Asking, Armed, WaitConnectTaken

\* WaitConnectDelete keeps the channel in order.
LEMMA WaitConnectDeleteChannel ==
    ASSUME IInv, Channel, NEW c \in Callers, WaitConnectDelete(c)
    PROVE  Channel'
<1> USE NoneAssumption DEF Goto, Return, Inside, clientVars, callerVars, modemVars, ghostVars
<1>1. (AllUrc' <=> AllUrc) /\ (OneAnswer' <=> OneAnswer)
    BY ChannelSame DEF WaitConnectDelete
<1> QED
    BY <1>1 DEF Channel, Asking, Armed, WaitConnectDelete, NoObject

\* rt_sem_take keeps the channel in order.
LEMMA rt_sem_takeChannel == ASSUME IInv, Channel, NEW c \in Callers, rt_sem_take(c) PROVE Channel'
<1> USE NoneAssumption DEF Goto, Return, Inside, clientVars, callerVars, modemVars, ghostVars
<1>1. (AllUrc' <=> AllUrc) /\ (OneAnswer' <=> OneAnswer)
    BY ChannelSame DEF rt_sem_take
<1> QED
    BY <1>1 DEF IInv, TypeOK, LockOwner, RespOwner, OpAt, Channel, Asking, Armed, rt_sem_take

\* rt_thread_timeout keeps the channel in order.
LEMMA rt_thread_timeoutChannel ==
    ASSUME IInv, Channel, NEW c \in Callers, rt_thread_timeout(c)
    PROVE  Channel'
<1> USE NoneAssumption DEF Goto, Return, Inside, clientVars, callerVars, modemVars, ghostVars
<1>1. (AllUrc' <=> AllUrc) /\ (OneAnswer' <=> OneAnswer)
    BY ChannelSame DEF rt_thread_timeout
<1> QED
    BY <1>1 DEF IInv, TypeOK, LockOwner, RespOwner, OpAt, Channel, Asking, Armed, rt_thread_timeout

\* CliEnter keeps the channel in order.
LEMMA CliEnterChannel == ASSUME IInv, Channel, CliEnter PROVE Channel'
<1> USE NoneAssumption DEF Goto, Return, Inside, clientVars, callerVars, modemVars, ghostVars
<1>1. (AllUrc' <=> AllUrc) /\ (OneAnswer' <=> OneAnswer)
    BY ChannelSame DEF CliEnter
<1> QED
    BY <1>1 DEF IInv, TypeOK, LockOwner, RespOwner, OpAt, Channel, Asking, Armed, CliEnter

\* CliLeave keeps the channel in order.
LEMMA CliLeaveChannel == ASSUME IInv, Channel, CliLeave PROVE Channel'
<1> USE NoneAssumption DEF Goto, Return, Inside, clientVars, callerVars, modemVars, ghostVars
<1>1. (AllUrc' <=> AllUrc) /\ (OneAnswer' <=> OneAnswer)
    BY ChannelSame DEF CliLeave
<1> QED
    BY <1>1 DEF IInv, TypeOK, LockOwner, RespOwner, OpAt, Channel, Asking, Armed, CliLeave

\* A command goes out on a quiet channel.
LEMMA CommandOut ==
    ASSUME tx = 0, AllUrc, Write, rx' = rx
    PROVE  OneAnswer'
    BY BoundsAssumption DEF Write, OneAnswer, AllUrc

\* ExecSend keeps the channel in order.
LEMMA ExecSendChannel == ASSUME IInv, Channel, NEW c \in Callers, ExecSend(c) PROVE Channel'
<1> USE NoneAssumption DEF Goto, Return, Inside, clientVars, callerVars, modemVars, ghostVars
<1>1. CASE op[c] # "exec"
    BY <1>1 DEF ExecSend, Channel
<1>2. CASE op[c] = "exec" /\ ~desync
  <2>1. /\ \A d \in Callers : pc[d] \in Inside => d = c
        /\ pc' = [pc EXCEPT ![c] = "take"] /\ UNCHANGED <<resp, resp_notice, desync, op>>
    BY <1>2 DEF IInv, LockOwner, ExecSend
  <2>2. \A d \in Callers : pc[d] \notin Asking
    BY <2>1 DEF ExecSend, Asking
  <2>3. tx = 0 /\ AllUrc /\ resp_notice = 0 /\ resp = c
    BY <1>2, <2>2 DEF Channel, ExecSend
  <2>4. OneAnswer'
    BY <2>3, CommandOut DEF ExecSend
  <2>5. \A d \in Callers : pc'[d] \in Inside => d = c /\ pc'[d] = "take"
    BY <2>1 DEF IInv, TypeOK
  <2>6. c \in Callers /\ pc'[c] \in Asking
    BY <2>1 DEF IInv, TypeOK, Asking
  <2>7. \A d \in Callers : obj'[d].line_num = obj[d].line_num
    <3>1. obj' = [obj EXCEPT ![c].line_counts = 0]
      BY <1>2 DEF ExecSend
    <3> QED BY <3>1 DEF IInv, TypeOK, RespObject
  <2> QED
    BY <1>2, <2>1, <2>3, <2>4, <2>5, <2>6, <2>7 DEF Channel, Armed
<1>3. CASE op[c] = "exec" /\ desync
    BY <1>3 DEF ExecSend, Channel
<1> QED BY <1>1, <1>2, <1>3

\* WaitConnectProbe keeps the channel in order.
LEMMA WaitConnectProbeChannel ==
    ASSUME IInv, Channel, NEW c \in Callers, WaitConnectProbe(c)
    PROVE  Channel'
<1> USE NoneAssumption DEF Goto, Return, Inside, clientVars, callerVars, modemVars, ghostVars
<1>1. CASE ~desync
  <2>1. /\ \A d \in Callers : pc[d] \in Inside => d = c
        /\ pc' = [pc EXCEPT ![c] = "take"] /\ UNCHANGED <<resp, resp_notice, desync, op>>
    BY DEF IInv, LockOwner, WaitConnectProbe
  <2>2. \A d \in Callers : pc[d] \notin Asking
    BY <2>1 DEF WaitConnectProbe, Asking
  <2>3. tx = 0 /\ AllUrc /\ resp_notice = 0 /\ resp = c
    BY <1>1, <2>2 DEF Channel, WaitConnectProbe, IInv, OpAt
  <2>4. OneAnswer'
    BY <2>3, CommandOut DEF WaitConnectProbe
  <2>5. \A d \in Callers : pc'[d] \in Inside => d = c /\ pc'[d] = "take"
    BY <2>1 DEF IInv, TypeOK
  <2>6. c \in Callers /\ pc'[c] \in Asking
    BY <2>1 DEF IInv, TypeOK, Asking
  <2>7. \A d \in Callers : obj'[d].line_num = obj[d].line_num
    BY DEF IInv, TypeOK, RespObject, WaitConnectProbe
  <2> QED
    BY <1>1, <2>1, <2>3, <2>4, <2>5, <2>6, <2>7 DEF Channel, Armed
<1>2. CASE desync
    BY <1>2 DEF WaitConnectProbe, Channel
<1> QED BY <1>1, <1>2 DEF IInv, TypeOK

\* ParserOther keeps the channel in order.
LEMMA ParserOtherChannel == ASSUME IInv, Channel, ParserOther PROVE Channel'
<1> USE DEF clientVars, callerVars, modemVars, ghostVars
<1>1. (AllUrc => AllUrc') /\ (OneAnswer => OneAnswer')
    BY LineTaken DEF ParserOther, IInv, TypeOK
<1> QED
    BY <1>1 DEF Channel, Armed, ParserOther

\* CliLine keeps the channel in order.
LEMMA CliLineChannel == ASSUME IInv, Channel, CliLine PROVE Channel'
<1> USE DEF clientVars, callerVars, modemVars, ghostVars
<1>1. (AllUrc => AllUrc') /\ (OneAnswer => OneAnswer')
    BY LineTaken DEF CliLine, IInv, TypeOK
<1> QED
    BY <1>1 DEF Channel, Armed, CliLine

\* ModemUrc keeps the channel in order.
LEMMA ModemUrcChannel == ASSUME IInv, Channel, ModemUrc PROVE Channel'
<1> USE DEF clientVars, callerVars, modemVars, ghostVars
<1>1. (AllUrc => AllUrc') /\ (OneAnswer => OneAnswer')
    BY LineAdded DEF ModemUrc, IInv, TypeOK
<1> QED
    BY <1>1 DEF Channel, Armed, ModemUrc

\* ModemReply keeps the channel in order.
LEMMA ModemReplyChannel == ASSUME IInv, Channel, ModemReply PROVE Channel'
<1> USE DEF clientVars, callerVars, modemVars, ghostVars
<1>1. CASE ~desync
  <2>1. PICK c \in Callers : pc[c] \in Asking
    BY <1>1 DEF Channel, ModemReply, IInv, TypeOK
  <2>2. OneAnswer /\ tx = 1 /\ AllUrc /\ tx' = 0
    BY <1>1, <2>1 DEF Channel, OneAnswer, ModemReply, IInv, TypeOK
  <2>3. OneAnswer'
    BY <2>2, AnswerAdded DEF ModemReply, IInv, TypeOK
  <2> QED
    BY <1>1, <2>1, <2>2, <2>3 DEF Channel, Armed, ModemReply
<1>2. CASE desync
    BY <1>2 DEF ModemReply, Channel
<1> QED BY <1>1, <1>2 DEF IInv, TypeOK

\* A freed response object is met only after a command was left.
LEMMA ParserLineFreedChannel == ASSUME IInv, Channel, ParserLineFreed PROVE Channel'
<1> USE NoneAssumption DEF ghostVars
<1>1. resp \in Callers /\ pc[resp] = "exit"
    BY DEF ParserLineFreed, IInv, TypeOK, RespAlive
<1>2. desync
    BY <1>1 DEF Channel, ParserLineFreed, IInv, TypeOK
<1> QED BY <1>2 DEF ParserLineFreed, Channel

\* A line of the response: the last one leaves the channel quiet if it is an end marker.
LEMMA ParserLineChannel == ASSUME IInv, Channel, ParserLine PROVE Channel'
<1> USE NoneAssumption DEF Inside, clientVars, callerVars, modemVars, ghostVars
<1> DEFINE c == resp
<1>1. /\ c \in Callers /\ c # None /\ \A d \in Callers : pc[d] \in Inside => d = c
    BY DEF ParserLine, IInv, TypeOK, RespOwner, LockOwner
<1>2. CASE ~desync
  <2>1. /\ AllUrc => Head(rx) = "urc"
        /\ OneAnswer => OneAnswer'
        /\ OneAnswer /\ Head(rx) # "urc" => tx # 1
        /\ OneAnswer /\ Head(rx) \in {"OK", "ERROR"} => AllUrc'
    BY LineTaken DEF ParserLine, IInv, TypeOK
  <2>2. pc[c] \in {"take", "wait", "timedout"} /\ OneAnswer /\ tx = 0 /\ tx' = 0 /\ OneAnswer'
    <3>1. \E d \in Callers : pc[d] \in Asking
      BY <1>2, <2>1 DEF Channel, ParserLine
    <3>2. pc[c] \in Asking
      BY <1>1, <3>1 DEF Asking
    <3>3. OneAnswer /\ pc[c] # "taken"
      BY <1>1, <1>2, <3>2 DEF Channel
    <3> QED BY <2>1, <3>2, <3>3 DEF Asking, OneAnswer, ParserLine, IInv, TypeOK
  <2>3. \A d \in Callers : obj'[d].line_num = obj[d].line_num
    BY <1>1 DEF IInv, TypeOK, RespObject, ParserLine, StoredLine
  <2>4. UNCHANGED <<desync, op>> /\ pc \in [Callers -> PCs] /\ resp_notice \in Nat
    BY DEF ParserLine, IInv, TypeOK
  <2>5. CASE ~EndsResponse(Head(rx), obj[c])
    <3>1. UNCHANGED <<resp, resp_notice, pc>>
      BY <2>5 DEF ParserLine
    <3>2. \E d \in Callers : pc'[d] \in Asking
      BY <1>1, <2>2, <3>1 DEF Asking
    <3> HIDE DEF c
    <3> QED BY <1>1, <1>2, <2>2, <2>3, <2>4, <3>1, <3>2 DEF Channel, Armed, c
  <2>6. CASE EndsResponse(Head(rx), obj[c])
    <3>1. resp' = None /\ rt_sem_release
      BY <2>6 DEF ParserLine
    <3>2. obj[c].line_num = 0 => AllUrc'
      BY <2>1, <2>2, <2>6 DEF EndsResponse
    <3>3. /\ \A d \in Callers : d # c => pc'[d] = pc[d]
          /\ pc'[c] \in Asking
          /\ pc'[c] = "take" => resp_notice' = 1
          /\ pc'[c] = "taken" => resp_notice' = 0
      <4>1. CASE pc[c] = "wait"
        <5>1. pc' = [pc EXCEPT ![c] = "taken"] /\ resp_notice' = resp_notice
          BY <1>1, <3>1, <4>1 DEF rt_sem_release, Goto
        <5>2. resp_notice = 0
          BY <1>1, <4>1 DEF IInv, NoLostWakeup
        <5> QED BY <1>1, <2>4, <5>1, <5>2 DEF Asking
      <4>2. CASE pc[c] # "wait"
        <5>1. \A d \in Callers : pc[d] # "wait"
          BY <1>1, <4>2
        <5>2. pc' = pc /\ resp_notice' = resp_notice + 1
          BY <3>1, <5>1 DEF rt_sem_release
        <5>3. pc[c] = "take" => resp_notice = 0
          BY <1>1, <1>2, <2>4 DEF Channel, Armed
        <5> QED BY <2>2, <2>4, <5>2, <5>3 DEF Asking
      <4> QED BY <4>1, <4>2
    <3>4. \A d \in Callers : pc'[d] \in Inside => d = c
      BY <1>1, <3>3
    <3> HIDE DEF c
    <3> QED BY <1>1, <1>2, <2>2, <2>3, <2>4, <3>1, <3>2, <3>3, <3>4 DEF Channel, Armed, Asking
  <2> QED BY <2>5, <2>6
<1>3. CASE desync
    BY <1>3 DEF ParserLine, Channel
<1> QED BY <1>2, <1>3 DEF IInv, TypeOK

\* Every step keeps the channel in order.
LEMMA NextChannel == IInv /\ Channel /\ [Next]_vars => Channel'
<1> SUFFICES ASSUME IInv, Channel, [Next]_vars PROVE Channel'
    OBVIOUS
<1>1. ASSUME NEW c \in Callers, CallStep(c) PROVE Channel'
    BY <1>1, ExecArmChannel, ExecSendChannel, ExecTimedOutChannel, ExecTakenChannel,
       ExecExitChannel, WaitConnectArmChannel, WaitConnectTimeoutChannel, WaitConnectProbeChannel,
       WaitConnectRetryChannel, WaitConnectTakenChannel, WaitConnectDeleteChannel,
       rt_sem_takeChannel, rt_thread_timeoutChannel
       DEF CallStep
<1>2. ASSUME NEW c \in Callers, CallBegin(c) PROVE Channel'
    BY <1>2, ExecBeginChannel, ExecBeginNoRespChannel, WaitConnectBeginChannel,
       SectionTakeChannel, SectionReleaseChannel, at_delete_respChannel
       DEF CallBegin
<1>3. CASE Parser
    BY <1>3, ParserOtherChannel, ParserLineChannel, ParserLineFreedChannel DEF Parser
<1>4. CASE Cli
    BY <1>4, CliEnterChannel, CliLeaveChannel, CliLineChannel DEF Cli
<1>5. CASE Modem
    BY <1>5, ModemReplyChannel, ModemUrcChannel DEF Modem
<1>6. CASE UNCHANGED vars
    BY <1>6 DEF Channel, AllUrc, OneAnswer, Armed, vars, clientVars, callerVars, modemVars,
       ghostVars
<1> QED BY <1>1, <1>2, <1>3, <1>4, <1>5, <1>6 DEF Next

\* As long as every command has waited for the whole of its answer, the next one finds
\* no command at the modem, no response line and no token (QuietChannel): the answers
\* cannot get out of step with the commands by themselves.
THEOREM ChannelQuiet == Spec => []QuietChannel
<1>1. IInv /\ Channel => QuietChannel
    BY DEF Channel, QuietChannel, AllUrc, Asking, Inside
<1>2. Spec => []Channel
    BY InitChannel, NextChannel, Invariance, PTL DEF Spec
<1> QED BY <1>1, <1>2, Invariance, PTL
=============================================================================
