------------------------- MODULE A9gTransferProofs -------------------------
(***************************************************************************)
(* Proofs about A9gTransfer, for any number of packets, tries, commands    *)
(* and reports: the two ends of the line may lose step with each other     *)
(* only in the ways the properties name.                                   *)
(***************************************************************************)
EXTENDS A9gTransfer, SequenceTheorems, TLAPS

\* Between the command of a packet and its data, and between the data and its OK.
InPrompt  == call.stage = "prompt" /\ call.pc \in {"wait", "exit", "write"}
InConfirm == call.stage = "confirm" /\ call.pc \in {"arm", "wait", "exit"}
InAnswer  == call.stage = "answer" /\ call.pc \in {"wait", "exit"}

\* Where the caller is, and how many commands the call may still send.
Plan ==
    /\ call.pc = "idle" => call.op = "none"
    /\ call.pc \in {"arm", "wait", "exit", "write"} =>
         \/ /\ call.op = "send" /\ call.stage \in {"prompt", "confirm"}
            /\ call.confirmed < call.packets
         \/ /\ call.op = "resolve" /\ call.stage = "answer"
            /\ call.tries < RESOLVE_RETRY
    /\ call.pc = "write" => call.stage = "prompt"
    /\ call.result # "none" => call.pc = "done"
    /\ call.stage = "prompt" /\ call.pc = "arm" => tags + call.packets <= MaxTags + call.confirmed
    /\ call.stage = "answer" /\ call.pc = "arm" => tags + RESOLVE_RETRY <= MaxTags + call.tries
    /\ InPrompt \/ InConfirm => tags > 0 /\ tags + call.packets <= MaxTags + call.confirmed + 1
    /\ InAnswer => tags > 0 /\ tags + RESOLVE_RETRY <= MaxTags + call.tries + 1

\* The response object: armed only inside a command, and what ended it.
Response ==
    /\ resp.armed => call.pc \in {"wait", "exit"}
    /\ call.pc \in {"wait", "exit"} =>
         resp.line_num = CASE call.stage = "prompt" -> 2 [] call.stage = "confirm" -> 0 [] OTHER -> 3
    /\ call.pc = "wait" /\ notice.status # "OK" => ~resp.armed
    /\ call.pc = "wait" => notice.status # "TIMEOUT"
    /\ call.pc = "exit" => call.ret # "none"
    /\ call.pc = "exit" /\ call.ret = "ERROR" => ~resp.armed
    /\ call.stage = "prompt" /\ call.pc = "exit" /\ call.ret = "TIMEOUT" => tags \in trust.gaveup
    /\ InConfirm \/ (InPrompt /\ (call.pc = "exit" => call.ret # "TIMEOUT")) => tags \notin trust.gaveup
    /\ (call.pc = "wait" /\ notice.status # "OK") \/ (call.pc = "exit" /\ call.ret = "ERROR")
         => (resp.by = tags => modem # tags)

\* Tags are given out in order.
Tagged ==
    /\ \A i \in 1..Len(tx) : tx[i].tag \in 1..tags
    /\ \A k \in 1..Len(rx) : rx[k].tag <= tags
    /\ modem <= tags /\ resp.by <= tags
    /\ \A t \in module.stray \cup module.accepted \cup trust.prompted \cup trust.gaveup : t <= tags
    /\ InPrompt => /\ \A i \in 1..Len(tx) : tx[i].tag = tags => tx[i].kind = "CIPSEND" /\ i = Len(tx)
                   /\ tags \notin module.stray /\ tags \notin module.accepted
    /\ InPrompt /\ call.pc = "wait" => tags \notin trust.prompted

\* An AT+CIPSEND that was not read is newer than all that was written before it and all
\* that was answered.
Unread ==
    \A j \in 1..Len(tx) : tx[j].kind = "CIPSEND" =>
      /\ \A i \in 1..Len(tx) : i < j => tx[i].tag < tx[j].tag
      /\ modem < tx[j].tag /\ resp.by < tx[j].tag
      /\ \A k \in 1..Len(rx) : rx[k].tag < tx[j].tag
      /\ InPrompt /\ tx[j].tag = tags /\ resp.line_counts > 0 => resp.mixed

\* The data follows its command, unless the packet was given up in between.
InStep ==
    /\ \A i \in 1..Len(tx) : tx[i].kind = "CIPSEND" =>
         \/ i < Len(tx) /\ tx[i + 1] = [kind |-> "DATA", tag |-> tx[i].tag]
         \/ i = Len(tx) /\ InPrompt /\ tx[i].tag = tags
         \/ tx[i].tag \in trust.gaveup
    /\ modem # 0 => \/ tx # << >> /\ tx[1] = [kind |-> "DATA", tag |-> modem]
                    \/ tx = << >> /\ InPrompt /\ modem = tags
                    \/ modem \in trust.gaveup
    /\ module.swallowed \subseteq trust.gaveup

\* An error never answers the packet the module waits for.
ErrorApart == \A k \in 1..Len(rx) : rx[k].text = "ERROR" /\ modem # 0 => rx[k].tag # modem

\* The lines that answer the current AT+CIPSEND.
Plain(k) == rx[k].tag = tags /\ rx[k].text # "ERROR"

\* Without the prompt of its own at most one line, and not the prompt, can be counted.
PromptMeant ==
    InPrompt =>
      IF modem = tags THEN tx = << >>
      ELSE /\ \A i, k \in 1..Len(rx) : Plain(i) /\ Plain(k) => i = k
           /\ resp.armed /\ resp.line_counts > 0 /\ ~resp.mixed => \A k \in 1..Len(rx) : ~Plain(k)
           /\ call.pc = "wait" /\ ~resp.mixed /\ resp.by = tags => notice.status = "ERROR"
           /\ call.pc = "exit" /\ tags \in trust.prompted => call.ret # "OK"
           /\ call.pc = "write" => tags \notin trust.prompted

\* The data of a packet with a prompt of its own finds the module waiting for it.
DataExpected ==
    \A t \in trust.prompted :
      /\ t \notin module.stray
      /\ \A i \in 1..Len(tx) : tx[i] = [kind |-> "DATA", tag |-> t] => i = 1 /\ modem = t

\* A call that began with nothing left of earlier ones, and still goes on: ...
Quiet == call.quiet /\ call.pc # "done"

\* ... the packet in hand is the only thing the module can answer with OK, ...
Alone ==
    Quiet =>
      /\ \A i \in 1..Len(tx) :
           /\ tx[i].kind # "CDNSGIP"
           /\ tx[i].kind = "CIPSEND" => tx[i].tag = tags /\ (InPrompt \/ InConfirm)
      /\ modem # 0 => modem = tags /\ (InPrompt \/ InConfirm)

\* ... an OK on its way is the one OK of its data, ...
OneOk ==
    Quiet =>
      /\ \A k \in 1..Len(rx) : rx[k].text = "OK" => InConfirm /\ tags \in module.accepted
      /\ \A j, k \in 1..Len(rx) : rx[j].text = "OK" /\ rx[k].text = "OK" => j = k

\* ... its data is read once, ...
OneData ==
    Quiet /\ InConfirm =>
      /\ \A i, j \in 1..Len(tx) :
           tx[i].tag = tags /\ tx[j].tag = tags /\ tx[i].kind = "DATA" /\ tx[j].kind = "DATA" => i = j
      /\ tags \in module.accepted =>
           modem # tags /\ \A i \in 1..Len(tx) : tx[i].tag = tags => tx[i].kind = "NL"

\* ... there is no token but that of the response in hand, ...
OneToken ==
    Quiet =>
      /\ call.pc \in {"arm", "write"} => notice.value = 0
      /\ call.pc = "wait" => notice.value <= 1 /\ (resp.armed => notice.value = 0)
      /\ call.pc = "exit" /\ call.ret # "TIMEOUT" => notice.value = 0 /\ ~resp.armed

\* ... and the success of a response to the data is the OK the module said.
Earned ==
    /\ Quiet /\ InConfirm
    /\ \/ call.pc = "wait" /\ notice.value > 0 /\ notice.status = "OK"
       \/ call.pc = "exit" /\ call.ret = "OK"
    => tags \in module.accepted /\ \A k \in 1..Len(rx) : rx[k].text # "OK"

\* What such a call has achieved: all its packets but the one in hand, or that failed.
Outcome ==
    call.quiet =>
      /\ call.op = "send"
      /\ \A t \in call.first..tags :
           \/ t \in module.accepted
           \/ t = tags /\ (InPrompt \/ InConfirm \/ (call.pc = "done" /\ call.result = "ERROR"))

\* The inductive invariant.
IInv ==
    /\ TypeOK
    /\ Plan /\ Response /\ Tagged /\ Unread
    /\ InStep /\ ErrorApart /\ PromptMeant /\ DataExpected
    /\ Alone /\ OneOk /\ OneData /\ OneToken /\ Earned /\ Outcome

-----------------------------------------------------------------------------
(* Sequences                                                                 *)

\* What is left when the first element was taken.
LEMMA Rest ==
    ASSUME NEW S, NEW s \in Seq(S), s # << >>
    PROVE  /\ Len(s) \in Nat /\ Len(s) > 0 /\ Head(s) = s[1] /\ Head(s) \in S
           /\ Tail(s) \in Seq(S) /\ Len(Tail(s)) = Len(s) - 1
           /\ \A i \in 1..Len(Tail(s)) : Tail(s)[i] = s[i + 1] /\ i + 1 \in 1..Len(s)
  OBVIOUS

\* An element written at the end.
LEMMA Longer ==
    ASSUME NEW S, NEW s \in Seq(S), NEW e \in S
    PROVE  /\ Len(s) \in Nat
           /\ Append(s, e) \in Seq(S) /\ Len(Append(s, e)) = Len(s) + 1
           /\ \A i \in 1..Len(s) : Append(s, e)[i] = s[i]
           /\ Append(s, e)[Len(s) + 1] = e
  BY AppendProperties

\* The lines of an answer come after those on their way.
LEMMA Said ==
    ASSUME TypeOK, NEW tag \in 0..MaxTags, NEW texts \in Seq(Texts), Say(tag, texts)
    PROVE  /\ Len(rx) \in Nat /\ Len(texts) \in Nat
           /\ rx' \in Seq(Line) /\ Len(rx') = Len(rx) + Len(texts)
           /\ \A k \in 1..Len(rx) : rx'[k] = rx[k]
           /\ \A k \in 1..Len(rx') : k > Len(rx) =>
                rx'[k].tag = tag /\ k - Len(rx) \in 1..Len(texts) /\ rx'[k].text = texts[k - Len(rx)]
  <1> DEFINE more == [i \in 1..Len(texts) |-> [text |-> texts[i], tag |-> tag]]
  <1>1. rx \in Seq(Line) /\ Len(rx) \in Nat /\ Len(texts) \in Nat
    BY DEF TypeOK
  <1>2. more \in Seq(Line) /\ Len(more) = Len(texts)
    <2>1. more \in [1..Len(texts) -> Line]
      BY DEF Line
    <2> QED
      BY <1>1, <2>1
  <1>3. rx' = rx \o more
    BY DEF Say
  <1>4. \A i \in 1..Len(texts) : more[i].tag = tag /\ more[i].text = texts[i]
    OBVIOUS
  <1> HIDE DEF more
  <1>5. /\ rx' \in Seq(Line) /\ Len(rx') = Len(rx) + Len(more)
        /\ \A k \in 1..Len(rx) + Len(more) : rx'[k] = IF k <= Len(rx) THEN rx[k] ELSE more[k - Len(rx)]
    <2>1. /\ rx \o more \in Seq(Line) /\ Len(rx \o more) = Len(rx) + Len(more)
          /\ \A k \in 1..Len(rx) + Len(more) :
               (rx \o more)[k] = IF k <= Len(rx) THEN rx[k] ELSE more[k - Len(rx)]
      BY <1>1, <1>2, ConcatProperties
    <2> QED
      BY <1>3, <2>1
  <1>6. ASSUME NEW k \in 1..Len(rx'), k > Len(rx)
        PROVE  k - Len(rx) \in 1..Len(texts) /\ rx'[k] = more[k - Len(rx)]
    BY <1>1, <1>2, <1>5, <1>6
  <1>7. \A k \in 1..Len(rx) : rx'[k] = rx[k]
    BY <1>1, <1>2, <1>5
  <1>8. ASSUME NEW k \in 1..Len(rx'), k > Len(rx)
        PROVE  rx'[k].tag = tag /\ rx'[k].text = texts[k - Len(rx)]
    BY <1>4, <1>6, <1>8
  <1> QED
    BY <1>1, <1>2, <1>5, <1>6, <1>7, <1>8

-----------------------------------------------------------------------------
(* The invariant holds initially                                             *)

\* The initial state satisfies the invariant.
LEMMA InitIInv == Init => IInv
  <1> SUFFICES ASSUME Init PROVE IInv
    OBVIOUS
  <1>1. TypeOK
    <2>1. MaxTags + 1 \in Nat /\ 0 \in 0..MaxTags + 1 /\ 0 \in 0..MaxTags /\ 0 \in 0..MaxUrcs
      BY BoundsAssumption
    <2>2. 0 \in 0..MaxPackets /\ 0 \in 0..RESOLVE_RETRY
      BY BoundsAssumption
    <2>3. call \in CallRecord
      BY <2>1, <2>2 DEF Init, Idle, CallRecord
    <2>4. resp \in RespRecord
      BY <2>1 DEF Init, NoResp, RespRecord
    <2>5. tx \in Seq(Item) /\ rx \in Seq(Line)
      BY DEF Init
    <2>6. module \in Taken /\ trust \in Trusted
      BY DEF Init, Taken, Trusted
    <2> QED
      BY <2>1, <2>3, <2>4, <2>5, <2>6 DEF Init, TypeOK
  <1>2. tx = << >> /\ rx = << >> /\ Len(tx) = 0 /\ Len(rx) = 0
    BY DEF Init
  <1>3. Plan /\ Response
    BY DEF Init, Plan, Response, InPrompt, InConfirm, InAnswer, Idle, NoResp
  <1>4. Tagged /\ Unread /\ InStep /\ ErrorApart
    BY <1>2 DEF Init, Tagged, Unread, InStep, ErrorApart, InPrompt, InConfirm, Idle, NoResp
  <1>5. PromptMeant /\ DataExpected
    BY <1>2 DEF Init, PromptMeant, DataExpected, InPrompt, Idle
  <1>6. Alone /\ OneOk /\ OneData /\ OneToken /\ Earned /\ Outcome
    BY DEF Init, Idle, Quiet, Alone, OneOk, OneData, OneToken, Earned, Outcome
  <1> QED
    BY <1>1, <1>3, <1>4, <1>5, <1>6 DEF IInv

-----------------------------------------------------------------------------
(* Steps of the caller                                                       *)

\* What a step of the caller leaves alone in its record.
KeepsCall ==
    /\ call'.op = call.op /\ call'.packets = call.packets /\ call'.first = call.first
    /\ call'.confirmed = call.confirmed /\ call'.tries = call.tries /\ call'.quiet = call.quiet

\* A step that touches neither the line nor the module.
KeepsLine == UNCHANGED <<tx, rx, modem, tags, module>>

\* A token is taken: of this response, or of an earlier one.
LEMMA ExecTakenStep == ASSUME IInv, ExecTaken PROVE IInv'
  <1>1. TypeOK'
    <2>1. call' \in CallRecord
      BY BoundsAssumption DEF IInv, TypeOK, Plan, ExecTaken, CallRecord
    <2>2. resp' \in RespRecord
      BY BoundsAssumption DEF IInv, TypeOK, ExecTaken, RespRecord
    <2>3. trust' \in Trusted
      <3>1. call.stage \in {"prompt", "confirm"} => tags \in 1..MaxTags
        BY BoundsAssumption DEF IInv, TypeOK, Plan, InPrompt, InConfirm, ExecTaken
      <3> QED
        BY <3>1 DEF IInv, TypeOK, ExecTaken, Trusted
    <2> QED
      BY <2>1, <2>2, <2>3 DEF IInv, TypeOK, ExecTaken, history
  <1>2. /\ KeepsCall /\ KeepsLine /\ resp' = resp /\ call.pc = "wait" /\ call'.pc = "exit"
        /\ call'.stage = call.stage /\ call'.result = call.result
        /\ call'.ret = notice.status /\ notice'.status = notice.status /\ trust'.gaveup = trust.gaveup
        /\ trust'.prompted = IF call.stage = "prompt" /\ resp.by = tags /\ ~resp.mixed
                             THEN trust.prompted \cup {tags} ELSE trust.prompted
        /\ notice.value \in Nat /\ notice.value > 0 /\ notice'.value = notice.value - 1
    BY DEF IInv, TypeOK, ExecTaken, KeepsCall, KeepsLine, CallRecord, Trusted
  <1>3. Plan'
    BY <1>2 DEF IInv, KeepsCall, KeepsLine, Plan, InPrompt, InConfirm, InAnswer
  <1>4. Response'
    BY <1>2 DEF IInv, TypeOK, KeepsLine, Response, InPrompt, InConfirm
  <1>5. Tagged'
    BY <1>2 DEF IInv, KeepsLine, Tagged, InPrompt, InConfirm
  <1>6. Unread'
    BY <1>2 DEF IInv, KeepsLine, Unread, InPrompt
  <1>7. InStep'
    BY <1>2 DEF IInv, KeepsLine, InStep, InPrompt
  <1>8. ErrorApart'
    BY <1>2 DEF IInv, KeepsLine, ErrorApart
  <1>9. PromptMeant'
    BY <1>2 DEF IInv, KeepsLine, PromptMeant, Plain, Tagged, InPrompt
  <1>10. DataExpected'
    BY <1>2 DEF IInv, KeepsLine, DataExpected, Tagged, InPrompt
  <1>11. Alone'
    BY <1>2 DEF IInv, KeepsCall, KeepsLine, Alone, Quiet, InPrompt, InConfirm
  <1>12. OneOk'
    BY <1>2 DEF IInv, KeepsCall, KeepsLine, OneOk, Quiet, InPrompt, InConfirm
  <1>13. OneData'
    BY <1>2 DEF IInv, KeepsCall, KeepsLine, OneData, Quiet, InPrompt, InConfirm
  <1>14. OneToken'
    BY <1>2 DEF IInv, KeepsCall, OneToken, Quiet
  <1>15. Earned'
    BY <1>2 DEF IInv, KeepsCall, KeepsLine, Earned, Quiet, InPrompt, InConfirm
  <1>16. Outcome'
    BY <1>2 DEF IInv, KeepsCall, KeepsLine, Outcome, Quiet, InPrompt, InConfirm
  <1> QED
    BY <1>1, <1>3, <1>4, <1>5, <1>6, <1>7, <1>8, <1>9, <1>10, <1>11, <1>12, <1>13, <1>14,
       <1>15, <1>16 DEF IInv

\* The wait for the response times out.
LEMMA ExecTimeoutStep == ASSUME IInv, ExecTimeout PROVE IInv'
  <1>1. TypeOK'
    <2>1. call' \in CallRecord
      BY BoundsAssumption DEF IInv, TypeOK, Plan, ExecTimeout, CallRecord
    <2>2. resp' \in RespRecord
      BY BoundsAssumption DEF IInv, TypeOK, ExecTimeout, RespRecord
    <2>3. trust' \in Trusted
      <3>1. call.stage = "prompt" => tags \in 1..MaxTags
        BY BoundsAssumption DEF IInv, TypeOK, Plan, InPrompt, ExecTimeout
      <3> QED
        BY <3>1 DEF IInv, TypeOK, ExecTimeout, GiveUp, Trusted
    <2> QED
      BY <2>1, <2>2, <2>3 DEF IInv, TypeOK, ExecTimeout, history
  <1>2. /\ KeepsCall /\ KeepsLine /\ resp' = resp /\ call.pc = "wait" /\ call'.pc = "exit"
        /\ call'.stage = call.stage /\ call'.result = call.result
        /\ call'.ret = "TIMEOUT" /\ trust'.prompted = trust.prompted
        /\ trust'.gaveup = IF call.stage = "prompt" THEN trust.gaveup \cup {tags} ELSE trust.gaveup
    BY DEF IInv, TypeOK, ExecTimeout, GiveUp, KeepsCall, KeepsLine, CallRecord, Trusted
  <1>3. Plan'
    BY <1>2 DEF IInv, KeepsCall, KeepsLine, Plan, InPrompt, InConfirm, InAnswer
  <1>4. Response'
    BY <1>2 DEF IInv, KeepsLine, Response, InPrompt, InConfirm
  <1>5. Tagged'
    <2>1. tags <= tags
      BY DEF IInv, TypeOK
    <2> QED
      BY <1>2, <2>1 DEF IInv, KeepsLine, Tagged, InPrompt, InConfirm
  <1>6. Unread'
    BY <1>2 DEF IInv, KeepsLine, Unread, InPrompt
  <1>7. InStep'
    BY <1>2 DEF IInv, KeepsLine, InStep, InPrompt
  <1>8. ErrorApart'
    BY <1>2 DEF IInv, KeepsLine, ErrorApart
  <1>9. PromptMeant'
    BY <1>2 DEF IInv, KeepsLine, PromptMeant, Plain, InPrompt
  <1>10. DataExpected'
    BY <1>2 DEF IInv, KeepsLine, DataExpected
  <1>11. Alone'
    BY <1>2 DEF IInv, KeepsCall, KeepsLine, Alone, Quiet, InPrompt, InConfirm
  <1>12. OneOk'
    BY <1>2 DEF IInv, KeepsCall, KeepsLine, OneOk, Quiet, InPrompt, InConfirm
  <1>13. OneData'
    BY <1>2 DEF IInv, KeepsCall, KeepsLine, OneData, Quiet, InPrompt, InConfirm
  <1>14. OneToken'
    BY <1>2 DEF IInv, KeepsCall, OneToken, Quiet
  <1>15. Earned'
    BY <1>2 DEF IInv, KeepsCall, KeepsLine, Earned, Quiet, InPrompt, InConfirm
  <1>16. Outcome'
    BY <1>2 DEF IInv, KeepsCall, KeepsLine, Outcome, Quiet, InPrompt, InConfirm
  <1> QED
    BY <1>1, <1>3, <1>4, <1>5, <1>6, <1>7, <1>8, <1>9, <1>10, <1>11, <1>12, <1>13, <1>14,
       <1>15, <1>16 DEF IInv

\* A command that failed ends the call.
LEMMA ExecFailedStep == ASSUME IInv, ExecFailed PROVE IInv'
  <1>1. TypeOK'
    <2>1. call' \in CallRecord
      BY BoundsAssumption DEF IInv, TypeOK, Plan, ExecFailed, Done, CallRecord
    <2>2. resp' \in RespRecord
      BY BoundsAssumption DEF IInv, TypeOK, ExecFailed, Done, RespRecord
    <2>3. trust' \in Trusted
      <3>1. call.stage = "prompt" => tags \in 1..MaxTags
        BY BoundsAssumption DEF IInv, TypeOK, Plan, InPrompt, ExecFailed
      <3> QED
        BY <3>1 DEF IInv, TypeOK, ExecFailed, GiveUp, Trusted
    <2> QED
      BY <2>1, <2>2, <2>3 DEF IInv, TypeOK, ExecFailed, Done, history
  <1>2. /\ KeepsCall /\ KeepsLine /\ call.pc = "exit" /\ call'.pc = "done" /\ call.ret # "OK"
        /\ call'.stage = call.stage /\ call'.result = "ERROR" /\ notice' = notice
        /\ trust'.gaveup = IF call.stage = "prompt" /\ resp.by # tags THEN trust.gaveup \cup {tags}
                                                                     ELSE trust.gaveup
        /\ trust'.prompted = trust.prompted
        /\ resp'.line_num = resp.line_num /\ resp'.line_counts = resp.line_counts /\ ~resp'.armed
        /\ resp'.found = resp.found /\ resp'.mixed = resp.mixed /\ resp'.by = resp.by
    BY DEF IInv, TypeOK, ExecFailed, Done, GiveUp, KeepsCall, KeepsLine, CallRecord, RespRecord, Trusted
  <1>3. Plan'
    BY <1>2 DEF Plan, InPrompt, InConfirm, InAnswer
  <1>4. Response'
    BY <1>2 DEF Response, InPrompt, InConfirm
  <1>5. Tagged'
    <2>1. tags <= tags
      BY DEF IInv, TypeOK
    <2> QED
      BY <1>2, <2>1 DEF IInv, KeepsLine, Tagged, InPrompt, InConfirm
  <1>6. Unread'
    BY <1>2 DEF IInv, KeepsLine, Unread, InPrompt
  <1>7. InStep'
    <2>1. ASSUME InPrompt, tags \notin trust'.gaveup
          PROVE  modem # tags /\ \A i \in 1..Len(tx) : tx[i].kind = "CIPSEND" => tx[i].tag # tags
      <3>1. resp.by = tags /\ tags \notin trust.gaveup
        BY <1>2, <2>1 DEF InPrompt
      <3>2. call.ret = "ERROR"
        BY <1>2, <2>1, <3>1 DEF IInv, TypeOK, CallRecord, Response, InPrompt
      <3>3. modem # tags
        BY <1>2, <3>1, <3>2 DEF IInv, Response
      <3>4. \A i \in 1..Len(tx) : tx[i].kind = "CIPSEND" => tx[i].tag # tags
        BY <3>1 DEF IInv, TypeOK, Unread
      <3> QED
        BY <3>3, <3>4
    <2>2. trust.gaveup \subseteq trust'.gaveup
      BY <1>2
    <2> QED
      BY <1>2, <2>1, <2>2 DEF IInv, KeepsLine, InStep
  <1>8. ErrorApart'
    BY <1>2 DEF IInv, KeepsLine, ErrorApart
  <1>9. PromptMeant'
    BY <1>2 DEF PromptMeant, InPrompt
  <1>10. DataExpected'
    BY <1>2 DEF IInv, KeepsLine, DataExpected
  <1>11. Alone'
    BY <1>2 DEF Quiet, Alone
  <1>12. OneOk'
    BY <1>2 DEF Quiet, OneOk
  <1>13. OneData'
    BY <1>2 DEF Quiet, OneData
  <1>14. OneToken'
    BY <1>2 DEF Quiet, OneToken
  <1>15. Earned'
    BY <1>2 DEF Quiet, Earned
  <1>16. Outcome'
    BY <1>2 DEF IInv, KeepsCall, KeepsLine, Outcome, Quiet, InPrompt, InConfirm
  <1> QED
    BY <1>1, <1>3, <1>4, <1>5, <1>6, <1>7, <1>8, <1>9, <1>10, <1>11, <1>12, <1>13, <1>14,
       <1>15, <1>16 DEF IInv

\* The prompt has come, and the data is next.
LEMMA PromptedStep == ASSUME IInv, Prompted PROVE IInv'
  <1>1. TypeOK'
    <2>1. call' \in CallRecord
      BY BoundsAssumption DEF IInv, TypeOK, Plan, history, Prompted, CallRecord
    <2>2. resp' \in RespRecord
      BY BoundsAssumption DEF IInv, TypeOK, history, Prompted, RespRecord
    <2>3. trust' \in Trusted
      BY DEF IInv, TypeOK, history, Prompted, Trusted
    <2> QED
      BY <2>1, <2>2, <2>3 DEF IInv, TypeOK, history, Prompted, history
  <1>2. /\ KeepsCall /\ KeepsLine /\ call.pc = "exit" /\ call'.pc = "write" /\ call.ret = "OK"
        /\ call.stage = "prompt" /\ call'.stage = "prompt" /\ call'.result = call.result
        /\ notice' = notice /\ trust' = trust
        /\ resp'.line_num = resp.line_num /\ resp'.line_counts = resp.line_counts /\ ~resp'.armed
        /\ resp'.found = resp.found /\ resp'.mixed = resp.mixed /\ resp'.by = resp.by
    BY DEF IInv, TypeOK, Prompted, history, KeepsCall, KeepsLine, CallRecord, RespRecord
  <1>3. Plan'
    BY <1>2 DEF IInv, KeepsCall, KeepsLine, Plan, InPrompt, InAnswer
  <1>4. Response'
    BY <1>2 DEF IInv, KeepsLine, Response, InPrompt, InConfirm
  <1>5. Tagged'
    BY <1>2 DEF IInv, KeepsLine, Tagged, InPrompt
  <1>6. Unread'
    BY <1>2 DEF IInv, KeepsLine, Unread, InPrompt
  <1>7. InStep'
    BY <1>2 DEF IInv, KeepsLine, InStep, InPrompt
  <1>8. ErrorApart'
    BY <1>2 DEF IInv, KeepsLine, ErrorApart
  <1>9. PromptMeant'
    BY <1>2 DEF IInv, KeepsLine, PromptMeant, Plain, InPrompt
  <1>10. DataExpected'
    BY <1>2 DEF IInv, KeepsLine, DataExpected
  <1>11. Alone'
    BY <1>2 DEF IInv, KeepsCall, KeepsLine, Alone, Quiet, InPrompt, InConfirm
  <1>12. OneOk'
    BY <1>2 DEF IInv, KeepsCall, KeepsLine, OneOk, Quiet, InPrompt, InConfirm
  <1>13. OneData'
    BY <1>2 DEF IInv, KeepsCall, KeepsLine, OneData, Quiet, InPrompt, InConfirm
  <1>14. OneToken'
    BY <1>2 DEF IInv, KeepsCall, OneToken, Quiet
  <1>15. Earned'
    BY <1>2 DEF IInv, KeepsCall, KeepsLine, Earned, Quiet, InPrompt, InConfirm
  <1>16. Outcome'
    BY <1>2 DEF IInv, KeepsCall, KeepsLine, Outcome, Quiet, InPrompt, InConfirm
  <1> QED
    BY <1>1, <1>3, <1>4, <1>5, <1>6, <1>7, <1>8, <1>9, <1>10, <1>11, <1>12, <1>13, <1>14,
       <1>15, <1>16 DEF IInv

\* A packet is confirmed: the next one, or the end of the call.
LEMMA ConfirmedStep == ASSUME IInv, Confirmed PROVE IInv'
  <1>1. TypeOK'
    <2>1. call' \in CallRecord
      <3>1. call.confirmed + 1 \in 0..MaxPackets
        <4>1. call.confirmed \in 0..MaxPackets /\ call.packets \in 0..MaxPackets
          BY DEF IInv, TypeOK, CallRecord
        <4>2. call.confirmed < call.packets
          BY DEF IInv, Plan, Confirmed
        <4> QED
          BY <4>1, <4>2, BoundsAssumption
      <3> QED
        BY <3>1 DEF IInv, TypeOK, Confirmed, CallRecord
    <2>2. resp' \in RespRecord
      BY BoundsAssumption DEF IInv, TypeOK, history, Confirmed, RespRecord
    <2>3. trust' \in Trusted
      BY DEF IInv, TypeOK, history, Confirmed, Trusted
    <2> QED
      BY <2>1, <2>2, <2>3 DEF IInv, TypeOK, history, Confirmed, history
  <1>2. /\ KeepsLine /\ call.pc = "exit" /\ call.ret = "OK" /\ call.stage = "confirm"
        /\ call'.op = call.op /\ call'.packets = call.packets /\ call'.first = call.first
        /\ call'.confirmed = call.confirmed + 1 /\ call'.tries = call.tries /\ call'.quiet = call.quiet
        /\ call'.stage = "prompt" /\ notice' = notice /\ trust' = trust
        /\ \/ call'.pc = "arm" /\ call.confirmed + 1 < call.packets /\ call'.result = call.result
           \/ call'.pc = "done" /\ call'.result = "EOK"
        /\ resp'.line_num = resp.line_num /\ resp'.line_counts = resp.line_counts /\ ~resp'.armed
        /\ resp'.found = resp.found /\ resp'.mixed = resp.mixed /\ resp'.by = resp.by
    BY DEF IInv, TypeOK, Confirmed, history, KeepsLine, CallRecord, RespRecord
  <1>3. Plan'
    <2>1. CASE call'.pc = "arm"
      <3>1. /\ call.pc = "exit" /\ call.stage = "confirm" /\ call'.stage = "prompt" /\ tags' = tags
            /\ call'.op = call.op /\ call'.result = call.result /\ call'.packets = call.packets
            /\ call'.confirmed = call.confirmed + 1 /\ call.confirmed + 1 < call.packets
        BY <1>2, <2>1 DEF KeepsLine
      <3>2. /\ call.op = "send" /\ call.result = "none"
            /\ tags + call.packets <= MaxTags + call.confirmed + 1
        BY <3>1 DEF IInv, Plan, InConfirm
      <3>3. call.confirmed \in Nat /\ call.packets \in Nat /\ tags \in Nat /\ MaxTags \in Nat
        BY BoundsAssumption DEF IInv, TypeOK, CallRecord
      <3>4. tags + call.packets <= MaxTags + call'.confirmed
        BY <3>1, <3>2, <3>3
      <3> QED
        BY <2>1, <3>1, <3>2, <3>4 DEF Plan, InPrompt, InConfirm, InAnswer
    <2>2. CASE call'.pc = "done"
      BY <1>2, <2>2 DEF IInv, TypeOK, CallRecord, KeepsLine, Plan, InPrompt, InConfirm, InAnswer
    <2> QED
      BY <1>2, <2>1, <2>2
  <1>4. Response'
    BY <1>2 DEF IInv, KeepsLine, Response, InPrompt, InConfirm
  <1>5. Tagged'
    BY <1>2 DEF IInv, KeepsLine, Tagged, InPrompt, InConfirm
  <1>6. Unread'
    BY <1>2 DEF IInv, KeepsLine, Unread, InPrompt
  <1>7. InStep'
    BY <1>2 DEF IInv, KeepsLine, InStep, InPrompt
  <1>8. ErrorApart'
    BY <1>2 DEF IInv, KeepsLine, ErrorApart
  <1>9. PromptMeant'
    BY <1>2 DEF PromptMeant, InPrompt
  <1>10. DataExpected'
    BY <1>2 DEF IInv, KeepsLine, DataExpected
  <1>11. Alone'
    <2>1. InConfirm
      BY <1>2 DEF InConfirm
    <2>2. ASSUME Quiet
          PROVE  /\ modem # tags
                 /\ \A i \in 1..Len(tx) : tx[i].tag = tags => tx[i].kind = "NL"
      BY <1>2, <2>1, <2>2 DEF IInv, Earned, OneData
    <2>3. Quiet' => Quiet
      BY <1>2 DEF Quiet
    <2> QED
      BY <1>2, <2>2, <2>3 DEF IInv, KeepsLine, Alone
  <1>12. OneOk'
    BY <1>2 DEF IInv, KeepsLine, OneOk, Earned, Quiet, InConfirm
  <1>13. OneData'
    BY <1>2 DEF OneData, InConfirm
  <1>14. OneToken'
    BY <1>2 DEF IInv, OneToken, Quiet
  <1>15. Earned'
    BY <1>2 DEF Earned, InConfirm
  <1>16. Outcome'
    BY <1>2 DEF IInv, KeepsLine, Earned, Outcome, Quiet, InPrompt, InConfirm
  <1> QED
    BY <1>1, <1>3, <1>4, <1>5, <1>6, <1>7, <1>8, <1>9, <1>10, <1>11, <1>12, <1>13, <1>14,
       <1>15, <1>16 DEF IInv

\* An answer to AT+CDNSGIP ends the call or is followed by another try.
LEMMA ResolvedStep == ASSUME IInv, Resolved PROVE IInv'
  <1>1. TypeOK'
    <2>1. call' \in CallRecord
      <3>1. call.tries + 1 \in 0..RESOLVE_RETRY
        <4>1. call.tries \in 0..RESOLVE_RETRY /\ call.tries < RESOLVE_RETRY
          BY DEF IInv, TypeOK, CallRecord, Plan, Resolved
        <4> QED
          BY <4>1, BoundsAssumption
      <3>2. call \in CallRecord
        BY DEF IInv, TypeOK
      <3>3. CASE Done("EOK") \/ Done("ERROR")
        BY <3>2, <3>3 DEF Done, CallRecord
      <3>4. CASE ~(Done("EOK") \/ Done("ERROR"))
        BY <3>1, <3>2, <3>4 DEF Resolved, CallRecord
      <3> QED
        BY <3>3, <3>4
    <2>2. resp' \in RespRecord
      BY BoundsAssumption DEF IInv, TypeOK, history, Resolved, Done, RespRecord
    <2>3. trust' \in Trusted
      BY DEF IInv, TypeOK, history, Resolved, Done, Trusted
    <2> QED
      BY <2>1, <2>2, <2>3 DEF IInv, TypeOK, history, Resolved, Done, history
  <1>2. /\ KeepsLine /\ call.pc = "exit" /\ call.ret = "OK" /\ call.stage = "answer"
        /\ call'.op = call.op /\ call'.packets = call.packets /\ call'.first = call.first
        /\ call'.confirmed = call.confirmed /\ call'.stage = "answer" /\ ~call.quiet /\ ~call'.quiet
        /\ notice' = notice /\ trust' = trust
        /\ \/ resp.found = "address" /\ call'.pc = "done" /\ call'.result = "EOK"
           \/ call'.pc = "done" /\ call'.result = "ERROR"
           \/ /\ call'.pc = "arm" /\ call'.tries = call.tries + 1 /\ call.tries + 1 < RESOLVE_RETRY
              /\ call'.result = call.result
           \/ /\ call'.pc = "done" /\ call'.tries = call.tries + 1 /\ ~(call.tries + 1 < RESOLVE_RETRY)
              /\ call'.result = "EOK"
        /\ resp'.line_num = resp.line_num /\ resp'.line_counts = resp.line_counts /\ ~resp'.armed
        /\ resp'.found = resp.found /\ resp'.mixed = resp.mixed /\ resp'.by = resp.by
    <2>1. call \in CallRecord /\ resp \in RespRecord /\ RESOLVE_RETRY \in Nat /\ ~call.quiet
      BY BoundsAssumption DEF IInv, TypeOK, Resolved, Plan, Outcome
    <2>2. /\ KeepsLine /\ call.pc = "exit" /\ call.ret = "OK" /\ call.stage = "answer"
          /\ notice' = notice /\ trust' = trust
          /\ resp'.line_num = resp.line_num /\ resp'.line_counts = resp.line_counts /\ ~resp'.armed
          /\ resp'.found = resp.found /\ resp'.mixed = resp.mixed /\ resp'.by = resp.by
      BY <2>1 DEF Resolved, history, KeepsLine, RespRecord
    <2>3. CASE resp.found = "address" /\ Done("EOK")
      BY <2>1, <2>2, <2>3 DEF Done, CallRecord
    <2>4. CASE Done("ERROR")
      BY <2>1, <2>2, <2>4 DEF Done, CallRecord
    <2>5. CASE ~(resp.found = "address" /\ Done("EOK")) /\ ~Done("ERROR")
      <3>1. call' = [call EXCEPT
                       !.tries = @ + 1,
                       !.pc = IF call.tries + 1 < RESOLVE_RETRY THEN "arm" ELSE "done",
                       !.result = IF call.tries + 1 < RESOLVE_RETRY THEN @ ELSE "EOK"]
        BY <2>5 DEF Resolved
      <3> QED
        BY <2>1, <2>2, <3>1 DEF CallRecord
    <2> QED
      BY <2>3, <2>4, <2>5
  <1>3. Plan'
    <2>1. CASE call'.pc = "arm"
      <3>1. /\ call.pc = "exit" /\ call.stage = "answer" /\ call'.stage = "answer" /\ tags' = tags
            /\ call'.op = call.op /\ call'.result = call.result
            /\ call'.tries = call.tries + 1 /\ call.tries + 1 < RESOLVE_RETRY
        BY <1>2, <2>1 DEF KeepsLine
      <3>2. /\ call.op = "resolve" /\ call.result = "none"
            /\ tags + RESOLVE_RETRY <= MaxTags + call.tries + 1
        BY <3>1 DEF IInv, Plan, InAnswer
      <3>3. call.tries \in Nat /\ tags \in Nat /\ MaxTags \in Nat /\ RESOLVE_RETRY \in Nat
        BY BoundsAssumption DEF IInv, TypeOK, CallRecord
      <3>4. tags + RESOLVE_RETRY <= MaxTags + call'.tries
        BY <3>1, <3>2, <3>3
      <3> QED
        BY <2>1, <3>1, <3>2, <3>4 DEF Plan, InPrompt, InConfirm, InAnswer
    <2>2. CASE call'.pc = "done"
      BY <1>2, <2>2 DEF IInv, TypeOK, CallRecord, KeepsLine, Plan, InPrompt, InConfirm, InAnswer
    <2> QED
      BY <1>2, <2>1, <2>2
  <1>4. Response'
    BY <1>2 DEF IInv, KeepsLine, Response, InPrompt, InConfirm
  <1>5. Tagged'
    BY <1>2 DEF IInv, KeepsLine, Tagged, InPrompt, InConfirm
  <1>6. Unread'
    BY <1>2 DEF IInv, KeepsLine, Unread, InPrompt
  <1>7. InStep'
    BY <1>2 DEF IInv, KeepsLine, InStep, InPrompt
  <1>8. ErrorApart'
    BY <1>2 DEF IInv, KeepsLine, ErrorApart
  <1>9. PromptMeant'
    BY <1>2 DEF PromptMeant, InPrompt
  <1>10. DataExpected'
    BY <1>2 DEF IInv, KeepsLine, DataExpected
  <1>11. Alone'
    BY <1>2 DEF Quiet, Alone
  <1>12. OneOk'
    BY <1>2 DEF Quiet, OneOk
  <1>13. OneData'
    BY <1>2 DEF Quiet, OneData
  <1>14. OneToken'
    BY <1>2 DEF Quiet, OneToken
  <1>15. Earned'
    BY <1>2 DEF Quiet, Earned
  <1>16. Outcome'
    BY <1>2 DEF Outcome
  <1> QED
    BY <1>1, <1>3, <1>4, <1>5, <1>6, <1>7, <1>8, <1>9, <1>10, <1>11, <1>12, <1>13, <1>14,
       <1>15, <1>16 DEF IInv

\* The call returns.
LEMMA ReturnStep == ASSUME IInv, Return PROVE IInv'
  <1>1. TypeOK'
    <2>1. call' \in CallRecord
      BY BoundsAssumption DEF IInv, TypeOK, Plan, history, Return, Idle, NoResp, CallRecord
    <2>2. resp' \in RespRecord
      BY BoundsAssumption DEF IInv, TypeOK, history, Return, Idle, NoResp, RespRecord
    <2>3. trust' \in Trusted
      BY DEF IInv, TypeOK, history, Return, Idle, NoResp, Trusted
    <2> QED
      BY <2>1, <2>2, <2>3 DEF IInv, TypeOK, history, Return, history
  <1>2. /\ KeepsLine /\ call.pc = "done" /\ call' = Idle /\ resp' = NoResp
        /\ notice' = notice /\ trust' = trust
    BY DEF IInv, TypeOK, Return, history, KeepsLine
  <1>3. Plan'
    BY <1>2 DEF Plan, InPrompt, InConfirm, InAnswer, Idle
  <1>4. Response'
    BY <1>2 DEF Response, Idle, NoResp, InPrompt, InConfirm
  <1>5. Tagged'
    BY <1>2 DEF IInv, TypeOK, KeepsLine, Tagged, Tagged, InPrompt, InConfirm, Idle, NoResp
  <1>6. Unread'
    BY <1>2 DEF IInv, KeepsLine, Tagged, Unread, NoResp
  <1>7. InStep'
    BY <1>2 DEF IInv, KeepsLine, InStep, InPrompt
  <1>8. ErrorApart'
    BY <1>2 DEF IInv, KeepsLine, ErrorApart
  <1>9. PromptMeant'
    BY <1>2 DEF PromptMeant, InPrompt, Idle
  <1>10. DataExpected'
    BY <1>2 DEF IInv, KeepsLine, DataExpected
  <1>11. Alone'
    BY <1>2 DEF Idle, Quiet, Alone
  <1>12. OneOk'
    BY <1>2 DEF Idle, Quiet, OneOk
  <1>13. OneData'
    BY <1>2 DEF Idle, Quiet, OneData
  <1>14. OneToken'
    BY <1>2 DEF Idle, Quiet, OneToken
  <1>15. Earned'
    BY <1>2 DEF Idle, Quiet, Earned
  <1>16. Outcome'
    BY <1>2 DEF Idle, Outcome
  <1> QED
    BY <1>1, <1>3, <1>4, <1>5, <1>6, <1>7, <1>8, <1>9, <1>10, <1>11, <1>12, <1>13, <1>14,
       <1>15, <1>16 DEF IInv

\* a9g_socket_send begins.
LEMMA SendStep == ASSUME IInv, NEW n \in 1..MaxPackets, a9g_socket_send(n) PROVE IInv'
  <1>1. TypeOK'
    <2>1. call' \in CallRecord
      <3>1. /\ tags + 1 \in 0..MaxTags + 1 /\ 0 \in 0..RESOLVE_RETRY /\ 0 \in 0..MaxPackets
            /\ n \in 0..MaxPackets
        BY BoundsAssumption DEF IInv, TypeOK
      <3>2. NothingLeft \in BOOLEAN
        BY DEF NothingLeft
      <3> QED
        BY <3>1, <3>2 DEF a9g_socket_send, Idle, CallRecord
    <2>2. resp' \in RespRecord
      BY BoundsAssumption DEF IInv, TypeOK, history, a9g_socket_send, Idle, RespRecord
    <2>3. trust' \in Trusted
      BY DEF IInv, TypeOK, history, a9g_socket_send, Idle, Trusted
    <2> QED
      BY <2>1, <2>2, <2>3 DEF IInv, TypeOK, history, a9g_socket_send, history
  <1>2. /\ KeepsLine /\ resp' = resp /\ notice' = notice /\ trust' = trust /\ call.pc = "idle"
        /\ call'.pc = "arm" /\ call'.result = "none" /\ call'.confirmed = 0 /\ call'.tries = 0
        /\ call'.first = tags + 1 /\ call'.op = "send" /\ call'.stage = "prompt" /\ call'.packets = n
        /\ call'.quiet = NothingLeft /\ tags \in Nat
        /\ tags + n <= MaxTags /\ n > 0
    BY DEF IInv, TypeOK, a9g_socket_send, history, KeepsLine, Idle
  <1>3. Plan'
    BY <1>2, BoundsAssumption DEF KeepsLine, Plan, InPrompt, InConfirm, InAnswer
  <1>4. Response'
    BY <1>2 DEF IInv, KeepsLine, Response, InPrompt, InConfirm
  <1>5. Tagged'
    BY <1>2 DEF IInv, KeepsLine, Tagged, InPrompt, InConfirm
  <1>6. Unread'
    BY <1>2 DEF IInv, KeepsLine, Unread, InPrompt
  <1>7. InStep'
    BY <1>2 DEF IInv, KeepsLine, InStep, InPrompt
  <1>8. ErrorApart'
    BY <1>2 DEF IInv, KeepsLine, ErrorApart
  <1>9. PromptMeant'
    BY <1>2 DEF PromptMeant, InPrompt
  <1>10. DataExpected'
    BY <1>2 DEF IInv, KeepsLine, DataExpected
  <1>11. Alone'
    BY <1>2 DEF KeepsLine, NothingLeft, Alone, Quiet
  <1>12. OneOk'
    BY <1>2 DEF KeepsLine, NothingLeft, OneOk, Quiet
  <1>13. OneData'
    BY <1>2 DEF OneData, InConfirm
  <1>14. OneToken'
    BY <1>2 DEF NothingLeft, OneToken, Quiet
  <1>15. Earned'
    BY <1>2 DEF Earned, InConfirm
  <1>16. Outcome'
    BY <1>2 DEF KeepsLine, Outcome
  <1> QED
    BY <1>1, <1>3, <1>4, <1>5, <1>6, <1>7, <1>8, <1>9, <1>10, <1>11, <1>12, <1>13, <1>14,
       <1>15, <1>16 DEF IInv

\* a9g_domain_resolve begins.
LEMMA ResolveStep == ASSUME IInv, a9g_domain_resolve PROVE IInv'
  <1>1. TypeOK'
    <2>1. call' \in CallRecord
      <3>1. /\ tags + 1 \in 0..MaxTags + 1 /\ 0 \in 0..RESOLVE_RETRY /\ 0 \in 0..MaxPackets
        BY BoundsAssumption DEF IInv, TypeOK
      <3> QED
        BY <3>1 DEF a9g_domain_resolve, Idle, CallRecord
    <2>2. resp' \in RespRecord
      BY BoundsAssumption DEF IInv, TypeOK, history, a9g_domain_resolve, Idle, RespRecord
    <2>3. trust' \in Trusted
      BY DEF IInv, TypeOK, history, a9g_domain_resolve, Idle, Trusted
    <2> QED
      BY <2>1, <2>2, <2>3 DEF IInv, TypeOK, history, a9g_domain_resolve, history
  <1>2. /\ KeepsLine /\ resp' = resp /\ notice' = notice /\ trust' = trust /\ call.pc = "idle"
        /\ call'.pc = "arm" /\ call'.result = "none" /\ call'.confirmed = 0 /\ call'.tries = 0
        /\ call'.first = tags + 1 /\ call'.op = "resolve" /\ call'.stage = "answer" /\ ~call'.quiet
        /\ tags + RESOLVE_RETRY <= MaxTags
    BY DEF IInv, TypeOK, a9g_domain_resolve, history, KeepsLine, Idle
  <1>3. Plan'
    BY <1>2, BoundsAssumption DEF KeepsLine, Plan, InPrompt, InConfirm, InAnswer
  <1>4. Response'
    BY <1>2 DEF IInv, KeepsLine, Response, InPrompt, InConfirm
  <1>5. Tagged'
    BY <1>2 DEF IInv, KeepsLine, Tagged, InPrompt, InConfirm
  <1>6. Unread'
    BY <1>2 DEF IInv, KeepsLine, Unread, InPrompt
  <1>7. InStep'
    BY <1>2 DEF IInv, KeepsLine, InStep, InPrompt
  <1>8. ErrorApart'
    BY <1>2 DEF IInv, KeepsLine, ErrorApart
  <1>9. PromptMeant'
    BY <1>2 DEF PromptMeant, InPrompt
  <1>10. DataExpected'
    BY <1>2 DEF IInv, KeepsLine, DataExpected
  <1>11. Alone'
    BY <1>2 DEF Quiet, Alone
  <1>12. OneOk'
    BY <1>2 DEF Quiet, OneOk
  <1>13. OneData'
    BY <1>2 DEF Quiet, OneData
  <1>14. OneToken'
    BY <1>2 DEF Quiet, OneToken
  <1>15. Earned'
    BY <1>2 DEF Quiet, Earned
  <1>16. Outcome'
    BY <1>2 DEF Outcome
  <1> QED
    BY <1>1, <1>3, <1>4, <1>5, <1>6, <1>7, <1>8, <1>9, <1>10, <1>11, <1>12, <1>13, <1>14,
       <1>15, <1>16 DEF IInv

-----------------------------------------------------------------------------
(* Steps of the caller that write to the module                              *)

\* What a write leaves in tx.
LEMMA Wrote ==
    ASSUME TypeOK, NEW kind \in Kinds, NEW tag \in 0..MaxTags, Write(kind, tag)
    PROVE  /\ tx' \in Seq(Item) /\ Len(tx) \in Nat /\ Len(tx') = Len(tx) + 1
           /\ \A i \in 1..Len(tx) : tx'[i] = tx[i] /\ i \in 1..Len(tx')
           /\ \A i \in 1..Len(tx') : i \in 1..Len(tx) \/ i = Len(tx) + 1
           /\ tx'[Len(tx) + 1] = [kind |-> kind, tag |-> tag]
           /\ tx'[Len(tx) + 1].kind = kind /\ tx'[Len(tx) + 1].tag = tag
  <1>1. tx \in Seq(Item) /\ [kind |-> kind, tag |-> tag] \in Item
    BY DEF TypeOK, Item
  <1>2. /\ Len(tx) \in Nat /\ tx' \in Seq(Item) /\ Len(tx') = Len(tx) + 1
        /\ \A i \in 1..Len(tx) : tx'[i] = tx[i]
        /\ tx'[Len(tx) + 1] = [kind |-> kind, tag |-> tag]
    BY <1>1, Longer DEF Write
  <1> QED
    BY <1>2

\* What at_obj_exec_cmd sets up before it waits.
LEMMA ArmedFor ==
    ASSUME TypeOK, NEW n \in 0..3, Arm(n)
    PROVE  /\ call' \in CallRecord /\ resp' \in RespRecord
           /\ notice' \in [status: {"OK", "ERROR", "TIMEOUT"}, value: Nat]
           /\ KeepsCall /\ call'.stage = call.stage /\ call'.result = call.result
           /\ call'.pc = "wait" /\ notice'.status = "OK" /\ notice'.value = notice.value
           /\ resp'.armed /\ resp'.line_num = n /\ resp'.line_counts = 0
           /\ ~resp'.mixed /\ resp'.by = 0
  <1>1. /\ call' \in CallRecord /\ KeepsCall /\ call'.stage = call.stage
        /\ call'.result = call.result /\ call'.pc = "wait"
    BY DEF TypeOK, Arm, CallRecord, KeepsCall
  <1>2. /\ resp' \in RespRecord /\ resp'.armed /\ resp'.line_num = n /\ resp'.line_counts = 0
        /\ ~resp'.mixed /\ resp'.by = 0
    <2>1. 0 \in 0..MaxTags /\ resp' = [NoResp EXCEPT !.armed = TRUE, !.line_num = n]
      BY BoundsAssumption DEF Arm
    <2> QED
      BY <2>1 DEF NoResp, RespRecord
  <1> QED
    BY <1>1, <1>2 DEF TypeOK, Arm

\* No tag is newer than the last one given out.
LEMMA NoneNewer ==
    ASSUME IInv
    PROVE  /\ tags \in Nat /\ Len(tx) \in Nat /\ Len(rx) \in Nat
           /\ \A i \in 1..Len(tx) : tx[i] \in Item /\ tx[i].tag \in Nat /\ 1 <= tx[i].tag /\ tx[i].tag <= tags
           /\ \A k \in 1..Len(rx) : rx[k].tag \in Nat /\ rx[k].tag <= tags
           /\ modem \in Nat /\ modem <= tags /\ resp.by \in Nat /\ resp.by <= tags
           /\ \A t \in module.stray \cup module.accepted \cup trust.prompted \cup trust.gaveup :
                t \in Nat /\ 1 <= t /\ t <= tags
  <1>1. /\ tags \in Nat /\ Len(tx) \in Nat /\ Len(rx) \in Nat /\ modem \in Nat /\ resp.by \in Nat
        /\ \A i \in 1..Len(tx) : tx[i] \in Item
        /\ \A k \in 1..Len(rx) : rx[k] \in Line
    BY BoundsAssumption DEF IInv, TypeOK, RespRecord
  <1>2. \A t \in module.stray \cup module.accepted \cup trust.prompted \cup trust.gaveup : t \in Nat /\ 1 <= t
    BY BoundsAssumption DEF IInv, TypeOK, Taken, Trusted
  <1> QED
    BY <1>1, <1>2, BoundsAssumption DEF IInv, Tagged, Item, Line

\* The plan of the call leaves a tag for the command it is about to send.
LEMMA TagLeft ==
    ASSUME IInv, call.pc = "arm", call.stage \in {"prompt", "answer"}
    PROVE  tags + 1 \in 0..MaxTags
  <1>1. /\ tags \in Nat /\ MaxTags \in Nat /\ RESOLVE_RETRY \in Nat /\ call.packets \in Nat
        /\ call.confirmed \in Nat /\ call.tries \in Nat
    BY BoundsAssumption DEF IInv, TypeOK, CallRecord
  <1>2. CASE call.stage = "prompt"
    <2>1. tags + call.packets <= MaxTags + call.confirmed /\ call.confirmed < call.packets
      BY <1>2 DEF IInv, Plan
    <2> QED
      BY <1>1, <2>1
  <1>3. CASE call.stage = "answer"
    <2>1. tags + RESOLVE_RETRY <= MaxTags + call.tries /\ call.tries < RESOLVE_RETRY
      BY <1>3 DEF IInv, Plan
    <2> QED
      BY <1>1, <2>1
  <1> QED
    BY <1>2, <1>3

\* What is written outside a packet in hand leaves the line in step.
LEMMA WriteInStep ==
    ASSUME IInv, ~InPrompt, UNCHANGED <<modem, module, trust>>,
           NEW kind \in Kinds, NEW tag \in 0..MaxTags, Write(kind, tag),
           kind = "CIPSEND" => InPrompt' /\ tag = tags'
    PROVE  InStep'
  <1>1. /\ tx' \in Seq(Item) /\ Len(tx) \in Nat /\ Len(tx') = Len(tx) + 1
        /\ \A i \in 1..Len(tx) : tx'[i] = tx[i] /\ i \in 1..Len(tx')
        /\ \A i \in 1..Len(tx') : i \in 1..Len(tx) \/ i = Len(tx) + 1
        /\ tx'[Len(tx) + 1].kind = kind /\ tx'[Len(tx) + 1].tag = tag
    BY Wrote DEF IInv
  <1>2. ASSUME NEW i \in 1..Len(tx'), tx'[i].kind = "CIPSEND"
        PROVE  \/ i < Len(tx') /\ tx'[i + 1] = [kind |-> "DATA", tag |-> tx'[i].tag]
               \/ i = Len(tx') /\ InPrompt' /\ tx'[i].tag = tags'
               \/ tx'[i].tag \in trust.gaveup
    <2>1. CASE i = Len(tx) + 1
      BY <1>1, <1>2, <2>1
    <2>2. CASE i \in 1..Len(tx)
      <3>1. tx'[i] = tx[i] /\ tx[i].kind = "CIPSEND"
        BY <1>1, <1>2, <2>2
      <3>2. CASE i < Len(tx) /\ tx[i + 1] = [kind |-> "DATA", tag |-> tx[i].tag]
        <4>1. i + 1 \in 1..Len(tx) /\ i < Len(tx')
          BY <1>1, <2>2, <3>2
        <4> QED
          BY <1>1, <3>1, <3>2, <4>1
      <3>3. CASE tx[i].tag \in trust.gaveup
        BY <3>1, <3>3
      <3> QED
        BY <2>2, <3>1, <3>2, <3>3 DEF IInv, InStep
    <2> QED
      BY <1>1, <2>1, <2>2
  <1>3. ASSUME modem # 0, modem \notin trust.gaveup
        PROVE  tx' # << >> /\ tx'[1] = [kind |-> "DATA", tag |-> modem]
    <2>1. tx # << >> /\ tx[1] = [kind |-> "DATA", tag |-> modem]
      BY <1>3 DEF IInv, InStep
    <2>2. 1 \in 1..Len(tx)
      BY <2>1 DEF IInv, TypeOK
    <2> QED
      BY <1>1, <2>1, <2>2
  <1> QED
    BY <1>2, <1>3 DEF IInv, InStep

\* AT+CIPSEND goes out, and its prompt is waited for.
LEMMA ExecPromptStep == ASSUME IInv, ExecPrompt PROVE IInv'
  <1>1. TypeOK'
    <2>1. TypeOK /\ tags + 1 \in 0..MaxTags /\ 2 \in 0..3 /\ "CIPSEND" \in Kinds
      BY TagLeft DEF IInv, ExecPrompt, Kinds
    <2>2. call' \in CallRecord /\ resp' \in RespRecord
      BY <2>1, ArmedFor DEF ExecPrompt
    <2>3. notice' \in [status: {"OK", "ERROR", "TIMEOUT"}, value: Nat]
      BY <2>1, ArmedFor DEF ExecPrompt
    <2>4. tx' \in Seq(Item)
      BY <2>1, Wrote DEF ExecPrompt
    <2> QED
      BY <2>1, <2>2, <2>3, <2>4 DEF TypeOK, ExecPrompt, history
  <1>2. /\ UNCHANGED <<rx, modem, module, trust>> /\ tags' = tags + 1
        /\ call.pc = "arm" /\ call.stage = "prompt"
        /\ KeepsCall /\ call'.stage = call.stage /\ call'.result = call.result
        /\ call'.pc = "wait" /\ notice'.status = "OK" /\ notice'.value = notice.value
        /\ resp'.armed /\ resp'.line_num = 2 /\ resp'.line_counts = 0
        /\ ~resp'.mixed /\ resp'.by = 0
        /\ tx' \in Seq(Item) /\ Len(tx) \in Nat /\ Len(tx') = Len(tx) + 1
        /\ \A i \in 1..Len(tx) : tx'[i] = tx[i] /\ i \in 1..Len(tx')
        /\ \A i \in 1..Len(tx') : i \in 1..Len(tx) \/ i = Len(tx) + 1
        /\ tx'[Len(tx) + 1] = [kind |-> "CIPSEND", tag |-> tags + 1]
        /\ tx'[Len(tx) + 1].kind = "CIPSEND" /\ tx'[Len(tx) + 1].tag = tags + 1
    <2>1. TypeOK /\ tags + 1 \in 0..MaxTags /\ 2 \in 0..3 /\ "CIPSEND" \in Kinds
      BY TagLeft DEF IInv, ExecPrompt, Kinds
    <2>2. Arm(2) /\ Write("CIPSEND", tags + 1)
      BY DEF ExecPrompt
    <2> QED
      BY <2>1, <2>2, ArmedFor, Wrote DEF ExecPrompt, history
  <1>3. Plan'
    <2>1. /\ call.op = "send" /\ call.confirmed < call.packets /\ call.result = "none"
          /\ tags + call.packets <= MaxTags + call.confirmed
      BY <1>2 DEF IInv, Plan
    <2>2. call.confirmed \in Nat /\ call.packets \in Nat /\ tags \in Nat /\ MaxTags \in Nat
      BY BoundsAssumption DEF IInv, TypeOK, CallRecord
    <2>3. tags' > 0 /\ tags' + call.packets <= MaxTags + call.confirmed + 1
      BY <1>2, <2>1, <2>2
    <2> QED
      BY <1>2, <2>1, <2>3 DEF KeepsCall, Plan, InAnswer
  <1>4. Response'
    <2>1. tags' \notin trust.gaveup
      BY <1>2, NoneNewer
    <2> QED
      BY <1>2, <2>1 DEF Response, InPrompt, InConfirm
  <1>5. Tagged'
    <2>1. \A i \in 1..Len(tx') : tx'[i].tag \in 1..tags'
      <3>1. tags' \in 1..tags' /\ tags <= tags' /\ tags \in Nat /\ tags' \in Nat
        BY <1>2, NoneNewer DEF IInv, Plan, InConfirm
      <3>2. \A i \in 1..Len(tx) : tx[i].tag \in 1..tags'
        BY <3>1, NoneNewer
      <3> QED
        BY <1>2, <3>1, <3>2
    <2>2. \A k \in 1..Len(rx) : rx[k].tag <= tags'
      BY <1>2, NoneNewer
    <2>3. modem <= tags' /\ resp'.by <= tags'
      BY <1>2, NoneNewer
    <2>4. \A t \in module.stray \cup module.accepted \cup trust.prompted \cup trust.gaveup : t <= tags' /\ t # tags'
      BY <1>2, NoneNewer
    <2>5. \A i \in 1..Len(tx') : tx'[i].tag = tags' => tx'[i].kind = "CIPSEND" /\ i = Len(tx')
      BY <1>2, NoneNewer
    <2> QED
      BY <1>2, <2>1, <2>2, <2>3, <2>4, <2>5 DEF Tagged, InPrompt, InConfirm
  <1>6. Unread'
    <2> SUFFICES ASSUME NEW j \in 1..Len(tx'), tx'[j].kind = "CIPSEND"
                 PROVE  /\ \A i \in 1..Len(tx') : i < j => tx'[i].tag < tx'[j].tag
                        /\ modem < tx'[j].tag /\ resp'.by < tx'[j].tag
                        /\ \A k \in 1..Len(rx) : rx[k].tag < tx'[j].tag
      BY <1>2 DEF Unread
    <2>1. CASE j \in 1..Len(tx)
      <3>1. tx'[j] = tx[j] /\ tx[j].kind = "CIPSEND" /\ tx[j].tag \in Nat /\ tx[j].tag > 0
        BY <1>2, <2>1, NoneNewer
      <3>2. \A i \in 1..Len(tx') : i < j => i \in 1..Len(tx) /\ tx'[i] = tx[i]
        BY <1>2, <2>1
      <3> QED
        BY <1>2, <2>1, <3>1, <3>2 DEF IInv, Unread
    <2>2. CASE j = Len(tx) + 1
      <3>1. \A i \in 1..Len(tx') : i < j => i \in 1..Len(tx) /\ tx'[i] = tx[i]
        BY <1>2, <2>2
      <3> QED
        BY <1>2, <2>2, <3>1, NoneNewer
    <2> QED
      BY <1>2, <2>1, <2>2
  <1>7. InStep'
    <2>1. tags + 1 \in 0..MaxTags /\ "CIPSEND" \in Kinds /\ Write("CIPSEND", tags + 1)
      BY TagLeft DEF ExecPrompt, IInv, TypeOK, Kinds
    <2>2. ~InPrompt /\ InPrompt'
      BY <1>2 DEF InPrompt
    <2> QED
      BY <1>2, <2>1, <2>2, WriteInStep
  <1>8. ErrorApart'
    BY <1>2 DEF IInv, ErrorApart
  <1>9. PromptMeant'
    BY <1>2 DEF IInv, TypeOK, PromptMeant, Plain, Tagged
  <1>10. DataExpected'
    <2>1. ASSUME NEW t \in trust.prompted, NEW i \in 1..Len(tx'), tx'[i] = [kind |-> "DATA", tag |-> t]
          PROVE  i = 1 /\ modem = t
      <3>1. tx'[i].kind = "DATA"
        BY <2>1
      <3>2. i \in 1..Len(tx) /\ tx'[i] = tx[i]
        BY <1>2, <3>1
      <3> QED
        BY <2>1, <3>2 DEF IInv, DataExpected
    <2> QED
      BY <1>2, <2>1 DEF IInv, DataExpected
  <1>11. Alone'
    <2>1. ~InPrompt /\ ~InConfirm /\ InPrompt'
      BY <1>2 DEF InPrompt, InConfirm
    <2> QED
      BY <1>2, <2>1 DEF IInv, KeepsCall, Alone, Quiet
  <1>12. OneOk'
    BY <1>2 DEF IInv, KeepsCall, OneOk, Quiet, InConfirm
  <1>13. OneData'
    BY <1>2 DEF OneData, InConfirm
  <1>14. OneToken'
    BY <1>2 DEF IInv, KeepsCall, OneToken, Quiet
  <1>15. Earned'
    BY <1>2 DEF Earned, InConfirm
  <1>16. Outcome'
    <2>1. ~InPrompt /\ ~InConfirm /\ InPrompt' /\ tags \in Nat /\ call.first \in Nat
      BY <1>2, BoundsAssumption DEF IInv, TypeOK, CallRecord, InPrompt, InConfirm
    <2>2. \A t \in call.first..tags + 1 : t \in call.first..tags \/ t = tags + 1
      BY <2>1
    <2> QED
      BY <1>2, <2>1, <2>2 DEF IInv, KeepsCall, Outcome
  <1> QED
    BY <1>1, <1>3, <1>4, <1>5, <1>6, <1>7, <1>8, <1>9, <1>10, <1>11, <1>12, <1>13, <1>14,
       <1>15, <1>16 DEF IInv

\* The OK of the data is waited for.
LEMMA ExecConfirmStep == ASSUME IInv, ExecConfirm PROVE IInv'
  <1>1. TypeOK'
    <2>1. TypeOK /\ tags \in 0..MaxTags /\ 0 \in 0..3 /\ "NL" \in Kinds
      BY BoundsAssumption DEF IInv, TypeOK, Plan, CallRecord, ExecConfirm, Kinds
    <2>2. call' \in CallRecord /\ resp' \in RespRecord
      BY <2>1, ArmedFor DEF ExecConfirm
    <2>3. notice' \in [status: {"OK", "ERROR", "TIMEOUT"}, value: Nat]
      BY <2>1, ArmedFor DEF ExecConfirm
    <2>4. tx' \in Seq(Item)
      BY <2>1, Wrote DEF ExecConfirm
    <2> QED
      BY <2>1, <2>2, <2>3, <2>4 DEF TypeOK, ExecConfirm, history
  <1>2. /\ UNCHANGED <<rx, modem, module, trust>> /\ tags' = tags
        /\ call.pc = "arm" /\ call.stage = "confirm"
        /\ KeepsCall /\ call'.stage = call.stage /\ call'.result = call.result
        /\ call'.pc = "wait" /\ notice'.status = "OK" /\ notice'.value = notice.value
        /\ resp'.armed /\ resp'.line_num = 0 /\ resp'.line_counts = 0
        /\ ~resp'.mixed /\ resp'.by = 0
        /\ tx' \in Seq(Item) /\ Len(tx) \in Nat /\ Len(tx') = Len(tx) + 1
        /\ \A i \in 1..Len(tx) : tx'[i] = tx[i] /\ i \in 1..Len(tx')
        /\ \A i \in 1..Len(tx') : i \in 1..Len(tx) \/ i = Len(tx) + 1
        /\ tx'[Len(tx) + 1] = [kind |-> "NL", tag |-> tags]
        /\ tx'[Len(tx) + 1].kind = "NL" /\ tx'[Len(tx) + 1].tag = tags
    <2>1. TypeOK /\ tags \in 0..MaxTags /\ 0 \in 0..3 /\ "NL" \in Kinds
      BY BoundsAssumption DEF IInv, TypeOK, Plan, CallRecord, ExecConfirm, Kinds
    <2>2. Arm(0) /\ Write("NL", tags)
      BY DEF ExecConfirm
    <2> QED
      BY <2>1, <2>2, ArmedFor, Wrote DEF ExecConfirm, history
  <1>3. Plan'
    BY <1>2 DEF IInv, KeepsCall, Plan, InConfirm, InAnswer
  <1>4. Response'
    BY <1>2 DEF IInv, Response, InPrompt, InConfirm
  <1>5. Tagged'
    <2>1. \A i \in 1..Len(tx') : tx'[i].tag \in 1..tags'
      <3>1. tags' \in 1..tags' /\ tags <= tags' /\ tags \in Nat /\ tags' \in Nat
        BY <1>2, NoneNewer DEF IInv, Plan, InConfirm
      <3>2. \A i \in 1..Len(tx) : tx[i].tag \in 1..tags'
        BY <3>1, NoneNewer
      <3> QED
        BY <1>2, <3>1, <3>2
    <2>2. \A k \in 1..Len(rx) : rx[k].tag <= tags'
      BY <1>2, NoneNewer
    <2>3. modem <= tags' /\ resp'.by <= tags'
      BY <1>2, NoneNewer
    <2>4. \A t \in module.stray \cup module.accepted \cup trust.prompted \cup trust.gaveup : t <= tags' 
      BY <1>2, NoneNewer
    <2> QED
      BY <1>2, <2>1, <2>2, <2>3, <2>4 DEF Tagged, InPrompt, InConfirm
  <1>6. Unread'
    <2> SUFFICES ASSUME NEW j \in 1..Len(tx'), tx'[j].kind = "CIPSEND"
                 PROVE  /\ \A i \in 1..Len(tx') : i < j => tx'[i].tag < tx'[j].tag
                        /\ modem < tx'[j].tag /\ resp'.by < tx'[j].tag
                        /\ \A k \in 1..Len(rx) : rx[k].tag < tx'[j].tag
      BY <1>2 DEF Unread
    <2>1. CASE j \in 1..Len(tx)
      <3>1. tx'[j] = tx[j] /\ tx[j].kind = "CIPSEND" /\ tx[j].tag \in Nat /\ tx[j].tag > 0
        BY <1>2, <2>1, NoneNewer
      <3>2. \A i \in 1..Len(tx') : i < j => i \in 1..Len(tx) /\ tx'[i] = tx[i]
        BY <1>2, <2>1
      <3> QED
        BY <1>2, <2>1, <3>1, <3>2 DEF IInv, Unread
    <2> QED
      BY <1>2, <2>1
  <1>7. InStep'
    <2>1. tags \in 0..MaxTags /\ "NL" \in Kinds /\ Write("NL", tags)
      BY DEF ExecConfirm, IInv, TypeOK, Kinds
    <2>2. ~InPrompt
      BY <1>2 DEF InPrompt
    <2> QED
      BY <1>2, <2>1, <2>2, WriteInStep
  <1>8. ErrorApart'
    BY <1>2 DEF IInv, ErrorApart
  <1>9. PromptMeant'
    BY <1>2 DEF PromptMeant, InPrompt
  <1>10. DataExpected'
    <2>1. ASSUME NEW t \in trust.prompted, NEW i \in 1..Len(tx'), tx'[i] = [kind |-> "DATA", tag |-> t]
          PROVE  i = 1 /\ modem = t
      <3>1. tx'[i].kind = "DATA"
        BY <2>1
      <3>2. i \in 1..Len(tx) /\ tx'[i] = tx[i]
        BY <1>2, <3>1
      <3> QED
        BY <2>1, <3>2 DEF IInv, DataExpected
    <2> QED
      BY <1>2, <2>1 DEF IInv, DataExpected
  <1>11. Alone'
    <2>1. InConfirm /\ InConfirm'
      BY <1>2 DEF InConfirm
    <2>2. tx'[Len(tx) + 1].kind # "CDNSGIP" /\ tx'[Len(tx) + 1].kind # "CIPSEND"
      BY <1>2
    <2> QED
      BY <1>2, <2>1, <2>2 DEF IInv, KeepsCall, Alone, Quiet
  <1>12. OneOk'
    BY <1>2 DEF IInv, KeepsCall, OneOk, Quiet, InConfirm
  <1>13. OneData'
    <2>1. InConfirm
      BY <1>2 DEF InConfirm
    <2>2. \A i \in 1..Len(tx') : tx'[i].kind = "DATA" => i \in 1..Len(tx) /\ tx'[i] = tx[i]
      BY <1>2
    <2>3. ASSUME tags \in module.accepted, Quiet, NEW i \in 1..Len(tx'), tx'[i].tag = tags
          PROVE  modem # tags /\ tx'[i].kind = "NL"
      BY <1>2, <2>1, <2>3 DEF IInv, OneData
    <2>4. tags \in module.accepted /\ Quiet => modem # tags
      BY <2>1 DEF IInv, OneData
    <2> QED
      BY <1>2, <2>1, <2>2, <2>3, <2>4 DEF IInv, KeepsCall, OneData, Quiet
  <1>14. OneToken'
    BY <1>2 DEF IInv, KeepsCall, OneToken, Quiet
  <1>15. Earned'
    BY <1>2 DEF IInv, KeepsCall, OneToken, Earned, Quiet
  <1>16. Outcome'
    BY <1>2 DEF IInv, KeepsCall, Outcome, InPrompt, InConfirm
  <1> QED
    BY <1>1, <1>3, <1>4, <1>5, <1>6, <1>7, <1>8, <1>9, <1>10, <1>11, <1>12, <1>13, <1>14,
       <1>15, <1>16 DEF IInv

\* AT+CDNSGIP goes out, and its answer is waited for.
LEMMA ExecResolveStep == ASSUME IInv, ExecResolve PROVE IInv'
  <1>1. TypeOK'
    <2>1. TypeOK /\ tags + 1 \in 0..MaxTags /\ 3 \in 0..3 /\ "CDNSGIP" \in Kinds
      BY TagLeft DEF IInv, ExecResolve, Kinds
    <2>2. call' \in CallRecord /\ resp' \in RespRecord
      BY <2>1, ArmedFor DEF ExecResolve
    <2>3. notice' \in [status: {"OK", "ERROR", "TIMEOUT"}, value: Nat]
      BY <2>1, ArmedFor DEF ExecResolve
    <2>4. tx' \in Seq(Item)
      BY <2>1, Wrote DEF ExecResolve
    <2> QED
      BY <2>1, <2>2, <2>3, <2>4 DEF TypeOK, ExecResolve, history
  <1>2. /\ UNCHANGED <<rx, modem, module, trust>> /\ tags' = tags + 1
        /\ call.pc = "arm" /\ call.stage = "answer" /\ ~call.quiet
        /\ KeepsCall /\ call'.stage = call.stage /\ call'.result = call.result
        /\ call'.pc = "wait" /\ notice'.status = "OK" /\ notice'.value = notice.value
        /\ resp'.armed /\ resp'.line_num = 3 /\ resp'.line_counts = 0
        /\ ~resp'.mixed /\ resp'.by = 0
        /\ tx' \in Seq(Item) /\ Len(tx) \in Nat /\ Len(tx') = Len(tx) + 1
        /\ \A i \in 1..Len(tx) : tx'[i] = tx[i] /\ i \in 1..Len(tx')
        /\ \A i \in 1..Len(tx') : i \in 1..Len(tx) \/ i = Len(tx) + 1
        /\ tx'[Len(tx) + 1] = [kind |-> "CDNSGIP", tag |-> tags + 1]
        /\ tx'[Len(tx) + 1].kind = "CDNSGIP" /\ tx'[Len(tx) + 1].tag = tags + 1
    <2>1. TypeOK /\ tags + 1 \in 0..MaxTags /\ 3 \in 0..3 /\ "CDNSGIP" \in Kinds
      BY TagLeft DEF IInv, ExecResolve, Kinds
    <2>2. Arm(3) /\ Write("CDNSGIP", tags + 1) /\ ~call.quiet
      BY DEF ExecResolve, IInv, Plan, Outcome
    <2> QED
      BY <2>1, <2>2, ArmedFor, Wrote DEF ExecResolve, history
  <1>3. Plan'
    <2>1. /\ call.op = "resolve" /\ call.tries < RESOLVE_RETRY /\ call.result = "none"
          /\ tags + RESOLVE_RETRY <= MaxTags + call.tries
      BY <1>2 DEF IInv, Plan
    <2>2. call.tries \in Nat /\ tags \in Nat /\ MaxTags \in Nat /\ RESOLVE_RETRY \in Nat
      BY BoundsAssumption DEF IInv, TypeOK, CallRecord
    <2>3. tags' > 0 /\ tags' + RESOLVE_RETRY <= MaxTags + call.tries + 1
      BY <1>2, <2>1, <2>2
    <2> QED
      BY <1>2, <2>1, <2>3 DEF KeepsCall, Plan, InPrompt, InConfirm
  <1>4. Response'
    BY <1>2 DEF Response, InPrompt, InConfirm
  <1>5. Tagged'
    <2>1. \A i \in 1..Len(tx') : tx'[i].tag \in 1..tags'
      <3>1. tags' \in 1..tags' /\ tags <= tags' /\ tags \in Nat /\ tags' \in Nat
        BY <1>2, NoneNewer DEF IInv, Plan, InConfirm
      <3>2. \A i \in 1..Len(tx) : tx[i].tag \in 1..tags'
        BY <3>1, NoneNewer
      <3> QED
        BY <1>2, <3>1, <3>2
    <2>2. \A k \in 1..Len(rx) : rx[k].tag <= tags'
      BY <1>2, NoneNewer
    <2>3. modem <= tags' /\ resp'.by <= tags'
      BY <1>2, NoneNewer
    <2>4. \A t \in module.stray \cup module.accepted \cup trust.prompted \cup trust.gaveup : t <= tags' 
      BY <1>2, NoneNewer
    <2>5. ~InPrompt' /\ ~InConfirm'
      BY <1>2, NoneNewer DEF InPrompt, InConfirm
    <2> QED
      BY <1>2, <2>1, <2>2, <2>3, <2>4, <2>5 DEF Tagged, InPrompt, InConfirm
  <1>6. Unread'
    <2> SUFFICES ASSUME NEW j \in 1..Len(tx'), tx'[j].kind = "CIPSEND"
                 PROVE  /\ \A i \in 1..Len(tx') : i < j => tx'[i].tag < tx'[j].tag
                        /\ modem < tx'[j].tag /\ resp'.by < tx'[j].tag
                        /\ \A k \in 1..Len(rx) : rx[k].tag < tx'[j].tag
      BY <1>2 DEF Unread
    <2>1. CASE j \in 1..Len(tx)
      <3>1. tx'[j] = tx[j] /\ tx[j].kind = "CIPSEND" /\ tx[j].tag \in Nat /\ tx[j].tag > 0
        BY <1>2, <2>1, NoneNewer
      <3>2. \A i \in 1..Len(tx') : i < j => i \in 1..Len(tx) /\ tx'[i] = tx[i]
        BY <1>2, <2>1
      <3> QED
        BY <1>2, <2>1, <3>1, <3>2 DEF IInv, Unread
    <2> QED
      BY <1>2, <2>1
  <1>7. InStep'
    <2>1. tags + 1 \in 0..MaxTags /\ "CDNSGIP" \in Kinds /\ Write("CDNSGIP", tags + 1)
      BY TagLeft DEF ExecResolve, IInv, TypeOK, Kinds
    <2>2. ~InPrompt
      BY <1>2 DEF InPrompt
    <2> QED
      BY <1>2, <2>1, <2>2, WriteInStep
  <1>8. ErrorApart'
    BY <1>2 DEF IInv, ErrorApart
  <1>9. PromptMeant'
    BY <1>2 DEF PromptMeant, InPrompt
  <1>10. DataExpected'
    <2>1. ASSUME NEW t \in trust.prompted, NEW i \in 1..Len(tx'), tx'[i] = [kind |-> "DATA", tag |-> t]
          PROVE  i = 1 /\ modem = t
      <3>1. tx'[i].kind = "DATA"
        BY <2>1
      <3>2. i \in 1..Len(tx) /\ tx'[i] = tx[i]
        BY <1>2, <3>1
      <3> QED
        BY <2>1, <3>2 DEF IInv, DataExpected
    <2> QED
      BY <1>2, <2>1 DEF IInv, DataExpected
  <1>11. Alone'
    BY <1>2 DEF KeepsCall, Quiet, Alone
  <1>12. OneOk'
    BY <1>2 DEF KeepsCall, Quiet, OneOk
  <1>13. OneData'
    BY <1>2 DEF KeepsCall, Quiet, OneData
  <1>14. OneToken'
    BY <1>2 DEF KeepsCall, Quiet, OneToken
  <1>15. Earned'
    BY <1>2 DEF KeepsCall, Quiet, Earned
  <1>16. Outcome'
    BY <1>2 DEF KeepsCall, Outcome
  <1> QED
    BY <1>1, <1>3, <1>4, <1>5, <1>6, <1>7, <1>8, <1>9, <1>10, <1>11, <1>12, <1>13, <1>14,
       <1>15, <1>16 DEF IInv

\* The data could not be written: the packet is given up.
LEMMA WriteFailedStep == ASSUME IInv, WriteData, call'.pc = "done" PROVE IInv'
  <1>1. TypeOK'
    <2>1. UNCHANGED tx /\ Done("ERROR") /\ GiveUp
      BY DEF IInv, TypeOK, WriteData, CallRecord
    <2>2. tags \in 1..MaxTags
      BY BoundsAssumption DEF IInv, TypeOK, Plan, InPrompt, WriteData
    <2>3. call' \in CallRecord /\ trust' \in Trusted
      BY <2>1, <2>2 DEF IInv, TypeOK, Done, GiveUp, CallRecord, Trusted
    <2> QED
      BY <2>1, <2>3 DEF IInv, TypeOK, WriteData
  <1>2. /\ KeepsCall /\ KeepsLine /\ resp' = resp /\ notice' = notice /\ call.pc = "write"
        /\ call'.stage = call.stage /\ call'.result = "ERROR" /\ call.stage = "prompt"
        /\ trust'.gaveup = trust.gaveup \cup {tags} /\ trust'.prompted = trust.prompted
    BY DEF IInv, TypeOK, WriteData, Plan, Done, GiveUp, KeepsCall, KeepsLine, CallRecord, Trusted
  <1>3. Plan'
    BY <1>2 DEF Plan, InPrompt, InConfirm, InAnswer
  <1>4. Response'
    BY <1>2 DEF IInv, Response, InPrompt, InConfirm
  <1>5. Tagged'
    <2>1. tags <= tags
      BY DEF IInv, TypeOK
    <2> QED
      BY <1>2, <2>1 DEF IInv, KeepsLine, Tagged, InPrompt, InConfirm
  <1>6. Unread'
    BY <1>2 DEF IInv, KeepsLine, Unread, InPrompt
  <1>7. InStep'
    BY <1>2 DEF IInv, KeepsLine, InStep, InPrompt
  <1>8. ErrorApart'
    BY <1>2 DEF IInv, KeepsLine, ErrorApart
  <1>9. PromptMeant'
    BY <1>2 DEF PromptMeant, InPrompt
  <1>10. DataExpected'
    BY <1>2 DEF IInv, KeepsLine, DataExpected
  <1>11. Alone'
    BY <1>2 DEF Quiet, Alone
  <1>12. OneOk'
    BY <1>2 DEF Quiet, OneOk
  <1>13. OneData'
    BY <1>2 DEF Quiet, OneData
  <1>14. OneToken'
    BY <1>2 DEF Quiet, OneToken
  <1>15. Earned'
    BY <1>2 DEF Quiet, Earned
  <1>16. Outcome'
    BY <1>2 DEF IInv, KeepsCall, KeepsLine, Outcome, Quiet, InPrompt, InConfirm
  <1> QED
    BY <1>1, <1>3, <1>4, <1>5, <1>6, <1>7, <1>8, <1>9, <1>10, <1>11, <1>12, <1>13, <1>14,
       <1>15, <1>16 DEF IInv

\* The data of the packet goes out.
LEMMA WriteSentStep == ASSUME IInv, WriteData, call'.pc = "arm" PROVE IInv'
  <1>1. TypeOK'
    <2>1. TypeOK /\ tags \in 0..MaxTags /\ "DATA" \in Kinds
      BY DEF IInv, TypeOK, Kinds
    <2>2. call' \in CallRecord /\ Write("DATA", tags) /\ trust' = trust
      BY <2>1 DEF TypeOK, WriteData, Done, CallRecord
    <2>3. tx' \in Seq(Item)
      BY <2>1, <2>2, Wrote
    <2> QED
      BY <2>1, <2>2, <2>3 DEF TypeOK, WriteData
  <1>2. /\ UNCHANGED <<rx, modem, module, trust>> /\ tags' = tags
        /\ KeepsCall /\ call.pc = "write" /\ call.stage = "prompt" /\ InPrompt
        /\ call'.stage = "confirm" /\ call'.result = call.result
        /\ resp' = resp /\ notice' = notice
        /\ tx' \in Seq(Item) /\ Len(tx) \in Nat /\ Len(tx') = Len(tx) + 1
        /\ \A i \in 1..Len(tx) : tx'[i] = tx[i] /\ i \in 1..Len(tx')
        /\ \A i \in 1..Len(tx') : i \in 1..Len(tx) \/ i = Len(tx) + 1
        /\ tx'[Len(tx) + 1] = [kind |-> "DATA", tag |-> tags]
        /\ tx'[Len(tx) + 1].kind = "DATA" /\ tx'[Len(tx) + 1].tag = tags
    <2>1. TypeOK /\ tags \in 0..MaxTags /\ "DATA" \in Kinds
      BY DEF IInv, TypeOK, Kinds
    <2>2. /\ Write("DATA", tags) /\ trust' = trust /\ KeepsCall
          /\ call'.stage = "confirm" /\ call'.result = call.result
      BY <2>1 DEF TypeOK, WriteData, Done, CallRecord, KeepsCall
    <2>3. call.pc = "write" /\ call.stage = "prompt"
      BY DEF WriteData, IInv, Plan
    <2>4. UNCHANGED <<rx, modem, module, resp, notice>> /\ tags' = tags
      BY DEF WriteData
    <2> QED
      BY <2>1, <2>2, <2>3, <2>4, Wrote DEF InPrompt
  <1>3. Plan'
    BY <1>2 DEF IInv, KeepsCall, Plan, InAnswer
  <1>4. Response'
    BY <1>2 DEF IInv, Response, InPrompt, InConfirm
  <1>5. Tagged'
    <2>1. \A i \in 1..Len(tx') : tx'[i].tag \in 1..tags'
      <3>1. tags' \in 1..tags' /\ tags <= tags' /\ tags \in Nat /\ tags' \in Nat
        BY <1>2, NoneNewer DEF IInv, Plan, InPrompt
      <3>2. \A i \in 1..Len(tx) : tx[i].tag \in 1..tags'
        BY <3>1, NoneNewer
      <3> QED
        BY <1>2, <3>1, <3>2
    <2>2. \A k \in 1..Len(rx) : rx[k].tag <= tags'
      BY <1>2, NoneNewer
    <2>3. modem <= tags' /\ resp'.by <= tags'
      BY <1>2, NoneNewer
    <2>4. \A t \in module.stray \cup module.accepted \cup trust.prompted \cup trust.gaveup : t <= tags' 
      BY <1>2, NoneNewer
    <2> QED
      BY <1>2, <2>1, <2>2, <2>3, <2>4 DEF Tagged, InPrompt, InConfirm
  <1>6. Unread'
    <2> SUFFICES ASSUME NEW j \in 1..Len(tx'), tx'[j].kind = "CIPSEND"
                 PROVE  /\ \A i \in 1..Len(tx') : i < j => tx'[i].tag < tx'[j].tag
                        /\ modem < tx'[j].tag /\ resp'.by < tx'[j].tag
                        /\ \A k \in 1..Len(rx) : rx[k].tag < tx'[j].tag
      BY <1>2 DEF Unread, InPrompt
    <2>1. CASE j \in 1..Len(tx)
      <3>1. tx'[j] = tx[j] /\ tx[j].kind = "CIPSEND" /\ tx[j].tag \in Nat /\ tx[j].tag > 0
        BY <1>2, <2>1, NoneNewer
      <3>2. \A i \in 1..Len(tx') : i < j => i \in 1..Len(tx) /\ tx'[i] = tx[i]
        BY <1>2, <2>1
      <3> QED
        BY <1>2, <2>1, <3>1, <3>2 DEF IInv, Unread
    <2> QED
      BY <1>2, <2>1
  <1>7. InStep'
    <2>1. ASSUME NEW i \in 1..Len(tx'), tx'[i].kind = "CIPSEND", tx'[i].tag \notin trust.gaveup
          PROVE  i < Len(tx') /\ tx'[i + 1] = [kind |-> "DATA", tag |-> tx'[i].tag]
      <3>1. i \in 1..Len(tx) /\ tx'[i] = tx[i] /\ i < Len(tx')
        BY <1>2, <2>1
      <3>2. CASE i < Len(tx) /\ tx[i + 1] = [kind |-> "DATA", tag |-> tx[i].tag]
        <4>1. i + 1 \in 1..Len(tx)
          BY <1>2, <3>1, <3>2
        <4> QED
          BY <1>2, <3>1, <3>2, <4>1
      <3>3. CASE i = Len(tx) /\ tx[i].tag = tags
        BY <1>2, <3>1, <3>3
      <3> QED
        BY <2>1, <3>1, <3>2, <3>3 DEF IInv, InStep
    <2>2. ASSUME modem # 0, modem \notin trust.gaveup
          PROVE  tx' # << >> /\ tx'[1] = [kind |-> "DATA", tag |-> modem]
      <3>1. CASE tx = << >>
        <4>1. Len(tx) = 0
          BY <3>1
        <4>2. Len(tx) + 1 = 1 /\ Len(tx') = 1
          BY <1>2, <4>1
        <4>3. tx' # << >>
          BY <4>2
        <4>4. tx'[1] = [kind |-> "DATA", tag |-> tags]
          BY <1>2, <4>2
        <4> QED
          BY <2>2, <3>1, <4>3, <4>4 DEF IInv, InStep
      <3>2. CASE tx # << >>
        <4>1. 1 \in 1..Len(tx)
          BY <1>2, <3>2 DEF IInv, TypeOK
        <4> QED
          BY <1>2, <2>2, <3>2, <4>1 DEF IInv, InStep
      <3> QED
        BY <3>1, <3>2
    <2> QED
      BY <1>2, <2>1, <2>2 DEF IInv, InStep
  <1>8. ErrorApart'
    BY <1>2 DEF IInv, ErrorApart
  <1>9. PromptMeant'
    BY <1>2 DEF PromptMeant, InPrompt
  <1>10. DataExpected'
    <2>1. ASSUME NEW t \in trust.prompted, NEW i \in 1..Len(tx'), tx'[i] = [kind |-> "DATA", tag |-> t]
          PROVE  i = 1 /\ modem = t
      <3>1. CASE i \in 1..Len(tx)
        BY <1>2, <2>1, <3>1 DEF IInv, DataExpected
      <3>2. CASE i = Len(tx) + 1
        <4>1. tags \in trust.prompted /\ t = tags
          BY <1>2, <2>1, <3>2
        <4>2. modem = tags /\ tx = << >>
          BY <1>2, <4>1 DEF IInv, PromptMeant
        <4> QED
          BY <1>2, <3>2, <4>1, <4>2
      <3> QED
        BY <1>2, <3>1, <3>2
    <2> QED
      BY <1>2, <2>1 DEF IInv, DataExpected
  <1>11. Alone'
    <2>1. InConfirm'
      BY <1>2 DEF WriteData, InConfirm
    <2>2. tx'[Len(tx) + 1].kind # "CDNSGIP" /\ tx'[Len(tx) + 1].kind # "CIPSEND"
      BY <1>2
    <2> QED
      BY <1>2, <2>1, <2>2 DEF IInv, KeepsCall, Alone, Quiet
  <1>12. OneOk'
    BY <1>2 DEF IInv, KeepsCall, OneOk, Quiet, InPrompt, InConfirm
  <1>13. OneData'
    <2>1. \A i \in 1..Len(tx') : tx'[i].tag = tags /\ tx'[i].kind = "DATA" => i = Len(tx) + 1
      BY <1>2 DEF IInv, Tagged
    <2>2. tags \notin module.accepted
      BY <1>2 DEF IInv, Tagged
    <2> QED
      BY <1>2, <2>1, <2>2 DEF OneData
  <1>14. OneToken'
    BY <1>2 DEF IInv, KeepsCall, OneToken, Quiet
  <1>15. Earned'
    BY <1>2 DEF Earned
  <1>16. Outcome'
    BY <1>2 DEF IInv, KeepsCall, Outcome, InConfirm
  <1> QED
    BY <1>1, <1>3, <1>4, <1>5, <1>6, <1>7, <1>8, <1>9, <1>10, <1>11, <1>12, <1>13, <1>14,
       <1>15, <1>16 DEF IInv

-----------------------------------------------------------------------------
(* Steps of the parser                                                       *)

\* A line leaves rx.
LEMMA LineRead ==
    ASSUME IInv, rx # << >>, rx' = Tail(rx)
    PROVE  /\ rx' \in Seq(Line) /\ Len(rx') \in Nat /\ Len(rx') = Len(rx) - 1
           /\ \A k \in 1..Len(rx') : rx'[k] = rx[k + 1] /\ k + 1 \in 1..Len(rx)
           /\ Head(rx) = rx[1] /\ rx[1] \in Line /\ 1 \in 1..Len(rx)
  <1>1. rx \in Seq(Line)
    BY DEF IInv, TypeOK
  <1> QED
    BY <1>1, Rest

\* The response object with a line stored in it.
LEMMA StoredLine ==
    ASSUME TypeOK, NEW line \in Line
    PROVE  /\ Stored(line) \in RespRecord
           /\ Stored(line).armed = resp.armed /\ Stored(line).by = resp.by
           /\ Stored(line).line_num = resp.line_num
           /\ Stored(line).line_counts = resp.line_counts + 1
           /\ ~Stored(line).mixed => ~resp.mixed /\ line.tag = tags
  <1> DEFINE found == IF resp.found = "none" /\ line.text \in {"address", "noaddress"}
                      THEN line.text ELSE resp.found
             mixed == resp.mixed \/ line.tag # tags
  <1>1. /\ found \in {"none", "address", "noaddress"} /\ mixed \in BOOLEAN
        /\ resp.line_counts + 1 \in Nat
    BY DEF TypeOK, RespRecord
  <1>2. Stored(line) = [resp EXCEPT !.line_counts = resp.line_counts + 1, !.found = found,
                                    !.mixed = mixed]
    BY DEF Stored
  <1> HIDE DEF found, mixed
  <1>3. /\ Stored(line) \in RespRecord /\ Stored(line).mixed = mixed
        /\ Stored(line).armed = resp.armed /\ Stored(line).by = resp.by
        /\ Stored(line).line_num = resp.line_num
        /\ Stored(line).line_counts = resp.line_counts + 1
    BY <1>1, <1>2 DEF TypeOK, RespRecord
  <1> QED
    BY <1>3 DEF mixed

\* A line that is no response, or that nobody waits for, is dropped.
LEMMA ParseDroppedStep == ASSUME IInv, ParseDropped PROVE IInv'
  <1>1. TypeOK'
    BY LineRead DEF IInv, TypeOK, ParseDropped, callVars, history
  <1>2. /\ UNCHANGED <<call, resp, notice, tx, modem, tags, module, trust>>
        /\ Len(rx') \in Nat /\ Len(rx) \in Nat /\ Len(rx') = Len(rx) - 1
        /\ \A k \in 1..Len(rx') : rx'[k] = rx[k + 1] /\ k + 1 \in 1..Len(rx)
    BY LineRead, NoneNewer DEF ParseDropped, callVars, history
  <1>3. Plan'
    BY <1>2 DEF IInv, Plan, InPrompt, InConfirm, InAnswer
  <1>4. Response'
    BY <1>2 DEF IInv, Response, InPrompt, InConfirm
  <1>5. Tagged'
    BY <1>2 DEF IInv, Tagged, InPrompt, InConfirm
  <1>6. Unread'
    BY <1>2 DEF IInv, Unread, InPrompt
  <1>7. InStep'
    BY <1>2 DEF IInv, InStep, InPrompt
  <1>8. ErrorApart'
    <2>1. ASSUME NEW k \in 1..Len(rx'), rx'[k].text = "ERROR", modem # 0
          PROVE  rx'[k].tag # modem
      <3>1. k + 1 \in 1..Len(rx) /\ rx'[k] = rx[k + 1]
        BY <1>2
      <3> QED
        BY <2>1, <3>1 DEF IInv, ErrorApart
    <2> QED
      BY <1>2, <2>1 DEF ErrorApart
  <1>9. PromptMeant'
    <2>1. CASE ~InPrompt \/ modem = tags
      BY <1>2, <2>1 DEF IInv, PromptMeant, InPrompt
    <2>2. CASE InPrompt /\ modem # tags
      <3>1. \A k \in 1..Len(rx') : Plain(k)' => Plain(k + 1) /\ k + 1 \in 1..Len(rx)
        BY <1>2 DEF Plain
      <3>2. \A i, k \in 1..Len(rx') : Plain(i)' /\ Plain(k)' => i = k
        <4>1. ASSUME NEW i \in 1..Len(rx'), NEW k \in 1..Len(rx'), Plain(i)', Plain(k)'
              PROVE  i + 1 = k + 1
          BY <2>2, <3>1, <4>1 DEF IInv, PromptMeant
        <4> QED
          BY <4>1
      <3> QED
        BY <1>2, <2>2, <3>1, <3>2 DEF IInv, PromptMeant, InPrompt
    <2> QED
      BY <2>1, <2>2
  <1>10. DataExpected'
    BY <1>2 DEF IInv, DataExpected
  <1>11. Alone'
    BY <1>2 DEF IInv, Alone, Quiet, InPrompt, InConfirm
  <1>12. OneOk'
    <2>1. ASSUME NEW k \in 1..Len(rx'), rx'[k].text = "OK"
          PROVE  k + 1 \in 1..Len(rx) /\ rx[k + 1].text = "OK"
      BY <1>2, <2>1
    <2>2. ASSUME Quiet, NEW j \in 1..Len(rx'), NEW k \in 1..Len(rx'), rx'[j].text = "OK", rx'[k].text = "OK"
          PROVE  j + 1 = k + 1
      BY <2>1, <2>2 DEF IInv, OneOk
    <2>3. ASSUME Quiet, NEW j \in 1..Len(rx'), NEW k \in 1..Len(rx'), rx'[j].text = "OK", rx'[k].text = "OK"
          PROVE  j = k
      BY <2>2, <2>3
    <2> QED
      BY <1>2, <2>1, <2>3 DEF IInv, OneOk, Quiet, InConfirm
  <1>13. OneData'
    BY <1>2 DEF IInv, OneData, Quiet, InConfirm
  <1>14. OneToken'
    BY <1>2 DEF IInv, OneToken, Quiet
  <1>15. Earned'
    BY <1>2 DEF IInv, Earned, Quiet, InConfirm
  <1>16. Outcome'
    BY <1>2 DEF IInv, Outcome, InPrompt, InConfirm
  <1> QED
    BY <1>1, <1>3, <1>4, <1>5, <1>6, <1>7, <1>8, <1>9, <1>10, <1>11, <1>12, <1>13, <1>14,
       <1>15, <1>16 DEF IInv

\* A line of a response is stored, and may decide it.
LEMMA ParseLineStep == ASSUME IInv, ParseLine PROVE IInv'
  <1>1. TypeOK'
    <2>1. /\ rx' \in Seq(Line) /\ Head(rx) = rx[1] /\ rx[1].tag \in 0..MaxTags
          /\ rx[1].text \in Texts
      BY LineRead DEF ParseLine, Line
    <2>2. Stored(rx[1]) \in RespRecord
      BY <2>1, LineRead, StoredLine DEF IInv, ParseLine
    <2>3. resp' \in RespRecord
      <3>1. \/ resp' = Stored(rx[1])
            \/ resp' = [Stored(rx[1]) EXCEPT !.armed = FALSE, !.by = rx[1].tag]
        BY <2>1 DEF ParseLine
      <3> QED
        BY <2>1, <2>2, <3>1 DEF RespRecord
    <2>4. notice' \in [status: {"OK", "ERROR", "TIMEOUT"}, value: Nat]
      BY DEF IInv, TypeOK, ParseLine, Decides
    <2> QED
      BY <2>1, <2>3, <2>4 DEF IInv, TypeOK, ParseLine, history
  <1>2. /\ UNCHANGED <<call, tx, modem, tags, module, trust>> /\ resp.armed
        /\ Len(rx') \in Nat /\ Len(rx) \in Nat /\ Len(rx') = Len(rx) - 1
        /\ \A k \in 1..Len(rx') : rx'[k] = rx[k + 1] /\ k + 1 \in 1..Len(rx)
        /\ rx[1].tag \in Nat /\ rx[1].tag <= tags /\ 1 \in 1..Len(rx)
        /\ resp'.line_num = resp.line_num /\ resp'.line_counts = resp.line_counts + 1
        /\ ~resp'.mixed => ~resp.mixed /\ rx[1].tag = tags
        /\ \/ /\ resp'.armed /\ resp'.by = resp.by /\ notice' = notice
              /\ rx[1].text # "ERROR"
           \/ /\ ~resp'.armed /\ resp'.by = rx[1].tag /\ notice'.status = "ERROR"
              /\ rx[1].text = "ERROR" /\ notice'.value = notice.value + 1
           \/ /\ ~resp'.armed /\ resp'.by = rx[1].tag /\ notice'.status = "OK"
              /\ rx[1].text # "ERROR" /\ notice'.value = notice.value + 1
              /\ \/ rx[1].text = "OK" /\ resp.line_num = 0
                 \/ resp.line_counts + 1 = resp.line_num /\ resp.line_num > 0
    <2>1. /\ Head(rx) = rx[1] /\ rx' = Tail(rx)
          /\ UNCHANGED <<call, tx, modem, tags, module, trust>> /\ resp.armed
      BY LineRead DEF ParseLine, history
    <2>2. /\ Len(rx') \in Nat /\ Len(rx) \in Nat /\ Len(rx') = Len(rx) - 1
          /\ \A k \in 1..Len(rx') : rx'[k] = rx[k + 1] /\ k + 1 \in 1..Len(rx)
          /\ rx[1].tag \in Nat /\ rx[1].tag <= tags /\ 1 \in 1..Len(rx)
      BY LineRead, NoneNewer DEF ParseLine
    <2> DEFINE verdict == Decides(Head(rx), resp.line_counts + 1)
               stored == Stored(Head(rx))
    <2>3. IF verdict = "none"
            THEN resp' = stored /\ notice' = notice
            ELSE /\ resp' = [stored EXCEPT !.armed = FALSE, !.by = rx[1].tag]
                 /\ notice'.status = verdict /\ notice'.value = notice.value + 1
      <3>1. IF verdict = "none"
              THEN resp' = stored /\ notice' = notice
              ELSE /\ resp' = [stored EXCEPT !.armed = FALSE, !.by = Head(rx).tag]
                   /\ notice' = [status |-> verdict, value |-> notice.value + 1]
        BY DEF ParseLine
      <3> HIDE DEF verdict, stored
      <3>2. CASE verdict = "none"
        BY <3>1, <3>2
      <3>3. CASE verdict # "none"
        <4>1. /\ resp' = [stored EXCEPT !.armed = FALSE, !.by = Head(rx).tag]
              /\ notice' = [status |-> verdict, value |-> notice.value + 1]
          BY <3>1, <3>3
        <4>2. notice'.status = verdict /\ notice'.value = notice.value + 1
          BY <4>1
        <4>3. resp' = [stored EXCEPT !.armed = FALSE, !.by = rx[1].tag]
          BY <2>1, <4>1
        <4> QED
          BY <3>3, <4>2, <4>3
      <3> QED
        BY <3>2, <3>3
    <2>4. /\ verdict \in {"none", "OK", "ERROR"}
          /\ verdict = "ERROR" => rx[1].text = "ERROR"
          /\ verdict = "none" => rx[1].text # "ERROR"
          /\ verdict = "OK" => \/ rx[1].text = "OK" /\ resp.line_num = 0
                               \/ /\ resp.line_counts + 1 = resp.line_num /\ resp.line_num > 0
                                  /\ rx[1].text # "ERROR"
      BY <2>1 DEF Decides
    <2>5. /\ stored.line_num = resp.line_num /\ stored.line_counts = resp.line_counts + 1
          /\ ~stored.mixed => ~resp.mixed /\ rx[1].tag = tags
          /\ stored.armed = resp.armed /\ stored.by = resp.by
          /\ stored \in RespRecord
      BY <2>1, LineRead, StoredLine DEF IInv, ParseLine
    <2> HIDE DEF verdict, stored
    <2>6. CASE verdict = "none"
      BY <2>1, <2>2, <2>3, <2>4, <2>5, <2>6
    <2>7. CASE verdict # "none"
      <3>1. /\ resp'.line_num = stored.line_num /\ resp'.line_counts = stored.line_counts
            /\ resp'.mixed = stored.mixed /\ ~resp'.armed /\ resp'.by = rx[1].tag
        BY <2>3, <2>5, <2>7 DEF RespRecord
      <3> QED
        BY <2>1, <2>2, <2>3, <2>4, <2>5, <2>7, <3>1
    <2> QED
      BY <2>6, <2>7
  <1>3. Plan'
    BY <1>2 DEF IInv, Plan, InPrompt, InConfirm, InAnswer
  <1>4. Response'
    <2>1. call.pc \in {"wait", "exit"}
      BY <1>2 DEF IInv, Response
    <2>6. /\ call.stage = "prompt" /\ call.pc = "exit" /\ call.ret = "TIMEOUT" => tags \in trust.gaveup
          /\ InConfirm \/ (InPrompt /\ (call.pc = "exit" => call.ret # "TIMEOUT"))
               => tags \notin trust.gaveup
      BY DEF IInv, Response
    <2>2. rx[1].text = "ERROR" => ~resp'.armed
      BY <1>2
    <2>3. call.pc = "wait" => notice'.status # "TIMEOUT" /\ (notice'.status # "OK" => ~resp'.armed)
      BY <1>2 DEF IInv, Response
    <2>4. call.pc = "exit" => call.ret # "none" /\ call.ret # "ERROR"
      BY <1>2 DEF IInv, Response
    <2>5. ASSUME call.pc = "wait", notice'.status # "OK", resp'.by = tags PROVE modem # tags
      <3>1. notice.status = "OK" /\ tags # 0
        BY <1>2, <2>5 DEF IInv, Response, Plan, InPrompt, InConfirm, InAnswer
      <3>2. rx[1].text = "ERROR" /\ rx[1].tag = tags
        BY <1>2, <2>5, <3>1
      <3> QED
        BY <1>2, <3>1, <3>2 DEF IInv, ErrorApart
    <2> QED
      BY <1>2, <2>1, <2>3, <2>4, <2>5, <2>6 DEF IInv, Response, InPrompt, InConfirm
  <1>5. Tagged'
    <2>1. \A k \in 1..Len(rx') : rx'[k].tag <= tags
      BY <1>2 DEF IInv, Tagged
    <2>2. resp'.by <= tags
      BY <1>2 DEF IInv, Tagged
    <2> QED
      BY <1>2, <2>1, <2>2 DEF IInv, Tagged, InPrompt, InConfirm
  <1>6. Unread'
    <2> SUFFICES ASSUME NEW j \in 1..Len(tx), tx[j].kind = "CIPSEND"
                 PROVE  /\ \A i \in 1..Len(tx) : i < j => tx[i].tag < tx[j].tag
                        /\ modem < tx[j].tag /\ resp'.by < tx[j].tag
                        /\ \A k \in 1..Len(rx') : rx'[k].tag < tx[j].tag
                        /\ InPrompt /\ tx[j].tag = tags /\ resp'.line_counts > 0 => resp'.mixed
      BY <1>2 DEF Unread, InPrompt
    <2>1. rx[1].tag < tx[j].tag /\ tx[j].tag \in Nat /\ \A k \in 1..Len(rx) : rx[k].tag < tx[j].tag
      BY <1>2, NoneNewer DEF IInv, Unread
    <2>2. resp'.by < tx[j].tag
      BY <1>2, <2>1 DEF IInv, Unread
    <2>3. \A k \in 1..Len(rx') : rx'[k].tag < tx[j].tag
      BY <1>2, <2>1
    <2>4. tx[j].tag = tags => resp'.mixed
      BY <1>2, <2>1
    <2> QED
      BY <2>2, <2>3, <2>4 DEF IInv, Unread
  <1>7. InStep'
    BY <1>2 DEF IInv, InStep, InPrompt
  <1>8. ErrorApart'
    <2>1. ASSUME NEW k \in 1..Len(rx'), rx'[k].text = "ERROR", modem # 0
          PROVE  rx'[k].tag # modem
      <3>1. k + 1 \in 1..Len(rx) /\ rx'[k] = rx[k + 1]
        BY <1>2
      <3> QED
        BY <2>1, <3>1 DEF IInv, ErrorApart
    <2> QED
      BY <1>2, <2>1 DEF ErrorApart
  <1>9. PromptMeant'
    <2>1. CASE ~InPrompt \/ modem = tags
      BY <1>2, <2>1 DEF IInv, PromptMeant, InPrompt
    <2>2. CASE InPrompt /\ modem # tags
      <3>1. \A k \in 1..Len(rx') : Plain(k)' => Plain(k + 1) /\ k + 1 \in 1..Len(rx)
        BY <1>2 DEF Plain
      <3>2. \A i, k \in 1..Len(rx') : Plain(i)' /\ Plain(k)' => i = k
        <4>1. ASSUME NEW i \in 1..Len(rx'), NEW k \in 1..Len(rx'), Plain(i)', Plain(k)'
              PROVE  i + 1 = k + 1
          BY <2>2, <3>1, <4>1 DEF IInv, PromptMeant
        <4> QED
          BY <4>1
      <3>3. ASSUME resp'.armed, resp'.line_counts > 0, ~resp'.mixed, NEW k \in 1..Len(rx')
            PROVE  ~Plain(k)'
        <4>1. Plain(1) /\ ~resp.mixed
          BY <1>2, <3>3 DEF Plain
        <4>2. Plain(k)' => 1 = k + 1
          BY <1>2, <2>2, <3>1, <4>1 DEF IInv, PromptMeant
        <4> QED
          BY <4>2
      <3>4. ASSUME call.pc = "wait", ~resp'.mixed, resp'.by = tags PROVE notice'.status = "ERROR"
        <4>1. ~resp.mixed /\ rx[1].tag = tags /\ tags # 0
          BY <1>2, <2>2, <3>4, NoneNewer DEF IInv, Plan
        <4>2. resp.line_num = 2
          BY <2>2, <3>4 DEF IInv, Response, InPrompt
        <4>3. CASE resp'.armed
          BY <1>2, <2>2, <3>4, <4>1, <4>3 DEF IInv, PromptMeant, Response
        <4>4. CASE notice'.status = "OK" /\ ~resp'.armed
          <5>1. resp.line_counts > 0 /\ rx[1].text # "ERROR"
            BY <1>2, <4>2, <4>4 DEF IInv, TypeOK, RespRecord
          <5>2. ~Plain(1)
            BY <1>2, <2>2, <4>1, <5>1 DEF IInv, PromptMeant
          <5> QED
            BY <4>1, <5>1, <5>2 DEF Plain
        <4> QED
          BY <1>2, <4>3, <4>4
      <3>5. /\ call.pc = "exit" /\ tags \in trust.prompted => call.ret # "OK"
            /\ call.pc = "write" => tags \notin trust.prompted
        BY <2>2 DEF IInv, PromptMeant
      <3> QED
        BY <1>2, <2>2, <3>2, <3>3, <3>4, <3>5 DEF PromptMeant, InPrompt
    <2> QED
      BY <2>1, <2>2
  <1>10. DataExpected'
    BY <1>2 DEF IInv, DataExpected
  <1>11. Alone'
    BY <1>2 DEF IInv, Alone, Quiet, InPrompt, InConfirm
  <1>12. OneOk'
    <2>1. ASSUME NEW k \in 1..Len(rx'), rx'[k].text = "OK"
          PROVE  k + 1 \in 1..Len(rx) /\ rx[k + 1].text = "OK"
      BY <1>2, <2>1
    <2>2. ASSUME Quiet, NEW j \in 1..Len(rx'), NEW k \in 1..Len(rx'), rx'[j].text = "OK", rx'[k].text = "OK"
          PROVE  j + 1 = k + 1
      BY <2>1, <2>2 DEF IInv, OneOk
    <2>3. ASSUME Quiet, NEW j \in 1..Len(rx'), NEW k \in 1..Len(rx'), rx'[j].text = "OK", rx'[k].text = "OK"
          PROVE  j = k
      BY <2>2, <2>3
    <2> QED
      BY <1>2, <2>1, <2>3 DEF IInv, OneOk, Quiet, InConfirm
  <1>13. OneData'
    BY <1>2 DEF IInv, OneData, Quiet, InConfirm
  <1>14. OneToken'
    <2>1. resp.armed /\ call.pc \in {"wait", "exit"}
      BY <1>2 DEF IInv, Response
    <2> QED
      BY <1>2, <2>1 DEF IInv, OneToken, Quiet
  <1>15. Earned'
    <2> SUFFICES ASSUME Quiet, InConfirm,
                        \/ call.pc = "wait" /\ notice'.value > 0 /\ notice'.status = "OK"
                        \/ call.pc = "exit" /\ call.ret = "OK"
                 PROVE  tags \in module.accepted /\ \A k \in 1..Len(rx') : rx'[k].text # "OK"
      BY <1>2 DEF Earned, Quiet, InConfirm
    <2>1. call.pc = "wait" /\ notice.value = 0
      BY <1>2 DEF IInv, OneToken
    <2>2. rx[1].text = "OK"
      <3>1. resp.line_num = 0
        BY <2>1 DEF IInv, Response, InConfirm
      <3> QED
        BY <1>2, <2>1, <3>1
    <2>3. tags \in module.accepted
      BY <1>2, <2>2 DEF IInv, OneOk
    <2>4. ASSUME NEW k \in 1..Len(rx'), rx'[k].text = "OK" PROVE FALSE
      <3>1. k + 1 \in 1..Len(rx) /\ rx[k + 1].text = "OK" /\ k + 1 # 1
        BY <1>2, <2>4
      <3> QED
        BY <1>2, <2>2, <3>1 DEF IInv, OneOk
    <2> QED
      BY <2>3, <2>4
  <1>16. Outcome'
    BY <1>2 DEF IInv, Outcome, InPrompt, InConfirm
  <1> QED
    BY <1>1, <1>3, <1>4, <1>5, <1>6, <1>7, <1>8, <1>9, <1>10, <1>11, <1>12, <1>13, <1>14,
       <1>15, <1>16 DEF IInv

-----------------------------------------------------------------------------
(* Steps of the module                                                       *)

\* The packet or command that the module answers when it reads the head of tx.
Asker == IF modem = 0 THEN tx[1].tag ELSE modem

\* The lines it adds to rx.
Answered ==
    /\ rx' \in Seq(Line)
    /\ \A k \in 1..Len(rx') :
         \/ k \in 1..Len(rx) /\ rx'[k] = rx[k]
         \/ /\ k > Len(rx) /\ rx'[k].tag = Asker
            /\ rx'[k].text = "ERROR" => modem' = 0
            /\ tx[1].kind = "CIPSEND" /\ modem' = 0 /\ modem = 0 /\ rx'[k].text # "ERROR"
                 => k = Len(rx) + 1
            /\ rx'[k].text = "OK" =>
                 \/ /\ modem # 0 /\ tx[1] = [kind |-> "DATA", tag |-> modem]
                    /\ modem \in module'.accepted /\ k = Len(rx) + 2
                 \/ tx[1].kind = "CDNSGIP" /\ modem = 0
                 \/ modem # 0 /\ tx[1] # [kind |-> "DATA", tag |-> modem]

\* What it waits for next.
Turned ==
    \/ modem' = 0
    \/ modem = 0 /\ tx[1].kind = "CIPSEND" /\ modem' = tx[1].tag
    \/ modem' = modem /\ modem \in trust.gaveup /\ tx[1] # [kind |-> "DATA", tag |-> modem]

\* What it took.
Took ==
    /\ module' \in Taken
    /\ module'.stray \subseteq module.stray \cup {tx[1].tag}
    /\ module'.stray # module.stray => modem = 0 /\ tx[1].kind = "DATA"
    /\ module'.accepted # module.accepted =>
         module'.accepted = module.accepted \cup {modem} /\ tx[1] = [kind |-> "DATA", tag |-> modem]
           /\ modem # 0 /\ modem' = 0
    /\ module'.swallowed \subseteq module.swallowed \cup trust.gaveup

\* What is left in tx when the module has read from it.
LEMMA ItemRead ==
    ASSUME IInv, tx # << >>, tx' = Tail(tx)
    PROVE  /\ tx' \in Seq(Item) /\ Len(tx) \in Nat /\ Len(tx') \in Nat /\ Len(tx') = Len(tx) - 1
           /\ \A i \in 1..Len(tx') : tx'[i] = tx[i + 1] /\ i + 1 \in 1..Len(tx)
           /\ Head(tx) = tx[1] /\ tx[1] \in Item /\ 1 \in 1..Len(tx)
           /\ tx[1] = [kind |-> tx[1].kind, tag |-> tx[1].tag]
           /\ tx[1].tag \in 0..MaxTags /\ tx[1].tag # 0
  <1>1. tx \in Seq(Item)
    BY DEF IInv, TypeOK
  <1>2. /\ tx' \in Seq(Item) /\ Len(tx) \in Nat /\ Len(tx') \in Nat /\ Len(tx') = Len(tx) - 1
        /\ \A i \in 1..Len(tx') : tx'[i] = tx[i + 1] /\ i + 1 \in 1..Len(tx)
        /\ Head(tx) = tx[1] /\ tx[1] \in Item /\ 1 \in 1..Len(tx)
    BY <1>1, Rest
  <1>3. tx[1] = [kind |-> tx[1].kind, tag |-> tx[1].tag] /\ tx[1].tag \in 0..MaxTags
    BY <1>2 DEF Item
  <1>4. tx[1].tag # 0
    BY <1>2, NoneNewer
  <1> QED
    BY <1>2, <1>3, <1>4

\* A step of the module that reads and answers so keeps the invariant.
LEMMA ModemReadsStep ==
    ASSUME IInv, tx # << >>, tx' = Tail(tx), UNCHANGED <<callVars, urcs, tags, trust>>,
           Answered, Turned, Took
    PROVE  IInv'
  <1>1. /\ tx' \in Seq(Item) /\ Len(tx) \in Nat /\ Len(tx') \in Nat /\ Len(tx') = Len(tx) - 1
        /\ \A i \in 1..Len(tx') : tx'[i] = tx[i + 1] /\ i + 1 \in 1..Len(tx)
        /\ tx[1] \in Item /\ 1 \in 1..Len(tx)
        /\ tx[1] = [kind |-> tx[1].kind, tag |-> tx[1].tag]
        /\ tx[1].tag \in 0..MaxTags /\ tx[1].tag # 0
    BY ItemRead
  <1>last. \A i \in Nat : i + 1 = Len(tx) => i = Len(tx')
    <2>1. \A m, n, i \in Nat : n = m - 1 /\ i + 1 = m => i = n
      OBVIOUS
    <2> QED
      BY <1>1, <2>1, Zenon
  <1>2. UNCHANGED <<call, resp, notice, tags, trust>>
    BY DEF callVars
  <1>3. /\ tags \in Nat /\ modem \in Nat /\ modem <= tags /\ tx[1].tag \in Nat /\ tx[1].tag <= tags
        /\ Asker \in Nat /\ Asker <= tags /\ modem' \in 0..MaxTags /\ modem' <= tags /\ modem' \in Nat
        /\ Len(rx) \in Nat
    BY <1>1, NoneNewer, BoundsAssumption DEF IInv, TypeOK, Asker, Turned
  <1>4. ASSUME InPrompt PROVE modem # tags
    BY <1>1, <1>4 DEF IInv, PromptMeant
  <1>5. TypeOK'
    BY <1>1, <1>2, <1>3 DEF IInv, TypeOK, Answered, Took, callVars
  <1>6. Plan'
    BY <1>2 DEF IInv, Plan, InPrompt, InConfirm, InAnswer
  <1>7. ASSUME tx[1].kind = "CIPSEND"
        PROVE  /\ resp.by < tx[1].tag /\ modem < tx[1].tag
               /\ \A k \in 1..Len(rx) : rx[k].tag < tx[1].tag
               /\ InPrompt /\ tx[1].tag = tags /\ resp.line_counts > 0 => resp.mixed
    BY <1>1, <1>7 DEF IInv, Unread
  <1>8. Response'
    <2>1. ASSUME call.pc \in {"wait", "exit"}, resp.by = tags, modem' = tags PROVE modem = tags
      <3>1. tags # 0
        BY <1>3, <2>1 DEF IInv, Plan, InPrompt, InConfirm, InAnswer
      <3>2. ~(tx[1].kind = "CIPSEND" /\ tx[1].tag = tags)
        BY <1>3, <1>7, <2>1
      <3> QED
        BY <2>1, <3>1, <3>2 DEF Turned
    <2> QED
      BY <1>2, <2>1 DEF IInv, Response, InPrompt, InConfirm
  <1>9. Tagged'
    <2>1. \A i \in 1..Len(tx') : tx'[i].tag \in 1..tags
      BY <1>1 DEF IInv, Tagged
    <2>2. \A k \in 1..Len(rx') : rx'[k].tag <= tags
      BY <1>3, NoneNewer DEF Answered
    <2>3. \A t \in module'.stray \cup module'.accepted \cup trust.prompted \cup trust.gaveup : t <= tags
      BY <1>3, NoneNewer DEF Took
    <2>4. ASSUME InPrompt
          PROVE  /\ tags \notin module'.stray /\ tags \notin module'.accepted
                 /\ \A i \in 1..Len(tx') : tx'[i].tag = tags => tx'[i].kind = "CIPSEND" /\ i = Len(tx')
      <3>1. tags \notin module.stray /\ (tx[1].tag = tags => tx[1].kind = "CIPSEND")
        BY <1>1, <2>4 DEF IInv, Tagged
      <3>2. tags \notin module'.stray /\ tags \notin module'.accepted
        BY <1>4, <2>4, <3>1 DEF IInv, Tagged, Took
      <3>3. ASSUME NEW i \in 1..Len(tx'), tx'[i].tag = tags
            PROVE  tx'[i].kind = "CIPSEND" /\ i + 1 = Len(tx)
        BY <1>1, <2>4, <3>3 DEF IInv, Tagged
      <3>4. \A i \in 1..Len(tx') : i \in Nat
        OBVIOUS
      <3> QED
        BY <1>last, <3>2, <3>3, <3>4
    <2>5. /\ InPrompt /\ call.pc = "wait" => tags \notin trust.prompted
          /\ resp.by <= tags
      BY DEF IInv, Tagged
    <2> QED
      BY <1>2, <1>3, <2>1, <2>2, <2>3, <2>4, <2>5 DEF Tagged, InPrompt, InConfirm
  <1>10. Unread'
    <2> SUFFICES ASSUME NEW j \in 1..Len(tx'), tx'[j].kind = "CIPSEND"
                 PROVE  /\ \A i \in 1..Len(tx') : i < j => tx'[i].tag < tx'[j].tag
                        /\ modem' < tx'[j].tag /\ resp.by < tx'[j].tag
                        /\ \A k \in 1..Len(rx') : rx'[k].tag < tx'[j].tag
                        /\ InPrompt /\ tx'[j].tag = tags /\ resp.line_counts > 0 => resp.mixed
      BY <1>2 DEF Unread, InPrompt
    <2>1. tx'[j] = tx[j + 1] /\ j + 1 \in 1..Len(tx) /\ tx[j + 1].kind = "CIPSEND"
      BY <1>1
    <2>2. /\ \A i \in 1..Len(tx) : i < j + 1 => tx[i].tag < tx[j + 1].tag
          /\ modem < tx[j + 1].tag /\ resp.by < tx[j + 1].tag
          /\ \A k \in 1..Len(rx) : rx[k].tag < tx[j + 1].tag
          /\ InPrompt /\ tx[j + 1].tag = tags /\ resp.line_counts > 0 => resp.mixed
      BY <2>1 DEF IInv, Unread
    <2>3. tx[1].tag < tx[j + 1].tag
      BY <1>1, <2>2
    <2>4. modem' < tx[j + 1].tag /\ Asker < tx[j + 1].tag
      <3>1. 0 < tx[j + 1].tag
        BY <2>1, NoneNewer
      <3>2. modem' \in {0, modem, tx[1].tag} /\ Asker \in {modem, tx[1].tag}
        BY <1>3 DEF Turned, Asker
      <3> QED
        BY <2>2, <2>3, <3>1, <3>2
    <2>5. \A i \in 1..Len(tx') : i < j => tx'[i].tag < tx[j + 1].tag
      <3>1. ASSUME NEW i \in 1..Len(tx'), i < j PROVE i + 1 \in 1..Len(tx) /\ i + 1 < j + 1
        BY <1>1, <3>1
      <3> QED
        BY <1>1, <2>2, <3>1
    <2>6. \A k \in 1..Len(rx') : rx'[k].tag < tx[j + 1].tag
      BY <2>2, <2>4 DEF Answered
    <2> QED
      BY <2>1, <2>2, <2>4, <2>5, <2>6
  <1>11. InStep'
    <2>1. ASSUME NEW i \in 1..Len(tx'), tx'[i].kind = "CIPSEND", tx'[i].tag \notin trust.gaveup
          PROVE  \/ i < Len(tx') /\ tx'[i + 1] = [kind |-> "DATA", tag |-> tx'[i].tag]
                 \/ i = Len(tx') /\ InPrompt /\ tx'[i].tag = tags
      <3>1. i + 1 \in 1..Len(tx) /\ tx'[i] = tx[i + 1] /\ tx[i + 1].kind = "CIPSEND"
        BY <1>1, <2>1
      <3>2. CASE i + 1 < Len(tx) /\ tx[i + 1 + 1] = [kind |-> "DATA", tag |-> tx[i + 1].tag]
        <4>1. i + 1 \in 1..Len(tx') /\ i < Len(tx')
          BY <1>1, <3>1, <3>2
        <4> QED
          BY <1>1, <3>1, <3>2, <4>1
      <3>3. CASE i + 1 = Len(tx) /\ InPrompt /\ tx[i + 1].tag = tags
        BY <1>last, <3>1, <3>3
      <3> QED
        BY <2>1, <3>1, <3>2, <3>3 DEF IInv, InStep
    <2>2. ASSUME modem' # 0, modem' \notin trust.gaveup
          PROVE  \/ tx' # << >> /\ tx'[1] = [kind |-> "DATA", tag |-> modem']
                 \/ tx' = << >> /\ InPrompt /\ modem' = tags
      <3>1. tx[1].kind = "CIPSEND" /\ modem' = tx[1].tag
        BY <2>2 DEF Turned
      <3>2. CASE 1 < Len(tx) /\ tx[1 + 1] = [kind |-> "DATA", tag |-> tx[1].tag]
        <4>1. 1 \in 1..Len(tx') /\ tx' # << >>
          <5>1. 1 \in 1..Len(tx') /\ Len(tx') # 0
            BY <1>1, <3>2
          <5> QED
            BY <5>1
        <4> QED
          BY <1>1, <3>1, <3>2, <4>1
      <3>3. CASE 1 = Len(tx) /\ InPrompt /\ tx[1].tag = tags
        <4>1. Len(tx') = 0
          BY <1>1, <3>3
        <4>2. tx' = << >>
          BY <1>1, <4>1, EmptySeq
        <4> QED
          BY <3>1, <3>3, <4>2
      <3> QED
        BY <1>1, <2>2, <3>1, <3>2, <3>3 DEF IInv, InStep
    <2>3. module'.swallowed \subseteq trust.gaveup
      BY DEF IInv, InStep, Took
    <2> QED
      BY <1>2, <2>1, <2>2, <2>3 DEF InStep, InPrompt
  <1>12. ErrorApart'
    <2>1. ASSUME NEW k \in 1..Len(rx'), rx'[k].text = "ERROR", modem' # 0
          PROVE  rx'[k].tag # modem'
      <3>1. k \in 1..Len(rx) /\ rx'[k] = rx[k]
        BY <2>1 DEF Answered
      <3>2. CASE modem' = modem
        BY <2>1, <3>1, <3>2 DEF IInv, ErrorApart
      <3>3. CASE modem' = tx[1].tag /\ tx[1].kind = "CIPSEND"
        BY <1>3, <1>7, <3>1, <3>3, NoneNewer
      <3> QED
        BY <2>1, <3>2, <3>3 DEF Turned
    <2> QED
      BY <2>1 DEF ErrorApart
  <1>13. PromptMeant'
    <2> SUFFICES ASSUME InPrompt PROVE PromptMeant'
      BY <1>2 DEF PromptMeant, InPrompt
    <2>1. modem # tags /\ tags # 0 /\ (tx[1].tag = tags => tx[1].kind = "CIPSEND" /\ Len(tx) = 1)
      <3>1. tags # 0
        BY <1>3 DEF IInv, Plan
      <3>2. tx[1].tag = tags => tx[1].kind = "CIPSEND" /\ Len(tx) = 1
        BY <1>1 DEF IInv, Tagged
      <3> QED
        BY <1>4, <3>1, <3>2
    <2>2. CASE modem' = tags
      <3>1. Len(tx) = 1
        BY <2>1, <2>2 DEF Turned
      <3>2. Len(tx') = 0
        BY <1>1, <3>1
      <3>3. tx' = << >>
        BY <1>1, <3>2, EmptySeq
      <3> QED
        BY <1>2, <2>2, <3>3 DEF PromptMeant
    <2>3. CASE modem' # tags
      <3>1. ASSUME NEW k \in 1..Len(rx'), Plain(k)', ~(k \in 1..Len(rx) /\ Plain(k))
            PROVE  tx[1].kind = "CIPSEND" /\ tx[1].tag = tags /\ k = Len(rx) + 1
        <4>1. /\ k > Len(rx) /\ Asker = tags /\ rx'[k].text # "ERROR"
              /\ tx[1].kind = "CIPSEND" /\ modem' = 0 /\ modem = 0 => k = Len(rx) + 1
          BY <1>2, <3>1 DEF Answered, Plain
        <4>2. modem = 0 /\ tx[1].tag = tags
          BY <2>1, <4>1 DEF Asker
        <4> QED
          BY <2>1, <2>3, <4>1, <4>2 DEF Turned
      <3>2. CASE tx[1].kind = "CIPSEND" /\ tx[1].tag = tags
        <4>1. /\ \A k \in 1..Len(rx) : ~Plain(k)
              /\ resp.line_counts > 0 => resp.mixed
          BY <1>3, <1>7, <3>2, NoneNewer DEF Plain
        <4>2. \A k \in 1..Len(rx') : Plain(k)' => k = Len(rx) + 1
          BY <3>1, <4>1
        <4> QED
          BY <1>2, <2>1, <2>3, <4>1, <4>2 DEF IInv, PromptMeant
      <3>3. CASE ~(tx[1].kind = "CIPSEND" /\ tx[1].tag = tags)
        <4>1. \A k \in 1..Len(rx') : Plain(k)' => k \in 1..Len(rx) /\ Plain(k)
          BY <3>1, <3>3
        <4> QED
          BY <1>2, <2>1, <2>3, <4>1 DEF IInv, PromptMeant
      <3> QED
        BY <3>2, <3>3
    <2> QED
      BY <2>2, <2>3
  <1>14. DataExpected'
    <2>1. ASSUME NEW t \in trust.prompted, NEW i \in 1..Len(tx'), tx'[i] = [kind |-> "DATA", tag |-> t]
          PROVE  FALSE
      <3>1. i + 1 \in 1..Len(tx) /\ tx[i + 1] = [kind |-> "DATA", tag |-> t] /\ i + 1 # 1
        BY <1>1, <2>1
      <3> QED
        BY <3>1 DEF IInv, DataExpected
    <2>2. ASSUME NEW t \in trust.prompted PROVE t \notin module'.stray
      <3>1. t \notin module.stray /\ t # 0
        <4>1. t # 0
          BY NoneNewer
        <4> QED
          BY <4>1 DEF IInv, DataExpected
      <3>2. ~(modem = 0 /\ tx[1] = [kind |-> "DATA", tag |-> t])
        BY <1>1, <3>1 DEF IInv, DataExpected
      <3> QED
        BY <1>1, <3>1, <3>2 DEF Took
    <2> QED
      BY <1>2, <2>1, <2>2 DEF DataExpected
  <1>15. ASSUME InConfirm
         PROVE  tags # 0 /\ (modem = tags => tx[1] = [kind |-> "DATA", tag |-> tags])
    <2>1. tags # 0 /\ tags \notin trust.gaveup /\ ~InPrompt
      BY <1>3, <1>15 DEF IInv, Plan, Response, InPrompt, InConfirm
    <2> QED
      BY <2>1 DEF IInv, InStep
  <1>16. module.accepted \subseteq module'.accepted
    BY DEF Took
  <1>17. Alone'
    <2>1. ASSUME Quiet, modem' # 0 PROVE modem' = tags /\ (InPrompt \/ InConfirm)
      BY <1>1, <2>1 DEF IInv, Alone, Turned
    <2>2. ASSUME Quiet, NEW i \in 1..Len(tx')
          PROVE  /\ tx'[i].kind # "CDNSGIP"
                 /\ tx'[i].kind = "CIPSEND" => tx'[i].tag = tags /\ (InPrompt \/ InConfirm)
      BY <1>1, <2>2 DEF IInv, Alone
    <2> QED
      BY <1>2, <2>1, <2>2 DEF Alone, Quiet, InPrompt, InConfirm
  <1>18. ASSUME Quiet, NEW k \in 1..Len(rx'), rx'[k].text = "OK", ~(k \in 1..Len(rx) /\ rx'[k] = rx[k])
         PROVE  /\ InConfirm /\ modem = tags /\ tags \in module'.accepted /\ k = Len(rx) + 2
    <2>1. ~(tx[1].kind = "CDNSGIP") /\ (modem # 0 => modem = tags /\ (InPrompt \/ InConfirm))
      BY <1>1, <1>18 DEF IInv, Alone
    <2>2. modem # 0 => InConfirm /\ modem = tags /\ tx[1] = [kind |-> "DATA", tag |-> modem]
      BY <1>4, <1>15, <2>1
    <2> QED
      BY <1>18, <2>1, <2>2 DEF Answered, Asker
  <1>19. ASSUME Quiet, InConfirm, modem = tags
         PROVE  tags \notin module.accepted /\ \A k \in 1..Len(rx) : rx[k].text # "OK"
    BY <1>19 DEF IInv, OneOk, OneData
  <1>20. OneOk'
    <2>1. ASSUME Quiet, NEW k \in 1..Len(rx'), rx'[k].text = "OK"
          PROVE  InConfirm /\ tags \in module'.accepted
      <3>1. CASE k \in 1..Len(rx) /\ rx'[k] = rx[k]
        BY <1>16, <2>1, <3>1 DEF IInv, OneOk
      <3>2. CASE ~(k \in 1..Len(rx) /\ rx'[k] = rx[k])
        BY <1>18, <2>1, <3>2
      <3> QED
        BY <3>1, <3>2
    <2>2. ASSUME Quiet, NEW j \in 1..Len(rx'), NEW k \in 1..Len(rx'),
                 rx'[j].text = "OK", rx'[k].text = "OK"
          PROVE  j = k
      <3>1. CASE j \in 1..Len(rx) /\ rx'[j] = rx[j] /\ k \in 1..Len(rx) /\ rx'[k] = rx[k]
        BY <2>2, <3>1 DEF IInv, OneOk
      <3>2. CASE ~(j \in 1..Len(rx) /\ rx'[j] = rx[j])
        <4>1. InConfirm /\ modem = tags /\ j = Len(rx) + 2
          BY <1>18, <2>2, <3>2
        <4>2. ~(k \in 1..Len(rx) /\ rx'[k] = rx[k])
          BY <1>19, <2>2, <4>1
        <4> QED
          BY <1>18, <2>2, <4>1, <4>2
      <3>3. CASE ~(k \in 1..Len(rx) /\ rx'[k] = rx[k])
        <4>1. InConfirm /\ modem = tags /\ k = Len(rx) + 2
          BY <1>18, <2>2, <3>3
        <4>2. ~(j \in 1..Len(rx) /\ rx'[j] = rx[j])
          BY <1>19, <2>2, <4>1
        <4> QED
          BY <1>18, <2>2, <4>1, <4>2
      <3> QED
        BY <3>1, <3>2, <3>3
    <2> QED
      BY <1>2, <2>1, <2>2 DEF OneOk, Quiet, InConfirm
  <1>21. OneData'
    <2> SUFFICES ASSUME Quiet, InConfirm PROVE OneData'
      BY <1>2 DEF OneData, Quiet, InConfirm
    <2>1. ASSUME NEW i \in 1..Len(tx'), NEW j \in 1..Len(tx'), tx'[i].tag = tags, tx'[j].tag = tags,
                 tx'[i].kind = "DATA", tx'[j].kind = "DATA"
          PROVE  i = j
      <3>1. i + 1 = j + 1
        BY <1>1, <2>1 DEF IInv, OneData
      <3> QED
        BY <3>1
    <2>2. CASE tags \in module.accepted
      <3>1. modem # tags /\ \A i \in 1..Len(tx) : tx[i].tag = tags => tx[i].kind = "NL"
        BY <2>2 DEF IInv, OneData
      <3>2. modem' # tags
        BY <1>1, <1>15, <3>1 DEF Turned
      <3> QED
        BY <1>1, <1>2, <2>1, <3>1, <3>2 DEF OneData
    <2>3. CASE tags \notin module.accepted /\ tags \in module'.accepted
      <3>1. modem = tags /\ tx[1] = [kind |-> "DATA", tag |-> tags] /\ modem' = 0
        BY <2>3 DEF Took
      <3>2. ASSUME NEW i \in 1..Len(tx'), tx'[i].tag = tags PROVE tx'[i].kind = "NL"
        <4>1. i + 1 \in 1..Len(tx) /\ tx'[i] = tx[i + 1] /\ i + 1 # 1 /\ tx[i + 1].tag = tags
          BY <1>1, <3>2
        <4>2. tx[i + 1].kind # "DATA"
          BY <1>1, <3>1, <4>1 DEF IInv, OneData
        <4>3. tx[i + 1].kind # "CIPSEND"
          BY <1>3, <3>1, <4>1 DEF IInv, Unread
        <4>4. tx[i + 1].kind # "CDNSGIP" /\ tx[i + 1].kind \in Kinds
          BY <4>1, NoneNewer DEF IInv, Alone, Item
        <4> QED
          BY <4>1, <4>2, <4>3, <4>4 DEF Kinds
      <3>3. modem' # tags
        BY <1>15, <3>1
      <3> QED
        BY <1>2, <2>1, <3>2, <3>3 DEF OneData
    <2>4. CASE tags \notin module'.accepted
      BY <1>2, <2>1, <2>4 DEF OneData
    <2> QED
      BY <2>2, <2>3, <2>4
  <1>22. OneToken'
    BY <1>2 DEF IInv, OneToken, Quiet
  <1>23. Earned'
    <2> SUFFICES ASSUME Quiet, InConfirm,
                        \/ call.pc = "wait" /\ notice.value > 0 /\ notice.status = "OK"
                        \/ call.pc = "exit" /\ call.ret = "OK"
                 PROVE  tags \in module'.accepted /\ \A k \in 1..Len(rx') : rx'[k].text # "OK"
      BY <1>2 DEF Earned, Quiet, InConfirm
    <2>1. tags \in module.accepted /\ \A k \in 1..Len(rx) : rx[k].text # "OK"
      BY DEF IInv, Earned
    <2>2. modem # tags
      BY <1>19, <2>1
    <2> QED
      BY <1>16, <1>18, <2>1, <2>2
  <1>24. Outcome'
    BY <1>2, <1>16 DEF IInv, Outcome, InPrompt, InConfirm
  <1> QED
    BY <1>5, <1>6, <1>8, <1>9, <1>10, <1>11, <1>12, <1>13, <1>14, <1>17, <1>20, <1>21, <1>22,
       <1>23, <1>24 DEF IInv

\* An answer of two lines.
LEMMA SaidTwo ==
    ASSUME IInv, NEW tag \in 0..MaxTags, NEW a \in Texts, NEW b \in Texts, Say(tag, <<a, b>>)
    PROVE  /\ rx' \in Seq(Line) /\ Len(rx) \in Nat
           /\ \A k \in 1..Len(rx') :
                \/ k \in 1..Len(rx) /\ rx'[k] = rx[k]
                \/ /\ k > Len(rx) /\ rx'[k].tag = tag
                   /\ \/ k = Len(rx) + 1 /\ rx'[k].text = a
                      \/ k = Len(rx) + 2 /\ rx'[k].text = b
  <1>1. <<a, b>> \in Seq(Texts) /\ Len(<<a, b>>) = 2 /\ <<a, b>>[1] = a /\ <<a, b>>[2] = b
    OBVIOUS
  <1>2. TypeOK
    BY DEF IInv
  <1>3. /\ Len(rx) \in Nat /\ rx' \in Seq(Line) /\ Len(rx') = Len(rx) + 2
        /\ \A k \in 1..Len(rx) : rx'[k] = rx[k]
        /\ \A k \in 1..Len(rx') : k > Len(rx) =>
             rx'[k].tag = tag /\ k - Len(rx) \in 1..2 /\ rx'[k].text = <<a, b>>[k - Len(rx)]
    BY <1>1, <1>2, Said
  <1>4. ASSUME NEW k \in 1..Len(rx'), k > Len(rx)
        PROVE  \/ k = Len(rx) + 1 /\ rx'[k].text = a
               \/ k = Len(rx) + 2 /\ rx'[k].text = b
    <2>1. k - Len(rx) = 1 \/ k - Len(rx) = 2
      BY <1>3, <1>4
    <2>2. CASE k - Len(rx) = 1
      BY <1>1, <1>3, <1>4, <2>2
    <2>3. CASE k - Len(rx) = 2
      BY <1>1, <1>3, <1>4, <2>3
    <2> QED
      BY <2>1, <2>2, <2>3
  <1>5. \A k \in 1..Len(rx') : k \in 1..Len(rx) \/ k > Len(rx)
    BY <1>3
  <1> QED
    BY <1>3, <1>4, <1>5

\* The module may also keep silent.
LEMMA Silent ==
    ASSUME IInv, rx' = rx
    PROVE  rx' \in Seq(Line) /\ \A k \in 1..Len(rx') : k \in 1..Len(rx) /\ rx'[k] = rx[k]
  BY DEF IInv, TypeOK

\* AT+CIPSEND is read.
LEMMA ModemCipsendStep == ASSUME IInv, ModemCipsend PROVE IInv'
  <1>1. /\ tx # << >> /\ tx' = Tail(tx) /\ Head(tx).kind = "CIPSEND" /\ modem = 0
        /\ UNCHANGED <<callVars, urcs, tags, trust>> /\ module' = module
    BY DEF ModemCipsend, ModemReads, history
  <1>2. Head(tx) = tx[1] /\ tx[1].tag \in 0..MaxTags /\ tx[1].tag # 0
    BY <1>1, ItemRead
  <1>3. Took
    BY <1>1 DEF IInv, TypeOK, Took
  <1>4. {"blank", "prompt", "ERROR"} \subseteq Texts
    BY DEF Texts
  <1>5. CASE Say(tx[1].tag, <<"blank", "prompt">>) /\ modem' = tx[1].tag
    <2>1. Answered
      BY <1>1, <1>2, <1>4, <1>5, SaidTwo DEF Answered, Asker
    <2>2. Turned
      BY <1>1, <1>2, <1>5 DEF Turned
    <2> QED
      BY <1>1, <1>3, <2>1, <2>2, ModemReadsStep
  <1>6. CASE Say(tx[1].tag, <<"blank", "ERROR">>) /\ modem' = modem
    <2>1. Answered
      <3>1. Asker = tx[1].tag /\ modem' = 0
        BY <1>1, <1>6 DEF Asker
      <3>2. /\ rx' \in Seq(Line)
            /\ \A k \in 1..Len(rx') :
                 \/ k \in 1..Len(rx) /\ rx'[k] = rx[k]
                 \/ /\ k > Len(rx) /\ rx'[k].tag = Asker
                    /\ (k = Len(rx) + 1 /\ rx'[k].text = "blank") \/ rx'[k].text = "ERROR"
        BY <1>2, <1>4, <1>6, <3>1, SaidTwo
      <3> QED
        BY <3>1, <3>2 DEF Answered
    <2>2. Turned
      BY <1>1, <1>6 DEF Turned
    <2> QED
      BY <1>1, <1>3, <2>1, <2>2, ModemReadsStep
  <1>7. CASE rx' = rx /\ modem' = modem
    <2>1. Answered
      BY <1>7, Silent DEF Answered
    <2>2. Turned
      BY <1>1, <1>7 DEF Turned
    <2> QED
      BY <1>1, <1>3, <2>1, <2>2, ModemReadsStep
  <1> QED
    BY <1>2, <1>5, <1>6, <1>7 DEF ModemCipsend

\* AT+CDNSGIP is read.
LEMMA ModemResolveStep == ASSUME IInv, ModemResolve PROVE IInv'
  <1>1. /\ tx # << >> /\ tx' = Tail(tx) /\ Head(tx).kind = "CDNSGIP" /\ modem = 0 /\ modem' = 0
        /\ UNCHANGED <<callVars, urcs, tags, trust>> /\ module' = module
    BY DEF ModemResolve, ModemReads, history
  <1>2. Head(tx) = tx[1] /\ tx[1].tag \in 0..MaxTags /\ tx[1].tag # 0
    BY <1>1, ItemRead
  <1>3. Took /\ Turned
    BY <1>1 DEF IInv, TypeOK, Took, Turned
  <1>4. \A found \in {"address", "noaddress"} : <<"blank", found, "blank", "OK">> \in Seq(Texts)
    BY DEF Texts
  <1>5. ASSUME NEW found \in {"address", "noaddress"},
               Say(tx[1].tag, <<"blank", found, "blank", "OK">>)
        PROVE  Answered
    <2>1. TypeOK /\ <<"blank", found, "blank", "OK">> \in Seq(Texts)
      BY <1>4 DEF IInv
    <2>2. /\ Len(rx) \in Nat /\ rx' \in Seq(Line) /\ \A k \in 1..Len(rx) : rx'[k] = rx[k]
          /\ \A k \in 1..Len(rx') : k > Len(rx) => rx'[k].tag = tx[1].tag
      BY <1>2, <1>5, <2>1, Said
    <2>3. \A k \in 1..Len(rx') : k \in 1..Len(rx) \/ k > Len(rx)
      BY <2>2
    <2> QED
      BY <1>1, <1>2, <2>2, <2>3 DEF Answered, Asker
  <1>6. ASSUME Say(tx[1].tag, <<"blank", "ERROR">>) PROVE Answered
    BY <1>1, <1>2, <1>6, SaidTwo DEF Answered, Asker, Texts
  <1>7. ASSUME rx' = rx PROVE Answered
    BY <1>7, Silent DEF Answered
  <1>8. Answered
    BY <1>2, <1>5, <1>6, <1>7 DEF ModemResolve
  <1> QED
    BY <1>1, <1>3, <1>8, ModemReadsStep

\* Data or an empty line is read where a command is expected.
LEMMA ModemStrayStep == ASSUME IInv, ModemStray PROVE IInv'
  <1>1. /\ tx # << >> /\ tx' = Tail(tx) /\ Head(tx).kind \in {"DATA", "NL"} /\ modem = 0 /\ modem' = 0
        /\ UNCHANGED <<callVars, urcs, tags, trust>>
    BY DEF ModemStray, ModemReads
  <1>2. Head(tx) = tx[1] /\ tx[1].tag \in 0..MaxTags /\ tx[1].tag # 0 /\ tx[1].tag \in 1..MaxTags
    BY <1>1, ItemRead, BoundsAssumption
  <1>3. Turned
    BY <1>1 DEF Turned
  <1>4. CASE tx[1].kind = "DATA"
    <2>1. module' = [module EXCEPT !.stray = module.stray \cup {tx[1].tag}]
      BY <1>2, <1>4 DEF ModemStray
    <2>2. Took
      BY <1>1, <1>2, <1>4, <2>1 DEF IInv, TypeOK, Taken, Took
    <2>3. ASSUME Say(tx[1].tag, <<"blank", "ERROR">>) PROVE Answered
      BY <1>1, <1>2, <1>4, <2>3, SaidTwo DEF Answered, Asker, Texts
    <2>4. ASSUME rx' = rx PROVE Answered
      BY <2>4, Silent DEF Answered
    <2>5. Answered
      BY <1>2, <1>4, <2>3, <2>4 DEF ModemStray
    <2> QED
      BY <1>1, <1>3, <2>2, <2>5, ModemReadsStep
  <1>5. CASE tx[1].kind # "DATA"
    <2>1. rx' = rx /\ module' = module
      BY <1>2, <1>5 DEF ModemStray
    <2>2. Took
      BY <1>1, <2>1 DEF IInv, TypeOK, Took
    <2>3. Answered
      BY <2>1, Silent DEF Answered
    <2> QED
      BY <1>1, <1>3, <2>2, <2>3, ModemReadsStep
  <1> QED
    BY <1>4, <1>5

\* The data the module waits for is read.
LEMMA ModemDataStep == ASSUME IInv, ModemData PROVE IInv'
  <1>1. /\ tx # << >> /\ tx' = Tail(tx) /\ Head(tx).kind = "DATA" /\ Head(tx).tag = modem
        /\ modem # 0 /\ modem' = 0 /\ UNCHANGED <<callVars, urcs, tags, trust>>
    BY DEF ModemData, ModemReads
  <1>2. Head(tx) = tx[1] /\ tx[1].tag \in 1..MaxTags /\ tx[1] = [kind |-> "DATA", tag |-> modem]
    BY <1>1, ItemRead, BoundsAssumption
  <1>3. Turned /\ modem \in 0..MaxTags
    BY <1>1 DEF Turned, IInv, TypeOK
  <1>4. {"blank", "OK", "ERROR"} \subseteq Texts
    BY DEF Texts
  <1>5. CASE /\ Say(modem, <<"blank", "OK">>)
             /\ module' = [module EXCEPT !.accepted = module.accepted \cup {modem}]
    <2>1. Took /\ modem \in module'.accepted
      BY <1>1, <1>2, <1>5 DEF IInv, TypeOK, Taken, Took
    <2>2. Answered
      BY <1>1, <1>3, <1>4, <1>5, <2>1, SaidTwo DEF Answered, Asker
    <2> QED
      BY <1>1, <1>3, <2>1, <2>2, ModemReadsStep
  <1>6. CASE Say(modem, <<"blank", "ERROR">>) /\ module' = module
    <2>1. Took
      BY <1>6 DEF IInv, TypeOK, Took
    <2>2. Answered
      BY <1>1, <1>3, <1>4, <1>6, SaidTwo DEF Answered, Asker
    <2> QED
      BY <1>1, <1>3, <2>1, <2>2, ModemReadsStep
  <1> QED
    BY <1>5, <1>6 DEF ModemData

\* Something else is taken for the data.
LEMMA ModemSwallowStep == ASSUME IInv, ModemSwallow PROVE IInv'
  <1>1. /\ tx # << >> /\ tx' = Tail(tx) /\ Head(tx) # [kind |-> "DATA", tag |-> modem]
        /\ modem # 0 /\ UNCHANGED <<callVars, urcs, tags, trust>>
        /\ module' = [module EXCEPT !.swallowed = module.swallowed \cup {modem}]
    BY DEF ModemSwallow, ModemReads
  <1>2. tx[1] # [kind |-> "DATA", tag |-> modem] /\ modem \in 0..MaxTags
    BY <1>1, ItemRead DEF IInv, TypeOK
  <1>3. modem \in trust.gaveup
    BY <1>1, <1>2 DEF IInv, InStep
  <1>4. Took
    <2>1. modem \in 1..MaxTags
      BY <1>1, <1>2, BoundsAssumption
    <2> QED
      BY <1>1, <1>3, <2>1 DEF IInv, TypeOK, Taken, Took
  <1>5. CASE Say(modem, <<"blank", "OK">>) /\ modem' = 0
    <2>1. Answered
      BY <1>1, <1>2, <1>5, SaidTwo DEF Answered, Asker, Texts
    <2>2. Turned
      BY <1>5 DEF Turned
    <2> QED
      BY <1>1, <1>4, <2>1, <2>2, ModemReadsStep
  <1>6. CASE rx' = rx /\ modem' = modem
    <2>1. Answered
      BY <1>6, Silent DEF Answered
    <2>2. Turned
      BY <1>2, <1>3, <1>6 DEF Turned
    <2> QED
      BY <1>1, <1>4, <2>1, <2>2, ModemReadsStep
  <1> QED
    BY <1>5, <1>6 DEF ModemSwallow

\* A report of the module.
LEMMA ModemUrcStep == ASSUME IInv, ModemUrc PROVE IInv'
  <1>1. TypeOK'
    <2>1. Say(0, <<"blank", "urc">>) /\ 0 \in 0..MaxTags /\ {"blank", "urc"} \subseteq Texts
      BY BoundsAssumption DEF ModemUrc, Texts
    <2>2. rx' \in Seq(Line)
      BY <2>1, SaidTwo
    <2>3. urcs' \in 0..MaxUrcs
      BY BoundsAssumption DEF IInv, TypeOK, ModemUrc
    <2> QED
      BY <2>2, <2>3 DEF IInv, TypeOK, ModemUrc, callVars, history
  <1>2. /\ UNCHANGED <<call, resp, notice, tx, modem, tags, module, trust>>
        /\ \A k \in 1..Len(rx') :
             \/ k \in 1..Len(rx) /\ rx'[k] = rx[k]
             \/ rx'[k].tag = 0 /\ rx'[k].text \in {"blank", "urc"}
    <2>1. Say(0, <<"blank", "urc">>) /\ 0 \in 0..MaxTags /\ {"blank", "urc"} \subseteq Texts
      BY BoundsAssumption DEF ModemUrc, Texts
    <2>2. UNCHANGED <<call, resp, notice, tx, modem, tags, module, trust>>
      BY DEF ModemUrc, callVars, history
    <2> QED
      BY <2>1, <2>2, SaidTwo
  <1>3. Plan'
    BY <1>2 DEF IInv, Plan, InPrompt, InConfirm, InAnswer
  <1>4. Response'
    BY <1>2 DEF IInv, Response, InPrompt, InConfirm
  <1>5. Tagged'
    <2>1. 0 <= tags
      BY NoneNewer
    <2> QED
      BY <1>2, <2>1 DEF IInv, Tagged, InPrompt, InConfirm
  <1>6. Unread'
    <2>1. \A j \in 1..Len(tx) : tx[j].tag \in Nat /\ 0 < tx[j].tag
      BY NoneNewer
    <2> QED
      BY <1>2, <2>1 DEF IInv, Unread, InPrompt
  <1>7. InStep'
    BY <1>2 DEF IInv, InStep, InPrompt
  <1>8. ErrorApart'
    BY <1>2 DEF IInv, ErrorApart
  <1>9. PromptMeant'
    <2>1. InPrompt => tags # 0
      BY NoneNewer DEF IInv, Plan
    <2>2. InPrompt => \A k \in 1..Len(rx') : Plain(k)' => k \in 1..Len(rx) /\ Plain(k)
      BY <1>2, <2>1 DEF Plain
    <2> QED
      BY <1>2, <2>2 DEF IInv, PromptMeant, InPrompt
  <1>10. DataExpected'
    BY <1>2 DEF IInv, DataExpected
  <1>11. Alone'
    BY <1>2 DEF IInv, Alone, Quiet, InPrompt, InConfirm
  <1>12. OneOk'
    BY <1>2 DEF IInv, OneOk, Quiet, InConfirm
  <1>13. OneData'
    BY <1>2 DEF IInv, OneData, Quiet, InConfirm
  <1>14. OneToken'
    BY <1>2 DEF IInv, OneToken, Quiet
  <1>15. Earned'
    BY <1>2 DEF IInv, Earned, Quiet, InConfirm
  <1>16. Outcome'
    BY <1>2 DEF IInv, Outcome, InPrompt, InConfirm
  <1> QED
    BY <1>1, <1>3, <1>4, <1>5, <1>6, <1>7, <1>8, <1>9, <1>10, <1>11, <1>12, <1>13, <1>14,
       <1>15, <1>16 DEF IInv

-----------------------------------------------------------------------------
(* The theorems                                                              *)

\* Every step keeps the invariant.
LEMMA NextIInv == IInv /\ [Next]_vars => IInv'
  <1> SUFFICES ASSUME IInv, [Next]_vars PROVE IInv'
    OBVIOUS
  <1>1. CASE \E n \in 1..MaxPackets : a9g_socket_send(n)
    BY <1>1, SendStep
  <1>2. CASE a9g_domain_resolve
    BY <1>2, ResolveStep
  <1>3. CASE WriteData
    <2>1. call'.pc \in {"arm", "done"}
      BY <1>3 DEF IInv, TypeOK, WriteData, Done, CallRecord
    <2> QED
      BY <1>3, <2>1, WriteFailedStep, WriteSentStep
  <1>4. CASE Caller /\ ~WriteData
    BY <1>4, ExecPromptStep, ExecConfirmStep, ExecResolveStep, ExecTakenStep, ExecTimeoutStep,
       ExecFailedStep, PromptedStep, ConfirmedStep, ResolvedStep, ReturnStep DEF Caller
  <1>5. CASE Parser
    BY <1>5, ParseDroppedStep, ParseLineStep DEF Parser
  <1>6. CASE Modem
    BY <1>6, ModemCipsendStep, ModemResolveStep, ModemStrayStep, ModemDataStep,
       ModemSwallowStep, ModemUrcStep DEF Modem
  <1>7. CASE UNCHANGED vars
    BY <1>7 DEF IInv, TypeOK, Plan, Response, Tagged, Unread, InStep, ErrorApart, PromptMeant,
       DataExpected, Quiet, Alone, OneOk, OneData, OneToken, Earned, Outcome, InPrompt, InConfirm,
       InAnswer, Plain, vars, callVars, history
  <1> QED
    BY <1>1, <1>2, <1>3, <1>4, <1>5, <1>6, <1>7 DEF Next

\* The inductive invariant holds in every reachable state.
THEOREM Invariance == Spec => []IInv
  <1> QED
    BY InitIInv, NextIInv, PTL DEF Spec

\* All variables keep their types (TypeOK): no count of packets, tries or tags leaves its
\* range, although lines of other commands are counted and answers are lost.
THEOREM TypeCorrect == Spec => []TypeOK
  <1>1. IInv => TypeOK
    BY DEF IInv
  <1> QED
    BY <1>1, Invariance, PTL

\* A call of a9g_socket_send that returns the size of its data has had every packet of it
\* accepted by the module (SentIsAccepted), when no OK of an earlier call was left to come
\* as it began: the OK that at_obj_exec_cmd counts for the data is the one of that data.
THEOREM SentAccepted == Spec => []SentIsAccepted
  <1>1. ASSUME IInv PROVE SentIsAccepted
    <2>1. ASSUME call.op = "send", call.result = "EOK", call.quiet, NEW t \in call.first..tags
          PROVE  t \in module.accepted
      <3>1. call.pc = "done"
        BY <1>1, <2>1 DEF IInv, Plan
      <3> QED
        BY <1>1, <2>1, <3>1 DEF IInv, Outcome, InPrompt, InConfirm
    <2> QED
      BY <2>1 DEF SentIsAccepted
  <1> QED
    BY <1>1, Invariance, PTL

\* Data is written only to a module that waits for it, when the two lines counted for the
\* prompt were its own (DataAfterPrompt).
THEOREM PromptBeforeData == Spec => []DataAfterPrompt
  <1>1. IInv => DataAfterPrompt
    BY DEF IInv, DataExpected, DataAfterPrompt
  <1> QED
    BY <1>1, Invariance, PTL

\* The packets for whose data the module takes something else are among those that were
\* given up between their command and their data, by a timeout of the prompt, a failed
\* write or an error of another command (CommandNotSwallowed).
THEOREM NotSwallowed == Spec => []CommandNotSwallowed
  <1>1. IInv => CommandNotSwallowed
    BY DEF IInv, InStep, CommandNotSwallowed
  <1> QED
    BY <1>1, Invariance, PTL
=============================================================================
