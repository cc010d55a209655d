---------------------------- MODULE A9gTransfer ----------------------------
(***************************************************************************)
(* Sending data and resolving names through the A9G module.  A packet      *)
(* takes two exchanges: AT+CIPSEND and the prompt '>', after which the     *)
(* module takes what comes as data, and then the data and its OK.  The     *)
(* answers are matched with the commands by their order and by counting    *)
(* lines only, while the module reports other events in between.           *)
(*                                                                         *)
(* Code: a9g_socket_send and a9g_domain_resolve of                         *)
(* applications/at_socket_a9g.c; at_obj_exec_cmd and client_parser of      *)
(* rt-thread/components/net/at/src/at_client.c.                            *)
(***************************************************************************)
EXTENDS Naturals, Sequences, FiniteSets

CONSTANTS
    MaxPackets,    \* bound: packets in one call of a9g_socket_send
    RESOLVE_RETRY, \* tries of a9g_domain_resolve
    MaxTags,       \* bound: CIPSEND and CDNSGIP commands in all
    MaxUrcs,       \* bound: unsolicited reports
    MaxRx          \* bound: lines on their way to the parser

ASSUME BoundsAssumption ==
    /\ MaxPackets \in Nat /\ RESOLVE_RETRY \in Nat /\ RESOLVE_RETRY > 0
    /\ MaxTags \in Nat /\ MaxUrcs \in Nat /\ MaxRx \in Nat

VARIABLES
    call,      \* the caller: op, pc, stage, packets in the call and confirmed, tries, result;
               \* history: first, its first tag; quiet, nothing was left of earlier calls
    resp,      \* client->resp and its object: armed, line_num, line_counts, address found;
               \* history: mixed, a line of another origin was counted; by, the tag that ended it
    notice,    \* client->resp_status and the value of client->resp_notice
    end_sign,  \* client->end_sign is '>'
    tx,        \* what was written to the module and not read by it: kind and tag
    rx,        \* lines on their way to the parser: text and the tag they answer
    modem,     \* waiting for a command, or for the data of the packet with that tag
    urcs,      \* reports so far
    tags,      \* history: commands so far; a packet and its command share a tag
    module,    \* history: what the module took: accepted and stray packets, and the packets
               \* for whose data it took something else
    trust      \* history: the packets prompted by lines of their own, and those given up
               \* between their command and their data

callVars == <<call, resp, notice, end_sign>>
history == <<tags, module, trust>>
vars == <<callVars, tx, rx, modem, urcs, history>>

-----------------------------------------------------------------------------
Kinds == {"CIPSEND", "DATA", "NL", "CDNSGIP"}
Texts == {"blank", "prompt", "OK", "ERROR", "address", "noaddress", "urc"}

Idle == [op |-> "none", pc |-> "idle", stage |-> "none", packets |-> 0, confirmed |-> 0,
         first |-> 0, quiet |-> FALSE, tries |-> 0, ret |-> "none", result |-> "none"]
NoResp == [armed |-> FALSE, line_num |-> 0, line_counts |-> 0, found |-> "none",
           mixed |-> FALSE, by |-> 0]

Init ==
    /\ call = Idle
    /\ resp = NoResp
    /\ notice = [status |-> "OK", value |-> 0]
    /\ end_sign = FALSE
    /\ tx = << >> /\ rx = << >>
    /\ modem = 0
    /\ urcs = 0
    /\ tags = 0
    /\ module = [accepted |-> {}, stray |-> {}, swallowed |-> {}]
    /\ trust = [prompted |-> {}, gaveup |-> {}]

-----------------------------------------------------------------------------
(* at_obj_exec_cmd, for the command of the current stage                    *)

Write(kind, tag) == tx' = Append(tx, [kind |-> kind, tag |-> tag])

Arm(n) ==
    /\ resp' = [NoResp EXCEPT !.armed = TRUE, !.line_num = n]
    /\ notice' = [notice EXCEPT !.status = "OK"]
    /\ call' = [call EXCEPT !.pc = "wait"]

\* Mutant: the empty line alone ends the response.
ExecPromptOneLine ==
    /\ call.pc = "arm" /\ call.stage = "prompt"
    /\ tags' = tags + 1
    /\ Write("CIPSEND", tags + 1)
    /\ Arm(1)
    /\ UNCHANGED <<end_sign, rx, modem, urcs, module, trust>>

ExecPrompt ==
    /\ call.pc = "arm" /\ call.stage = "prompt"
    /\ tags' = tags + 1
    /\ Write("CIPSEND", tags + 1)
    /\ Arm(2)
    /\ UNCHANGED <<end_sign, rx, modem, urcs, module, trust>>

\* Mutant: the response is not set up for the OK of the data.
ExecConfirmTwoLines ==
    /\ call.pc = "arm" /\ call.stage = "confirm"
    /\ Write("NL", tags)
    /\ Arm(2)
    /\ UNCHANGED <<end_sign, rx, modem, urcs, history>>

\* The empty command: only its line end goes out.
ExecConfirm ==
    /\ call.pc = "arm" /\ call.stage = "confirm"
    /\ Write("NL", tags)
    /\ Arm(0)
    /\ UNCHANGED <<end_sign, rx, modem, urcs, history>>

ExecResolve ==
    /\ call.pc = "arm" /\ call.stage = "answer"
    /\ tags' = tags + 1
    /\ Write("CDNSGIP", tags + 1)
    /\ Arm(3)
    /\ UNCHANGED <<end_sign, rx, modem, urcs, module, trust>>

\* rt_sem_take: a token, of this response or of an earlier one, ...
ExecTaken ==
    /\ call.pc = "wait" /\ notice.value > 0
    /\ notice' = [notice EXCEPT !.value = @ - 1]
    /\ call' = [call EXCEPT !.pc = "exit", !.ret = notice.status]
    /\ trust' = IF call.stage = "prompt" /\ resp.by = tags /\ ~resp.mixed
                  THEN [trust EXCEPT !.prompted = @ \cup {tags}] ELSE trust
    /\ UNCHANGED <<resp, end_sign, tx, rx, modem, urcs, tags, module>>

\* The packet with the last tag is given up after its command, before its data.
GiveUp == trust' = [trust EXCEPT !.gaveup = @ \cup {tags}]

\* Mutant: the OK of the data is waited for without a timeout.
ExecTimeoutPrompt ==
    /\ call.pc = "wait" /\ notice.value = 0 /\ call.stage # "confirm"
    /\ notice' = [notice EXCEPT !.status = "TIMEOUT"]
    /\ call' = [call EXCEPT !.pc = "exit", !.ret = "TIMEOUT"]
    /\ IF call.stage = "prompt" THEN GiveUp ELSE UNCHANGED trust
    /\ UNCHANGED <<resp, end_sign, tx, rx, modem, urcs, tags, module>>

\* ... or the timeout; client->resp is still set.
ExecTimeout ==
    /\ call.pc = "wait" /\ notice.value = 0
    /\ notice' = [notice EXCEPT !.status = "TIMEOUT"]
    /\ call' = [call EXCEPT !.pc = "exit", !.ret = "TIMEOUT"]
    /\ IF call.stage = "prompt" THEN GiveUp ELSE UNCHANGED trust
    /\ UNCHANGED <<resp, end_sign, tx, rx, modem, urcs, tags, module>>

-----------------------------------------------------------------------------
(* a9g_socket_send and a9g_domain_resolve, after each command               *)

Done(what) == call' = [call EXCEPT !.pc = "done", !.result = what]

\* No earlier call has left a token, an OK on its way, or a command or a packet that the
\* module could still answer with OK.
NothingLeft ==
    /\ modem = 0 /\ notice.value = 0
    /\ \A i \in 1..Len(tx) : tx[i].kind \in {"DATA", "NL"}
    /\ \A i \in 1..Len(rx) : rx[i].text # "OK"

\* The mutex is held during the whole of it.
a9g_socket_send(n) ==
    /\ call.pc = "idle" /\ tags + n <= MaxTags
    /\ call' = [Idle EXCEPT !.op = "send", !.pc = "arm", !.stage = "prompt", !.packets = n,
                            !.first = tags + 1, !.quiet = NothingLeft]
    /\ end_sign' = TRUE
    /\ UNCHANGED <<resp, notice, tx, rx, modem, urcs, history>>

\* An error that answers another command gives the packet up as well.
ExecFailed ==
    /\ call.pc = "exit" /\ call.ret # "OK"
    /\ resp' = [resp EXCEPT !.armed = FALSE]
    /\ Done("ERROR")
    /\ IF call.stage = "prompt" /\ resp.by # tags THEN GiveUp ELSE UNCHANGED trust
    /\ UNCHANGED <<notice, end_sign, tx, rx, modem, urcs, tags, module>>

Prompted ==
    /\ call.pc = "exit" /\ call.ret = "OK" /\ call.stage = "prompt"
    /\ resp' = [resp EXCEPT !.armed = FALSE]
    /\ call' = [call EXCEPT !.pc = "write"]
    /\ UNCHANGED <<notice, end_sign, tx, rx, modem, urcs, history>>

\* Mutant: a write of nothing is no error.
WriteUnchecked ==
    /\ call.pc = "write"
    /\ Write("DATA", tags) \/ UNCHANGED tx
    /\ call' = [call EXCEPT !.pc = "arm", !.stage = "confirm"]
    /\ UNCHANGED <<resp, notice, end_sign, rx, modem, urcs, history>>

\* at_client_obj_send, which may write nothing.
WriteData ==
    /\ call.pc = "write"
    /\ \/ /\ Write("DATA", tags)
          /\ call' = [call EXCEPT !.pc = "arm", !.stage = "confirm"]
          /\ UNCHANGED trust
       \/ /\ Done("ERROR")
          /\ GiveUp
          /\ UNCHANGED tx
    /\ UNCHANGED <<resp, notice, end_sign, rx, modem, urcs, tags, module>>

\* Mutant: one packet too many.
ConfirmedOneMore ==
    /\ call.pc = "exit" /\ call.ret = "OK" /\ call.stage = "confirm"
    /\ resp' = [resp EXCEPT !.armed = FALSE]
    /\ call' = [call EXCEPT
         !.confirmed = @ + 1,
         !.pc = IF call.confirmed < call.packets THEN "arm" ELSE "done",
         !.stage = "prompt",
         !.result = IF call.confirmed < call.packets THEN @ ELSE "EOK"]
    /\ UNCHANGED <<notice, end_sign, tx, rx, modem, urcs, history>>

\* The next packet, or the end: the size of the last packet is returned.
Confirmed ==
    /\ call.pc = "exit" /\ call.ret = "OK" /\ call.stage = "confirm"
    /\ resp' = [resp EXCEPT !.armed = FALSE]
    /\ call' = [call EXCEPT
         !.confirmed = @ + 1,
         !.pc = IF call.confirmed + 1 < call.packets THEN "arm" ELSE "done",
         !.stage = "prompt",
         !.result = IF call.confirmed + 1 < call.packets THEN @ ELSE "EOK"]
    /\ UNCHANGED <<notice, end_sign, tx, rx, modem, urcs, history>>

a9g_domain_resolve ==
    /\ call.pc = "idle" /\ tags + RESOLVE_RETRY <= MaxTags
    /\ call' = [Idle EXCEPT !.op = "resolve", !.pc = "arm", !.stage = "answer",
                            !.first = tags + 1]
    /\ UNCHANGED <<resp, notice, end_sign, tx, rx, modem, urcs, history>>

\* An address ends the loop; a network or DNS error too; after any other answer it
\* goes on, and when the tries are used up the result is still RT_EOK.
Resolved ==
    /\ call.pc = "exit" /\ call.ret = "OK" /\ call.stage = "answer"
    /\ resp' = [resp EXCEPT !.armed = FALSE]
    /\ \/ resp.found = "address" /\ Done("EOK")
       \/ resp.found = "noaddress" /\ Done("ERROR")
       \/ /\ resp.found # "address"
          /\ call' = [call EXCEPT
               !.tries = @ + 1,
               !.pc = IF call.tries + 1 < RESOLVE_RETRY THEN "arm" ELSE "done",
               !.result = IF call.tries + 1 < RESOLVE_RETRY THEN @ ELSE "EOK"]
    /\ UNCHANGED <<notice, end_sign, tx, rx, modem, urcs, history>>

\* __exit: the end sign is reset and the response object deleted.
Return ==
    /\ call.pc = "done"
    /\ call' = Idle
    /\ end_sign' = IF call.op = "send" THEN FALSE ELSE end_sign
    /\ resp' = NoResp
    /\ UNCHANGED <<notice, tx, rx, modem, urcs, history>>

-----------------------------------------------------------------------------
(* client_parser, one line                                                  *)

\* A report is for its handler; a '>' that is no end sign waits for the line end that
\* follows and makes one line with it.
IsResponse(line) == line.text # "urc" /\ (line.text = "prompt" => end_sign)

Stored(line) ==
    [resp EXCEPT !.line_counts = @ + 1,
                 !.found = IF @ = "none" /\ line.text \in {"address", "noaddress"}
                           THEN line.text ELSE @,
                 !.mixed = @ \/ line.tag # tags]

\* The response status a line decides, or "none".
Decides(line, lines) ==
    CASE line.text = "OK" /\ resp.line_num = 0 -> "OK"
      [] line.text = "ERROR" -> "ERROR"
      [] line.text # "ERROR" /\ lines = resp.line_num /\ resp.line_num > 0 -> "OK"
      [] OTHER -> "none"

ParseDropped ==
    /\ rx # << >>
    /\ ~resp.armed \/ ~IsResponse(Head(rx))
    /\ rx' = Tail(rx)
    /\ UNCHANGED <<callVars, tx, modem, urcs, history>>

ParseLine ==
    /\ rx # << >> /\ resp.armed /\ IsResponse(Head(rx))
    /\ rx' = Tail(rx)
    /\ LET line == Head(rx)
           verdict == Decides(line, resp.line_counts + 1) IN
       IF verdict = "none"
         THEN resp' = Stored(line) /\ UNCHANGED notice
         ELSE /\ resp' = [Stored(line) EXCEPT !.armed = FALSE, !.by = line.tag]
              /\ notice' = [status |-> verdict, value |-> notice.value + 1]
    /\ UNCHANGED <<call, end_sign, tx, modem, urcs, history>>

-----------------------------------------------------------------------------
(* The module.  It reads in order, answers in order, and may lose a command. *)

Say(tag, texts) == rx' = rx \o [i \in 1..Len(texts) |-> [text |-> texts[i], tag |-> tag]]

ModemReads(kinds) == tx # << >> /\ Head(tx).kind \in kinds /\ tx' = Tail(tx) /\ Len(rx) < MaxRx

\* AT+CIPSEND: the prompt, an error when the link is closed, or nothing.
ModemCipsend ==
    /\ modem = 0 /\ ModemReads({"CIPSEND"})
    /\ \/ Say(Head(tx).tag, <<"blank", "prompt">>) /\ modem' = Head(tx).tag
       \/ Say(Head(tx).tag, <<"blank", "ERROR">>) /\ UNCHANGED modem
       \/ UNCHANGED <<rx, modem>>
    /\ UNCHANGED <<callVars, urcs, history>>

ModemResolve ==
    /\ modem = 0 /\ ModemReads({"CDNSGIP"})
    /\ \/ \E found \in {"address", "noaddress"} :
            Say(Head(tx).tag, <<"blank", found, "blank", "OK">>)
       \/ Say(Head(tx).tag, <<"blank", "ERROR">>)
       \/ UNCHANGED rx
    /\ UNCHANGED <<callVars, modem, urcs, history>>

\* Data where a command is expected is an unknown command; an empty line is nothing.
ModemStray ==
    /\ modem = 0 /\ ModemReads({"DATA", "NL"})
    /\ IF Head(tx).kind = "DATA"
         THEN /\ Say(Head(tx).tag, <<"blank", "ERROR">>) \/ UNCHANGED rx
              /\ module' = [module EXCEPT !.stray = @ \cup {Head(tx).tag}]
         ELSE UNCHANGED <<rx, module>>
    /\ UNCHANGED <<callVars, modem, urcs, tags, trust>>

\* The data that was announced, sent or not.
ModemData ==
    /\ modem # 0 /\ ModemReads({"DATA"}) /\ Head(tx).tag = modem
    /\ modem' = 0
    /\ \/ /\ Say(modem, <<"blank", "OK">>)
          /\ module' = [module EXCEPT !.accepted = @ \cup {modem}]
       \/ Say(modem, <<"blank", "ERROR">>) /\ UNCHANGED module
    /\ UNCHANGED <<callVars, urcs, tags, trust>>

\* Anything else is data as well, enough of it or not.
ModemSwallow ==
    /\ modem # 0 /\ ModemReads(Kinds) /\ Head(tx) # [kind |-> "DATA", tag |-> modem]
    /\ module' = [module EXCEPT !.swallowed = @ \cup {modem}]
    /\ \/ Say(modem, <<"blank", "OK">>) /\ modem' = 0
       \/ UNCHANGED <<rx, modem>>
    /\ UNCHANGED <<callVars, urcs, tags, trust>>

ModemUrc ==
    /\ urcs < MaxUrcs /\ Len(rx) < MaxRx
    /\ urcs' = urcs + 1
    /\ Say(0, <<"blank", "urc">>)
    /\ UNCHANGED <<callVars, tx, modem, history>>

-----------------------------------------------------------------------------
Caller ==
    \/ ExecPrompt \/ ExecConfirm \/ ExecResolve \/ ExecTaken \/ ExecTimeout \/ ExecFailed
    \/ Prompted \/ WriteData \/ Confirmed \/ Resolved \/ Return
Parser == ParseDropped \/ ParseLine
Modem == ModemCipsend \/ ModemResolve \/ ModemStray \/ ModemData \/ ModemSwallow \/ ModemUrc

Next ==
    \/ \E n \in 1..MaxPackets : a9g_socket_send(n)
    \/ a9g_domain_resolve
    \/ Caller \/ Parser \/ Modem

\* The caller is scheduled and its timeouts expire; the module may be silent for ever.
Spec == Init /\ [][Next]_vars /\ WF_vars(Caller)

-----------------------------------------------------------------------------
CallRecord ==
    [op: {"none", "send", "resolve"}, pc: {"idle", "arm", "wait", "exit", "write", "done"},
     stage: {"none", "prompt", "confirm", "answer"},
     packets: 0..MaxPackets, confirmed: 0..MaxPackets, first: 0..MaxTags + 1, quiet: BOOLEAN,
     tries: 0..RESOLVE_RETRY, ret: {"none", "OK", "ERROR", "TIMEOUT"},
     result: {"none", "EOK", "ERROR"}]
RespRecord ==
    [armed: BOOLEAN, line_num: 0..3, line_counts: Nat,
     found: {"none", "address", "noaddress"}, mixed: BOOLEAN, by: 0..MaxTags]
Item == [kind: Kinds, tag: 0..MaxTags]
Line == [text: Texts, tag: 0..MaxTags]
Taken == [accepted: SUBSET (1..MaxTags), stray: SUBSET (1..MaxTags), swallowed: SUBSET (1..MaxTags)]
Trusted == [prompted: SUBSET (1..MaxTags), gaveup: SUBSET (1..MaxTags)]

TypeOK ==
    /\ call \in CallRecord /\ resp \in RespRecord
    /\ notice \in [status: {"OK", "ERROR", "TIMEOUT"}, value: Nat]
    /\ end_sign \in BOOLEAN
    /\ tx \in Seq(Item) /\ rx \in Seq(Line)
    /\ modem \in 0..MaxTags
    /\ urcs \in 0..MaxUrcs
    /\ tags \in 0..MaxTags
    /\ module \in Taken /\ trust \in Trusted

\* at_socket_a9g.c:289-297: a call of a9g_socket_send that returns the size of its data
\* has had every packet of it accepted by the module, however the reports of the module
\* are mixed with its answers and whatever command it loses or refuses, provided that no
\* OK of an earlier call was left to come when it began: an OK is never the OK of another
\* packet of the call, and never that of something the module took for the data.
SentIsAccepted ==
    (call.op = "send" /\ call.result = "EOK" /\ call.quiet) => call.first..tags \subseteq module.accepted

\* Data is not written to a module that expects a command, unless a line of
\* another origin was counted in place of the prompt.
DataAfterPrompt == module.stray \cap trust.prompted = {}

\* The module takes something else for the data of a packet only if that packet was
\* given up between its command and its data: by a timeout of the prompt, a write that
\* failed, or an error of another command taken for its own. A timeout at any other
\* place, or of another packet, does not bring it about.
CommandNotSwallowed == module.swallowed \subseteq trust.gaveup

\* Every call returns, although the module may stop answering at any point.
CallsReturn == call.pc # "idle" ~> call.pc = "idle"
=============================================================================
