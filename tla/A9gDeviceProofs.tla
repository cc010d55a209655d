-------------------------- MODULE A9gDeviceProofs --------------------------
(***************************************************************************)
(* Proofs about A9gDevice, for any set of threads, any number of retries   *)
(* and polls, any number of downs, with the power pins wired or not.       *)
(***************************************************************************)
EXTENDS A9gDevice, FiniteSetTheorems, TLAPS

ThreadRecord ==
    [pc: PCs, retry_num: 0..INIT_RETRY, phase: 0..Len(Phases), tries: 0..(PollRetry - 1)]

Types ==
    /\ is_init \in BOOLEAN /\ up \in BOOLEAN /\ link_up \in BOOLEAN /\ attached \in BOOLEAN
    /\ initOk \in BOOLEAN /\ torn \in BOOLEAN /\ raced \in BOOLEAN /\ nomem \in BOOLEAN
    /\ app \in {"idle", "setup", "upstatus", "poweroff", "setdown"}
    /\ init \in [InitThreads -> ThreadRecord]
    /\ pins \in [wired: BOOLEAN, key: BOOLEAN, status: BOOLEAN]
    /\ links \in Nat
    /\ downs \in 0..MaxDowns

\* A thread that talks to the modem is in one of the phases.
InPhase == \A t \in InitThreads : init[t].pc = "run" => init[t].phase \in 1..Len(Phases)

\* The power key is held by somebody who waits for the status pin.
KeyHeld ==
    pins.key => \/ app = "poweroff"
                \/ \E t \in InitThreads : init[t].pc \in {"poweron", "poweroff"}

\* Threads that are between their two writes of the flags.
InfoOrStatus(t) == init[t].pc \in {"info", "status"}

\* As long as no two threads write the flags at the same time, the one that does has
\* written is_init last, and with nobody writing the flags agree.
Writes ==
    ~torn =>
      /\ ~Writing => is_init = up
      /\ app \in {"upstatus", "setdown"} =>
           /\ is_init = (app = "upstatus")
           /\ \A t \in InitThreads : ~InfoOrStatus(t)
      /\ \A t \in InitThreads : InfoOrStatus(t) =>
           /\ is_init = (init[t].pc = "info")
           /\ \A v \in InitThreads : InfoOrStatus(v) => v = t

\* The threads that ThreadsBounded counts, and how many more than downs there may be.
Running == {t \in Active : init[t].pc # "status"}
Room == IF app = "setup" \/ (is_init /\ app # "poweroff") THEN 1 ELSE 0

Bound == IsFiniteSet(Running) /\ links + Cardinality(Running) <= downs + Room

\* At most one initialization is under way.
Alone ==
    \A t, v \in InitThreads : init[t].pc # "none" /\ init[v].pc # "none" => t = v

\* What the flags say while thread t is at its place.
FlagsAt(t) ==
    CASE init[t].pc = "none"    -> TRUE
      [] init[t].pc = "created" -> app \in {"setup", "upstatus"}
      [] init[t].pc = "status"  -> app = "idle" /\ up /\ ~is_init
      [] OTHER                  -> app = "idle" /\ up /\ is_init

\* "gprs" is passed.
PastGprs(t) ==
    \/ init[t].pc \in {"success", "info", "link"}
    \/ init[t].pc = "run" /\ init[t].phase > 6

\* What thread t has achieved for the device.
Achieved(t) ==
    /\ PastGprs(t) => attached
    /\ init[t].pc \in {"info", "link"} => initOk

Quiet == \A t \in InitThreads : init[t].pc = "none"

\* The device between and around the initializations.
AppAt ==
    /\ app = "setup" => ~is_init /\ ~up /\ (Quiet => nomem)
    /\ app = "upstatus" => is_init /\ ~up /\ (Quiet => nomem)
    /\ app = "poweroff" => Quiet /\ is_init /\ up
    /\ app = "setdown" => Quiet /\ ~is_init
    /\ app = "idle" /\ Quiet => is_init = up /\ (is_init => initOk \/ nomem)

Calm ==
    /\ Alone
    /\ \A t \in InitThreads : FlagsAt(t) /\ Achieved(t)
    /\ AppAt

\* The inductive invariant. What concerns the key, the writes of the flags and the
\* number of threads holds always; a down that hits an initialization suspends what
\* is said beyond that until the next set_up that finds none.
IInv == Types /\ InPhase /\ KeyHeld /\ Writes /\ Bound /\ (~raced => Calm)

-----------------------------------------------------------------------------
\* The phases that matter to the PDP context, and where they stand.
LEMMA PhaseFacts ==
    /\ Len(Phases) = 11
    /\ Phases[6] = "gprs"
    /\ \A p \in 1..11 : /\ p > 6 => Phases[p] \notin {"reset", "detach", "gprs"}
                        /\ p # 6 => Phases[p] # "gprs"
  <1>1. Len(Phases) = 11 /\ Phases[6] = "gprs"
    BY DEF Phases
  <1>2. ASSUME NEW p \in 1..11, p > 6 PROVE Phases[p] \notin {"reset", "detach", "gprs"}
    <2>1. p = 7 \/ p = 8 \/ p = 9 \/ p = 10 \/ p = 11
      BY <1>2
    <2> QED
      BY <2>1 DEF Phases
  <1>3. ASSUME NEW p \in 1..11, p < 6 PROVE Phases[p] # "gprs"
    <2>1. p = 1 \/ p = 2 \/ p = 3 \/ p = 4 \/ p = 5
      BY <1>3
    <2> QED
      BY <2>1 DEF Phases
  <1> QED
    BY <1>1, <1>2, <1>3

\* A thread that starts, or ends an attempt.
LEMMA ThreadTypes ==
    ASSUME NEW place \in PCs, NEW n \in 0..INIT_RETRY
    PROVE  /\ NoThread \in ThreadRecord
           /\ [NoThread EXCEPT !.pc = place] \in ThreadRecord
           /\ [NoThread EXCEPT !.pc = place].pc = place
           /\ [NoThread EXCEPT !.pc = place, !.retry_num = n] \in ThreadRecord
           /\ [NoThread EXCEPT !.pc = place, !.retry_num = n].pc = place
  <1>1. 0 \in 0..INIT_RETRY /\ 0 \in 0..Len(Phases) /\ 0 \in 0..(PollRetry - 1) /\ "none" \in PCs
    BY RetryAssumption, PhaseFacts DEF PCs
  <1>2. NoThread \in ThreadRecord
    BY <1>1 DEF NoThread, ThreadRecord
  <1> QED
    BY <1>2 DEF ThreadRecord

\* The initial state satisfies the invariant.
LEMMA InitIInv == Init => IInv
  <1> SUFFICES ASSUME Init PROVE IInv
    OBVIOUS
  <1>1. Types
    <2>1. NoThread \in ThreadRecord
      <3>1. "none" \in PCs /\ 0 \in 0..INIT_RETRY
        BY RetryAssumption DEF PCs
      <3> QED
        BY <3>1, ThreadTypes
    <2>2. init \in [InitThreads -> ThreadRecord]
      BY <2>1 DEF Init
    <2>3. links \in Nat /\ downs \in 0..MaxDowns
      BY DownsAssumption DEF Init
    <2> QED
      BY <2>2, <2>3 DEF Init, Types
  <1>2. \A t \in InitThreads : init[t].pc = "none"
    BY DEF Init, NoThread
  <1>3. InPhase /\ KeyHeld
    BY <1>2 DEF InPhase, KeyHeld, Init
  <1>4. Writes
    BY <1>2 DEF Writes, Writing, InfoOrStatus, Init
  <1>5. Bound
    <2>1. Running = {}
      BY <1>2 DEF Running, Active
    <2>2. IsFiniteSet({}) /\ Cardinality({}) = 0
      BY FS_EmptySet
    <2>3. links + 0 <= downs + Room
      BY DEF Init, Room
    <2> QED
      BY <2>1, <2>2, <2>3 DEF Bound
  <1>6. Calm
    <2>1. Alone /\ Quiet
      BY <1>2 DEF Alone, Quiet
    <2>2. \A t \in InitThreads : FlagsAt(t) /\ Achieved(t)
      BY <1>2 DEF FlagsAt, Achieved, PastGprs
    <2>3. AppAt
      BY <2>1, <1>1 DEF Init, AppAt, Types
    <2> QED
      BY <2>1, <2>2, <2>3 DEF Calm
  <1> QED
    BY <1>1, <1>3, <1>4, <1>5, <1>6 DEF IInv

-----------------------------------------------------------------------------
(* Types and places: what every step does to the threads                    *)

\* What the application, the link thread and the module leave of the types.
LEMMA AppTypes ==
    ASSUME Types, InPhase, App \/ LinkCheck \/ ModuleSwitch
    PROVE  Types' /\ InPhase'
  <1> USE RetryAssumption, DownsAssumption, PhaseFacts
  <1>1. CASE SetUp
    <2>1. CASE UNCHANGED init
      BY <1>1, <2>1 DEF Types, InPhase, SetUp, StartInit
    <2>2. ASSUME NEW t \in InitThreads \ Active,
                 init' = [init EXCEPT ![t] = [NoThread EXCEPT !.pc = "created", !.retry_num = INIT_RETRY]]
          PROVE  Types' /\ InPhase'
      <3> DEFINE r == [NoThread EXCEPT !.pc = "created", !.retry_num = INIT_RETRY]
      <3>1. "created" \in PCs /\ INIT_RETRY \in 0..INIT_RETRY
        BY DEF PCs
      <3>2. r \in ThreadRecord /\ r.pc = "created"
        BY <3>1, ThreadTypes
      <3>3. init' = [init EXCEPT ![t] = r]
        BY <2>2
      <3> HIDE DEF r
      <3>4. Types'
        <4>1. init' \in [InitThreads -> ThreadRecord] /\ nomem' \in BOOLEAN /\ raced' \in BOOLEAN
          BY <1>1, <3>2, <3>3 DEF Types, SetUp, StartInit
        <4> QED
          BY <1>1, <4>1 DEF Types, SetUp
      <3>5. InPhase'
        BY <3>2, <3>3 DEF Types, InPhase
      <3> QED
        BY <3>4, <3>5
    <2> QED
      BY <1>1, <2>1, <2>2 DEF SetUp, StartInit
  <1>2. CASE SetUpInit
    BY <1>2 DEF Types, InPhase, SetUpInit, SetInit, Writing
  <1>3. CASE SetUpDone
    BY <1>3 DEF Types, InPhase, ThreadRecord, PCs, SetUpDone
  <1>4. CASE SetDown
    <2>1. downs' \in 0..MaxDowns /\ raced' \in BOOLEAN
      BY <1>4 DEF Types, SetDown
    <2>2. pins' \in [wired: BOOLEAN, key: BOOLEAN, status: BOOLEAN] /\ is_init' \in BOOLEAN /\ torn' \in BOOLEAN
      BY <1>4 DEF Types, SetDown, HoldKey, SetInit, Writing
    <2>3. app' \in {"idle", "setup", "upstatus", "poweroff", "setdown"}
      BY <1>4 DEF SetDown
    <2> QED
      BY <1>4, <2>1, <2>2, <2>3 DEF Types, InPhase, SetDown
  <1>5. CASE SetDownOff
    BY <1>5 DEF Types, InPhase, SetDownOff, ReleaseKey, SetInit, Writing
  <1>6. CASE SetDownDone
    BY <1>6 DEF Types, InPhase, SetDownDone
  <1>7. CASE LinkCheck
    BY <1>7 DEF Types, InPhase, LinkCheck
  <1>8. CASE ModuleSwitch
    BY <1>8 DEF Types, InPhase, ModuleSwitch
  <1> QED
    BY <1>1, <1>2, <1>3, <1>4, <1>5, <1>6, <1>7, <1>8 DEF App

\* Thread t steps; the others stay where they are.
Stepped(t) ==
    /\ init' \in [InitThreads -> ThreadRecord]
    /\ \A u \in InitThreads \ {t} : init'[u] = init[u]

\* A thread whose record is replaced, and the others.
LEMMA Replaced ==
    ASSUME Types, NEW t \in InitThreads, NEW r \in ThreadRecord, init' = [init EXCEPT ![t] = r]
    PROVE  Stepped(t) /\ init'[t] = r
  BY DEF Types, Stepped

\* What the end of an attempt leaves: another one, or the failure of the whole.
LEMMA AttemptOverMoves ==
    ASSUME Types, NEW t \in InitThreads, AttemptOver(t)
    PROVE  Stepped(t) /\ init'[t].pc \in {"sleep", "failure"}
  <1>1. init[t].retry_num \in 0..INIT_RETRY
    BY DEF Types, ThreadRecord
  <1>2. CASE init[t].retry_num > 1
    <2>1. "sleep" \in PCs /\ init[t].retry_num - 1 \in 0..INIT_RETRY
      BY <1>1, <1>2, RetryAssumption DEF PCs
    <2> DEFINE r == [NoThread EXCEPT !.pc = "sleep", !.retry_num = init[t].retry_num - 1]
    <2>2. init' = [init EXCEPT ![t] = r]
      BY <1>2 DEF AttemptOver
    <2>3. r \in ThreadRecord /\ r.pc = "sleep"
      BY <2>1, ThreadTypes
    <2> HIDE DEF r
    <2> QED
      BY <2>2, <2>3, Replaced
  <1>3. CASE ~(init[t].retry_num > 1)
    <2>1. "failure" \in PCs /\ 0 \in 0..INIT_RETRY
      BY RetryAssumption DEF PCs
    <2> DEFINE r == [NoThread EXCEPT !.pc = "failure"]
    <2>2. init' = [init EXCEPT ![t] = r]
      BY <1>3 DEF AttemptOver
    <2>3. r \in ThreadRecord /\ r.pc = "failure"
      BY <2>1, ThreadTypes
    <2> HIDE DEF r
    <2> QED
      BY <2>2, <2>3, Replaced
  <1> QED
    BY <1>2, <1>3

\* The same with the power off before it.
LEMMA AttemptFailedMoves ==
    ASSUME Types, NEW t \in InitThreads, AttemptFailed(t)
    PROVE  /\ Stepped(t)
           /\ init'[t].pc \in {"poweroff", "sleep", "failure"}
           /\ init'[t].pc # "poweroff" => pins' = pins
           /\ pins' \in [wired: BOOLEAN, key: BOOLEAN, status: BOOLEAN]
  <1>1. CASE PowerOffWaits
    <2>1. "poweroff" \in PCs /\ init[t].retry_num \in 0..INIT_RETRY
      BY DEF PCs, Types, ThreadRecord
    <2> DEFINE r == [NoThread EXCEPT !.pc = "poweroff", !.retry_num = init[t].retry_num]
    <2>2. init' = [init EXCEPT ![t] = r] /\ HoldKey
      BY <1>1 DEF AttemptFailed
    <2>3. r \in ThreadRecord /\ r.pc = "poweroff"
      BY <2>1, ThreadTypes
    <2> HIDE DEF r
    <2> QED
      BY <2>2, <2>3, Replaced DEF HoldKey, Types
  <1>2. CASE ~PowerOffWaits
    <2>1. AttemptOver(t) /\ pins' = pins
      BY <1>2 DEF AttemptFailed
    <2> QED
      BY <2>1, AttemptOverMoves DEF Types
  <1> QED
    BY <1>1, <1>2

\* Where each step of an initialization thread takes it.
LEMMA NoMemMoves == ASSUME Types, NEW t \in InitThreads, InitNoMem(t)
                    PROVE  Stepped(t) /\ init'[t].pc = "none"
  <1>1. "none" \in PCs /\ 0 \in 0..INIT_RETRY
    BY RetryAssumption DEF PCs
  <1>2. NoThread \in ThreadRecord /\ NoThread.pc = "none"
    BY <1>1, ThreadTypes DEF NoThread
  <1> QED
    BY <1>2, Replaced DEF InitNoMem

\* The module is on, or has been switched on.
LEMMA RunMoves == ASSUME Types, NEW t \in InitThreads,
                         init' = [init EXCEPT ![t].pc = "run", ![t].phase = 1]
                  PROVE  Stepped(t) /\ init'[t].pc = "run" /\ init'[t].phase = 1
  <1> DEFINE r == [init[t] EXCEPT !.pc = "run", !.phase = 1]
  <1>1. init[t] \in ThreadRecord /\ 1 \in 0..Len(Phases) /\ "run" \in PCs
    BY PhaseFacts DEF Types, PCs
  <1>2. r \in ThreadRecord /\ r.pc = "run" /\ r.phase = 1
    BY <1>1 DEF ThreadRecord
  <1>3. init' = [init EXCEPT ![t] = r]
    OBVIOUS
  <1> HIDE DEF r
  <1> QED
    BY <1>2, <1>3, Replaced

\* Only the place changes.
LEMMA PlaceMoves == ASSUME Types, NEW t \in InitThreads, NEW place \in PCs,
                           init' = [init EXCEPT ![t].pc = place]
                    PROVE  Stepped(t) /\ init'[t].pc = place
  <1> DEFINE r == [init[t] EXCEPT !.pc = place]
  <1>1. init[t] \in ThreadRecord
    BY DEF Types
  <1>2. r \in ThreadRecord /\ r.pc = place
    BY <1>1 DEF ThreadRecord
  <1>3. init' = [init EXCEPT ![t] = r]
    OBVIOUS
  <1> HIDE DEF r
  <1> QED
    BY <1>2, <1>3, Replaced

\* Power on.
LEMMA StartMoves == ASSUME Types, NEW t \in InitThreads, InitStart(t)
                    PROVE  /\ Stepped(t)
                           /\ \/ init'[t].pc = "poweron" /\ HoldKey
                              \/ init'[t].pc = "run" /\ init'[t].phase = 1 /\ pins' = pins
  <1>1. "poweron" \in PCs
    BY DEF PCs
  <1>2. CASE PowerOnWaits
    <2>1. init' = [init EXCEPT ![t].pc = "poweron"] /\ HoldKey
      BY <1>2 DEF InitStart
    <2> QED
      BY <1>1, <2>1, PlaceMoves
  <1>3. CASE ~PowerOnWaits
    <2>1. init' = [init EXCEPT ![t].pc = "run", ![t].phase = 1] /\ pins' = pins
      BY <1>3 DEF InitStart
    <2> QED
      BY <2>1, RunMoves
  <1> QED
    BY <1>2, <1>3

\* The next phase, or the end of the attempt.
LEMMA PassMoves == ASSUME Types, InPhase, NEW t \in InitThreads, InitPass(t)
                   PROVE  /\ Stepped(t)
                          /\ init[t].phase \in 1..11
                          /\ \/ /\ init'[t].pc = "run"
                                /\ init'[t].phase = init[t].phase + 1 /\ init'[t].phase \in 1..11
                             \/ init'[t].pc = "success" /\ init[t].phase = 11
  <1> DEFINE old == init[t]
             next == [old EXCEPT !.phase = old.phase + 1, !.tries = 0]
  <1>1. old \in ThreadRecord /\ old.pc = "run" /\ old.phase \in 1..11 /\ Len(Phases) = 11
    BY PhaseFacts DEF Types, InPhase, InitPass
  <1>2. CASE old.phase < 11
    <2>1. 0 \in 0..(PollRetry - 1) /\ old.phase + 1 \in 0..Len(Phases)
      BY <1>1, <1>2, RetryAssumption
    <2>2. next \in ThreadRecord
      BY <2>1, <1>1 DEF ThreadRecord
    <2>3. next.pc = "run" /\ next.phase = old.phase + 1
      BY <1>1 DEF ThreadRecord
    <2>4. init' = [init EXCEPT ![t] = next]
      BY <1>1, <1>2 DEF InitPass
    <2> HIDE DEF next
    <2>5. Stepped(t) /\ init'[t] = next
      BY <2>2, <2>4, Replaced
    <2> QED
      BY <2>3, <2>5, <1>1, <1>2
  <1>3. CASE old.phase = 11
    <2>1. "success" \in PCs /\ 0 \in 0..INIT_RETRY
      BY RetryAssumption DEF PCs
    <2> DEFINE r == [NoThread EXCEPT !.pc = "success"]
    <2>2. r \in ThreadRecord /\ r.pc = "success"
      BY <2>1, ThreadTypes
    <2>3. init' = [init EXCEPT ![t] = r]
      BY <1>1, <1>3 DEF InitPass
    <2> HIDE DEF r
    <2> QED
      BY <2>2, <2>3, <1>1, <1>3, Replaced
  <1> QED
    BY <1>1, <1>2, <1>3

\* The same phase again, or the end of the attempt.
LEMMA PollMoves == ASSUME Types, InPhase, NEW t \in InitThreads, InitPoll(t)
                   PROVE  /\ Stepped(t)
                          /\ \/ /\ init'[t].pc = "run" /\ init'[t].phase = init[t].phase
                                /\ Effect(PhaseOf(t)) /\ pins' = pins
                             \/ AttemptFailed(t) /\ attached' = attached
  <1>1. CASE init[t].tries + 1 < PollRetry
    <2> DEFINE r == [init[t] EXCEPT !.tries = @ + 1]
    <2>1. init[t] \in ThreadRecord /\ init[t].tries + 1 \in 0..(PollRetry - 1)
      BY <1>1, RetryAssumption DEF Types, ThreadRecord
    <2>2. r \in ThreadRecord /\ r.pc = "run" /\ r.phase = init[t].phase
      BY <2>1 DEF ThreadRecord, InitPoll
    <2>3. init' = [init EXCEPT ![t] = r] /\ Effect(PhaseOf(t)) /\ pins' = pins
      BY <1>1 DEF InitPoll
    <2> HIDE DEF r
    <2> QED
      BY <2>2, <2>3, Replaced
  <1>2. CASE ~(init[t].tries + 1 < PollRetry)
    <2>1. AttemptFailed(t) /\ attached' = attached
      BY <1>2 DEF InitPoll
    <2> QED
      BY <2>1, AttemptFailedMoves
  <1> QED
    BY <1>1, <1>2

\* The last steps: is_init, the interface, the link thread.
LEMMA LastMoves ==
    ASSUME Types, NEW t \in InitThreads
    PROVE  /\ SuccessInit(t) => Stepped(t) /\ init'[t].pc = "info"
           /\ SuccessInfo(t) => Stepped(t) /\ init'[t].pc = "link"
           /\ SuccessLink(t) => Stepped(t) /\ init'[t].pc = "none"
           /\ FailureInit(t) => Stepped(t) /\ init'[t].pc = "status"
           /\ FailureStatus(t) => Stepped(t) /\ init'[t].pc = "none"
  <1>1. {"none", "info", "link", "status"} \subseteq PCs /\ 0 \in 0..INIT_RETRY
    BY RetryAssumption DEF PCs
  <1>2. NoThread \in ThreadRecord /\ NoThread.pc = "none"
    BY <1>1, ThreadTypes DEF NoThread
  <1>3. SuccessInit(t) => Stepped(t) /\ init'[t].pc = "info"
    BY <1>1, PlaceMoves DEF SuccessInit
  <1>4. SuccessInfo(t) => Stepped(t) /\ init'[t].pc = "link"
    BY <1>1, PlaceMoves DEF SuccessInfo
  <1>5. SuccessLink(t) => Stepped(t) /\ init'[t].pc = "none"
    BY <1>2, Replaced DEF SuccessLink
  <1>6. FailureInit(t) => Stepped(t) /\ init'[t].pc = "status"
    BY <1>1, PlaceMoves DEF FailureInit
  <1>7. FailureStatus(t) => Stepped(t) /\ init'[t].pc = "none"
    BY <1>2, Replaced DEF FailureStatus
  <1> QED
    BY <1>3, <1>4, <1>5, <1>6, <1>7

\* A step of an initialization thread keeps the types.
LEMMA StepTypes ==
    ASSUME Types, InPhase, NEW t \in InitThreads, InitStep(t)
    PROVE  Types' /\ InPhase' /\ Stepped(t)
  <1>1. CASE InitNoMem(t)
    <2>1. Stepped(t) /\ init'[t].pc = "none"
      BY <1>1, NoMemMoves
    <2>2. Types'
      BY <1>1, <2>1 DEF Types, Stepped, InitNoMem
    <2>3. InPhase'
      BY <2>1 DEF InPhase, Stepped
    <2> QED
      BY <2>1, <2>2, <2>3
  <1>2. CASE InitStart(t)
    <2>1. Stepped(t) /\ (init'[t].pc = "poweron" \/ (init'[t].pc = "run" /\ init'[t].phase = 1))
      BY <1>2, StartMoves
    <2>2. pins' \in [wired: BOOLEAN, key: BOOLEAN, status: BOOLEAN]
      BY <1>2, StartMoves DEF HoldKey, Types
    <2>3. Types'
      BY <1>2, <2>1, <2>2 DEF Types, Stepped, InitStart
    <2>4. InPhase'
      BY <2>1, PhaseFacts DEF InPhase, Stepped
    <2> QED
      BY <2>1, <2>3, <2>4
  <1>3. CASE PowerOnDone(t)
    <2>1. Stepped(t) /\ init'[t].pc = "run" /\ init'[t].phase = 1
      BY <1>3, RunMoves DEF PowerOnDone
    <2>2. Types'
      BY <1>3, <2>1 DEF Types, Stepped, PowerOnDone, ReleaseKey
    <2>3. InPhase'
      BY <2>1, PhaseFacts DEF InPhase, Stepped
    <2> QED
      BY <2>1, <2>2, <2>3
  <1>4. CASE InitPass(t)
    <2>1. attached' \in BOOLEAN
      BY <1>4 DEF InitPass, Effect, Types
    <2>2. Stepped(t) /\ (init'[t].pc = "success" \/ (init'[t].pc = "run" /\ init'[t].phase \in 1..11))
      BY <1>4, PassMoves
    <2>3. Types'
      BY <1>4, <2>1, <2>2 DEF Types, Stepped, InitPass
    <2>4. InPhase'
      BY <2>2, PhaseFacts DEF InPhase, Stepped
    <2> QED
      BY <2>2, <2>3, <2>4
  <1>5. CASE InitFail(t)
    <2>1. AttemptFailed(t) /\ UNCHANGED <<is_init, up, link_up, app, links, attached, downs, initOk, torn, raced, nomem>>
      BY <1>5 DEF InitFail
    <2>2. /\ Stepped(t) /\ init'[t].pc # "run"
          /\ pins' \in [wired: BOOLEAN, key: BOOLEAN, status: BOOLEAN]
      BY <2>1, AttemptFailedMoves
    <2> QED
      BY <2>1, <2>2 DEF Types, InPhase, Stepped
  <1>6. CASE InitPoll(t)
    <2>1. attached' \in BOOLEAN
      BY <1>6, PollMoves DEF Effect, Types
    <2>2. UNCHANGED <<is_init, up, link_up, app, links, downs, initOk, torn, raced, nomem>> /\ init[t].pc = "run"
      BY <1>6 DEF InitPoll
    <2>3. CASE AttemptFailed(t)
      <3>1. /\ Stepped(t) /\ init'[t].pc # "run"
            /\ pins' \in [wired: BOOLEAN, key: BOOLEAN, status: BOOLEAN]
        BY <2>3, AttemptFailedMoves
      <3> QED
        BY <2>1, <2>2, <3>1 DEF Types, InPhase, Stepped
    <2>4. CASE ~AttemptFailed(t)
      <3>1. Stepped(t) /\ init'[t].phase = init[t].phase /\ pins' = pins
        BY <1>6, <2>4, PollMoves
      <3> QED
        BY <2>1, <2>2, <3>1 DEF Types, InPhase, Stepped
    <2> QED
      BY <2>3, <2>4
  <1>7. CASE PowerOffDone(t)
    <2>1. Stepped(t) /\ init'[t].pc \in {"sleep", "failure"}
      BY <1>7, AttemptOverMoves DEF PowerOffDone
    <2>2. Types'
      BY <1>7, <2>1 DEF Types, Stepped, PowerOffDone, ReleaseKey
    <2>3. InPhase'
      BY <2>1 DEF InPhase, Stepped
    <2> QED
      BY <2>1, <2>2, <2>3
  <1>8. CASE SuccessInit(t)
    <2>1. Stepped(t) /\ init'[t].pc = "info"
      BY <1>8, LastMoves
    <2>2. Types'
      BY <1>8, <2>1 DEF Types, Stepped, SuccessInit, SetInit, Writing
    <2>3. InPhase'
      BY <2>1 DEF InPhase, Stepped
    <2> QED
      BY <2>1, <2>2, <2>3
  <1>9. CASE SuccessInfo(t)
    <2>1. Stepped(t) /\ init'[t].pc = "link"
      BY <1>9, LastMoves
    <2>2. Types'
      BY <1>9, <2>1 DEF Types, Stepped, SuccessInfo
    <2>3. InPhase'
      BY <2>1 DEF InPhase, Stepped
    <2> QED
      BY <2>1, <2>2, <2>3
  <1>10. CASE SuccessLink(t)
    <2>1. Stepped(t) /\ init'[t].pc = "none"
      BY <1>10, LastMoves
    <2>2. Types'
      BY <1>10, <2>1 DEF Types, Stepped, SuccessLink
    <2>3. InPhase'
      BY <2>1 DEF InPhase, Stepped
    <2> QED
      BY <2>1, <2>2, <2>3
  <1>11. CASE FailureInit(t)
    <2>1. Stepped(t) /\ init'[t].pc = "status"
      BY <1>11, LastMoves
    <2>2. Types'
      BY <1>11, <2>1 DEF Types, Stepped, FailureInit, SetInit, Writing
    <2>3. InPhase'
      BY <2>1 DEF InPhase, Stepped
    <2> QED
      BY <2>1, <2>2, <2>3
  <1>12. CASE FailureStatus(t)
    <2>1. Stepped(t) /\ init'[t].pc = "none"
      BY <1>12, LastMoves
    <2>2. Types'
      BY <1>12, <2>1 DEF Types, Stepped, FailureStatus
    <2>3. InPhase'
      BY <2>1 DEF InPhase, Stepped
    <2> QED
      BY <2>1, <2>2, <2>3
  <1> QED
    BY <1>1, <1>2, <1>3, <1>4, <1>5, <1>6, <1>7, <1>8, <1>9, <1>10, <1>11, <1>12 DEF InitStep

-----------------------------------------------------------------------------
(* The power key                                                            *)

\* Who does not wait for the status pin leaves the key as it is.
LEMMA KeyKept ==
    ASSUME KeyHeld, NEW t \in InitThreads, Stepped(t), app' = app, pins' = pins,
           init[t].pc \notin {"poweron", "poweroff"}
    PROVE  KeyHeld'
  BY DEF KeyHeld, Stepped

\* The key is held by somebody who waits, whatever the threads do.
LEMMA StepKey ==
    ASSUME Types, InPhase, KeyHeld, NEW t \in InitThreads, InitStep(t)
    PROVE  KeyHeld'
  <1>0. Stepped(t)
    BY StepTypes
  <1>1. CASE InitNoMem(t)
    BY <1>0, <1>1, KeyKept DEF InitNoMem
  <1>2. CASE InitStart(t)
    <2>1. CASE init'[t].pc = "poweron"
      BY <2>1 DEF KeyHeld
    <2>2. CASE init'[t].pc # "poweron"
      <3>1. pins' = pins
        BY <1>2, <2>2, StartMoves
      <3> QED
        BY <1>0, <1>2, <3>1, KeyKept DEF InitStart
    <2> QED
      BY <2>1, <2>2
  <1>3. CASE PowerOnDone(t)
    BY <1>3 DEF PowerOnDone, ReleaseKey, KeyHeld, Types
  <1>4. CASE InitPass(t)
    BY <1>0, <1>4, KeyKept DEF InitPass
  <1>5. ASSUME AttemptFailed(t), app' = app, init[t].pc = "run" PROVE KeyHeld'
    <2>1. CASE init'[t].pc = "poweroff"
      BY <2>1 DEF KeyHeld
    <2>2. CASE init'[t].pc # "poweroff"
      <3>1. pins' = pins
        BY <1>5, <2>2, AttemptFailedMoves
      <3> QED
        BY <1>0, <1>5, <3>1, KeyKept
    <2> QED
      BY <2>1, <2>2
  <1>6. CASE InitFail(t)
    BY <1>5, <1>6 DEF InitFail
  <1>7. CASE InitPoll(t)
    <2>1. init[t].pc = "run" /\ app' = app
      BY <1>7 DEF InitPoll
    <2>2. CASE AttemptFailed(t)
      BY <1>5, <2>1, <2>2
    <2>3. CASE ~AttemptFailed(t)
      <3>1. pins' = pins
        BY <1>7, <2>3, PollMoves
      <3> QED
        BY <1>0, <2>1, <3>1, KeyKept
    <2> QED
      BY <2>2, <2>3
  <1>8. CASE PowerOffDone(t)
    BY <1>8 DEF PowerOffDone, ReleaseKey, KeyHeld, Types
  <1>9. CASE SuccessInit(t)
    BY <1>0, <1>9, KeyKept DEF SuccessInit
  <1>10. CASE SuccessInfo(t)
    BY <1>0, <1>10, KeyKept DEF SuccessInfo
  <1>11. CASE SuccessLink(t)
    BY <1>0, <1>11, KeyKept DEF SuccessLink
  <1>12. CASE FailureInit(t)
    BY <1>0, <1>12, KeyKept DEF FailureInit
  <1>13. CASE FailureStatus(t)
    BY <1>0, <1>13, KeyKept DEF FailureStatus
  <1> QED
    BY <1>1, <1>2, <1>3, <1>4, <1>6, <1>7, <1>8, <1>9, <1>10, <1>11, <1>12, <1>13 DEF InitStep

\* A new thread, and the others.
LEMMA StartMovesOne ==
    ASSUME Types, NEW t \in InitThreads \ Active,
           init' = [init EXCEPT ![t] = [NoThread EXCEPT !.pc = "created", !.retry_num = INIT_RETRY]]
    PROVE  init[t].pc = "none" /\ Stepped(t) /\ init'[t].pc = "created"
  <1> DEFINE r == [NoThread EXCEPT !.pc = "created", !.retry_num = INIT_RETRY]
  <1>1. "created" \in PCs /\ INIT_RETRY \in 0..INIT_RETRY
    BY RetryAssumption DEF PCs
  <1>2. r \in ThreadRecord /\ r.pc = "created"
    BY <1>1, ThreadTypes
  <1>3. init' = [init EXCEPT ![t] = r]
    OBVIOUS
  <1> HIDE DEF r
  <1> QED
    BY <1>2, <1>3, Replaced DEF Active

\* What set_up does to the threads: nothing, or one more.
LEMMA SetUpMoves ==
    ASSUME Types, SetUp
    PROVE  \/ init' = init /\ nomem' = TRUE
           \/ \E t \in InitThreads : init[t].pc = "none" /\ Stepped(t) /\ init'[t].pc = "created"
  <1>1. ASSUME NEW t \in InitThreads \ Active,
               init' = [init EXCEPT ![t] = [NoThread EXCEPT !.pc = "created", !.retry_num = INIT_RETRY]]
        PROVE  init[t].pc = "none" /\ Stepped(t) /\ init'[t].pc = "created"
    BY <1>1, StartMovesOne
  <1> QED
    BY <1>1 DEF SetUp, StartInit

\* The places after the caller of set_up has gone on.
LEMMA SetUpDoneMoves ==
    ASSUME Types, SetUpDone
    PROVE  \A u \in InitThreads :
             /\ init[u].pc = "created" => init'[u].pc = "sleep"
             /\ init[u].pc # "created" => init'[u] = init[u]
  BY DEF Types, ThreadRecord, SetUpDone

\* The application holds the key only while it waits, and the module does not touch it.
LEMMA AppKey ==
    ASSUME Types, KeyHeld, App \/ LinkCheck \/ ModuleSwitch
    PROVE  KeyHeld'
  <1>1. CASE SetUp
    <2>1. pins' = pins /\ app = "idle"
      BY <1>1 DEF SetUp
    <2>2. CASE init' = init
      BY <2>1, <2>2 DEF KeyHeld
    <2>3. ASSUME NEW t \in InitThreads, init[t].pc = "none", Stepped(t) PROVE KeyHeld'
      BY <2>1, <2>3 DEF KeyHeld, Stepped
    <2> QED
      BY <1>1, <2>2, <2>3, SetUpMoves
  <1>2. CASE SetUpInit
    BY <1>2 DEF KeyHeld, SetUpInit
  <1>3. CASE SetUpDone
    <2>1. pins' = pins /\ app = "upstatus"
      BY <1>3 DEF SetUpDone
    <2> QED
      BY <1>3, <2>1, SetUpDoneMoves DEF KeyHeld
  <1>4. CASE SetDown
    BY <1>4 DEF KeyHeld, SetDown
  <1>5. CASE SetDownOff
    BY <1>5 DEF KeyHeld, SetDownOff, ReleaseKey, Types
  <1>6. CASE SetDownDone
    BY <1>6 DEF KeyHeld, SetDownDone
  <1>7. CASE LinkCheck
    BY <1>7 DEF KeyHeld, LinkCheck
  <1>8. CASE ModuleSwitch
    BY <1>8 DEF KeyHeld, ModuleSwitch, Types
  <1> QED
    BY <1>1, <1>2, <1>3, <1>4, <1>5, <1>6, <1>7, <1>8 DEF App

-----------------------------------------------------------------------------
(* The writes of the flags                                                  *)

\* A thread that writes neither flag.
LEMMA WritesKept ==
    ASSUME Writes, NEW t \in InitThreads, Stepped(t), UNCHANGED <<is_init, up, app, torn>>,
           init[t].pc \notin {"info", "status"}, init'[t].pc \notin {"info", "status"}
    PROVE  Writes'
  <1>1. \A u \in InitThreads : InfoOrStatus(u)' = InfoOrStatus(u) /\ (InfoOrStatus(u) => init'[u] = init[u])
    BY DEF InfoOrStatus, Stepped
  <1>2. Writing' = Writing
    BY DEF Writing, Stepped
  <1> QED
    BY <1>1, <1>2 DEF Writes

\* The first of the two writes: torn says whether another writer is on its way.
LEMMA WritesBegin ==
    ASSUME Writes, NEW t \in InitThreads, Stepped(t), UNCHANGED <<up, app>>,
           NEW value \in BOOLEAN, SetInit(value),
           init[t].pc \notin {"info", "status"},
           init'[t].pc = IF value THEN "info" ELSE "status"
    PROVE  Writes'
  <1> SUFFICES ASSUME ~torn' PROVE Writes'
    BY DEF Writes
  <1>1. ~Writing /\ is_init' = value
    BY DEF SetInit
  <1>2. InfoOrStatus(t)' /\ \A u \in InitThreads \ {t} : ~InfoOrStatus(u)'
    BY <1>1 DEF Writing, InfoOrStatus, Stepped
  <1>3. Writing' /\ app' \notin {"upstatus", "setdown"}
    BY <1>1, <1>2 DEF Writing, InfoOrStatus
  <1> QED
    BY <1>1, <1>2, <1>3 DEF Writes

\* The second of the two writes.
LEMMA WritesEnd ==
    ASSUME Writes, NEW t \in InitThreads, Stepped(t), UNCHANGED <<is_init, app, torn>>,
           init[t].pc \in {"info", "status"}, init'[t].pc \notin {"info", "status"},
           up' = (init[t].pc = "info")
    PROVE  Writes'
  <1> SUFFICES ASSUME ~torn PROVE Writes'
    BY DEF Writes
  <1>1. /\ is_init = (init[t].pc = "info")
        /\ \A u \in InitThreads : InfoOrStatus(u) => u = t
        /\ app \notin {"upstatus", "setdown"}
    BY DEF Writes, InfoOrStatus
  <1>2. \A u \in InitThreads : ~InfoOrStatus(u)'
    BY <1>1 DEF InfoOrStatus, Stepped
  <1> QED
    BY <1>1, <1>2 DEF Writes, Writing, InfoOrStatus

\* The flags are written as Writes says, whatever the threads do.
LEMMA StepWrites ==
    ASSUME Types, InPhase, Writes, NEW t \in InitThreads, InitStep(t)
    PROVE  Writes'
  <1>0. Stepped(t)
    BY StepTypes
  <1>1. CASE InitNoMem(t)
    BY <1>0, <1>1, WritesKept, NoMemMoves DEF InitNoMem
  <1>2. CASE InitStart(t)
    <2>1. init'[t].pc \in {"poweron", "run"}
      BY <1>2, StartMoves
    <2> QED
      BY <1>0, <1>2, <2>1, WritesKept DEF InitStart
  <1>3. CASE PowerOnDone(t)
    <2>1. init'[t].pc = "run"
      BY <1>3, RunMoves DEF PowerOnDone
    <2> QED
      BY <1>0, <1>3, <2>1, WritesKept DEF PowerOnDone
  <1>4. CASE InitPass(t)
    <2>1. init'[t].pc \in {"run", "success"}
      BY <1>4, PassMoves
    <2> QED
      BY <1>0, <1>4, <2>1, WritesKept DEF InitPass
  <1>5. CASE InitFail(t)
    <2>1. init'[t].pc \in {"poweroff", "sleep", "failure"}
      BY <1>5, AttemptFailedMoves DEF InitFail
    <2> QED
      BY <1>0, <1>5, <2>1, WritesKept DEF InitFail
  <1>6. CASE InitPoll(t)
    <2>1. init'[t].pc \in {"run", "poweroff", "sleep", "failure"}
      BY <1>6, PollMoves, AttemptFailedMoves
    <2>2. init[t].pc = "run" /\ UNCHANGED <<is_init, up, app, torn>>
      BY <1>6 DEF InitPoll
    <2> QED
      BY <1>0, <2>1, <2>2, WritesKept
  <1>7. CASE PowerOffDone(t)
    <2>1. init'[t].pc \in {"sleep", "failure"}
      BY <1>7, AttemptOverMoves DEF PowerOffDone
    <2> QED
      BY <1>0, <1>7, <2>1, WritesKept DEF PowerOffDone
  <1>8. CASE SuccessInit(t)
    <2>1. init'[t].pc = IF TRUE THEN "info" ELSE "status"
      BY <1>8, LastMoves
    <2>2. init[t].pc = "success" /\ SetInit(TRUE) /\ UNCHANGED <<up, app>>
      BY <1>8 DEF SuccessInit
    <2> QED
      BY <1>0, <2>1, <2>2, WritesBegin
  <1>9. CASE SuccessInfo(t)
    <2>1. init'[t].pc = "link"
      BY <1>9, LastMoves
    <2> QED
      BY <1>0, <1>9, <2>1, WritesEnd DEF SuccessInfo
  <1>10. CASE SuccessLink(t)
    <2>1. init'[t].pc = "none"
      BY <1>10, LastMoves
    <2> QED
      BY <1>0, <1>10, <2>1, WritesKept DEF SuccessLink
  <1>11. CASE FailureInit(t)
    <2>1. init'[t].pc = IF FALSE THEN "info" ELSE "status"
      BY <1>11, LastMoves
    <2>2. init[t].pc = "failure" /\ SetInit(FALSE) /\ UNCHANGED <<up, app>>
      BY <1>11 DEF FailureInit
    <2> QED
      BY <1>0, <2>1, <2>2, WritesBegin
  <1>12. CASE FailureStatus(t)
    <2>1. init'[t].pc = "none"
      BY <1>12, LastMoves
    <2> QED
      BY <1>0, <1>12, <2>1, WritesEnd DEF FailureStatus
  <1> QED
    BY <1>1, <1>2, <1>3, <1>4, <1>5, <1>6, <1>7, <1>8, <1>9, <1>10, <1>11, <1>12 DEF InitStep

\* The same for a writer that is the application.
LEMMA AppWritesBegin ==
    ASSUME Writes, init' = init, up' = up, NEW value \in BOOLEAN, SetInit(value),
           app' = IF value THEN "upstatus" ELSE "setdown"
    PROVE  Writes'
  <1> SUFFICES ASSUME ~torn' PROVE Writes'
    BY DEF Writes
  <1>1. ~Writing /\ is_init' = value
    BY DEF SetInit
  <1>2. \A u \in InitThreads : ~InfoOrStatus(u)'
    BY <1>1 DEF Writing, InfoOrStatus
  <1>3. Writing' /\ is_init' = (app' = "upstatus")
    BY <1>1 DEF Writing
  <1> QED
    BY <1>2, <1>3 DEF Writes

\* What the application, the link thread and the module do about the flags.
LEMMA AppFlags ==
    ASSUME Types, Writes, App \/ LinkCheck \/ ModuleSwitch
    PROVE  Writes'
  <1>1. CASE SetUp
    <2>1. app = "idle" /\ app' = "setup" /\ UNCHANGED <<is_init, up, torn>>
      BY <1>1 DEF SetUp
    <2>2. \A u \in InitThreads : InfoOrStatus(u)' = InfoOrStatus(u) /\ (InfoOrStatus(u) => init'[u] = init[u])
      <3>1. CASE init' = init
        BY <3>1 DEF InfoOrStatus
      <3>2. ASSUME NEW t \in InitThreads, init[t].pc = "none", Stepped(t), init'[t].pc = "created",
                   NEW u \in InitThreads
            PROVE  InfoOrStatus(u)' = InfoOrStatus(u) /\ (InfoOrStatus(u) => init'[u] = init[u])
        BY <3>2 DEF InfoOrStatus, Stepped
      <3> QED
        BY <1>1, <3>1, <3>2, SetUpMoves
    <2>3. Writing' = Writing
      BY <2>1, <2>2 DEF Writing, InfoOrStatus
    <2> QED
      BY <2>1, <2>2, <2>3 DEF Writes
  <1>2. CASE SetUpInit
    <2>1. init' = init /\ up' = up /\ SetInit(TRUE) /\ app' = IF TRUE THEN "upstatus" ELSE "setdown"
      BY <1>2 DEF SetUpInit
    <2> QED
      BY <2>1, AppWritesBegin
  <1>3. CASE SetUpDone
    <2> SUFFICES ASSUME ~torn PROVE Writes'
      BY <1>3 DEF Writes, SetUpDone
    <2>1. app = "upstatus" /\ app' = "idle" /\ is_init' = is_init /\ up' = TRUE
      BY <1>3 DEF SetUpDone
    <2>2. is_init /\ \A u \in InitThreads : ~InfoOrStatus(u)
      BY <2>1 DEF Writes
    <2>3. \A u \in InitThreads : ~InfoOrStatus(u)'
      BY <1>3, <2>2, SetUpDoneMoves DEF InfoOrStatus
    <2> QED
      BY <2>1, <2>2, <2>3 DEF Writes, Types
  <1>4. CASE SetDown
    <2>1. init' = init /\ up' = up /\ app = "idle"
      BY <1>4 DEF SetDown
    <2>2. CASE PowerOffWaits
      <3>1. app' = "poweroff" /\ UNCHANGED <<is_init, torn>>
        BY <1>4, <2>2 DEF SetDown
      <3> QED
        BY <2>1, <3>1 DEF Writes, Writing, InfoOrStatus
    <2>3. CASE ~PowerOffWaits
      <3>1. SetInit(FALSE) /\ app' = IF FALSE THEN "upstatus" ELSE "setdown"
        BY <1>4, <2>3 DEF SetDown
      <3> QED
        BY <2>1, <3>1, AppWritesBegin
    <2> QED
      BY <2>2, <2>3
  <1>5. CASE SetDownOff
    <2>1. init' = init /\ up' = up /\ SetInit(FALSE) /\ app' = IF FALSE THEN "upstatus" ELSE "setdown"
      BY <1>5 DEF SetDownOff
    <2> QED
      BY <2>1, AppWritesBegin
  <1>6. CASE SetDownDone
    <2> SUFFICES ASSUME ~torn PROVE Writes'
      BY <1>6 DEF Writes, SetDownDone
    <2>1. app = "setdown" /\ app' = "idle" /\ is_init' = is_init /\ up' = FALSE /\ init' = init
      BY <1>6 DEF SetDownDone
    <2>2. ~is_init /\ \A u \in InitThreads : ~InfoOrStatus(u)
      BY <2>1 DEF Writes
    <2> QED
      BY <2>1, <2>2 DEF Writes, InfoOrStatus
  <1>7. CASE LinkCheck
    BY <1>7 DEF Writes, Writing, InfoOrStatus, LinkCheck
  <1>8. CASE ModuleSwitch
    BY <1>8 DEF Writes, Writing, InfoOrStatus, ModuleSwitch
  <1> QED
    BY <1>1, <1>2, <1>3, <1>4, <1>5, <1>6, <1>7, <1>8 DEF App

-----------------------------------------------------------------------------
(* The number of threads                                                    *)

\* Steps after which no more threads run than before, with as much room.
LEMMA CountKept ==
    ASSUME NEW R, NEW S, IsFiniteSet(R), S \subseteq R, NEW l \in Nat, NEW d \in Nat, NEW e \in Nat,
           NEW m \in 0..1, NEW n \in 0..1, l + Cardinality(R) <= d + m, d + m <= e + n
    PROVE  IsFiniteSet(S) /\ l + Cardinality(S) <= e + n
  <1>1. IsFiniteSet(S) /\ Cardinality(S) <= Cardinality(R)
    BY FS_Subset
  <1>2. Cardinality(S) \in Nat /\ Cardinality(R) \in Nat
    BY <1>1, FS_CardinalityType
  <1> QED
    BY <1>1, <1>2

\* A thread that stops running leaves its place to a link thread or takes the room.
LEMMA CountLeft ==
    ASSUME NEW R, NEW t \in R, IsFiniteSet(R), NEW l \in Nat, NEW k \in Nat, NEW d \in Nat,
           NEW m \in 0..1, NEW n \in 0..1, l + Cardinality(R) <= d + m, k + m <= l + 1 + n
    PROVE  IsFiniteSet(R \ {t}) /\ k + Cardinality(R \ {t}) <= d + n
  <1>1. IsFiniteSet(R \ {t}) /\ Cardinality(R \ {t}) = Cardinality(R) - 1
    BY FS_RemoveElement
  <1>2. Cardinality(R) \in Nat
    BY FS_CardinalityType
  <1> QED
    BY <1>1, <1>2

\* A new thread takes the room that set_up has.
LEMMA CountJoined ==
    ASSUME NEW R, NEW t, t \notin R, IsFiniteSet(R), NEW l \in Nat, NEW d \in Nat,
           l + Cardinality(R) <= d
    PROVE  IsFiniteSet(R \cup {t}) /\ l + Cardinality(R \cup {t}) <= d + 1
  <1>1. IsFiniteSet(R \cup {t}) /\ Cardinality(R \cup {t}) = Cardinality(R) + 1
    BY FS_AddElement
  <1>2. Cardinality(R) \in Nat
    BY FS_CardinalityType
  <1> QED
    BY <1>1, <1>2

\* The link thread of an initialization is started, or there is no memory for it.
LEMMA LinkOrNot ==
    ASSUME NEW l \in Nat, NEW k, k \in {l, l + 1}, NEW m \in 0..1
    PROVE  k + m <= l + 1 + m /\ k \in Nat
  <1>1. CASE k = l
    BY <1>1
  <1>2. CASE k = l + 1
    BY <1>2
  <1> QED
    BY <1>1, <1>2

\* Who runs after a step of one thread.
LEMMA RunningAfter ==
    ASSUME NEW t \in InitThreads, Stepped(t)
    PROVE  /\ init[t].pc \notin {"none", "status"} => t \in Running /\ Running' \subseteq Running
           /\ init'[t].pc \in {"none", "status"} => Running' = Running \ {t}
           /\ init[t].pc = "none" /\ init'[t].pc = "created" =>
                t \notin Running /\ Running' = Running \cup {t}
  <1>3. ASSUME init[t].pc \notin {"none", "status"} PROVE t \in Running /\ Running' \subseteq Running
    BY <1>3 DEF Stepped, Running, Active
  <1>4. ASSUME init'[t].pc \in {"none", "status"} PROVE Running' = Running \ {t}
    BY <1>4 DEF Stepped, Running, Active
  <1>5. ASSUME init[t].pc = "none", init'[t].pc = "created"
        PROVE  t \notin Running /\ Running' = Running \cup {t}
    BY <1>5 DEF Stepped, Running, Active
  <1> QED
    BY <1>3, <1>4, <1>5

\* The steps of the initialization threads keep their number in bounds.
LEMMA StepBound ==
    ASSUME Types, InPhase, Bound, NEW t \in InitThreads, InitStep(t)
    PROVE  Bound'
  <1>0. Stepped(t) /\ links \in Nat /\ downs \in Nat /\ Room \in 0..1 /\ Room' \in 0..1
    BY StepTypes, DownsAssumption DEF Types, Room
  <1>1. ASSUME UNCHANGED <<is_init, app, links, downs>>, init[t].pc \notin {"none", "status"} PROVE Bound'
    <2>1. downs + Room <= downs' + Room' /\ downs' \in Nat
      BY <1>0, <1>1 DEF Room
    <2> QED
      BY <1>0, <1>1, <2>1, RunningAfter, CountKept DEF Bound
  <1>2. CASE InitNoMem(t)
    BY <1>1, <1>2 DEF InitNoMem
  <1>3. CASE InitStart(t)
    BY <1>1, <1>3 DEF InitStart
  <1>4. CASE PowerOnDone(t)
    BY <1>1, <1>4 DEF PowerOnDone
  <1>5. CASE InitPass(t)
    BY <1>1, <1>5 DEF InitPass
  <1>6. CASE InitFail(t)
    BY <1>1, <1>6 DEF InitFail
  <1>7. CASE InitPoll(t)
    BY <1>1, <1>7 DEF InitPoll
  <1>8. CASE PowerOffDone(t)
    BY <1>1, <1>8 DEF PowerOffDone
  <1>9. CASE SuccessInit(t)
    <2>1. downs + Room <= downs' + Room' /\ links' = links /\ downs' \in Nat
      BY <1>0, <1>9 DEF SuccessInit, SetInit, Room
    <2>2. Running' \subseteq Running
      BY <1>0, <1>9, RunningAfter DEF SuccessInit
    <2> QED
      BY <1>0, <2>1, <2>2, CountKept DEF Bound
  <1>10. CASE SuccessInfo(t)
    BY <1>1, <1>10 DEF SuccessInfo
  <1>11. CASE SuccessLink(t)
    <2>1. t \in Running /\ Running' = Running \ {t}
      BY <1>0, <1>11, RunningAfter, LastMoves DEF SuccessLink
    <2>2. links' \in {links, links + 1} /\ downs' = downs /\ Room' = Room
      BY <1>11 DEF SuccessLink, Room
    <2>3. links' + Room <= links + 1 + Room' /\ links' \in Nat
      BY <1>0, <2>2, LinkOrNot
    <2> QED
      BY <1>0, <2>1, <2>2, <2>3, CountLeft DEF Bound
  <1>12. CASE FailureInit(t)
    <2>1. t \in Running /\ Running' = Running \ {t}
      BY <1>0, <1>12, RunningAfter, LastMoves DEF FailureInit
    <2>2. links' = links /\ downs' = downs
      BY <1>12 DEF FailureInit
    <2>3. links' + Room <= links + 1 + Room' /\ links' \in Nat
      BY <1>0, <2>2 DEF Room
    <2> QED
      BY <1>0, <2>1, <2>2, <2>3, CountLeft DEF Bound
  <1>13. CASE FailureStatus(t)
    <2>1. t \notin Running /\ Running' = Running \ {t}
      BY <1>0, <1>13, RunningAfter, LastMoves DEF FailureStatus, Running
    <2>2. links' = links /\ downs' = downs /\ Room' = Room
      BY <1>13 DEF FailureStatus, Room
    <2> QED
      BY <1>0, <2>1, <2>2, CountKept DEF Bound
  <1> QED
    BY <1>2, <1>3, <1>4, <1>5, <1>6, <1>7, <1>8, <1>9, <1>10, <1>11, <1>12, <1>13 DEF InitStep

\* A set_up finds room for its thread, and a set_down makes some.
LEMMA AppBound ==
    ASSUME Types, Bound, App \/ LinkCheck \/ ModuleSwitch
    PROVE  Bound'
  <1>0. links \in Nat /\ downs \in Nat /\ Room \in 0..1 /\ Room' \in 0..1
    BY DownsAssumption DEF Types, Room
  <1>1. CASE SetUp
    <2>1. links' = links /\ downs' = downs /\ Room = 0 /\ Room' = 1
      BY <1>1 DEF SetUp, Room
    <2>2. CASE init' = init
      <3>1. Running' \subseteq Running
        BY <2>2 DEF Running, Active
      <3> QED
        BY <1>0, <2>1, <3>1, CountKept DEF Bound
    <2>3. ASSUME NEW t \in InitThreads, init[t].pc = "none", Stepped(t), init'[t].pc = "created"
          PROVE  Bound'
      <3>1. t \notin Running /\ Running' = Running \cup {t}
        BY <2>3, RunningAfter
      <3> QED
        BY <1>0, <2>1, <3>1, CountJoined DEF Bound
    <2> QED
      BY <1>1, <2>2, <2>3, SetUpMoves
  <1>2. ASSUME init' = init, links' = links, downs' \in Nat, downs + Room <= downs' + Room' PROVE Bound'
    <2>1. Running' \subseteq Running
      BY <1>2 DEF Running, Active
    <2> QED
      BY <1>0, <1>2, <2>1, CountKept DEF Bound
  <1>3. CASE SetUpInit
    <2>1. downs + Room <= downs' + Room' /\ init' = init /\ links' = links /\ downs' \in Nat
      BY <1>0, <1>3 DEF SetUpInit, SetInit, Room
    <2> QED
      BY <1>0, <1>2, <2>1
  <1>4. CASE SetUpDone
    <2>1. Room' = Room /\ links' = links /\ downs' = downs
      BY <1>4 DEF SetUpDone, Room
    <2>2. Running' \subseteq Running
      BY <1>4, SetUpDoneMoves DEF Running, Active
    <2> QED
      BY <1>0, <2>1, <2>2, CountKept DEF Bound
  <1>5. CASE SetDown
    <2>1. init' = init /\ links' = links /\ downs' \in Nat
      BY <1>0, <1>5 DEF SetDown
    <2>2. downs + Room <= downs' + Room'
      BY <1>0, <1>5 DEF SetDown, Room
    <2> QED
      BY <1>0, <1>2, <2>1, <2>2
  <1>6. CASE SetDownOff
    <2>1. downs + Room <= downs' + Room' /\ init' = init /\ links' = links /\ downs' \in Nat
      BY <1>0, <1>6 DEF SetDownOff, Room
    <2> QED
      BY <1>0, <1>2, <2>1
  <1>7. CASE SetDownDone
    <2>1. init' = init /\ links' = links /\ downs' = downs /\ Room' = Room
      BY <1>7 DEF SetDownDone, Room
    <2> QED
      BY <1>0, <1>2, <2>1
  <1>8. CASE LinkCheck
    <2>1. init' = init /\ links' = links /\ downs' = downs /\ Room' = Room
      BY <1>8 DEF LinkCheck, Room
    <2> QED
      BY <1>0, <1>2, <2>1
  <1>9. CASE ModuleSwitch
    <2>1. init' = init /\ links' = links /\ downs' = downs /\ Room' = Room
      BY <1>9 DEF ModuleSwitch, Room
    <2> QED
      BY <1>0, <1>2, <2>1
  <1> QED
    BY <1>1, <1>3, <1>4, <1>5, <1>6, <1>7, <1>8, <1>9 DEF App

-----------------------------------------------------------------------------
(* What holds as long as no initialization has been set down                *)

\* In the middle of an initialization the key is not held and nobody else is there.
LEMMA CalmFacts ==
    ASSUME Types, KeyHeld, Calm, NEW t \in InitThreads, init[t].pc # "none"
    PROVE  /\ \A u \in InitThreads \ {t} : init[u].pc = "none"
           /\ init[t].pc \notin {"created", "poweron", "poweroff"} => ~pins.key /\ app = "idle"
  <1>1. \A u \in InitThreads \ {t} : init[u].pc = "none"
    BY DEF Calm, Alone
  <1>2. ASSUME init[t].pc \notin {"created", "poweron", "poweroff"} PROVE ~pins.key /\ app = "idle"
    <2>1. app = "idle"
      BY <1>2 DEF Calm, FlagsAt
    <2> QED
      BY <1>1, <1>2, <2>1 DEF KeyHeld
  <1> QED
    BY <1>1, <1>2

\* The steps that write no flag and end no initialization.
LEMMA CalmKept ==
    ASSUME Types, KeyHeld, Calm, NEW t \in InitThreads, Stepped(t),
           init[t].pc \in {"sleep", "poweron", "run", "poweroff"},
           init'[t].pc \in {"sleep", "poweron", "run", "poweroff", "success", "failure"},
           UNCHANGED <<is_init, up, app, initOk, nomem>>,
           PastGprs(t)' => attached'
    PROVE  Calm'
  <1>1. \A u \in InitThreads \ {t} : init'[u] = init[u] /\ init[u].pc = "none"
    BY CalmFacts DEF Stepped
  <1>2. app = "idle" /\ up /\ is_init
    BY DEF Calm, FlagsAt
  <1>3. Alone' /\ \A u \in InitThreads : FlagsAt(u)'
    BY <1>1, <1>2 DEF Alone, FlagsAt
  <1>4. \A u \in InitThreads : Achieved(u)'
    BY <1>1 DEF Achieved, PastGprs
  <1>5. AppAt'
    BY <1>2 DEF AppAt, Quiet
  <1> QED
    BY <1>3, <1>4, <1>5 DEF Calm

\* A phase is passed; "gprs" attaches the modem and no later one detaches it.
LEMMA PassCalm ==
    ASSUME Types, InPhase, KeyHeld, Calm, NEW t \in InitThreads, InitPass(t)
    PROVE  Calm'
  <1>1. /\ Stepped(t) /\ init[t].phase \in 1..11
        /\ \/ init'[t].pc = "run" /\ init'[t].phase = init[t].phase + 1
           \/ init'[t].pc = "success" /\ init[t].phase = 11
    BY PassMoves
  <1>2. init[t].pc = "run" /\ UNCHANGED <<is_init, up, app, initOk, nomem>>
    BY DEF InitPass
  <1>3. /\ init[t].phase = 6 => attached' = TRUE
        /\ init[t].phase > 6 => attached' = attached
    BY <1>1, PhaseFacts DEF InitPass, Effect, PhaseOf
  <1>4. init[t].phase > 6 => attached
    BY <1>2 DEF Calm, Achieved, PastGprs
  <1>5. PastGprs(t)' => init[t].phase >= 6
    BY <1>1 DEF PastGprs
  <1>6. PastGprs(t)' => attached'
    BY <1>1, <1>3, <1>4, <1>5
  <1> QED
    BY <1>1, <1>2, <1>6, CalmKept

\* An attempt fails, or goes on.
LEMMA PollCalm ==
    ASSUME Types, InPhase, KeyHeld, Calm, NEW t \in InitThreads, InitPoll(t) \/ InitFail(t)
    PROVE  Calm'
  <1>1. init[t].pc = "run" /\ UNCHANGED <<is_init, up, app, initOk, nomem>>
    BY DEF InitPoll, InitFail
  <1>2. CASE AttemptFailed(t)
    <2>1. Stepped(t) /\ init'[t].pc \in {"poweroff", "sleep", "failure"}
      BY <1>2, AttemptFailedMoves
    <2>2. ~PastGprs(t)'
      BY <2>1 DEF PastGprs
    <2> QED
      BY <1>1, <2>1, <2>2, CalmKept
  <1>3. CASE ~AttemptFailed(t)
    <2>1. InitPoll(t)
      BY <1>3 DEF InitFail
    <2>2. Stepped(t) /\ init'[t].pc = "run" /\ init'[t].phase = init[t].phase /\ Effect(PhaseOf(t))
      BY <1>3, <2>1, PollMoves
    <2>3. init[t].phase > 6 => attached' = attached /\ attached
      BY <1>1, <2>2, PhaseFacts DEF Effect, PhaseOf, InPhase, Calm, Achieved, PastGprs
    <2>4. PastGprs(t)' => attached'
      BY <2>2, <2>3 DEF PastGprs
    <2> QED
      BY <1>1, <2>2, <2>4, CalmKept
  <1> QED
    BY <1>2, <1>3

\* The threads keep it calm.
LEMMA StepCalm ==
    ASSUME Types, InPhase, KeyHeld, Calm, NEW t \in InitThreads, InitStep(t)
    PROVE  Calm'
  <1>0. Stepped(t)
    BY StepTypes
  <1>1. CASE InitNoMem(t)
    <2>1. init'[t].pc = "none" /\ init[t].pc \in {"created", "sleep"} /\ nomem' = TRUE
      BY <1>1, NoMemMoves DEF InitNoMem
    <2>2. \A u \in InitThreads : init'[u].pc = "none"
      BY <1>0, <2>1, CalmFacts DEF Stepped
    <2>3. Alone' /\ \A u \in InitThreads : FlagsAt(u)' /\ Achieved(u)'
      BY <2>2 DEF Alone, FlagsAt, Achieved, PastGprs
    <2>4. AppAt'
      BY <1>1, <2>1 DEF Types, Calm, FlagsAt, AppAt, Quiet, InitNoMem
    <2> QED
      BY <2>3, <2>4 DEF Calm
  <1>2. CASE InitStart(t)
    <2>1. init'[t].pc = "poweron" \/ (init'[t].pc = "run" /\ init'[t].phase = 1)
      BY <1>2, StartMoves
    <2>2. ~PastGprs(t)'
      BY <2>1 DEF PastGprs
    <2> QED
      BY <1>0, <1>2, <2>1, <2>2, CalmKept DEF InitStart
  <1>3. CASE PowerOnDone(t)
    <2>1. init'[t].pc = "run" /\ init'[t].phase = 1
      BY <1>3, RunMoves DEF PowerOnDone
    <2>2. ~PastGprs(t)'
      BY <2>1 DEF PastGprs
    <2> QED
      BY <1>0, <1>3, <2>1, <2>2, CalmKept DEF PowerOnDone
  <1>4. CASE InitPass(t)
    BY <1>4, PassCalm
  <1>5. CASE InitFail(t) \/ InitPoll(t)
    BY <1>5, PollCalm
  <1>6. CASE PowerOffDone(t)
    <2>1. init'[t].pc \in {"sleep", "failure"}
      BY <1>6, AttemptOverMoves DEF PowerOffDone
    <2>2. ~PastGprs(t)'
      BY <2>1 DEF PastGprs
    <2> QED
      BY <1>0, <1>6, <2>1, <2>2, CalmKept DEF PowerOffDone
  <1>7. CASE SuccessInit(t)
    <2>1. init[t].pc = "success" /\ init'[t].pc = "info" /\ is_init' = TRUE /\ initOk' = TRUE
          /\ UNCHANGED <<up, app, attached, nomem>>
      BY <1>7, LastMoves DEF SuccessInit, SetInit
    <2>2. \A u \in InitThreads \ {t} : init'[u] = init[u] /\ init[u].pc = "none"
      BY <1>0, <2>1, CalmFacts DEF Stepped
    <2>3. app = "idle" /\ up /\ attached
      BY <2>1 DEF Calm, FlagsAt, Achieved, PastGprs
    <2> QED
      BY <2>1, <2>2, <2>3 DEF Calm, Alone, FlagsAt, Achieved, PastGprs, AppAt, Quiet
  <1>8. CASE SuccessInfo(t)
    <2>1. init[t].pc = "info" /\ init'[t].pc = "link" /\ up' = TRUE
          /\ UNCHANGED <<is_init, app, attached, initOk, nomem>>
      BY <1>8, LastMoves DEF SuccessInfo
    <2>2. \A u \in InitThreads \ {t} : init'[u] = init[u] /\ init[u].pc = "none"
      BY <1>0, <2>1, CalmFacts DEF Stepped
    <2>3. app = "idle" /\ is_init /\ attached /\ initOk
      BY <2>1 DEF Calm, FlagsAt, Achieved, PastGprs
    <2> QED
      BY <2>1, <2>2, <2>3 DEF Calm, Alone, FlagsAt, Achieved, PastGprs, AppAt, Quiet
  <1>9. CASE SuccessLink(t)
    <2>1. init[t].pc = "link" /\ init'[t].pc = "none" /\ UNCHANGED <<is_init, up, app, attached, initOk, nomem>>
      BY <1>9, LastMoves DEF SuccessLink
    <2>2. \A u \in InitThreads : init'[u].pc = "none"
      BY <1>0, <2>1, CalmFacts DEF Stepped
    <2>3. app = "idle" /\ is_init /\ up /\ initOk
      BY <2>1 DEF Calm, FlagsAt, Achieved
    <2> QED
      BY <2>1, <2>2, <2>3 DEF Calm, Alone, FlagsAt, Achieved, PastGprs, AppAt, Quiet
  <1>10. CASE FailureInit(t)
    <2>1. init[t].pc = "failure" /\ init'[t].pc = "status" /\ is_init' = FALSE /\ UNCHANGED <<up, app>>
      BY <1>10, LastMoves DEF FailureInit, SetInit
    <2>2. \A u \in InitThreads \ {t} : init'[u] = init[u] /\ init[u].pc = "none"
      BY <1>0, <2>1, CalmFacts DEF Stepped
    <2>3. app = "idle" /\ up
      BY <2>1 DEF Calm, FlagsAt
    <2> QED
      BY <2>1, <2>2, <2>3 DEF Calm, Alone, FlagsAt, Achieved, PastGprs, AppAt, Quiet
  <1>11. CASE FailureStatus(t)
    <2>1. init[t].pc = "status" /\ init'[t].pc = "none" /\ up' = FALSE /\ UNCHANGED <<is_init, app>>
      BY <1>11, LastMoves DEF FailureStatus
    <2>2. \A u \in InitThreads : init'[u].pc = "none"
      BY <1>0, <2>1, CalmFacts DEF Stepped
    <2>3. app = "idle" /\ is_init = FALSE
      BY <2>1 DEF Calm, FlagsAt, Types
    <2> QED
      BY <2>1, <2>2, <2>3 DEF Calm, Alone, FlagsAt, Achieved, PastGprs, AppAt, Quiet
  <1> QED
    BY <1>1, <1>2, <1>3, <1>4, <1>5, <1>6, <1>7, <1>8, <1>9, <1>10, <1>11 DEF InitStep

\* A set_up that finds no initialization under way begins a calm period, whatever
\* happened before; a set_down keeps the calm if it finds none.
LEMMA AppCalm ==
    ASSUME Types, KeyHeld, ~raced => Calm, App \/ LinkCheck \/ ModuleSwitch, ~raced'
    PROVE  Calm'
  <1>1. CASE SetUp
    <2>1. app = "idle" /\ ~up /\ ~is_init /\ app' = "setup" /\ UNCHANGED <<up, is_init>>
      BY <1>1 DEF SetUp
    <2>2. Quiet
      <3>1. CASE Active = {}
        BY <3>1 DEF Active, Quiet
      <3>2. CASE Active # {}
        <4>1. Calm
          BY <1>1, <3>2 DEF SetUp, Types
        <4> QED
          BY <2>1, <4>1 DEF Calm, FlagsAt, Quiet
      <3> QED
        BY <3>1, <3>2
    <2>3. CASE init' = init /\ nomem' = TRUE
      BY <2>1, <2>2, <2>3 DEF Calm, Alone, FlagsAt, Achieved, PastGprs, AppAt, Quiet
    <2>4. ASSUME NEW t \in InitThreads, Stepped(t), init'[t].pc = "created" PROVE Calm'
      <3>1. \A u \in InitThreads \ {t} : init'[u].pc = "none"
        BY <2>2, <2>4 DEF Quiet, Stepped
      <3> QED
        BY <2>1, <2>4, <3>1 DEF Calm, Alone, FlagsAt, Achieved, PastGprs, AppAt, Quiet
    <2> QED
      BY <1>1, <2>3, <2>4, SetUpMoves
  <1>2. CASE SetUpInit
    <2>1. Calm /\ app = "setup" /\ app' = "upstatus" /\ is_init' = TRUE
          /\ UNCHANGED <<up, init, attached, initOk, nomem>>
      BY <1>2 DEF SetUpInit, SetInit
    <2>2. \A u \in InitThreads : init[u].pc \in {"none", "created"}
      BY <2>1 DEF Calm, FlagsAt
    <2> QED
      BY <2>1, <2>2 DEF Calm, Alone, FlagsAt, Achieved, PastGprs, AppAt, Quiet
  <1>3. CASE SetUpDone
    <2>1. Calm /\ app = "upstatus" /\ app' = "idle" /\ up' = TRUE /\ UNCHANGED <<is_init, attached, initOk, nomem>>
      BY <1>3 DEF SetUpDone
    <2>2. \A u \in InitThreads : init[u].pc \in {"none", "created"}
      BY <2>1 DEF Calm, FlagsAt
    <2>3. \A u \in InitThreads : /\ init'[u].pc \in {"none", "sleep"}
                                 /\ init'[u].pc = "none" <=> init[u].pc = "none"
      BY <1>3, <2>2, SetUpDoneMoves
    <2>4. is_init /\ (Quiet => nomem)
      BY <2>1 DEF Calm, AppAt
    <2>5. Quiet' = Quiet
      BY <2>3 DEF Quiet
    <2>6. Alone' /\ \A u \in InitThreads : FlagsAt(u)' /\ Achieved(u)'
      BY <2>1, <2>3, <2>4 DEF Calm, Alone, FlagsAt, Achieved, PastGprs
    <2>7. AppAt'
      BY <2>1, <2>4, <2>5 DEF AppAt, Types
    <2> QED
      BY <2>6, <2>7 DEF Calm
  <1>4. CASE SetDown
    <2>1. Quiet /\ init' = init /\ app' \in {"poweroff", "setdown"} /\ up' = up /\ up /\ is_init
      BY <1>4 DEF SetDown, Active, Quiet
    <2>2. app' = "poweroff" => is_init'
      BY <1>4 DEF SetDown
    <2>3. app' = "setdown" => ~is_init'
      BY <1>4 DEF SetDown, SetInit
    <2> QED
      BY <2>1, <2>2, <2>3 DEF Calm, Alone, FlagsAt, Achieved, PastGprs, AppAt, Quiet
  <1>5. CASE SetDownOff
    <2>1. Calm /\ app = "poweroff" /\ init' = init /\ app' = "setdown" /\ is_init' = FALSE
      BY <1>5 DEF SetDownOff, SetInit
    <2>2. Quiet
      BY <2>1 DEF Calm, AppAt
    <2> QED
      BY <2>1, <2>2 DEF Calm, Alone, FlagsAt, Achieved, PastGprs, AppAt, Quiet
  <1>6. CASE SetDownDone
    <2>1. Calm /\ app = "setdown" /\ init' = init /\ app' = "idle" /\ up' = FALSE /\ is_init' = is_init
      BY <1>6 DEF SetDownDone
    <2>2. Quiet /\ is_init = FALSE
      BY <2>1 DEF Calm, AppAt, Types
    <2> QED
      BY <2>1, <2>2 DEF Calm, Alone, FlagsAt, Achieved, PastGprs, AppAt, Quiet
  <1>7. CASE LinkCheck
    BY <1>7 DEF LinkCheck, Calm, Alone, FlagsAt, Achieved, PastGprs, AppAt, Quiet
  <1>8. CASE ModuleSwitch
    <2>1. Calm /\ pins.key /\ UNCHANGED <<is_init, up, app, init, initOk, nomem>>
      BY <1>8 DEF ModuleSwitch
    <2>2. \A u \in InitThreads : ~PastGprs(u)
      BY <2>1, CalmFacts DEF PastGprs
    <2>3. Alone' /\ (\A u \in InitThreads : FlagsAt(u)') /\ AppAt'
      BY <2>1 DEF Calm, Alone, FlagsAt, AppAt, Quiet
    <2>4. \A u \in InitThreads : Achieved(u)'
      BY <2>1, <2>2 DEF Calm, Achieved, PastGprs
    <2> QED
      BY <2>3, <2>4 DEF Calm
  <1> QED
    BY <1>1, <1>2, <1>3, <1>4, <1>5, <1>6, <1>7, <1>8 DEF App

-----------------------------------------------------------------------------
\* Every step of Next keeps the invariant.
LEMMA NextIInv == IInv /\ [Next]_vars => IInv'
  <1> SUFFICES ASSUME IInv, [Next]_vars PROVE IInv'
    OBVIOUS
  <1>0. Types /\ InPhase /\ KeyHeld /\ Writes /\ Bound /\ (~raced => Calm)
    BY DEF IInv
  <1>1. CASE App \/ LinkCheck \/ ModuleSwitch
    BY <1>0, <1>1, AppTypes, AppKey, AppFlags, AppBound, AppCalm DEF IInv
  <1>2. ASSUME NEW t \in InitThreads, InitStep(t) PROVE IInv'
    <2>1. raced' = raced
      BY <1>2 DEF InitStep, InitNoMem, InitStart, PowerOnDone, InitPass, InitFail, InitPoll, PowerOffDone,
                  SuccessInit, SuccessInfo, SuccessLink, FailureInit, FailureStatus
    <2>2. Types' /\ InPhase' /\ KeyHeld' /\ Writes' /\ Bound'
      BY <1>0, <1>2, StepTypes, StepKey, StepWrites, StepBound
    <2>3. ~raced' => Calm'
      BY <1>0, <1>2, <2>1, StepCalm
    <2> QED
      BY <2>2, <2>3 DEF IInv
  <1>3. CASE UNCHANGED vars
    <2>1. Types' /\ InPhase' /\ KeyHeld'
      BY <1>0, <1>3 DEF vars, Types, InPhase, KeyHeld
    <2>2. Writes'
      BY <1>0, <1>3 DEF vars, Writes, Writing, InfoOrStatus
    <2>3. Bound'
      BY <1>0, <1>3 DEF vars, Bound, Running, Active, Room
    <2>4. ~raced' => Calm'
      BY <1>0, <1>3 DEF vars, Calm, Alone, FlagsAt, Achieved, PastGprs, AppAt, Quiet
    <2> QED
      BY <2>1, <2>2, <2>3, <2>4 DEF IInv
  <1> QED
    BY <1>1, <1>2, <1>3 DEF Next

\* The inductive invariant holds always.
THEOREM Invariance == Spec => []IInv
  BY InitIInv, NextIInv, PTL DEF Spec

-----------------------------------------------------------------------------
(* What the invariant says of the properties                                *)

\* At most one element, as a number.
LEMMA AloneCounts == Alone => Cardinality(Active) <= 1
  <1> SUFFICES ASSUME Alone PROVE Cardinality(Active) <= 1
    OBVIOUS
  <1>1. CASE Active = {}
    BY <1>1, FS_EmptySet
  <1>2. CASE Active # {}
    <2>1. PICK t : t \in Active
      BY <1>2
    <2>2. Active = {t}
      BY <2>1 DEF Alone, Active
    <2>3. Cardinality({t}) = 1
      BY FS_Singleton
    <2> QED
      BY <2>2, <2>3
  <1> QED
    BY <1>1, <1>2

\* The types: every counter of a thread stays in its range.
THEOREM TypeCorrect == Spec => []TypeOK
  <1>1. IInv => TypeOK
    BY DEF IInv, Types, TypeOK, ThreadRecord
  <1> QED
    BY <1>1, Invariance, PTL

\* Initializations do not disturb each other (at_device_a9g.c: a9g_net_init starts
\* a thread per set_up and forgets it): as long as none that was set down is left
\* over, only one is under way, and a success is reported with the modem attached
\* and not switched off by the power key.
THEOREM InitUndisturbed == Spec => []UndisturbedInit
  <1>1. IInv => OneInitialization
    BY AloneCounts DEF IInv, Calm, OneInitialization
  <1>2. IInv => SuccessIsAttached
    BY DEF IInv, Calm, Achieved, PastGprs, SuccessIsAttached
  <1>3. IInv => UndisturbedInit
    BY <1>1, <1>2 DEF UndisturbedInit
  <1> QED
    BY <1>3, Invariance, PTL

\* The flags is_init and NETDEV_FLAG_UP agree whoever wrote them, unless two threads
\* wrote at the same time, and with nothing under way a device that counts as
\* initialized has been initialized if there was memory for it.
THEOREM FlagsSettle == Spec => []Settled
  <1>1. Active = {} => Quiet
    BY DEF Active, Quiet
  <1>2. IInv => FlagsAgree
    BY DEF IInv, Writes, FlagsAgree
  <1>3. IInv => InitDecides
    BY <1>1 DEF IInv, Calm, AppAt, InitDecides
  <1>4. IInv => Settled
    BY <1>2, <1>3 DEF Settled
  <1> QED
    BY <1>4, Invariance, PTL

\* Link threads and initializations are never more than the device was set down, and
\* one, whatever sets up, downs and failures overlap.
THEOREM ThreadsStayBounded == Spec => []ThreadsBounded
  <1>1. IInv => ThreadsBounded
    <2> SUFFICES ASSUME IInv PROVE ThreadsBounded
      OBVIOUS
    <2>1. links \in Nat /\ downs \in Nat /\ Room \in 0..1 /\ Cardinality(Running) \in Nat
      BY FS_CardinalityType, DownsAssumption DEF IInv, Types, Bound, Room
    <2>2. links + Cardinality(Running) <= downs + Room
      BY DEF IInv, Bound
    <2>3. links + Cardinality(Running) <= downs + 1
      BY <2>1, <2>2
    <2> QED
      BY <2>3 DEF ThreadsBounded, Running
  <1> QED
    BY <1>1, Invariance, PTL
=============================================================================
