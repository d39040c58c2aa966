------------------------ MODULE SchedulerQueueProofs ------------------------
(***************************************************************************)
(* Proof that in its first epoch the scheduler takes only steps of         *)
(* JobQueue: the safety part of ImplementsJobQueue.                        *)
(***************************************************************************)
EXTENDS SchedulerEpochProofs

-----------------------------------------------------------------------------
(* How jobs are numbered.                                                  *)

\* A job has left the queue and is not executed yet.
Taken == \E t \in Threads : pc[t] = "execute"
Ahead == Len(executed) + (IF Taken THEN 1 ELSE 0)

\* Jobs are numbered in the order in which they are executed, taken, queued and
\* pushed.
Numbered ==
    /\ \A t \in Threads : pc[t] = "execute" => job[t].id = Len(executed) + 1
    /\ jobs # <<>> => jobs[1].id = Ahead + 1
    /\ pc[Main] = "emplace" => job[Main].id = Ahead + 1
    /\ nextId = Ahead + Len(jobs) + (IF pc[Main] = "emplace" THEN 2 ELSE 1)

Pending == IF InHand = {} THEN Ids(jobs)
           ELSE <<job[CHOOSE t \in InHand : TRUE].id>> \o Ids(jobs)

LEMMA AppendTwo ==
  ASSUME NEW a \in Nat, NEW b \in Nat
  PROVE  Append(<<a>>, b) = <<a, b>>
<1> DEFINE s == Append(<<a>>, b)  u == <<a, b>>
<1>1. s \in Seq(Nat) /\ u \in Seq(Nat) /\ Len(s) = 2 /\ Len(u) = 2
  OBVIOUS
<1>2. \A i \in 1..2 : s[i] = u[i]
  OBVIOUS
<1> HIDE DEF s, u
<1>3. s = u
  BY <1>1, <1>2, SeqEqual
<1> QED
  BY <1>3 DEF s, u

\* What the abstract queue holds, in each of the four cases.
LEMMA PendingIs ==
  EpochInv /\ Numbered =>
    /\ Taken \/ jobs = <<>> \/ Pending = <<Len(executed) + 1>>
    /\ Taken \/ jobs # <<>> \/ Pending = <<>>
    /\ ~Taken \/ jobs # <<>> \/ Pending = <<Len(executed) + 1>>
    /\ ~Taken \/ jobs = <<>> \/ Pending = <<Len(executed) + 1, Len(executed) + 2>>
<1> SUFFICES ASSUME EpochInv, Numbered
             PROVE  /\ Taken \/ jobs = <<>> \/ Pending = <<Len(executed) + 1>>
                    /\ Taken \/ jobs # <<>> \/ Pending = <<>>
                    /\ ~Taken \/ jobs # <<>> \/ Pending = <<Len(executed) + 1>>
                    /\ \/ ~Taken \/ jobs = <<>>
                       \/ Pending = <<Len(executed) + 1, Len(executed) + 2>>
  OBVIOUS
<1>1. Len(executed) \in Nat
  BY DEF EpochInv, TypeOK, JobsOK
<1>2. InHand = {t \in Threads : pc[t] = "execute"}
  BY <1>1 DEF InHand, Numbered
<1>3. jobs = <<>> => Ids(jobs) = <<>>
  BY DEF Ids
<1>4. jobs # <<>> => Ids(jobs) = <<Ahead + 1>>
  <2>1. jobs # <<>> => Len(jobs) = 1
    BY DEF EpochInv, JobsPaced, OneJob
  <2> SUFFICES ASSUME jobs # <<>> PROVE Ids(jobs) = <<Ahead + 1>>
    OBVIOUS
  <2>2. Ids(jobs) = [i \in 1..1 |-> jobs[i].id]
    BY <2>1 DEF Ids
  <2>3. \A i \in 1..1 : jobs[i].id = Ahead + 1
    BY DEF Numbered
  <2>4. <<Ahead + 1>> = [i \in 1..1 |-> Ahead + 1]
    OBVIOUS
  <2> QED
    BY <2>2, <2>3, <2>4
<1>5. CASE Taken
  <2>1. InHand # {} /\ Ahead = Len(executed) + 1
    BY <1>2, <1>5 DEF Taken, Ahead
  <2> DEFINE c == CHOOSE t \in InHand : TRUE
  <2>2. c \in InHand
    BY <2>1
  <2>3. job[c].id = Len(executed) + 1
    BY <1>2, <2>2 DEF Numbered
  <2>4. Pending = <<Len(executed) + 1>> \o Ids(jobs)
    BY <2>1, <2>3 DEF Pending
  <2>5. CASE jobs = <<>>
    <3>1. <<Len(executed) + 1>> \o <<>> = <<Len(executed) + 1>>
      OBVIOUS
    <3> QED
      BY <1>3, <1>5, <2>4, <2>5, <3>1
  <2>6. CASE jobs # <<>>
    <3>1. Ahead + 1 = Len(executed) + 2
      BY <1>1, <2>1
    <3>2. <<Len(executed) + 1>> \o <<Len(executed) + 2>>
             = Append(<<Len(executed) + 1>>, Len(executed) + 2)
      BY <1>1, AppendIsConcat
    <3>3. Append(<<Len(executed) + 1>>, Len(executed) + 2)
             = <<Len(executed) + 1, Len(executed) + 2>>
      BY <1>1, AppendTwo
    <3> QED
      BY <1>4, <1>5, <2>4, <2>6, <3>1, <3>2, <3>3
  <2> QED
    BY <2>5, <2>6
<1>6. CASE ~Taken
  BY <1>1, <1>2, <1>3, <1>4, <1>6 DEF Pending, Taken, Ahead
<1> QED
  BY <1>5, <1>6

\* A step that neither takes a job, ends one, nor pushes one.
Quiet == /\ UNCHANGED <<jobs, executed, nextId>>
         /\ \A t \in Threads : /\ pc'[t] = "execute" <=> pc[t] = "execute"
                               /\ pc[t] \in {"execute", "emplace"} => job'[t] = job[t]
         /\ pc'[Main] = "emplace" <=> pc[Main] = "emplace"

LEMMA QuietLabel ==
  ASSUME ControlOK, JobsOK, NEW t \in Threads, NEW l,
         pc' = [pc EXCEPT ![t] = l], UNCHANGED <<jobs, executed, nextId>>,
         pc[t] \notin {"execute", "emplace"}, l \notin {"execute", "emplace"},
         \/ job' = job
         \/ \E j : job' = [job EXCEPT ![t] = j]
  PROVE  Quiet
  BY ThreadsAssumption DEF ControlOK, JobsOK, Quiet, Threads

Pushes == /\ \E code \in Codes : ScheduleJob(code)
          /\ pc[Main] \in {"schedule_hook", "schedule_init", "input"} /\ jobs = <<>>

LEMMA Moves ==
  FirstEpoch /\ EpochInv /\ ~crashed' /\ [Next]_vars =>
    \/ Quiet
    \/ \E t \in Threads : StepPop(t) \/ StepExecute(t)
    \/ Pushes
    \/ MainEmplace
<1> SUFFICES ASSUME FirstEpoch, EpochInv, ~crashed', [Next]_vars,
                    ~(\E t \in Threads : StepPop(t) \/ StepExecute(t)),
                    ~Pushes, ~MainEmplace
             PROVE  Quiet
  OBVIOUS
<1>0. /\ Main \in Threads /\ \A v \in VMs : v \in Threads /\ v # Main
      /\ ControlOK /\ JobsOK
  BY ThreadsAssumption DEF Threads, EpochInv, TypeOK
<1> USE DEF Goto, At, Call, Leave, Crash, locals, queueVars
<1>1. ASSUME NEW t \in Threads, LockAction(t) PROVE Quiet
  <2>1. Body(op[t]) \notin {"execute", "emplace"} /\ Caller(t) \notin {"execute", "emplace"}
    BY DEF Body, Caller
  <2> QED
    BY <1>0, <1>1, <2>1, QuietLabel DEF LockAction, LockTest, LockSet, Unlock
<1>2. ASSUME NEW t \in Threads, StepAction(t) PROVE Quiet
  <2>1. Caller(t) \notin {"execute", "emplace"}
    BY DEF Caller
  <2>2. StepCompare(t) \/ StepEmpty(t) \/ StepBack(t)
    BY <1>2 DEF StepAction
  <2>3. CASE StepCompare(t)
    BY <1>0, <2>1, <2>3, QuietLabel DEF StepCompare
  <2>4. CASE StepEmpty(t)
    <3>1. /\ pc[t] = "empty" /\ UNCHANGED <<jobs, executed, nextId, job>>
          /\ \/ pc' = [pc EXCEPT ![t] = "unlock"]
             \/ pc' = [pc EXCEPT ![t] = "back"]
      BY <2>4 DEF StepEmpty
    <3> QED
      BY <1>0, <3>1, QuietLabel
  <2>5. CASE StepBack(t)
    <3>1. /\ pc[t] = "back" /\ pc' = [pc EXCEPT ![t] = "pop"]
          /\ UNCHANGED <<jobs, executed, nextId>>
          /\ \A u \in Threads \ {t} : job'[u] = job[u]
      BY <1>0, <2>5 DEF StepBack, JobsOK
    <3> QED
      BY <1>0, <3>1 DEF Quiet, ControlOK
  <2> QED
    BY <2>2, <2>3, <2>4, <2>5
<1>3. ASSUME NEW t \in Threads, StatesAction(t) PROVE Quiet
  BY <1>0, <1>3, QuietLabel DEF StatesAction, InitializeRoblox, InitializeExecutor,
     ReinitializeExecutor, ReinitializeRoblox
<1>4. ASSUME NEW v \in VMs, EnvironmentAction(v) PROVE Quiet
  BY <1>0, <1>4, QuietLabel DEF EnvironmentAction, getreg, getrenv, checkcaller,
     CallEnvironment, ReadRoblox, CheckExecutor, ReadExecutor
<1>5. ASSUME NEW v \in VMs, DetourAction(v) PROVE Quiet
  <2>1. CASE DetourGrab(v)
    BY <1>0, <2>1, QuietLabel DEF DetourGrab
  <2>2. CASE DetourEnter(v) \/ DetourLock(v) \/ DetourSkip(v) \/ DetourUnlock(v)
    BY <1>0, <2>2, QuietLabel DEF DetourEnter, DetourLock, DetourSkip, DetourUnlock
  <2>3. CASE Reject(v)
    BY <1>0, <2>3, QuietLabel DEF Reject
  <2> QED
    BY <1>5, <2>1, <2>2, <2>3 DEF DetourAction, DetourRejectSingleStep, DetourRejectPlace
<1>6. ASSUME NEW v \in VMs, StudioAction(v) PROVE Quiet
  <2>1. CASE ResumeDeferred(v)
    BY <2>1 DEF ResumeDeferred, Quiet
  <2> QED
    BY <1>0, <1>6, <2>1, QuietLabel DEF StudioAction, Stepped, SteppedRunner, SteppedKey
<1>7. CASE MainAction
  <2>1. ~MainScheduleHook /\ ~MainScheduleInit
    BY DEF MainScheduleHook, MainScheduleInit, Pushes, EpochInv, JobsPaced, OneJob,
       NoJobYet, Codes
  <2> QED
    BY <1>0, <1>7, <2>1, QuietLabel DEF MainAction, MainInstallHook,
       MainWaitUntilInitialised, MainRegisterEnv, MainSetSchedulerKey,
       MainRegisterLibraries, MainStep, MainRemoveHook
<1>8. ASSUME NEW code \in UserCode, MainInput(code) PROVE Quiet
  BY <1>8, CodeAssumption DEF MainInput, FirstEpoch, Pushes, Codes
<1>9. CASE MainReinit
  BY <1>0, <1>9, QuietLabel DEF MainReinit
<1>10. CASE UNCHANGED vars
  BY <1>10 DEF vars, Quiet
<1> QED
  BY <1>1, <1>2, <1>3, <1>4, <1>5, <1>6, <1>7, <1>8, <1>9, <1>10 DEF Next

LEMMA QuietNumbered ==
  ASSUME EpochInv, Numbered, Quiet
  PROVE  Numbered' /\ Taken' = Taken
<1>1. Main \in Threads
  BY DEF Threads
<1>2. Taken' = Taken
  BY DEF Taken, Quiet
<1>3. Ahead' = Ahead
  BY <1>2 DEF Ahead, Quiet
<1> QED
  BY <1>1, <1>2, <1>3 DEF Numbered, Quiet

\* Each of the other kinds of step.
LEMMA PopNumbered ==
  ASSUME FirstEpoch, EpochInv, EpochInv', Numbered, NEW t \in Threads, StepPop(t)
  PROVE  /\ Numbered' /\ ~Taken /\ Taken' /\ jobs # <<>> /\ jobs' = <<>>
         /\ UNCHANGED executed
<1>1. /\ pc[t] = "pop" /\ jobs # <<>> /\ job[t] = jobs[1] /\ Len(jobs) = 1
      /\ Len(executed) \in Nat /\ pc \in [Threads -> Labels]
  BY DEF StepPop, At, EpochInv, TypeOK, ControlOK, JobsOK, JobsPaced, JobInHand, OneJob
<1>2. /\ jobs' = Tail(jobs) /\ pc' = [pc EXCEPT ![t] = "execute"]
      /\ UNCHANGED <<job, executed, nextId>>
  BY DEF StepPop, Crash, EpochInv, AfterPop, Goto, locals
<1>3. jobs' = <<>>
  <2>1. jobs \in Seq(Jobs) /\ Len(jobs) = 1
    BY <1>1 DEF EpochInv, TypeOK, JobsOK
  <2>2. Tail(jobs) \in Seq(Jobs) /\ Len(Tail(jobs)) = 0
    BY <2>1
  <2> QED
    BY <1>2, <2>2, EmptySeq
<1>4. \A u \in Threads : pc[u] # "execute" /\ (u # t => pc'[u] # "execute")
  BY <1>1, <1>2 DEF EpochInv, Exclusion, OnePast, Past, CriticalSection
<1>5. ~Taken /\ Taken' /\ Ahead = Len(executed) /\ Ahead' = Len(executed) + 1
  BY <1>1, <1>2, <1>4 DEF Taken, Ahead
<1>6. pc'[Main] = "emplace" => pc[Main] = "emplace"
  BY <1>1, <1>2 DEF Threads
<1>7. pc[Main] # "emplace"
  BY <1>1 DEF EpochInv, JobsPaced, OneJob, NoJobYet
<1>8. nextId = Len(executed) + 2 /\ job[t].id = Len(executed) + 1
  BY <1>1, <1>5, <1>7 DEF Numbered
<1>9. Numbered'
  BY <1>1, <1>2, <1>3, <1>4, <1>5, <1>6, <1>7, <1>8 DEF Numbered
<1> QED
  BY <1>1, <1>2, <1>3, <1>5, <1>9

LEMMA ExecuteNumbered ==
  ASSUME FirstEpoch, EpochInv, EpochInv', Numbered, NEW t \in Threads, StepExecute(t)
  PROVE  /\ Numbered' /\ Taken /\ ~Taken' /\ UNCHANGED jobs
         /\ executed' = Append(executed, Len(executed) + 1)
<1>1. /\ pc[t] = "execute" /\ Len(executed) \in Nat /\ executed \in Seq(Nat)
      /\ pc \in [Threads -> Labels] /\ job[t].id = Len(executed) + 1
  BY DEF StepExecute, At, EpochInv, TypeOK, ControlOK, JobsOK, Numbered
<1>2. /\ executed' = Append(executed, job[t].id)
      /\ pc' = [pc EXCEPT ![t] = "unlock"] /\ UNCHANGED <<jobs, job, nextId>>
  BY <1>1 DEF StepExecute, Crash, EpochInv, Goto, locals
<1>3. \A u \in Threads : (u # t => pc[u] # "execute") /\ pc'[u] # "execute"
  BY <1>1, <1>2 DEF EpochInv, Exclusion, OnePast, Past, CriticalSection
<1>4. Len(executed') = Len(executed) + 1
  BY <1>1, <1>2
<1>5. Taken /\ ~Taken' /\ Ahead' = Ahead
  BY <1>1, <1>3, <1>4 DEF Taken, Ahead
<1>6. pc'[Main] = "emplace" <=> pc[Main] = "emplace"
  BY <1>1, <1>2 DEF Threads
<1>7. Numbered'
  BY <1>2, <1>3, <1>5, <1>6 DEF Numbered
<1> QED
  BY <1>1, <1>2, <1>5, <1>7

LEMMA PushNumbered ==
  ASSUME FirstEpoch, EpochInv, Numbered, Pushes
  PROVE  Numbered' /\ Taken' = Taken /\ UNCHANGED <<jobs, executed>>
<1>0. Main \in Threads /\ pc \in [Threads -> Labels] /\ job \in [Threads -> Jobs]
  BY DEF Threads, EpochInv, TypeOK, ControlOK, JobsOK
<1>1. PICK code \in Codes : ScheduleJob(code)
  BY DEF Pushes
<1>2. /\ pc' = [pc EXCEPT ![Main] = "emplace"] /\ nextId' = nextId + 1
      /\ job' = [job EXCEPT ![Main] = [id |-> nextId, code |-> code]]
      /\ UNCHANGED <<jobs, executed>>
  BY <1>1 DEF ScheduleJob, Goto
<1>3. pc[Main] \notin {"execute", "emplace"} /\ jobs = <<>>
  BY DEF Pushes
<1>4. Taken' = Taken
  BY <1>0, <1>2, <1>3 DEF Taken
<1>5. Ahead' = Ahead
  BY <1>2, <1>4 DEF Ahead
<1>6. nextId = Ahead + 1 /\ Ahead \in Nat
  <2>1. Len(executed) \in Nat /\ Len(jobs) = 0
    BY <1>3 DEF EpochInv, TypeOK, JobsOK
  <2>2. Ahead \in Nat
    BY <2>1 DEF Ahead
  <2> QED
    BY <1>3, <2>1, <2>2 DEF Numbered
<1>7. job'[Main].id = nextId /\ \A t \in Threads \ {Main} : job'[t] = job[t]
  BY <1>0, <1>2
<1>8. \A t \in Threads : pc'[t] = "execute" => t # Main /\ pc[t] = "execute"
  BY <1>0, <1>2
<1>9. pc'[Main] = "emplace" /\ Len(jobs) = 0
  BY <1>0, <1>2, <1>3
<1> QED
  BY <1>2, <1>3, <1>4, <1>5, <1>6, <1>7, <1>8, <1>9 DEF Numbered

LEMMA EmplaceNumbered ==
  ASSUME FirstEpoch, EpochInv, Numbered, MainEmplace
  PROVE  Numbered' /\ Taken' = Taken /\ jobs = <<>> /\ jobs' # <<>> /\ UNCHANGED executed
<1>0. Main \in Threads /\ pc \in [Threads -> Labels] /\ job \in [Threads -> Jobs]
  BY DEF Threads, EpochInv, TypeOK, ControlOK, JobsOK
<1>1. pc[Main] = "emplace" /\ ~raced /\ jobs = <<>>
  BY DEF MainEmplace, At, EpochInv, JobsPaced, OneJob, NoJobYet
<1>2. /\ jobs' = Append(jobs, job[Main])
      /\ pc' = [pc EXCEPT ![Main] = AfterEmplace(job[Main].code)]
      /\ job' = [job EXCEPT ![Main] = NoJob] /\ UNCHANGED <<executed, nextId>>
  BY <1>1 DEF MainEmplace, Goto
<1>3. AfterEmplace(job[Main].code) \notin {"execute", "emplace"}
  BY DEF AfterEmplace
<1>4. Len(jobs') = 1 /\ jobs'[1] = job[Main]
  BY <1>0, <1>1, <1>2
<1>5. \A t \in Threads : (pc'[t] = "execute" <=> pc[t] = "execute")
                         /\ (pc'[t] = "execute" => job'[t] = job[t])
  BY <1>0, <1>1, <1>2, <1>3
<1>6. Taken' = Taken /\ Ahead' = Ahead
  BY <1>2, <1>5 DEF Taken, Ahead
<1>7. pc'[Main] # "emplace"
  BY <1>0, <1>2, <1>3
<1>8. nextId = Ahead + 2 /\ job[Main].id = Ahead + 1 /\ Ahead \in Nat
  BY <1>1 DEF Numbered, Ahead, EpochInv, TypeOK, JobsOK
<1>9. jobs' # <<>>
  BY <1>4
<1> QED
  BY <1>1, <1>2, <1>4, <1>5, <1>6, <1>7, <1>8, <1>9 DEF Numbered

LEMMA NumberedStep ==
  FirstEpoch /\ EpochInv /\ EpochInv' /\ Numbered /\ [Next]_vars => Numbered'
<1> SUFFICES ASSUME FirstEpoch, EpochInv, EpochInv', Numbered, [Next]_vars
             PROVE  Numbered'
  OBVIOUS
<1>1. ~crashed'
  BY DEF EpochInv
<1> QED
  BY <1>1, Moves, QuietNumbered, PopNumbered, ExecuteNumbered, PushNumbered, EmplaceNumbered

LEMMA IdsNumbered == FirstEpoch => (SafeSpec => []Numbered)
<1> SUFFICES ASSUME FirstEpoch PROVE SafeSpec => []Numbered
  OBVIOUS
<1>1. Init => Numbered
  <2> SUFFICES ASSUME Init PROVE Numbered
    OBVIOUS
  <2>1. ~Taken /\ pc[Main] # "emplace"
    BY DEF Init, Taken, Threads
  <2>2. jobs = <<>> /\ Len(jobs) = 0 /\ Len(executed) = 0 /\ nextId = 1
    BY DEF Init
  <2> QED
    BY <2>1, <2>2 DEF Numbered, Taken, Ahead
<1>2. EpochInv /\ EpochInv' /\ Numbered /\ [Next]_vars => Numbered'
  BY NumberedStep
<1> QED
  BY EpochInvariant, <1>1, <1>2, PTL DEF SafeSpec

LEMMA QueueStep ==
  /\ FirstEpoch /\ EpochInv /\ EpochInv' /\ Numbered /\ Numbered' /\ [Next]_vars
  => [Queue!Next]_Queue!vars
<1> SUFFICES ASSUME FirstEpoch, EpochInv, EpochInv', Numbered, Numbered', [Next]_vars
             PROVE  [Queue!Next]_Queue!vars
  OBVIOUS
<1> DEFINE k == Len(executed)
<1>0. k \in Nat /\ executed \in Seq(Nat) /\ ~crashed'
  BY DEF EpochInv, TypeOK, JobsOK
<1>1. /\ Taken \/ jobs = <<>> \/ Pending = <<k + 1>>
      /\ Taken \/ jobs # <<>> \/ Pending = <<>>
      /\ ~Taken \/ jobs # <<>> \/ Pending = <<k + 1>>
      /\ ~Taken \/ jobs = <<>> \/ Pending = <<k + 1, k + 2>>
  BY PendingIs
<1>2. (EpochInv /\ Numbered =>
        /\ Taken \/ jobs = <<>> \/ Pending = <<k + 1>>
        /\ Taken \/ jobs # <<>> \/ Pending = <<>>
        /\ ~Taken \/ jobs # <<>> \/ Pending = <<k + 1>>
        /\ ~Taken \/ jobs = <<>> \/ Pending = <<k + 1, k + 2>>)'
  BY PendingIs, PTL
<1> HIDE DEF k
<1>3. UNCHANGED <<Pending, executed>> => [Queue!Next]_Queue!vars
  BY DEF Queue!vars, Pending
<1>4. CASE Quiet
  <2>1. Taken' = Taken /\ UNCHANGED <<jobs, executed>> /\ k' = k
    BY <1>4, QuietNumbered DEF Quiet, k
  <2>2. Pending' = Pending
    BY <1>1, <1>2, <2>1
  <2> QED
    BY <1>3, <2>1, <2>2
<1>5. ASSUME NEW t \in Threads, StepPop(t) PROVE [Queue!Next]_Queue!vars
  <2>1. ~Taken /\ Taken' /\ jobs # <<>> /\ jobs' = <<>> /\ UNCHANGED executed /\ k' = k
    BY <1>5, PopNumbered DEF k
  <2>2. Pending' = Pending
    BY <1>1, <1>2, <2>1
  <2> QED
    BY <1>3, <2>1, <2>2
<1>6. ASSUME NEW t \in Threads, StepExecute(t) PROVE [Queue!Next]_Queue!vars
  <2>1. /\ Taken /\ ~Taken' /\ UNCHANGED jobs /\ executed' = Append(executed, k + 1)
    BY <1>6, ExecuteNumbered DEF k
  <2>2. k' = k + 1
    BY <1>0, <2>1 DEF k
  <2>3. /\ Pending # <<>> /\ Head(Pending) = k + 1 /\ Pending' = Tail(Pending)
    <3>1. CASE jobs = <<>>
      <4>1. Pending = <<k + 1>> /\ Pending' = <<>>
        BY <1>1, <1>2, <2>1, <3>1
      <4>2. Tail(<<k + 1>>) \in Seq(Nat) /\ Len(Tail(<<k + 1>>)) = 0
        BY <1>0
      <4>3. Tail(<<k + 1>>) = <<>>
        BY <4>2, EmptySeq
      <4> QED
        BY <4>1, <4>3
    <3>2. CASE jobs # <<>>
      <4>1. Pending = <<k + 1, k + 2>> /\ Pending' = <<k' + 1>> /\ k' + 1 = k + 2
        BY <1>0, <1>1, <1>2, <2>1, <2>2, <3>2
      <4> QED
        BY <4>1
    <3> QED
      BY <3>1, <3>2
  <2> QED
    BY <2>1, <2>3 DEF Queue!Next, Queue!Execute, Pending
<1>7. CASE Pushes
  <2>1. Taken' = Taken /\ UNCHANGED <<jobs, executed>> /\ k' = k
    BY <1>7, PushNumbered DEF k
  <2>2. Pending' = Pending
    BY <1>1, <1>2, <2>1
  <2> QED
    BY <1>3, <2>1, <2>2
<1>8. CASE MainEmplace
  <2>1. Taken' = Taken /\ jobs = <<>> /\ jobs' # <<>> /\ UNCHANGED executed /\ k' = k
    BY <1>8, EmplaceNumbered DEF k
  <2>2. Pending' = Append(Pending, Len(Pending) + k + 1)
    <3>1. CASE ~Taken
      <4>1. Pending = <<>> /\ Pending' = <<k + 1>>
        BY <1>1, <1>2, <2>1, <3>1
      <4>2. Len(Pending) + k + 1 = k + 1
        BY <1>0, <4>1
      <4> QED
        BY <4>1, <4>2
    <3>2. CASE Taken
      <4>1. Pending = <<k + 1>> /\ Pending' = <<k + 1, k + 2>>
        BY <1>1, <1>2, <2>1, <3>2
      <4>2. Len(Pending) + k + 1 = k + 2
        BY <1>0, <4>1
      <4>3. Append(<<k + 1>>, k + 2) = <<k + 1, k + 2>>
        BY <1>0, AppendTwo
      <4> QED
        BY <4>1, <4>2, <4>3
    <3> QED
      BY <3>1, <3>2
  <2> QED
    BY <2>1, <2>2 DEF Queue!Next, Queue!Submit, Pending, k
<1> QED
  BY <1>0, <1>4, <1>5, <1>6, <1>7, <1>8, Moves

\* Every step of the scheduler is a submission to the abstract queue, the
\* execution of its oldest job, or nothing to it: before the first reinit(),
\* every job pushed is executed at most once and in the order of submission,
\* although back() and pop() take from opposite ends of the deque and
\* schedule_job takes no lock.
THEOREM JobQueueImplemented ==
  FirstEpoch => (SafeSpec => Queue!Init /\ [][Queue!Next]_Queue!vars)
<1> SUFFICES ASSUME FirstEpoch PROVE SafeSpec => Queue!Init /\ [][Queue!Next]_Queue!vars
  OBVIOUS
<1>1. Init => Queue!Init
  <2> SUFFICES ASSUME Init PROVE Queue!Init
    OBVIOUS
  <2>1. InHand = {} /\ Ids(jobs) = <<>> /\ executed = <<>>
    BY DEF Init, InHand, Ids
  <2> QED
    BY <2>1 DEF Queue!Init
<1>2. /\ EpochInv /\ EpochInv' /\ Numbered /\ Numbered' /\ [Next]_vars
      => [Queue!Next]_Queue!vars
  BY QueueStep
<1> QED
  BY EpochInvariant, IdsNumbered, <1>1, <1>2, PTL DEF SafeSpec

=============================================================================
