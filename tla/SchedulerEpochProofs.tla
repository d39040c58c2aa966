------------------------ MODULE SchedulerEpochProofs ------------------------
(***************************************************************************)
(* Proofs of what holds of Scheduler in its first epoch, that is, until    *)
(* the user first types reinit(), if the user types a line only once the   *)
(* scheduler has taken the one before: for every set of VMs, any number of *)
(* lines of any kind, and whichever VM hands over its states.  The last    *)
(* section does without the second hypothesis.                             *)
(***************************************************************************)
EXTENDS SchedulerSafetyProofs, SequenceTheorems

-----------------------------------------------------------------------------
(* The parts of the inductive invariant.                                   *)

FirstEpoch == MaxReinits = 0 /\ Patient

\* Nobody clears the states.
NoReinit == reinits = 0 /\ \A t \in Threads : op[t] # "re_initialize"

\* The states are set in order, and once: whoever is about to set the executor
\* state finds it null.
HandedOver ==
    /\ execState # Null => rbxState # Null
    /\ \A v \in VMs :
          /\ pc[v] = "set_exec" => rbxState # Null
          /\ op[v] = "initialize_with" /\ pc[v] # "unlock" => execState = Null

\* The module's thread has taken the step in register_env.
HasStepped == \/ pc[Main] \in {"unlock", "schedule_init", "remove", "input"}
              \/ pc[Main] = "emplace" /\ job[Main].code # "hook"

\* VM v runs a script of ours, or the scheduler, or is about to.
Ours(v) == \/ deferred[v] # <<>> \/ stepping[v] \/ scripts[v]
           \/ pc[v] \in {"args", "args_key", "args_runner", "compare"}
           \/ op[v] \in {"step", "read_rbx", "checkcaller"}

\* Only the VM of the executor state does, and only after that step.
AtHome == \A v \in VMs :
             Ours(v) => execState # Null /\ home[execState] = v /\ HasStepped

\* Once past the test of the flag, a thread is alone there.
Past(t)  == pc[t] = "set" \/ pc[t] \in CriticalSection
OnePast  == \A t, u \in Threads : Past(t) /\ Past(u) => t = u
LockHeld == \A t \in Threads : pc[t] \in CriticalSection => locked
Exclusion == OnePast /\ LockHeld

\* register_env's own step passes the right key.
KeysOK == /\ pc[Main] \notin {"install", "wait", "env", "set_key"} => schedKey = keyV
          /\ pc[Main] = "compare" => key[Main] = keyV

\* Every step is given the executor state.
RunnersOK ==
    /\ pc[Main] \in {"set_key", "register"} => runner[Main] # Null
    /\ \A t \in Threads :
          pc[t] \in {"args_key", "compare"} \/ op[t] = "step"
             => runner[t] # Null /\ runner[t] = execState

\* There is one job at a time, and none while the next is being pushed.
NoJobYet == {"install", "wait", "env", "set_key", "register", "schedule_hook",
             "emplace", "execute", "unlock", "schedule_init"}
OneJob == /\ jobs = <<>> \/ (Len(jobs) = 1 /\ jobs[1].code # "garbage")
          /\ pc[Main] \in NoJobYet => jobs = <<>>

\* Whoever has found the queue not empty still does, and has its one job.
JobInHand(t) == /\ pc[t] \in {"back", "pop"} => jobs # <<>>
                /\ pc[t] = "pop" => job[t] = jobs[1]
                /\ job[t].code # "garbage"
JobsPaced == OneJob /\ ~raced /\ \A t \in Threads : JobInHand(t)

EpochInv == /\ TypeOK /\ OpsOK /\ MutxOK /\ StatesKept
            /\ NoReinit /\ HandedOver /\ AtHome /\ Exclusion
            /\ KeysOK /\ RunnersOK /\ JobsPaced /\ ~crashed

-----------------------------------------------------------------------------
(* Without reinit(), no operation clears the states.                       *)

LEMMA NoReinitStep ==
  MaxReinits = 0 /\ ControlOK /\ NoReinit /\ [Next]_vars => NoReinit'
<1> SUFFICES ASSUME MaxReinits = 0, ControlOK, NoReinit, [Next]_vars PROVE NoReinit'
  OBVIOUS
<1> USE DEF NoReinit, inputVars, locals, Call, Leave, Crash
<1>1. ASSUME NEW t \in Threads, LockAction(t) PROVE NoReinit'
  BY <1>1 DEF LockAction, LockTest, LockSet, Unlock, ControlOK
<1>2. ASSUME NEW t \in Threads, StepAction(t) PROVE NoReinit'
  BY <1>2 DEF StepAction, StepCompare, StepEmpty, StepBack, StepPop, StepExecute,
       ControlOK
<1>3. ASSUME NEW t \in Threads, StatesAction(t) PROVE NoReinit'
  BY <1>3 DEF StatesAction, InitializeRoblox, InitializeExecutor,
       ReinitializeExecutor, ReinitializeRoblox
<1>4. ASSUME NEW v \in VMs, EnvironmentAction(v) PROVE NoReinit'
  BY <1>4 DEF EnvironmentAction, getreg, getrenv, checkcaller, CallEnvironment,
       ReadRoblox, CheckExecutor, ReadExecutor, ControlOK
<1>5. ASSUME NEW v \in VMs, DetourAction(v) PROVE NoReinit'
  BY <1>5 DEF DetourAction, DetourEnter, DetourLock, DetourSkip, Reject,
       DetourRejectSingleStep, DetourRejectPlace, DetourGrab, DetourUnlock, ControlOK
<1>6. ASSUME NEW v \in VMs, StudioAction(v) PROVE NoReinit'
  BY <1>6 DEF StudioAction, ResumeDeferred, Stepped, SteppedRunner, SteppedKey
<1>7. CASE MainAction
  BY <1>7 DEF MainAction, MainInstallHook, MainWaitUntilInitialised,
       MainRegisterEnv, MainSetSchedulerKey, MainRegisterLibraries,
       MainScheduleHook, MainEmplace, MainStep, MainScheduleInit, MainRemoveHook,
       ScheduleJob
<1>8. ASSUME NEW code \in UserCode, MainInput(code) PROVE NoReinit'
  BY <1>8 DEF MainInput, ScheduleJob
<1>9. CASE MainReinit
  BY <1>9 DEF MainReinit
<1>10. CASE UNCHANGED vars
  BY <1>10 DEF vars
<1> QED
  BY <1>1, <1>2, <1>3, <1>4, <1>5, <1>6, <1>7, <1>8, <1>9, <1>10 DEF Next

-----------------------------------------------------------------------------
(* The states are handed over once.                                        *)

\* Once set, the executor state stays, and the Roblox state is not cleared.
LEMMA StatesStay ==
  ControlOK /\ OpsOK /\ NoReinit /\ HandedOver /\ [Next]_vars
    => /\ execState # Null => execState' = execState
       /\ rbxState # Null => rbxState' # Null
<1> SUFFICES ASSUME ControlOK, OpsOK, NoReinit, HandedOver, [Next]_vars
             PROVE  /\ execState # Null => execState' = execState
                    /\ rbxState # Null => rbxState' # Null
  OBVIOUS
<1> USE DEF At, Goto, lockVars, Crash
<1>1. ASSUME NEW t \in Threads, InitializeRoblox(t) PROVE execState' = execState /\ rbxState' # Null
  BY <1>1, OpAtLabel DEF InitializeRoblox, OpsOK, OpOK
<1>2. ASSUME NEW t \in Threads, InitializeExecutor(t) PROVE execState = Null /\ rbxState' = rbxState
  <2>1. op[t] = "initialize_with" /\ t \in VMs
    BY <1>2, OpAtLabel DEF InitializeExecutor, OpsOK, OpOK
  <2> QED
    BY <1>2, <2>1 DEF InitializeExecutor, HandedOver
<1>3. ASSUME NEW t \in Threads, ReinitializeExecutor(t) \/ ReinitializeRoblox(t) PROVE FALSE
  BY <1>3, OpAtLabel DEF ReinitializeExecutor, ReinitializeRoblox, NoReinit
<1>4. CASE UNCHANGED <<execState, rbxState>>
  BY <1>4
<1>5. ASSUME NEW t \in Threads, LockAction(t) \/ StepAction(t) PROVE UNCHANGED <<execState, rbxState>>
  BY <1>5 DEF LockAction, LockTest, LockSet, Unlock, StepAction, StepCompare,
       StepEmpty, StepBack, StepPop, StepExecute
<1>6. ASSUME NEW v \in VMs, EnvironmentAction(v) \/ StudioAction(v)
      PROVE  UNCHANGED <<execState, rbxState>>
  BY <1>6 DEF EnvironmentAction, getreg, getrenv, checkcaller, CallEnvironment,
       ReadRoblox, CheckExecutor, ReadExecutor, StudioAction, ResumeDeferred,
       Stepped, SteppedRunner, SteppedKey
<1>7. ASSUME NEW v \in VMs, DetourAction(v) PROVE UNCHANGED <<execState, rbxState>>
  BY <1>7 DEF DetourAction, DetourEnter, DetourLock, DetourSkip, Reject,
       DetourRejectSingleStep, DetourRejectPlace, DetourGrab, DetourUnlock
<1>8. ASSUME MainAction \/ MainReinit \/ \E code \in UserCode : MainInput(code)
      PROVE  UNCHANGED <<execState, rbxState>>
  BY <1>8 DEF MainAction, MainInstallHook, MainWaitUntilInitialised,
       MainRegisterEnv, MainSetSchedulerKey, MainRegisterLibraries,
       MainScheduleHook, MainEmplace, MainStep, MainScheduleInit, MainRemoveHook,
       ScheduleJob, MainReinit, MainInput
<1>9. CASE UNCHANGED vars
  BY <1>9 DEF vars
<1> QED
  BY <1>1, <1>2, <1>3, <1>4, <1>5, <1>6, <1>7, <1>8, <1>9 DEF Next, StatesAction

\* A step that leaves the states alone and brings no VM nearer to setting them.
LEMMA HandedSame ==
  ASSUME HandedOver, UNCHANGED <<execState, rbxState>>,
         \A v \in VMs : /\ pc'[v] = "set_exec" => pc[v] = "set_exec"
                        /\ op'[v] = "initialize_with" /\ pc'[v] # "unlock"
                              => op[v] = "initialize_with" /\ pc[v] # "unlock"
  PROVE  HandedOver'
  BY DEF HandedOver

\* The steps of thread t that change only its label.
LEMMA HandedLabel ==
  ASSUME ControlOK, HandedOver, NEW t \in Threads, NEW l,
         UNCHANGED <<execState, rbxState, op>>, pc' = [pc EXCEPT ![t] = l],
         l # "set_exec", pc[t] = "unlock" => l = "unlock"
  PROVE  HandedOver'
<1>1. \A v \in VMs : v \in Threads
  BY DEF Threads
<1> QED
  BY <1>1, HandedSame DEF ControlOK

\* The steps that call or leave an operation.
LEMMA HandedCall ==
  ASSUME ControlOK, HandedOver, NEW t \in Threads, NEW l, NEW o,
         UNCHANGED <<execState, rbxState>>, pc' = [pc EXCEPT ![t] = l],
         op' = [op EXCEPT ![t] = o],
         l # "set_exec", o # "initialize_with"
  PROVE  HandedOver'
<1>1. \A v \in VMs : v \in Threads
  BY DEF Threads
<1> QED
  BY <1>1, HandedSame DEF ControlOK

LEMMA HandedOverStep ==
  /\ ControlOK /\ OpsOK /\ MutxOK /\ NoReinit /\ HandedOver /\ [Next]_vars
  => HandedOver'
<1> SUFFICES ASSUME ControlOK, OpsOK, MutxOK, NoReinit, HandedOver, [Next]_vars
             PROVE  HandedOver'
  OBVIOUS
<1> USE DEF Goto, At, locals, lockVars
<1>1. ASSUME NEW t \in Threads, LockAction(t) PROVE HandedOver'
  <2>1. CASE LockTest(t)
    BY <2>1, HandedLabel DEF LockTest
  <2>2. CASE LockSet(t)
    <3>1. Body(op[t]) # "set_exec"
      BY DEF Body
    <3> QED
      BY <2>2, <3>1, HandedLabel DEF LockSet
  <2>3. CASE Unlock(t)
    <3>1. Caller(t) # "set_exec"
      BY DEF Caller
    <3> QED
      BY <2>3, <3>1, HandedCall DEF Unlock, Leave
  <2> QED
    BY <1>1, <2>1, <2>2, <2>3 DEF LockAction
<1>2. ASSUME NEW t \in Threads, StepAction(t) PROVE HandedOver'
  <2>1. CASE StepCompare(t)
    <3>1. Caller(t) # "set_exec"
      BY DEF Caller
    <3> QED
      BY <2>1, <3>1, HandedCall DEF StepCompare, Call, Leave
  <2>2. CASE Crash
    BY <2>2, HandedSame DEF Crash
  <2>3. CASE ~Crash /\ (StepEmpty(t) \/ StepBack(t) \/ StepPop(t) \/ StepExecute(t))
    BY <2>3, HandedLabel DEF StepEmpty, StepBack, StepPop, StepExecute
  <2> QED
    BY <1>2, <2>1, <2>2, <2>3 DEF StepAction
<1>3. ASSUME NEW t \in Threads, StatesAction(t) PROVE HandedOver'
  <2>1. CASE ReinitializeExecutor(t) \/ ReinitializeRoblox(t)
    BY <2>1, OpAtLabel DEF ReinitializeExecutor, ReinitializeRoblox, NoReinit
  <2>2. CASE InitializeRoblox(t) \/ InitializeExecutor(t)
    <3>1. t \in VMs /\ runner[t] # Null /\ op[t] = "initialize_with"
      BY <2>2, OpAtLabel DEF InitializeRoblox, InitializeExecutor, OpsOK, OpOK
    <3>2. \A v \in VMs : v \in Threads /\ (op[v] = "initialize_with" => v = t)
      BY <3>1 DEF MutxOK, InDetour, Owns, Threads
    <3>3. CASE InitializeRoblox(t)
      <4>1. rbxState' # Null /\ execState' = execState /\ op' = op
        BY <3>1, <3>3 DEF InitializeRoblox
      <4>2. \A v \in VMs : op[v] = "initialize_with" => execState = Null
        BY <3>1, <3>2, <3>3 DEF InitializeRoblox, HandedOver
      <4> QED
        BY <4>1, <4>2 DEF HandedOver
    <3>4. CASE InitializeExecutor(t)
      <4>1. rbxState # Null /\ rbxState' = rbxState /\ op' = op /\ pc'[t] = "unlock"
        BY <3>1, <3>4 DEF InitializeExecutor, HandedOver, ControlOK
      <4> QED
        BY <3>2, <4>1 DEF HandedOver
    <3> QED
      BY <2>2, <3>3, <3>4
  <2> QED
    BY <1>3, <2>1, <2>2 DEF StatesAction
<1>4. ASSUME NEW v \in VMs, EnvironmentAction(v) PROVE HandedOver'
  <2> v \in Threads
    BY DEF Threads
  <2>1. ASSUME NEW o \in {"read_rbx", "checkcaller"}, CallEnvironment(v, o)
        PROVE  HandedOver'
    BY <2>1, HandedCall DEF CallEnvironment, Call
  <2>2. CASE Crash
    BY <2>2, HandedSame DEF Crash
  <2>3. CASE ~Crash /\ (ReadRoblox(v) \/ CheckExecutor(v) \/ ReadExecutor(v))
    BY <2>3, HandedLabel DEF ReadRoblox, CheckExecutor, ReadExecutor
  <2> QED
    BY <1>4, <2>1, <2>2, <2>3 DEF EnvironmentAction, getreg, getrenv, checkcaller
<1>5. ASSUME NEW v \in VMs, DetourAction(v) PROVE HandedOver'
  <2> v \in Threads
    BY DEF Threads
  <2>1. CASE DetourGrab(v)
    <3>1. execState = Null
      BY <2>1 DEF DetourGrab, is_initialized, HandedOver
    <3>2. UNCHANGED <<execState, rbxState>> /\ \A w \in VMs : pc'[w] = "set_exec" => pc[w] = "set_exec"
      BY <2>1 DEF DetourGrab, Call, ControlOK, Threads
    <3> QED
      BY <3>1, <3>2 DEF HandedOver
  <2>2. CASE \/ DetourEnter(v) \/ DetourLock(v) \/ DetourSkip(v) \/ Reject(v)
             \/ DetourUnlock(v)
    BY <2>2, HandedLabel DEF DetourEnter, DetourLock, DetourSkip, Reject, DetourUnlock
  <2> QED
    BY <1>5, <2>1, <2>2 DEF DetourAction, DetourRejectSingleStep, DetourRejectPlace
<1>6. ASSUME NEW v \in VMs, StudioAction(v) PROVE HandedOver'
  <2> v \in Threads
    BY DEF Threads
  <2>1. CASE ResumeDeferred(v)
    BY <2>1, HandedSame DEF ResumeDeferred
  <2>2. CASE Stepped(v) \/ SteppedRunner(v) \/ SteppedKey(v)
    BY <2>2, HandedLabel DEF Stepped, SteppedRunner, SteppedKey
  <2> QED
    BY <1>6, <2>1, <2>2 DEF StudioAction
<1>7. CASE MainAction
  <2> Main \in Threads
    BY DEF Threads
  <2>1. CASE Crash
    BY <2>1, HandedSame DEF Crash
  <2>2. CASE ~Crash
    <3>1. AfterEmplace(job[Main].code) # "set_exec"
      BY DEF AfterEmplace
    <3>2. /\ UNCHANGED <<execState, rbxState, op>> /\ pc[Main] # "unlock"
          /\ \E l : l # "set_exec" /\ pc' = [pc EXCEPT ![Main] = l]
      BY <1>7, <2>2, <3>1 DEF MainAction, MainInstallHook, MainWaitUntilInitialised,
           MainRegisterEnv, MainSetSchedulerKey, MainRegisterLibraries,
           MainScheduleHook, MainEmplace, MainStep, MainScheduleInit,
           MainRemoveHook, ScheduleJob
    <3> QED
      BY <3>2, HandedLabel
  <2> QED
    BY <2>1, <2>2
<1>8. ASSUME NEW code \in UserCode, MainInput(code) PROVE HandedOver'
  BY <1>8, HandedLabel DEF MainInput, ScheduleJob, Threads
<1>9. CASE MainReinit
  BY <1>9, HandedCall DEF MainReinit, Call, Threads
<1>10. CASE UNCHANGED vars
  BY <1>10, HandedSame DEF vars
<1> QED
  BY <1>1, <1>2, <1>3, <1>4, <1>5, <1>6, <1>7, <1>8, <1>9, <1>10 DEF Next

-----------------------------------------------------------------------------
(* Where the module's thread is, and what it has found.                    *)

\* Away from the wait, it has found the states.
LEMMA MainHasStates ==
  ASSUME StatesKept, NoReinit, pc[Main] \notin {"install", "wait"}
  PROVE  execState # Null /\ rbxState # Null
  BY DEF StatesKept, NoReinit, Waiting, Threads

LEMMA HasSteppedStays ==
  /\ ControlOK /\ JobsOK /\ OpsOK /\ NoReinit /\ MaxReinits = 0 /\ HasStepped /\ [Next]_vars
  => HasStepped'
<1> SUFFICES ASSUME ControlOK, JobsOK, OpsOK, NoReinit, MaxReinits = 0, HasStepped, [Next]_vars
             PROVE  HasStepped'
  OBVIOUS
<1> USE DEF Goto, At, locals
<1>0. Main \in Threads /\ \A v \in VMs : v \in Threads /\ v # Main
  BY ThreadsAssumption DEF Threads
<1>1. pc[Main] \in {"unlock", "schedule_init", "remove", "input", "emplace"}
  BY DEF HasStepped
\* The step of another thread.
<1>2. ASSUME NEW t \in Threads, t # Main, NEW l, pc' = [pc EXCEPT ![t] = l],
             job'[Main] = job[Main]
      PROVE  HasStepped'
  <2>1. pc'[Main] = pc[Main]
    BY <1>0, <1>2 DEF ControlOK
  <2> QED
    BY <1>2, <2>1 DEF HasStepped
<1>3. CASE UNCHANGED <<pc, job>>
  BY <1>3 DEF HasStepped
<1>4. ASSUME NEW t \in Threads, LockAction(t) PROVE HasStepped'
  <2>1. CASE t = Main
    <3>1. Unlock(Main)
      BY <1>1, <1>4, <2>1 DEF LockAction, LockTest, LockSet
    <3>2. Caller(Main) = "schedule_init"
      BY <1>0, ThreadsAssumption DEF Caller, NoReinit, OpsOK, OpOK
    <3> QED
      BY <1>0, <3>1, <3>2 DEF Unlock, Leave, ControlOK, HasStepped
  <2>2. CASE t # Main
    <3>1. job'[Main] = job[Main]
      BY <1>0, <1>4, <2>2 DEF LockAction, LockTest, LockSet, Unlock, Leave, JobsOK
    <3> QED
      BY <1>2, <1>4, <2>2, <3>1 DEF LockAction, LockTest, LockSet, Unlock, Leave
  <2> QED
    BY <2>1, <2>2
<1>5. ASSUME NEW t \in Threads, StepAction(t) PROVE HasStepped'
  <2>1. t # Main
    BY <1>1, <1>5 DEF StepAction, StepCompare, StepEmpty, StepBack, StepPop, StepExecute
  <2>2. job'[Main] = job[Main]
    BY <1>0, <1>5, <2>1 DEF StepAction, StepCompare, StepEmpty, StepBack, StepPop,
         StepExecute, Call, Leave, Crash, JobsOK
  <2>3. CASE Crash
    BY <2>3, <1>3 DEF Crash
  <2>4. CASE ~Crash
    BY <1>2, <1>5, <2>1, <2>2, <2>4 DEF StepAction, StepCompare, StepEmpty,
         StepBack, StepPop, StepExecute, Call, Leave
  <2> QED
    BY <2>3, <2>4
<1>6. ASSUME NEW t \in Threads, StatesAction(t) PROVE HasStepped'
  <2>1. t # Main
    BY <1>1, <1>6 DEF StatesAction, InitializeRoblox, InitializeExecutor,
         ReinitializeExecutor, ReinitializeRoblox
  <2> QED
    BY <1>2, <1>6, <2>1 DEF StatesAction, InitializeRoblox, InitializeExecutor,
         ReinitializeExecutor, ReinitializeRoblox
<1>7. ASSUME NEW v \in VMs, EnvironmentAction(v) PROVE HasStepped'
  <2>1. UNCHANGED job
    BY <1>7 DEF EnvironmentAction, getreg, getrenv, checkcaller, CallEnvironment,
         ReadRoblox, CheckExecutor, ReadExecutor, Crash
  <2>2. CASE Crash
    BY <2>2, <1>3 DEF Crash
  <2>3. CASE ~Crash
    BY <1>0, <1>2, <1>7, <2>1, <2>3 DEF EnvironmentAction, getreg, getrenv, checkcaller,
         CallEnvironment, ReadRoblox, CheckExecutor, ReadExecutor, Call
  <2> QED
    BY <2>2, <2>3
<1>8. ASSUME NEW v \in VMs, DetourAction(v) PROVE HasStepped'
  BY <1>0, <1>2, <1>8 DEF DetourAction, DetourEnter, DetourLock, DetourSkip, Reject,
       DetourRejectSingleStep, DetourRejectPlace, DetourGrab, DetourUnlock, Call
<1>9. ASSUME NEW v \in VMs, StudioAction(v) PROVE HasStepped'
  BY <1>0, <1>2, <1>3, <1>9 DEF StudioAction, ResumeDeferred, Stepped, SteppedRunner,
       SteppedKey
<1>10. CASE MainAction
  <2>1. CASE MainScheduleInit
    BY <1>0, <2>1 DEF MainScheduleInit, ScheduleJob, ControlOK, JobsOK, HasStepped
  <2>2. CASE MainRemoveHook
    BY <1>0, <2>2 DEF MainRemoveHook, ControlOK, HasStepped
  <2>3. CASE MainEmplace
    <3>1. AfterEmplace(job[Main].code) \in {"remove", "input"}
      BY <2>3 DEF MainEmplace, HasStepped, AfterEmplace
    <3> QED
      BY <1>0, <2>3, <3>1 DEF MainEmplace, ControlOK, HasStepped
  <2> QED
    BY <1>1, <1>10, <2>1, <2>2, <2>3 DEF MainAction, MainInstallHook,
         MainWaitUntilInitialised, MainRegisterEnv, MainSetSchedulerKey,
         MainRegisterLibraries, MainScheduleHook, MainStep
<1>11. ASSUME NEW code \in UserCode, MainInput(code) PROVE HasStepped'
  <2>1. code # "hook"
    BY <1>11, CodeAssumption
  <2> QED
    BY <1>0, <1>11, <2>1 DEF MainInput, ScheduleJob, ControlOK, JobsOK, HasStepped
<1>12. CASE MainReinit
  BY <1>12 DEF MainReinit, NoReinit
<1>13. CASE UNCHANGED vars
  BY <1>3, <1>13 DEF vars
<1> QED
  BY <1>4, <1>5, <1>6, <1>7, <1>8, <1>9, <1>10, <1>11, <1>12, <1>13 DEF Next

-----------------------------------------------------------------------------
(* Exclusion.                                                              *)

\* Who tests the flag clear is alone: before the step of register_env only the
\* one initializer, or the module's thread after it, contends for the lock,
\* and after that step only the VM of the executor state.
LEMMA AloneAtTest ==
  ASSUME ControlOK, OpsOK, MutxOK, StatesKept, NoReinit, HandedOver, AtHome, LockHeld,
         NEW t \in Threads, pc[t] = "lock", ~locked, NEW u \in Threads, Past(u)
  PROVE  FALSE
<1>1. pc[u] = "set" /\ u # t
  BY DEF LockHeld, Past, CriticalSection
<1>2. ASSUME NEW w \in {t, u}, w \in VMs
      PROVE  \/ op[w] = "initialize_with" /\ execState = Null
             \/ Ours(w) /\ execState # Null
  <2>1. pc[w] \in {"lock", "set"} /\ w \in Threads
    BY <1>1, <1>2
  <2>2. op[w] \in {"step", "initialize_with", "read_rbx", "checkcaller"}
    BY <2>1, OpAtLabel DEF NoReinit, ControlOK, Ops
  <2>3. CASE op[w] = "initialize_with"
    BY <1>2, <2>1, <2>3 DEF HandedOver
  <2>4. CASE op[w] # "initialize_with"
    BY <1>2, <2>2, <2>4 DEF AtHome, Ours
  <2> QED
    BY <2>3, <2>4
<1>3. CASE t = Main \/ u = Main
  <2>1. pc[Main] \in {"lock", "set"}
    BY <1>1, <1>3
  <2>2. execState # Null /\ ~HasStepped
    BY <2>1, MainHasStates DEF HasStepped
  <2>3. PICK w \in {t, u} : w \in VMs
    BY <1>1, <1>3, ThreadsAssumption DEF Threads
  <2> QED
    BY <1>2, <2>2, <2>3 DEF AtHome
<1>4. CASE t \in VMs /\ u \in VMs
  <2>1. CASE execState = Null
    BY <1>1, <1>2, <1>4, <2>1 DEF MutxOK, InDetour, Owns
  <2>2. CASE execState # Null
    BY <1>1, <1>2, <1>4, <2>2 DEF AtHome
  <2> QED
    BY <2>1, <2>2
<1> QED
  BY <1>3, <1>4 DEF Threads

\* A step of one thread that does not bring it past the test.
LEMMA ExclusionKept ==
  ASSUME ControlOK, Exclusion, NEW t \in Threads, NEW l,
         UNCHANGED locked, pc' = [pc EXCEPT ![t] = l],
         l = "set" => pc[t] = "set",
         l \in CriticalSection => pc[t] \in CriticalSection
  PROVE  Exclusion'
<1>1. \A u \in Threads : /\ Past(u)' => Past(u)
                         /\ pc'[u] \in CriticalSection => pc[u] \in CriticalSection
  BY DEF ControlOK, Past
<1> QED
  BY <1>1 DEF Exclusion, OnePast, LockHeld

LEMMA ExclusionSame == Exclusion /\ UNCHANGED <<locked, pc>> => Exclusion'
  BY DEF Exclusion, OnePast, LockHeld, Past

LEMMA ExclusionStep ==
  /\ ControlOK /\ OpsOK /\ MutxOK /\ StatesKept /\ NoReinit /\ HandedOver /\ AtHome
  /\ Exclusion /\ [Next]_vars
  => Exclusion'
<1> SUFFICES ASSUME ControlOK, OpsOK, MutxOK, StatesKept, NoReinit, HandedOver, AtHome,
                    Exclusion, [Next]_vars
             PROVE  Exclusion'
  OBVIOUS
<1> USE DEF Goto, At, lockVars
<1>1. ASSUME NEW t \in Threads, LockAction(t) PROVE Exclusion'
  <2>1. CASE LockTest(t)
    <3>1. \A u \in Threads : ~Past(u)
      BY <2>1, AloneAtTest DEF LockTest, Exclusion
    <3>2. \A u \in Threads : /\ u # t => ~Past(u)'
                             /\ pc'[u] \notin CriticalSection
      BY <2>1, <3>1 DEF LockTest, ControlOK, Past, CriticalSection
    <3> QED
      BY <3>2 DEF Exclusion, OnePast, LockHeld
  <2>2. CASE LockSet(t)
    <3>1. locked'
      BY <2>2 DEF LockSet
    <3>2. \A u \in Threads : Past(u)' => Past(u)
      BY <2>2 DEF LockSet, ControlOK, Past
    <3> QED
      BY <3>1, <3>2 DEF Exclusion, OnePast, LockHeld
  <2>3. CASE Unlock(t)
    <3>1. Past(t) /\ Caller(t) # "set" /\ Caller(t) \notin CriticalSection
      BY <2>3 DEF Unlock, Past, Caller, CriticalSection
    <3>2. \A u \in Threads : u # t => ~Past(u)
      BY <3>1 DEF Exclusion, OnePast
    <3>3. \A u \in Threads : ~Past(u)'
      BY <2>3, <3>1, <3>2 DEF Unlock, Leave, ControlOK, Past
    <3> QED
      BY <3>3 DEF Exclusion, OnePast, LockHeld, Past
  <2> QED
    BY <1>1, <2>1, <2>2, <2>3 DEF LockAction
<1>2. ASSUME NEW t \in Threads, StepAction(t) PROVE Exclusion'
  <2>1. CASE StepCompare(t)
    <3>1. Caller(t) # "set" /\ Caller(t) \notin CriticalSection
      BY DEF Caller, CriticalSection
    <3> QED
      BY <2>1, <3>1, ExclusionKept DEF StepCompare, Call, Leave, CriticalSection
  <2>2. CASE Crash
    BY <2>2, ExclusionSame DEF Crash
  <2>3. CASE ~Crash /\ (StepEmpty(t) \/ StepBack(t) \/ StepPop(t) \/ StepExecute(t))
    BY <2>3, ExclusionKept DEF StepEmpty, StepBack, StepPop, StepExecute, CriticalSection
  <2> QED
    BY <1>2, <2>1, <2>2, <2>3 DEF StepAction
<1>3. ASSUME NEW t \in Threads, StatesAction(t) PROVE Exclusion'
  BY <1>3, ExclusionKept DEF StatesAction, InitializeRoblox, InitializeExecutor,
       ReinitializeExecutor, ReinitializeRoblox, CriticalSection
<1>4. ASSUME NEW v \in VMs, EnvironmentAction(v) PROVE Exclusion'
  <2> v \in Threads
    BY DEF Threads
  <2>1. CASE Crash
    BY <2>1, ExclusionSame DEF Crash
  <2>2. CASE ~Crash
    BY <1>4, <2>2, ExclusionKept DEF EnvironmentAction, getreg, getrenv, checkcaller,
         CallEnvironment, Call, ReadRoblox, CheckExecutor, ReadExecutor, CriticalSection
  <2> QED
    BY <2>1, <2>2
<1>5. ASSUME NEW v \in VMs, DetourAction(v) PROVE Exclusion'
  <2> v \in Threads
    BY DEF Threads
  <2> QED
    BY <1>5, ExclusionKept DEF DetourAction, DetourEnter, DetourLock, DetourSkip,
         Reject, DetourRejectSingleStep, DetourRejectPlace, DetourGrab,
         DetourUnlock, Call, CriticalSection
<1>6. ASSUME NEW v \in VMs, StudioAction(v) PROVE Exclusion'
  <2> v \in Threads
    BY DEF Threads
  <2> QED
    BY <1>6, ExclusionKept, ExclusionSame DEF StudioAction, ResumeDeferred, Stepped,
         SteppedRunner, SteppedKey, CriticalSection
<1>7. CASE MainAction
  <2> Main \in Threads
    BY DEF Threads
  <2>1. CASE Crash
    BY <2>1, ExclusionSame DEF Crash
  <2>2. CASE ~Crash
    <3>1. AfterEmplace(job[Main].code) \notin CriticalSection \cup {"set"}
      BY DEF AfterEmplace, CriticalSection
    <3>2. UNCHANGED locked /\ \E l : l \notin CriticalSection \cup {"set"}
                                      /\ pc' = [pc EXCEPT ![Main] = l]
      BY <1>7, <2>2, <3>1 DEF MainAction, MainInstallHook, MainWaitUntilInitialised,
           MainRegisterEnv, MainSetSchedulerKey, MainRegisterLibraries,
           MainScheduleHook, MainEmplace, MainStep, MainScheduleInit,
           MainRemoveHook, ScheduleJob, CriticalSection
    <3> QED
      BY <3>2, ExclusionKept
  <2> QED
    BY <2>1, <2>2
<1>8. ASSUME NEW code \in UserCode, MainInput(code) PROVE Exclusion'
  BY <1>8, ExclusionKept DEF MainInput, ScheduleJob, Threads, CriticalSection
<1>9. CASE MainReinit
  BY <1>9, ExclusionKept DEF MainReinit, Call, Threads, CriticalSection
<1>10. CASE UNCHANGED vars
  BY <1>10, ExclusionSame DEF vars
<1> QED
  BY <1>1, <1>2, <1>3, <1>4, <1>5, <1>6, <1>7, <1>8, <1>9, <1>10 DEF Next

-----------------------------------------------------------------------------
(* Ours: only at home.                                                     *)

\* A state's VM is settled when the state is made.
LEMMA HomeStays ==
  StatesOK /\ [Next]_vars => \A i \in 1..Len(home) : home'[i] = home[i]
<1> SUFFICES ASSUME StatesOK, [Next]_vars, NEW i \in 1..Len(home) PROVE home'[i] = home[i]
  OBVIOUS
<1> USE DEF hookVars, Crash
<1>1. CASE UNCHANGED home
  BY <1>1
<1>2. ASSUME NEW v \in VMs, DetourGrab(v) PROVE home'[i] = home[i]
  BY <1>2 DEF DetourGrab, StatesOK
<1>3. ASSUME NEW t \in Threads, LockAction(t) \/ StepAction(t) \/ StatesAction(t)
      PROVE  UNCHANGED home
  BY <1>3 DEF LockAction, LockTest, LockSet, Unlock, StepAction, StepCompare,
       StepEmpty, StepBack, StepPop, StepExecute, StatesAction, InitializeRoblox,
       InitializeExecutor, ReinitializeExecutor, ReinitializeRoblox
<1>4. ASSUME NEW v \in VMs, EnvironmentAction(v) \/ StudioAction(v)
      PROVE  UNCHANGED home
  BY <1>4 DEF EnvironmentAction, getreg, getrenv, checkcaller, CallEnvironment,
       ReadRoblox, CheckExecutor, ReadExecutor, StudioAction, ResumeDeferred,
       Stepped, SteppedRunner, SteppedKey
<1>5. ASSUME NEW v \in VMs, DetourAction(v), ~DetourGrab(v) PROVE UNCHANGED home
  BY <1>5 DEF DetourAction, DetourEnter, DetourLock, DetourSkip, Reject,
       DetourRejectSingleStep, DetourRejectPlace, DetourUnlock
<1>6. ASSUME MainAction \/ MainReinit \/ \E code \in UserCode : MainInput(code)
      PROVE  UNCHANGED home
  BY <1>6 DEF MainAction, MainInstallHook, MainWaitUntilInitialised,
       MainRegisterEnv, MainSetSchedulerKey, MainRegisterLibraries,
       MainScheduleHook, MainEmplace, MainStep, MainScheduleInit, MainRemoveHook,
       ScheduleJob, MainReinit, MainInput
<1>7. CASE UNCHANGED vars
  BY <1>7 DEF vars
<1> QED
  BY <1>1, <1>2, <1>3, <1>4, <1>5, <1>6, <1>7 DEF Next

\* VM v starts nothing of ours unless it runs something of ours already.
LEMMA OursSame ==
  ASSUME ControlOK, NEW t \in Threads, NEW l, NEW o,
         pc' = [pc EXCEPT ![t] = l], op' = [op EXCEPT ![t] = o],
         UNCHANGED <<deferred, stepping, scripts>>,
         t \in VMs /\ (l \in {"args", "args_key", "args_runner", "compare"}
                          \/ o \in {"step", "read_rbx", "checkcaller"}) => Ours(t),
         NEW v \in VMs, Ours(v)'
  PROVE  Ours(v)
<1>1. v \in Threads
  BY DEF Threads
<1>2. CASE v = t
  BY <1>1, <1>2 DEF ControlOK, Ours
<1>3. CASE v # t
  BY <1>1, <1>3 DEF ControlOK, Ours
<1> QED
  BY <1>2, <1>3

LEMMA OursLabel ==
  ASSUME ControlOK, NEW t \in Threads, NEW l,
         pc' = [pc EXCEPT ![t] = l], UNCHANGED op,
         UNCHANGED <<deferred, stepping, scripts>>,
         t \in VMs /\ l \in {"args", "args_key", "args_runner", "compare"} => Ours(t),
         NEW v \in VMs, Ours(v)'
  PROVE  Ours(v)
<1>1. v \in Threads
  BY DEF Threads
<1>2. CASE v = t
  BY <1>1, <1>2 DEF ControlOK, Ours
<1>3. CASE v # t
  BY <1>1, <1>3 DEF ControlOK, Ours
<1> QED
  BY <1>2, <1>3

LEMMA OursStep ==
  ASSUME ControlOK, StatesOK, DeferredOK, OpsOK, NoReinit, RunnersOK, AtHome, [Next]_vars,
         NEW v \in VMs, Ours(v)'
  PROVE  \/ Ours(v)
         \/ execState # Null /\ home[execState] = v /\ HasStepped'
<1> USE DEF Goto, At, locals, studioVars
<1>0. Main \in Threads /\ Main \notin VMs /\ \A w \in VMs : w \in Threads
  BY ThreadsAssumption DEF Threads
<1>1. CASE UNCHANGED <<pc, op, deferred, stepping, scripts>>
  BY <1>1 DEF Ours
<1>2. ASSUME NEW t \in Threads, LockAction(t) PROVE Ours(v)
  <2>1. CASE LockTest(t)
    BY <2>1, OursLabel DEF LockTest
  <2>2. CASE LockSet(t)
    <3>1. Body(op[t]) \notin {"args", "args_key", "args_runner", "compare"}
      BY DEF Body
    <3> QED
      BY <2>2, <3>1, OursLabel DEF LockSet
  <2>3. CASE Unlock(t)
    <3>1. Caller(t) \notin {"args", "args_key", "args_runner", "compare"}
      BY DEF Caller
    <3> QED
      BY <2>3, <3>1, OursSame DEF Unlock, Leave
  <2> QED
    BY <1>2, <2>1, <2>2, <2>3 DEF LockAction
<1>3. ASSUME NEW t \in Threads, StepAction(t), ~StepExecute(t) PROVE Ours(v)
  <2>1. CASE StepCompare(t)
    <3>1. Caller(t) \notin {"args", "args_key", "args_runner", "compare"}
      BY DEF Caller
    <3>2. t \in VMs => Ours(t)
      BY <2>1 DEF StepCompare, Ours
    <3> QED
      BY <2>1, <3>1, <3>2, OursSame DEF StepCompare, Call, Leave
  <2>2. CASE Crash
    BY <1>1, <2>2 DEF Crash, Ours
  <2>3. CASE ~Crash /\ (StepEmpty(t) \/ StepBack(t) \/ StepPop(t))
    BY <2>3, OursLabel DEF StepEmpty, StepBack, StepPop
  <2> QED
    BY <1>3, <2>1, <2>2, <2>3 DEF StepAction
<1>4. ASSUME NEW t \in Threads, StepExecute(t)
      PROVE  Ours(v) \/ (execState # Null /\ home[execState] = v /\ HasStepped')
  <2>1. op[t] = "step" /\ runner[t] # Null /\ runner[t] = execState
    BY <1>4, OpAtLabel DEF StepExecute, RunnersOK
  <2>2. CASE Crash
    BY <2>2 DEF Crash, Ours
  <2>3. CASE ~Crash
    <3>1. pc' = [pc EXCEPT ![t] = "unlock"] /\ UNCHANGED <<op, job, stepping, scripts>>
      BY <1>4, <2>3 DEF StepExecute
    <3>2. deferred'[v] # deferred[v] => home[runner[t]] = v
      <4>1. CASE deferred' = deferred
        BY <4>1
      <4>2. CASE deferred' # deferred
        BY <1>4, <2>3, <4>2 DEF StepExecute, DeferredOK
      <4> QED
        BY <4>1, <4>2
    <3>3. HasStepped'
      <4>1. CASE t = Main
        BY <1>0, <3>1, <4>1 DEF ControlOK, HasStepped
      <4>2. CASE t # Main
        <5>1. HasStepped
          BY <2>1, <4>2 DEF Threads, AtHome, Ours
        <5> QED
          BY <1>0, <3>1, <4>2, <5>1 DEF ControlOK, HasStepped
      <4> QED
        BY <4>1, <4>2
    <3>4. CASE deferred'[v] = deferred[v]
      <4>1. pc'[v] = pc[v] \/ pc'[v] = "unlock"
        BY <1>0, <3>1 DEF ControlOK
      <4> QED
        BY <3>1, <3>4, <4>1 DEF Ours
    <3> QED
      BY <2>1, <3>2, <3>3, <3>4
  <2> QED
    BY <2>2, <2>3
<1>5. ASSUME NEW t \in Threads, StatesAction(t) PROVE Ours(v)
  BY <1>5, OursLabel DEF StatesAction, InitializeRoblox, InitializeExecutor,
       ReinitializeExecutor, ReinitializeRoblox
<1>6. ASSUME NEW w \in VMs, EnvironmentAction(w) PROVE Ours(v)
  <2>1. ASSUME NEW o \in {"read_rbx", "checkcaller"}, CallEnvironment(w, o)
        PROVE  Ours(v)
    <3>1. Ours(w)
      BY <2>1 DEF CallEnvironment, Ours
    <3> QED
      BY <1>0, <2>1, <3>1, OursSame DEF CallEnvironment, Call
  <2>2. CASE Crash
    BY <2>2 DEF Crash, Ours
  <2>3. CASE ~Crash /\ (ReadRoblox(w) \/ CheckExecutor(w) \/ ReadExecutor(w))
    BY <1>0, <2>3, OursLabel DEF ReadRoblox, CheckExecutor, ReadExecutor
  <2> QED
    BY <1>6, <2>1, <2>2, <2>3 DEF EnvironmentAction, getreg, getrenv, checkcaller
<1>7. ASSUME NEW w \in VMs, DetourAction(w) PROVE Ours(v)
  <2>1. CASE DetourGrab(w)
    BY <1>0, <2>1, OursSame DEF DetourGrab, Call
  <2>2. CASE \/ DetourEnter(w) \/ DetourLock(w) \/ DetourSkip(w) \/ Reject(w)
             \/ DetourUnlock(w)
    BY <1>0, <2>2, OursLabel DEF DetourEnter, DetourLock, DetourSkip, Reject, DetourUnlock
  <2> QED
    BY <1>7, <2>1, <2>2 DEF DetourAction, DetourRejectSingleStep, DetourRejectPlace
<1>8. ASSUME NEW w \in VMs, StudioAction(w) PROVE Ours(v)
  <2>1. CASE ResumeDeferred(w)
    <3>1. UNCHANGED <<pc, op>> /\ deferred[w] # <<>>
      BY <2>1 DEF ResumeDeferred
    <3>2. CASE v = w
      BY <3>1, <3>2 DEF Ours
    <3>3. CASE v # w
      <4>1. deferred'[v] = deferred[v] /\ stepping'[v] = stepping[v] /\ scripts'[v] = scripts[v]
        BY <2>1, <3>3 DEF ResumeDeferred
      <4> QED
        BY <3>1, <4>1 DEF Ours
    <3> QED
      BY <3>2, <3>3
  <2>2. CASE Stepped(w) \/ SteppedRunner(w) \/ SteppedKey(w)
    <3>1. Ours(w)
      BY <2>2 DEF Stepped, SteppedRunner, SteppedKey, Ours
    <3> QED
      BY <1>0, <2>2, <3>1, OursLabel DEF Stepped, SteppedRunner, SteppedKey
  <2> QED
    BY <1>8, <2>1, <2>2 DEF StudioAction
<1>9. CASE MainAction
  <2>1. CASE Crash
    BY <2>1 DEF Crash, Ours
  <2>2. CASE ~Crash
    <3>1. UNCHANGED <<op, deferred, stepping, scripts>> /\ \E l : pc' = [pc EXCEPT ![Main] = l]
      BY <1>9, <2>2 DEF MainAction, MainInstallHook, MainWaitUntilInitialised,
           MainRegisterEnv, MainSetSchedulerKey, MainRegisterLibraries,
           MainScheduleHook, MainEmplace, MainStep, MainScheduleInit,
           MainRemoveHook, ScheduleJob
    <3> QED
      BY <1>0, <3>1, OursLabel
  <2> QED
    BY <2>1, <2>2
<1>10. ASSUME NEW code \in UserCode, MainInput(code) PROVE Ours(v)
  BY <1>0, <1>10, OursLabel DEF MainInput, ScheduleJob
<1>11. CASE MainReinit
  BY <1>0, <1>11, OursSame DEF MainReinit, Call
<1>12. CASE UNCHANGED vars
  BY <1>12 DEF vars, Ours
<1> QED
  BY <1>1, <1>2, <1>3, <1>4, <1>5, <1>6, <1>7, <1>8, <1>9, <1>10, <1>11, <1>12
     DEF Next

LEMMA AtHomeStep ==
  /\ TypeOK /\ OpsOK /\ MaxReinits = 0 /\ NoReinit /\ HandedOver /\ RunnersOK /\ AtHome
  /\ [Next]_vars
  => AtHome'
<1> SUFFICES ASSUME TypeOK, OpsOK, MaxReinits = 0, NoReinit, HandedOver, RunnersOK,
                    AtHome, [Next]_vars, NEW v \in VMs, Ours(v)'
             PROVE  execState' # Null /\ home'[execState'] = v /\ HasStepped'
  BY DEF AtHome
<1>1. execState # Null /\ home[execState] = v /\ HasStepped'
  <2>1. CASE Ours(v)
    BY <2>1, HasSteppedStays DEF AtHome, TypeOK
  <2>2. CASE ~Ours(v)
    BY <2>2, OursStep DEF TypeOK
  <2> QED
    BY <2>1, <2>2
<1>2. execState' = execState /\ execState \in 1..Len(home)
  BY <1>1, StatesStay DEF TypeOK, StatesOK, Null
<1> QED
  BY <1>1, <1>2, HomeStays DEF TypeOK

-----------------------------------------------------------------------------
(* Keys and runners.                                                       *)

\* The steps of the other threads, and those of the module's thread that
\* concern no key.
LEMMA KeysSame ==
  ASSUME KeysOK, UNCHANGED <<schedKey, keyV>>, key'[Main] = key[Main],
         pc'[Main] = pc[Main] \/ (/\ pc[Main] \notin {"env", "set_key"}
                                  /\ pc'[Main] # "compare"
                                  /\ pc[Main] \notin {"install", "wait"}
                                        \/ pc'[Main] \in {"wait", "env"})
  PROVE  KeysOK'
  BY DEF KeysOK

LEMMA KeysStep ==
  ControlOK /\ OpsOK /\ NoReinit /\ MaxReinits = 0 /\ KeysOK /\ [Next]_vars => KeysOK'
<1> SUFFICES ASSUME ControlOK, OpsOK, NoReinit, MaxReinits = 0, KeysOK, [Next]_vars
             PROVE  KeysOK'
  OBVIOUS
<1> USE DEF Goto, At, locals, keyVars
<1>0. Main \in Threads /\ \A v \in VMs : v \in Threads /\ v # Main
  BY ThreadsAssumption DEF Threads
<1>1. CASE UNCHANGED <<schedKey, keyV, key, pc>>
  BY <1>1, KeysSame
<1>2. ASSUME NEW t \in Threads, LockAction(t) PROVE KeysOK'
  <2>1. CASE LockTest(t) \/ LockSet(t)
    <3>1. Body(op[t]) # "compare"
      BY DEF Body
    <3> QED
      BY <1>0, <2>1, <3>1, KeysSame DEF LockTest, LockSet, ControlOK
  <2>2. CASE Unlock(t)
    <3>1. Caller(t) # "compare"
      BY DEF Caller
    <3>2. CASE t = Main
      BY <1>0, <2>2, <3>1, <3>2 DEF Unlock, Leave, ControlOK, KeysOK
    <3>3. CASE t # Main
      BY <1>0, <2>2, <3>3, KeysSame DEF Unlock, Leave, ControlOK
    <3> QED
      BY <3>2, <3>3
  <2> QED
    BY <1>2, <2>1, <2>2 DEF LockAction
<1>3. ASSUME NEW t \in Threads, StepAction(t) PROVE KeysOK'
  <2>1. CASE StepCompare(t)
    <3>1. Caller(t) # "compare"
      BY DEF Caller
    <3>2. CASE t = Main
      BY <1>0, <2>1, <3>1, <3>2 DEF StepCompare, Call, Leave, ControlOK, KeysOK
    <3>3. CASE t # Main
      BY <1>0, <2>1, <3>3, KeysSame DEF StepCompare, Call, Leave, ControlOK
    <3> QED
      BY <3>2, <3>3
  <2>2. CASE Crash
    BY <1>1, <2>2 DEF Crash
  <2>3. CASE ~Crash /\ (StepEmpty(t) \/ StepBack(t) \/ StepPop(t) \/ StepExecute(t))
    BY <1>0, <2>3, KeysSame DEF StepEmpty, StepBack, StepPop, StepExecute, ControlOK
  <2> QED
    BY <1>3, <2>1, <2>2, <2>3 DEF StepAction
<1>4. ASSUME NEW t \in Threads, StatesAction(t) PROVE KeysOK'
  BY <1>0, <1>4, KeysSame DEF StatesAction, InitializeRoblox, InitializeExecutor,
       ReinitializeExecutor, ReinitializeRoblox, ControlOK
<1>5. ASSUME NEW v \in VMs, EnvironmentAction(v) PROVE KeysOK'
  BY <1>0, <1>1, <1>5, KeysSame DEF EnvironmentAction, getreg, getrenv, checkcaller,
       CallEnvironment, Call, ReadRoblox, CheckExecutor, ReadExecutor, Crash, ControlOK
<1>6. ASSUME NEW v \in VMs, DetourAction(v) PROVE KeysOK'
  BY <1>0, <1>6, KeysSame DEF DetourAction, DetourEnter, DetourLock, DetourSkip,
       Reject, DetourRejectSingleStep, DetourRejectPlace, DetourGrab,
       DetourUnlock, Call, ControlOK
<1>7. ASSUME NEW v \in VMs, StudioAction(v) PROVE KeysOK'
  BY <1>0, <1>1, <1>7, KeysSame DEF StudioAction, ResumeDeferred, Stepped,
       SteppedRunner, SteppedKey, ControlOK
<1>8. CASE MainAction
  <2>1. CASE MainInstallHook \/ MainWaitUntilInitialised
    BY <1>0, <2>1, KeysSame DEF MainInstallHook, MainWaitUntilInitialised, ControlOK
  <2>2. CASE MainRegisterEnv \/ MainSetSchedulerKey \/ MainStep
    BY <1>0, <2>2 DEF MainRegisterEnv, MainSetSchedulerKey, MainStep, ControlOK, KeysOK
  <2>3. CASE Crash
    BY <1>1, <2>3 DEF Crash
  <2>4. CASE ~Crash /\ \/ MainRegisterLibraries \/ MainScheduleHook
                       \/ MainScheduleInit \/ MainRemoveHook
    BY <1>0, <2>4, KeysSame DEF MainRegisterLibraries, MainScheduleHook,
         MainScheduleInit, MainRemoveHook, ScheduleJob, ControlOK
  <2>5. CASE MainEmplace
    <3>1. AfterEmplace(job[Main].code) # "compare"
      BY DEF AfterEmplace
    <3> QED
      BY <1>0, <2>5, <3>1, KeysSame DEF MainEmplace, ControlOK
  <2> QED
    BY <1>8, <2>1, <2>2, <2>3, <2>4, <2>5 DEF MainAction
<1>9. ASSUME NEW code \in UserCode, MainInput(code) PROVE KeysOK'
  BY <1>0, <1>9, KeysSame DEF MainInput, ScheduleJob, ControlOK
<1>10. CASE MainReinit
  BY <1>10 DEF MainReinit, NoReinit
<1>11. CASE UNCHANGED vars
  BY <1>1, <1>11 DEF vars
<1> QED
  BY <1>1, <1>2, <1>3, <1>4, <1>5, <1>6, <1>7, <1>8, <1>9, <1>10, <1>11 DEF Next

\* A thread holds a runner from the moment it has read it.
Holds(t) == pc[t] \in {"args_key", "compare"} \/ op[t] = "step"

\* Thread t moves, and no thread but t gets or loses a runner.
LEMMA RunnersKept ==
  ASSUME ControlOK, StatesOK, RunnersOK, NEW t \in Threads, NEW l, NEW o, NEW r,
         pc' = [pc EXCEPT ![t] = l], op' = [op EXCEPT ![t] = o],
         runner' = [runner EXCEPT ![t] = r],
         execState # Null => execState' = execState,
         l \in {"args_key", "compare"} \/ o = "step" => r # Null /\ r = execState,
         t = Main /\ l \in {"set_key", "register"} => r # Null
  PROVE  RunnersOK'
<1>1. ASSUME NEW u \in Threads, Holds(u)' PROVE runner'[u] # Null /\ runner'[u] = execState'
  <2>1. CASE u = t
    BY <1>1, <2>1 DEF ControlOK, StatesOK, Holds
  <2>2. CASE u # t
    BY <1>1, <2>2 DEF ControlOK, StatesOK, Holds, RunnersOK
  <2> QED
    BY <2>1, <2>2
<1>2. Main \in Threads
  BY DEF Threads
<1>3. pc'[Main] \in {"set_key", "register"} => runner'[Main] # Null
  BY <1>2 DEF ControlOK, StatesOK, RunnersOK
<1> QED
  BY <1>1, <1>3 DEF RunnersOK, Holds

\* The common case: the label moves within an operation.
LEMMA RunnersLabel ==
  ASSUME ControlOK, StatesOK, RunnersOK, NEW t \in Threads, NEW l,
         pc' = [pc EXCEPT ![t] = l], UNCHANGED <<op, runner>>,
         execState # Null => execState' = execState,
         l \in {"args_key", "compare"} => Holds(t),
         t = Main /\ l \in {"set_key", "register"} => runner[Main] # Null
  PROVE  RunnersOK'
<1>1. ASSUME NEW u \in Threads, Holds(u)' PROVE Holds(u)
  BY <1>1 DEF ControlOK, Holds
<1>2. \A u \in Threads : Holds(u) => runner[u] # Null /\ runner[u] = execState
  BY DEF RunnersOK, Holds
<1>3. pc'[Main] \in {"set_key", "register"} => runner[Main] # Null
  BY DEF ControlOK, RunnersOK, Threads
<1> QED
  BY <1>1, <1>2, <1>3 DEF RunnersOK, Holds

LEMMA RunnersSame ==
  RunnersOK /\ UNCHANGED <<pc, op, runner>> /\ (execState # Null => execState' = execState)
    => RunnersOK'
  BY DEF RunnersOK

LEMMA RunnersStep ==
  /\ ControlOK /\ StatesOK /\ OpsOK /\ StatesKept /\ NoReinit /\ MaxReinits = 0 /\ HandedOver
  /\ AtHome /\ RunnersOK /\ [Next]_vars
  => RunnersOK'
<1> SUFFICES ASSUME ControlOK, StatesOK, OpsOK, StatesKept, NoReinit, MaxReinits = 0,
                    HandedOver, AtHome, RunnersOK, [Next]_vars
             PROVE  RunnersOK'
  OBVIOUS
<1> USE DEF Goto, At, locals
<1>0. /\ execState # Null => execState' = execState
      /\ Main \in Threads /\ \A v \in VMs : v \in Threads /\ v # Main
  BY ThreadsAssumption, StatesStay DEF Threads
<1>1. ASSUME NEW t \in Threads, LockAction(t) PROVE RunnersOK'
  <2>1. CASE LockTest(t) \/ LockSet(t)
    <3>1. Body(op[t]) \notin {"args_key", "compare", "set_key", "register"}
      BY DEF Body
    <3> QED
      BY <1>0, <2>1, <3>1, RunnersLabel DEF LockTest, LockSet
  <2>2. CASE Unlock(t)
    <3>1. Caller(t) \notin {"args_key", "compare", "set_key", "register"}
      BY DEF Caller
    <3> QED
      BY <1>0, <2>2, <3>1, RunnersKept DEF Unlock, Leave
  <2> QED
    BY <1>1, <2>1, <2>2 DEF LockAction
<1>2. ASSUME NEW t \in Threads, StepAction(t) PROVE RunnersOK'
  <2>1. CASE StepCompare(t)
    <3>1. Caller(t) \notin {"args_key", "compare", "set_key", "register"}
      BY DEF Caller
    <3>2. CASE schedKey = key[t]
      <4>1. runner[t] # Null /\ runner[t] = execState
        BY <2>1 DEF StepCompare, RunnersOK
      <4>2. runner' = [runner EXCEPT ![t] = runner[t]]
        BY <2>1, <3>2 DEF StepCompare, StatesOK
      <4> QED
        BY <1>0, <2>1, <3>2, <4>1, <4>2, RunnersKept DEF StepCompare, Call
    <3>3. CASE schedKey # key[t]
      <4>1. Leave(t)
        BY <2>1, <3>3 DEF StepCompare
      <4> QED
        BY <1>0, <3>1, <4>1, RunnersKept DEF Leave
    <3> QED
      BY <3>2, <3>3
  <2>2. CASE Crash
    BY <1>0, <2>2, RunnersSame DEF Crash
  <2>3. CASE ~Crash /\ (StepEmpty(t) \/ StepBack(t) \/ StepPop(t) \/ StepExecute(t))
    BY <1>0, <2>3, RunnersLabel DEF StepEmpty, StepBack, StepPop, StepExecute
  <2> QED
    BY <1>2, <2>1, <2>2, <2>3 DEF StepAction
<1>3. ASSUME NEW t \in Threads, StatesAction(t) PROVE RunnersOK'
  BY <1>0, <1>3, RunnersLabel DEF StatesAction, InitializeRoblox, InitializeExecutor,
       ReinitializeExecutor, ReinitializeRoblox
<1>4. ASSUME NEW v \in VMs, EnvironmentAction(v) PROVE RunnersOK'
  <2>1. ASSUME NEW o \in {"read_rbx", "checkcaller"}, CallEnvironment(v, o)
        PROVE  RunnersOK'
    <3>1. runner' = [runner EXCEPT ![v] = runner[v]]
      BY <1>0, <2>1 DEF CallEnvironment, StatesOK
    <3> QED
      BY <1>0, <2>1, <3>1, RunnersKept DEF CallEnvironment, Call
  <2>2. CASE Crash
    BY <1>0, <2>2, RunnersSame DEF Crash
  <2>3. CASE ~Crash /\ (ReadRoblox(v) \/ CheckExecutor(v) \/ ReadExecutor(v))
    BY <1>0, <2>3, RunnersLabel DEF ReadRoblox, CheckExecutor, ReadExecutor
  <2> QED
    BY <1>4, <2>1, <2>2, <2>3 DEF EnvironmentAction, getreg, getrenv, checkcaller
<1>5. ASSUME NEW v \in VMs, DetourAction(v) PROVE RunnersOK'
  <2>1. CASE DetourGrab(v)
    BY <1>0, <2>1, RunnersKept DEF DetourGrab, Call
  <2>2. CASE \/ DetourEnter(v) \/ DetourLock(v) \/ DetourSkip(v) \/ Reject(v)
             \/ DetourUnlock(v)
    BY <1>0, <2>2, RunnersLabel DEF DetourEnter, DetourLock, DetourSkip, Reject, DetourUnlock
  <2> QED
    BY <1>5, <2>1, <2>2 DEF DetourAction, DetourRejectSingleStep, DetourRejectPlace
<1>6. ASSUME NEW v \in VMs, StudioAction(v) PROVE RunnersOK'
  <2>1. CASE ResumeDeferred(v)
    BY <1>0, <2>1, RunnersSame DEF ResumeDeferred
  <2>2. CASE Stepped(v)
    BY <1>0, <2>2, RunnersLabel DEF Stepped
  <2>3. CASE SteppedKey(v)
    BY <1>0, <2>3, RunnersLabel DEF SteppedKey, Holds
  <2>4. CASE SteppedRunner(v)
    <3>1. execState # Null
      BY <2>4 DEF SteppedRunner, AtHome, Ours
    <3>2. op' = [op EXCEPT ![v] = op[v]]
      BY <1>0, <2>4 DEF SteppedRunner, ControlOK
    <3> QED
      BY <1>0, <2>4, <3>1, <3>2, RunnersKept DEF SteppedRunner
  <2> QED
    BY <1>6, <2>1, <2>2, <2>3, <2>4 DEF StudioAction
<1>7. CASE MainAction
  <2>1. CASE Crash
    BY <1>0, <2>1, RunnersSame DEF Crash
  <2>2. CASE MainRegisterEnv \/ MainStep
    <3>1. execState # Null
      BY <2>2, MainHasStates DEF MainRegisterEnv, MainStep
    <3>2. op' = [op EXCEPT ![Main] = op[Main]]
      BY <1>0, <2>2 DEF MainRegisterEnv, MainStep, ControlOK
    <3> QED
      BY <1>0, <2>2, <3>1, <3>2, RunnersKept DEF MainRegisterEnv, MainStep
  <2>3. CASE MainSetSchedulerKey
    BY <1>0, <2>3, RunnersLabel DEF MainSetSchedulerKey, RunnersOK
  <2>4. CASE ~Crash /\ \/ MainInstallHook \/ MainWaitUntilInitialised
                       \/ MainRegisterLibraries \/ MainScheduleHook
                       \/ MainScheduleInit \/ MainRemoveHook
    BY <1>0, <2>4, RunnersLabel DEF MainInstallHook, MainWaitUntilInitialised,
         MainRegisterLibraries, MainScheduleHook, MainScheduleInit, MainRemoveHook,
         ScheduleJob
  <2>5. CASE MainEmplace
    <3>1. AfterEmplace(job[Main].code) \notin {"args_key", "compare", "set_key", "register"}
      BY DEF AfterEmplace
    <3> QED
      BY <1>0, <2>5, <3>1, RunnersLabel DEF MainEmplace
  <2> QED
    BY <1>7, <2>1, <2>2, <2>3, <2>4, <2>5 DEF MainAction
<1>8. ASSUME NEW code \in UserCode, MainInput(code) PROVE RunnersOK'
  BY <1>0, <1>8, RunnersLabel DEF MainInput, ScheduleJob
<1>9. CASE MainReinit
  BY <1>9 DEF MainReinit, NoReinit
<1>10. CASE UNCHANGED vars
  BY <1>0, <1>10, RunnersSame DEF vars
<1> QED
  BY <1>1, <1>2, <1>3, <1>4, <1>5, <1>6, <1>7, <1>8, <1>9, <1>10 DEF Next

-----------------------------------------------------------------------------
(* Jobs: one at a time.                                                    *)

\* A step of thread t that leaves the queue and the jobs in hand alone.
LEMMA PacedLabel ==
  ASSUME ControlOK, JobsPaced, NEW t \in Threads, NEW l,
         pc' = [pc EXCEPT ![t] = l], UNCHANGED <<jobs, raced, job>>,
         l = "back" => jobs # <<>>, l # "pop",
         t = Main /\ l \in NoJobYet => jobs = <<>>
  PROVE  JobsPaced'
<1>1. pc'[Main] \in NoJobYet => jobs = <<>>
  BY DEF ControlOK, JobsPaced, OneJob, Threads
<1>2. ASSUME NEW u \in Threads PROVE JobInHand(u)'
  <2>1. JobInHand(u)
    BY DEF JobsPaced
  <2> QED
    BY <2>1 DEF ControlOK, JobInHand
<1> QED
  BY <1>1, <1>2 DEF JobsPaced, OneJob

\* The same where t forgets its job.
LEMMA PacedLeave ==
  ASSUME ControlOK, JobsOK, JobsPaced, NEW t \in Threads, NEW l,
         pc' = [pc EXCEPT ![t] = l], UNCHANGED <<jobs, raced>>,
         job' = [job EXCEPT ![t] = NoJob],
         l \notin {"back", "pop"}, t = Main /\ l \in NoJobYet => jobs = <<>>
  PROVE  JobsPaced'
<1>1. pc'[Main] \in NoJobYet => jobs = <<>>
  BY DEF ControlOK, JobsPaced, OneJob, Threads
<1>2. ASSUME NEW u \in Threads PROVE JobInHand(u)'
  <2>1. JobInHand(u)
    BY DEF JobsPaced
  <2> QED
    BY <2>1 DEF ControlOK, JobsOK, JobInHand, NoJob
<1> QED
  BY <1>1, <1>2 DEF JobsPaced, OneJob

LEMMA PacedSame == JobsPaced /\ UNCHANGED <<pc, jobs, raced, job>> => JobsPaced'
  BY DEF JobsPaced, OneJob, JobInHand

\* The emplace of a job starts with an empty queue.
LEMMA PacedSchedule ==
  ASSUME ControlOK, JobsOK, JobsPaced, NEW code, code # "garbage", jobs = <<>>,
         ScheduleJob(code)
  PROVE  JobsPaced'
<1>1. /\ jobs' = <<>> /\ ~raced'
      /\ pc' = [pc EXCEPT ![Main] = "emplace"]
      /\ job' = [job EXCEPT ![Main] = [id |-> nextId, code |-> code]]
  BY DEF ScheduleJob, Goto
<1>2. ASSUME NEW u \in Threads PROVE JobInHand(u)'
  <2>1. JobInHand(u)
    BY DEF JobsPaced
  <2> QED
    BY <1>1, <2>1 DEF ControlOK, JobsOK, JobInHand
<1> QED
  BY <1>1, <1>2 DEF JobsPaced, OneJob

LEMMA JobsPacedStep ==
  /\ FirstEpoch /\ ControlOK /\ JobsOK /\ OpsOK /\ NoReinit /\ KeysOK /\ Exclusion
  /\ JobsPaced /\ [Next]_vars
  => JobsPaced'
<1> SUFFICES ASSUME FirstEpoch, ControlOK, JobsOK, OpsOK, NoReinit, KeysOK, Exclusion,
                    JobsPaced, [Next]_vars
             PROVE  JobsPaced'
  OBVIOUS
<1> USE DEF Goto, At, locals, queueVars
<1>0. Main \in Threads /\ \A v \in VMs : v \in Threads /\ v # Main
  BY ThreadsAssumption DEF Threads
<1>1. ASSUME NEW t \in Threads, LockAction(t) PROVE JobsPaced'
  <2>1. CASE LockTest(t) \/ LockSet(t)
    <3>1. Body(op[t]) \notin {"back", "pop"} \cup NoJobYet /\ "set" \notin NoJobYet
      BY DEF Body, NoJobYet
    <3> QED
      BY <2>1, <3>1, PacedLabel DEF LockTest, LockSet
  <2>2. CASE Unlock(t)
    <3>1. Caller(t) \notin {"back", "pop"}
      BY DEF Caller
    <3>2. t = Main => jobs = <<>>
      BY <2>2 DEF Unlock, JobsPaced, OneJob, NoJobYet
    <3> QED
      BY <2>2, <3>1, <3>2, PacedLeave DEF Unlock, Leave
  <2> QED
    BY <1>1, <2>1, <2>2 DEF LockAction
<1>2. ASSUME NEW t \in Threads, StepCompare(t) PROVE JobsPaced'
  <2>1. CASE schedKey = key[t]
    BY <1>2, <2>1, PacedLabel DEF StepCompare, Call, NoJobYet
  <2>2. CASE schedKey # key[t]
    <3>1. Leave(t) /\ Caller(t) \notin {"back", "pop"} /\ UNCHANGED <<jobs, raced>>
      BY <1>2, <2>2 DEF StepCompare, Caller
    <3>2. t # Main
      BY <1>2, <2>2 DEF StepCompare, KeysOK
    <3> QED
      BY <3>1, <3>2, PacedLeave DEF Leave
  <2> QED
    BY <2>1, <2>2
<1>3. CASE Crash
  BY <1>3, PacedSame DEF Crash
<1>4. ASSUME NEW t \in Threads, StepEmpty(t) PROVE JobsPaced'
  <2>1. CASE jobs = <<>>
    BY <1>4, <2>1, PacedLabel DEF StepEmpty
  <2>2. CASE jobs # <<>>
    BY <1>4, <2>2, PacedLabel DEF StepEmpty, NoJobYet
  <2> QED
    BY <2>1, <2>2
<1>5. ASSUME NEW t \in Threads, StepBack(t), ~Crash PROVE JobsPaced'
  <2>1. jobs # <<>> /\ Len(jobs) = 1 /\ jobs[1].code # "garbage"
    BY <1>5 DEF StepBack, JobsPaced, JobInHand, OneJob
  <2>2. /\ job' = [job EXCEPT ![t] = jobs[1]] /\ pc' = [pc EXCEPT ![t] = "pop"]
        /\ UNCHANGED <<jobs, raced>>
    BY <1>5, <2>1 DEF StepBack
  <2>3. ASSUME NEW u \in Threads PROVE JobInHand(u)'
    <3>1. JobInHand(u)
      BY DEF JobsPaced
    <3> QED
      BY <2>1, <2>2, <3>1 DEF ControlOK, JobsOK, JobInHand
  <2>4. pc'[Main] \in NoJobYet => pc[Main] \in NoJobYet
    BY <1>0, <2>2 DEF ControlOK, NoJobYet
  <2> QED
    BY <2>2, <2>3, <2>4 DEF JobsPaced, OneJob
<1>6. ASSUME NEW t \in Threads, StepPop(t), ~Crash PROVE JobsPaced'
  <2>1. jobs # <<>> /\ Len(jobs) = 1 /\ jobs \in Seq(Jobs) /\ pc[t] = "pop"
    BY <1>6 DEF StepPop, JobsPaced, OneJob, JobsOK
  <2>2. Tail(jobs) = <<>>
    <3>1. Tail(jobs) \in Seq(Jobs) /\ Len(Tail(jobs)) = 0
      BY <2>1 DEF JobsOK
    <3> QED
      BY <3>1, EmptySeq
  <2>3. ~raced'
    BY <1>6, <2>1 DEF StepPop, JobsPaced, OneJob, NoJobYet
  <2>4. jobs' = <<>> /\ pc' = [pc EXCEPT ![t] = "execute"] /\ job' = job
    BY <1>6, <2>2 DEF StepPop, AfterPop
  <2>5. ASSUME NEW u \in Threads PROVE JobInHand(u)'
    <3>1. JobInHand(u)
      BY DEF JobsPaced
    <3>2. u # t => pc[u] \notin {"back", "pop"}
      BY <2>1 DEF Exclusion, OnePast, Past, CriticalSection
    <3> QED
      BY <2>4, <3>1, <3>2 DEF ControlOK, JobInHand
  <2> QED
    BY <2>3, <2>4, <2>5 DEF JobsPaced, OneJob
<1>7. ASSUME NEW t \in Threads, StepExecute(t), ~Crash PROVE JobsPaced'
  <2>1. t = Main => jobs = <<>>
    BY <1>7 DEF StepExecute, JobsPaced, OneJob, NoJobYet
  <2> QED
    BY <1>7, <2>1, PacedLabel DEF StepExecute
<1>8. ASSUME NEW t \in Threads, StatesAction(t) PROVE JobsPaced'
  <2>1. t # Main
    BY <1>8, OpAtLabel, ThreadsAssumption DEF StatesAction, InitializeRoblox,
         InitializeExecutor, ReinitializeExecutor, ReinitializeRoblox, OpsOK, OpOK, NoReinit
  <2> QED
    BY <1>8, <2>1, PacedLabel DEF StatesAction, InitializeRoblox, InitializeExecutor,
         ReinitializeExecutor, ReinitializeRoblox
<1>9. ASSUME NEW v \in VMs, EnvironmentAction(v) PROVE JobsPaced'
  BY <1>0, <1>3, <1>9, PacedLabel DEF EnvironmentAction, getreg, getrenv, checkcaller,
       CallEnvironment, Call, ReadRoblox, CheckExecutor, ReadExecutor
<1>10. ASSUME NEW v \in VMs, DetourAction(v) PROVE JobsPaced'
  BY <1>0, <1>10, PacedLabel DEF DetourAction, DetourEnter, DetourLock, DetourSkip,
       Reject, DetourRejectSingleStep, DetourRejectPlace, DetourGrab,
       DetourUnlock, Call
<1>11. ASSUME NEW v \in VMs, StudioAction(v) PROVE JobsPaced'
  BY <1>0, <1>11, PacedLabel, PacedSame DEF StudioAction, ResumeDeferred, Stepped,
       SteppedRunner, SteppedKey
<1>12. CASE MainAction
  <2>1. CASE MainScheduleHook \/ MainScheduleInit
    <3>1. jobs = <<>>
      BY <2>1 DEF MainScheduleHook, MainScheduleInit, JobsPaced, OneJob, NoJobYet
    <3> QED
      BY <2>1, <3>1, PacedSchedule DEF MainScheduleHook, MainScheduleInit
  <2>2. CASE MainEmplace
    <3>1. jobs = <<>> /\ job[Main].code # "garbage" /\ job[Main] \in Jobs
      BY <1>0, <2>2 DEF MainEmplace, JobsPaced, OneJob, NoJobYet, JobInHand, JobsOK
    <3>2. AfterEmplace(job[Main].code) \notin NoJobYet \cup {"back", "pop"}
      BY DEF AfterEmplace, NoJobYet
    <3>3. /\ jobs' = Append(jobs, job[Main]) /\ ~raced'
          /\ pc' = [pc EXCEPT ![Main] = AfterEmplace(job[Main].code)]
          /\ job' = [job EXCEPT ![Main] = NoJob]
      BY <2>2 DEF MainEmplace, JobsPaced
    <3>4. jobs' = <<job[Main]>>
      BY <3>1, <3>3
    <3>5. Len(jobs') = 1 /\ jobs'[1].code # "garbage"
      BY <3>1, <3>4
    <3>6. ASSUME NEW u \in Threads PROVE JobInHand(u)'
      <4>1. JobInHand(u)
        BY DEF JobsPaced
      <4> QED
        BY <1>0, <3>1, <3>2, <3>3, <4>1 DEF ControlOK, JobsOK, JobInHand, NoJob
    <3>7. pc'[Main] \notin NoJobYet
      BY <1>0, <3>2, <3>3 DEF ControlOK
    <3> QED
      BY <3>3, <3>5, <3>6, <3>7 DEF JobsPaced, OneJob
  <2>3. CASE ~Crash /\ \/ MainInstallHook \/ MainWaitUntilInitialised
                       \/ MainRegisterEnv \/ MainSetSchedulerKey
                       \/ MainRegisterLibraries
    <3>1. jobs = <<>>
      BY <2>3 DEF MainInstallHook, MainWaitUntilInitialised, MainRegisterEnv,
           MainSetSchedulerKey, MainRegisterLibraries, JobsPaced, OneJob, NoJobYet
    <3> QED
      BY <1>0, <2>3, <3>1, PacedLabel DEF MainInstallHook, MainWaitUntilInitialised,
           MainRegisterEnv, MainSetSchedulerKey, MainRegisterLibraries
  <2>4. CASE MainStep \/ MainRemoveHook
    BY <1>0, <2>4, PacedLabel DEF MainStep, MainRemoveHook, NoJobYet
  <2> QED
    BY <1>3, <1>12, <2>1, <2>2, <2>3, <2>4 DEF MainAction
<1>13. ASSUME NEW code \in UserCode, MainInput(code) PROVE JobsPaced'
  <2>1. jobs = <<>> /\ code # "garbage"
    BY <1>13, CodeAssumption DEF MainInput, FirstEpoch
  <2> QED
    BY <1>13, <2>1, PacedSchedule DEF MainInput
<1>14. CASE MainReinit
  BY <1>14 DEF MainReinit, NoReinit, FirstEpoch
<1>15. CASE UNCHANGED vars
  BY <1>15, PacedSame DEF vars
<1> QED
  BY <1>1, <1>2, <1>3, <1>4, <1>5, <1>6, <1>7, <1>8, <1>9, <1>10, <1>11, <1>12, <1>13,
     <1>14, <1>15 DEF Next, StepAction

-----------------------------------------------------------------------------
(* Nothing null, empty or destroyed is used.                               *)

LEMMA CrashStep ==
  /\ ControlOK /\ OpsOK /\ HandedOver /\ AtHome /\ Exclusion /\ RunnersOK /\ JobsPaced
  /\ ~crashed /\ [Next]_vars
  => ~crashed'
<1> SUFFICES ASSUME ControlOK, OpsOK, HandedOver, AtHome, Exclusion, RunnersOK,
                    JobsPaced, ~crashed, [Next]_vars
             PROVE  ~crashed'
  OBVIOUS
<1>0. Main \in Threads /\ \A v \in VMs : v \in Threads /\ v # Main
  BY ThreadsAssumption DEF Threads
<1>1. ASSUME NEW t \in Threads, LockAction(t) PROVE ~crashed'
  BY <1>1 DEF LockAction, LockTest, LockSet, Unlock
<1>2. ASSUME NEW t \in Threads, StepCompare(t) \/ StepEmpty(t) PROVE ~crashed'
  BY <1>2 DEF StepCompare, StepEmpty
<1>3. ASSUME NEW t \in Threads, StepBack(t) PROVE ~crashed'
  BY <1>3 DEF StepBack, At, JobsPaced, JobInHand
<1>4. ASSUME NEW t \in Threads, StepPop(t) PROVE ~crashed'
  <2>1. pc[t] = "pop" /\ jobs # <<>>
    BY <1>4 DEF StepPop, At, JobsPaced, JobInHand
  <2>2. ASSUME NEW u \in Threads \ {t} PROVE pc[u] # "pop"
    BY <2>1 DEF Exclusion, OnePast, Past, CriticalSection
  <2> QED
    BY <1>4, <2>1, <2>2 DEF StepPop
<1>5. ASSUME NEW t \in Threads, StepExecute(t) PROVE ~crashed'
  <2>1. op[t] = "step"
    BY <1>5, OpAtLabel DEF StepExecute, At
  <2>2. runner[t] # Null /\ job[t].code # "garbage"
    BY <2>1 DEF RunnersOK, JobsPaced, JobInHand
  <2> QED
    BY <1>5, <2>2 DEF StepExecute
<1>6. ASSUME NEW t \in Threads, StatesAction(t) PROVE ~crashed'
  BY <1>6 DEF StatesAction, InitializeRoblox, InitializeExecutor,
       ReinitializeExecutor, ReinitializeRoblox
<1>7. ASSUME NEW v \in VMs, EnvironmentAction(v) PROVE ~crashed'
  <2>1. CASE ReadRoblox(v)
    <3>1. op[v] = "read_rbx"
      BY <1>0, <2>1, OpAtLabel DEF ReadRoblox, At
    <3>2. rbxState # Null
      BY <3>1 DEF AtHome, Ours, HandedOver
    <3> QED
      BY <2>1, <3>2 DEF ReadRoblox
  <2>2. CASE ReadExecutor(v)
    <3>1. op[v] = "checkcaller"
      BY <1>0, <2>2, OpAtLabel DEF ReadExecutor, At
    <3>2. execState # Null
      BY <3>1 DEF AtHome, Ours
    <3> QED
      BY <2>2, <3>2 DEF ReadExecutor
  <2>3. CASE getreg(v) \/ getrenv(v) \/ checkcaller(v) \/ CheckExecutor(v)
    BY <2>3 DEF getreg, getrenv, checkcaller, CallEnvironment, CheckExecutor
  <2> QED
    BY <1>7, <2>1, <2>2, <2>3 DEF EnvironmentAction
<1>8. ASSUME NEW v \in VMs, DetourAction(v) PROVE ~crashed'
  BY <1>8 DEF DetourAction, DetourEnter, DetourLock, DetourSkip, Reject,
       DetourRejectSingleStep, DetourRejectPlace, DetourGrab, DetourUnlock
<1>9. ASSUME NEW v \in VMs, StudioAction(v) PROVE ~crashed'
  BY <1>9 DEF StudioAction, ResumeDeferred, Stepped, SteppedRunner, SteppedKey
<1>10. CASE MainAction
  <2>1. CASE MainRegisterLibraries
    BY <2>1 DEF MainRegisterLibraries, At, RunnersOK
  <2>2. CASE ~MainRegisterLibraries
    BY <1>10, <2>2 DEF MainAction, MainInstallHook, MainWaitUntilInitialised,
         MainRegisterEnv, MainSetSchedulerKey, MainScheduleHook, MainEmplace,
         MainStep, MainScheduleInit, MainRemoveHook, ScheduleJob
  <2> QED
    BY <2>1, <2>2
<1>11. ASSUME NEW code \in UserCode, MainInput(code) PROVE ~crashed'
  BY <1>11 DEF MainInput, ScheduleJob
<1>12. CASE MainReinit
  BY <1>12 DEF MainReinit
<1>13. CASE UNCHANGED vars
  BY <1>13 DEF vars
<1> QED
  BY <1>1, <1>2, <1>3, <1>4, <1>5, <1>6, <1>7, <1>8, <1>9, <1>10, <1>11, <1>12, <1>13
     DEF Next, StepAction

-----------------------------------------------------------------------------
(* The invariant of the first epoch, and what follows from it.             *)

LEMMA EpochInit == FirstEpoch /\ Init => EpochInv
<1> SUFFICES ASSUME FirstEpoch, Init PROVE EpochInv
  OBVIOUS
<1>0. Main \in Threads /\ \A v \in VMs : v \in Threads /\ v # Main
  BY ThreadsAssumption DEF Threads
<1>1. TypeOK
  BY TypeInit
<1>2. OpsOK
  BY DEF Init, OpsOK, OpOK, Region
<1>3. MutxOK /\ StatesKept
  BY <1>0 DEF Init, MutxOK, InDetour, StatesKept, Waiting
<1>4. NoReinit /\ HandedOver
  BY <1>0 DEF Init, NoReinit, HandedOver
<1>5. AtHome
  BY <1>0 DEF Init, AtHome, Ours
<1>6. Exclusion
  BY DEF Init, Exclusion, OnePast, LockHeld, Past, CriticalSection
<1>7. KeysOK /\ RunnersOK
  BY <1>0 DEF Init, KeysOK, RunnersOK
<1>8. JobsPaced
  BY <1>0 DEF Init, JobsPaced, OneJob, JobInHand, NoJob
<1>9. ~crashed
  BY DEF Init
<1> QED
  BY <1>1, <1>2, <1>3, <1>4, <1>5, <1>6, <1>7, <1>8, <1>9 DEF EpochInv

LEMMA EpochStep == FirstEpoch /\ EpochInv /\ [Next]_vars => EpochInv'
<1> SUFFICES ASSUME FirstEpoch, EpochInv, [Next]_vars PROVE EpochInv'
  OBVIOUS
<1>0. /\ MaxReinits = 0
      /\ ControlOK /\ CountersOK /\ FlagsOK /\ StatesOK /\ DeferredOK /\ JobsOK
  BY DEF FirstEpoch, EpochInv, TypeOK
<1>1. TypeOK'
  BY <1>0, ControlStep, FlagsStep, CountersStep, StatesStep, DeferredStep, JobsStep
     DEF TypeOK
<1>2. OpsOK' /\ MutxOK' /\ StatesKept'
  BY <1>0, OpsStep, MutxStep, StatesKeptStep DEF EpochInv
<1>3. NoReinit' /\ HandedOver'
  BY <1>0, NoReinitStep, HandedOverStep DEF EpochInv
<1>4. AtHome'
  BY <1>0, AtHomeStep DEF EpochInv
<1>5. Exclusion'
  BY <1>0, ExclusionStep DEF EpochInv
<1>6. KeysOK' /\ RunnersOK'
  BY <1>0, KeysStep, RunnersStep DEF EpochInv
<1>7. JobsPaced'
  BY <1>0, JobsPacedStep DEF EpochInv
<1>8. ~crashed'
  BY <1>0, CrashStep DEF EpochInv
<1> QED
  BY <1>1, <1>2, <1>3, <1>4, <1>5, <1>6, <1>7, <1>8 DEF EpochInv

\* The invariant above holds until the user first types reinit().
LEMMA EpochInvariant == FirstEpoch => (SafeSpec => []EpochInv)
<1> SUFFICES ASSUME FirstEpoch PROVE SafeSpec => []EpochInv
  OBVIOUS
<1>1. Init => EpochInv
  BY EpochInit
<1>2. EpochInv /\ [Next]_vars => EpochInv'
  BY EpochStep
<1> QED
  BY <1>1, <1>2, PTL DEF SafeSpec

\* lock_scheduler tests the flag and sets it in two steps, yet no two threads
\* are ever between it and unlock_scheduler before the first reinit(): up to
\* register_env's own step only the VM in the detour and the module's thread
\* take the lock, one after the other, and from then on only the VM that gave
\* its states does.
THEOREM LockExcludes == FirstEpoch => (SafeSpec => []LockMutex)
<1> SUFFICES ASSUME FirstEpoch PROVE SafeSpec => []LockMutex
  OBVIOUS
<1>1. EpochInv => LockMutex
  BY DEF EpochInv, Exclusion, OnePast, Past, LockMutex
<1> QED
  BY EpochInvariant, <1>1, PTL

\* schedule_job pushes without the lock, yet no pop of scheduler_step overlaps
\* the push before the first reinit(): the queue is empty when it starts.
THEOREM PushIsAlone == FirstEpoch => (SafeSpec => []QueueRaceFree)
<1> SUFFICES ASSUME FirstEpoch PROVE SafeSpec => []QueueRaceFree
  OBVIOUS
<1>1. EpochInv => QueueRaceFree
  BY DEF EpochInv, JobsPaced, QueueRaceFree
<1> QED
  BY EpochInvariant, <1>1, PTL

\* Before the first reinit() no thread dereferences a null lua_State, pops an
\* empty queue or runs a destroyed job: neither execute_job and register_env,
\* nor getreg, getrenv and checkcaller called by any script at any moment.
THEOREM FirstEpochIsSafe == FirstEpoch => (SafeSpec => []NeverCrashes)
<1> SUFFICES ASSUME FirstEpoch PROVE SafeSpec => []NeverCrashes
  OBVIOUS
<1>1. EpochInv => NeverCrashes
  BY DEF EpochInv, NeverCrashes
<1> QED
  BY EpochInvariant, <1>1, PTL

\* execute_job is never given a script to run on a null lua_State before the
\* first reinit(), which a reinit() makes possible.
THEOREM RunnersAreStates == FirstEpoch => (SafeSpec => []RunnerIsValid)
<1> SUFFICES ASSUME FirstEpoch PROVE SafeSpec => []RunnerIsValid
  OBVIOUS
<1>1. EpochInv => RunnerIsValid
  <2> SUFFICES ASSUME EpochInv, NEW t \in Threads, pc[t] = "execute"
               PROVE  runner[t] # Null
    BY DEF RunnerIsValid
  <2>1. op[t] = "step"
    BY OpAtLabel DEF EpochInv, TypeOK
  <2> QED
    BY <2>1 DEF EpochInv, RunnersOK
<1> QED
  BY EpochInvariant, <1>1, PTL

\* back() copies the newest job and pop() drops the oldest, and they are the
\* same job before the first reinit(), if the user types a line only once the
\* line before has been taken.
THEOREM TakenJobIsDropped == FirstEpoch => (SafeSpec => []DroppedJobIsExecuted)
<1> SUFFICES ASSUME FirstEpoch PROVE SafeSpec => []DroppedJobIsExecuted
  OBVIOUS
<1>1. EpochInv => DroppedJobIsExecuted
  BY DEF EpochInv, JobsPaced, JobInHand, DroppedJobIsExecuted
<1> QED
  BY EpochInvariant, <1>1, PTL

-----------------------------------------------------------------------------
(* Which state's globals register_env has filled.                          *)

\* Until register_env fills them it works on the executor state, and from then on
\* the executor state is one whose globals are filled.
Unfilled == {"install", "wait", "env", "set_key", "register"}
EnvOK == /\ pc[Main] \in {"set_key", "register"} => runner[Main] = execState
         /\ pc[Main] \notin Unfilled => execState \in envs

EnvInv == /\ TypeOK /\ OpsOK /\ MutxOK /\ StatesKept
          /\ NoReinit /\ HandedOver /\ EnvOK

\* The steps of others, and those of the module's thread away from register_env.
LEMMA EnvSame ==
  ASSUME EnvOK, pc[Main] \notin {"install", "wait"} => execState' = execState,
         envs' = envs, runner'[Main] = runner[Main] \/ pc[Main] \notin Unfilled,
         \/ pc'[Main] = pc[Main]
         \/ pc'[Main] \in {"install", "wait", "env"}
         \/ pc[Main] \notin Unfilled /\ pc'[Main] \notin Unfilled
  PROVE  EnvOK'
  BY DEF EnvOK, Unfilled

LEMMA EnvStep ==
  /\ ControlOK /\ StatesOK /\ OpsOK /\ StatesKept /\ NoReinit /\ MaxReinits = 0 /\ HandedOver
  /\ EnvOK /\ [Next]_vars
  => EnvOK'
<1> SUFFICES ASSUME ControlOK, StatesOK, OpsOK, StatesKept, NoReinit, MaxReinits = 0,
                    HandedOver, EnvOK, [Next]_vars
             PROVE  EnvOK'
  OBVIOUS
<1> USE DEF Goto, At, locals, studioVars
<1>0. /\ Main \in Threads /\ \A v \in VMs : v \in Threads /\ v # Main
      /\ pc[Main] \notin {"install", "wait"} => execState' = execState
  BY ThreadsAssumption, StatesStay, MainHasStates DEF Threads
\* The step of another thread.
<1>1. ASSUME NEW t \in Threads, t # Main, NEW l, NEW r,
             pc' = [pc EXCEPT ![t] = l], runner' = [runner EXCEPT ![t] = r],
             envs' = envs
      PROVE  EnvOK'
  BY <1>0, <1>1, EnvSame DEF ControlOK, StatesOK
<1>2. CASE UNCHANGED <<pc, runner, envs>>
  BY <1>0, <1>2, EnvSame
<1>3. ASSUME NEW t \in Threads, NEW l, pc' = [pc EXCEPT ![t] = l], runner' = runner,
             envs' = envs, t = Main => l \notin Unfilled /\ pc[t] \notin Unfilled
      PROVE  EnvOK'
  BY <1>0, <1>3, EnvSame DEF ControlOK
<1>4. ASSUME NEW t \in Threads, Leave(t), pc[t] \notin Unfilled, envs' = envs,
             op[t] # "re_initialize"
      PROVE  EnvOK'
  <2>1. t = Main => Caller(t) \notin Unfilled
    BY <1>4 DEF Caller, Unfilled
  <2> QED
    BY <1>0, <1>4, <2>1, EnvSame DEF Leave, ControlOK, StatesOK
<1>5. ASSUME NEW t \in Threads, LockAction(t) PROVE EnvOK'
  <2>1. CASE LockTest(t)
    BY <1>3, <2>1 DEF LockTest, Unfilled
  <2>2. CASE LockSet(t)
    <3>1. Body(op[t]) \notin Unfilled
      BY DEF Body, Unfilled
    <3> QED
      BY <1>3, <2>2, <3>1 DEF LockSet, Unfilled
  <2>3. CASE Unlock(t)
    BY <1>4, <2>3 DEF Unlock, Unfilled, NoReinit
  <2> QED
    BY <1>5, <2>1, <2>2, <2>3 DEF LockAction
<1>6. ASSUME NEW t \in Threads, StepAction(t) PROVE EnvOK'
  <2>1. CASE StepCompare(t)
    <3>1. CASE schedKey = key[t]
      BY <1>3, <2>1, <3>1 DEF StepCompare, Call, Unfilled
    <3>2. CASE schedKey # key[t]
      BY <1>4, <2>1, <3>2 DEF StepCompare, Unfilled, NoReinit
    <3> QED
      BY <3>1, <3>2
  <2>2. CASE Crash
    BY <1>2, <2>2 DEF Crash
  <2>3. CASE ~Crash /\ (StepEmpty(t) \/ StepBack(t) \/ StepPop(t) \/ StepExecute(t))
    BY <1>3, <2>3 DEF StepEmpty, StepBack, StepPop, StepExecute, Unfilled
  <2> QED
    BY <1>6, <2>1, <2>2, <2>3 DEF StepAction
<1>7. ASSUME NEW t \in Threads, StatesAction(t) PROVE EnvOK'
  BY <1>3, <1>7 DEF StatesAction, InitializeRoblox, InitializeExecutor,
       ReinitializeExecutor, ReinitializeRoblox, Unfilled
<1>8. ASSUME NEW v \in VMs, EnvironmentAction(v) PROVE EnvOK'
  BY <1>0, <1>2, <1>3, <1>8 DEF EnvironmentAction, getreg, getrenv, checkcaller,
       CallEnvironment, Call, ReadRoblox, CheckExecutor, ReadExecutor, Crash
<1>9. ASSUME NEW v \in VMs, DetourAction(v) PROVE EnvOK'
  <2>1. CASE DetourGrab(v)
    BY <1>0, <1>1, <2>1 DEF DetourGrab, Call
  <2>2. CASE ~DetourGrab(v)
    BY <1>0, <1>3, <1>9, <2>2 DEF DetourAction, DetourEnter, DetourLock, DetourSkip,
         Reject, DetourRejectSingleStep, DetourRejectPlace, DetourUnlock
  <2> QED
    BY <2>1, <2>2
<1>10. ASSUME NEW v \in VMs, StudioAction(v) PROVE EnvOK'
  <2>1. CASE ResumeDeferred(v)
    BY <1>2, <2>1 DEF ResumeDeferred
  <2>2. CASE Stepped(v) \/ SteppedKey(v)
    BY <1>0, <1>3, <2>2 DEF Stepped, SteppedKey
  <2>3. CASE SteppedRunner(v)
    BY <1>0, <1>1, <2>3 DEF SteppedRunner
  <2> QED
    BY <1>10, <2>1, <2>2, <2>3 DEF StudioAction
<1>11. CASE MainAction
  <2>1. CASE MainInstallHook \/ MainWaitUntilInitialised
    BY <1>0, <2>1, EnvSame DEF MainInstallHook, MainWaitUntilInitialised, ControlOK
  <2>2. CASE MainRegisterEnv \/ MainSetSchedulerKey
    BY <1>0, <2>2 DEF MainRegisterEnv, MainSetSchedulerKey, ControlOK, StatesOK,
         EnvOK, Unfilled, lockVars
  <2>3. CASE MainRegisterLibraries
    <3>1. CASE runner[Main] = Null
      BY <1>2, <2>3, <3>1 DEF MainRegisterLibraries, Crash
    <3>2. CASE runner[Main] # Null
      BY <1>0, <2>3, <3>2 DEF MainRegisterLibraries, ControlOK, EnvOK, Unfilled, lockVars
    <3> QED
      BY <3>1, <3>2
  <2>4. CASE MainScheduleHook \/ MainScheduleInit \/ MainRemoveHook
    BY <1>0, <1>3, <2>4 DEF MainScheduleHook, MainScheduleInit, MainRemoveHook,
         ScheduleJob, Unfilled
  <2>5. CASE MainEmplace
    <3>1. AfterEmplace(job[Main].code) \notin Unfilled
      BY DEF AfterEmplace, Unfilled
    <3> QED
      BY <1>0, <1>3, <2>5, <3>1 DEF MainEmplace, Unfilled
  <2>6. CASE MainStep
    <3>1. /\ pc'[Main] = "compare" /\ pc[Main] = "step" /\ envs' = envs
      BY <1>0, <2>6 DEF MainStep, ControlOK
    <3> QED
      BY <1>0, <3>1, EnvSame DEF Unfilled
  <2> QED
    BY <1>11, <2>1, <2>2, <2>3, <2>4, <2>5, <2>6 DEF MainAction
<1>12. ASSUME NEW code \in UserCode, MainInput(code) PROVE EnvOK'
  BY <1>0, <1>3, <1>12 DEF MainInput, ScheduleJob, Unfilled
<1>13. CASE MainReinit
  BY <1>13 DEF MainReinit, NoReinit
<1>14. CASE UNCHANGED vars
  BY <1>2, <1>14 DEF vars
<1> QED
  BY <1>5, <1>6, <1>7, <1>8, <1>9, <1>10, <1>11, <1>12, <1>13, <1>14 DEF Next

LEMMA EnvInit == Init => EnvInv
<1> SUFFICES ASSUME Init PROVE EnvInv
  OBVIOUS
<1>0. Main \in Threads /\ \A v \in VMs : v \in Threads /\ v # Main
  BY ThreadsAssumption DEF Threads
<1>1. TypeOK
  BY TypeInit
<1>2. OpsOK
  BY DEF Init, OpsOK, OpOK, Region
<1>3. MutxOK /\ StatesKept
  BY <1>0 DEF Init, MutxOK, InDetour, StatesKept, Waiting
<1>4. NoReinit /\ HandedOver
  BY <1>0 DEF Init, NoReinit, HandedOver
<1>5. EnvOK
  BY <1>0 DEF Init, EnvOK, Unfilled
<1> QED
  BY <1>1, <1>2, <1>3, <1>4, <1>5 DEF EnvInv

\* Without a reinit(), the executor state in use at the prompt is one whose globals
\* register_env has filled, for any VMs and however fast the user types; with one
\* it may not be, which a run shows.
THEOREM EnvironmentIsFilled ==
  MaxReinits = 0 => (SafeSpec => []EnvironmentIsCurrent)
<1> SUFFICES ASSUME MaxReinits = 0 PROVE SafeSpec => []EnvironmentIsCurrent
  OBVIOUS
<1>1. EnvInv /\ [Next]_vars => EnvInv'
  <2> SUFFICES ASSUME EnvInv, [Next]_vars PROVE EnvInv'
    OBVIOUS
  <2>1. ControlOK /\ CountersOK /\ FlagsOK /\ StatesOK /\ DeferredOK /\ JobsOK
    BY DEF EnvInv, TypeOK
  <2>2. TypeOK'
    BY <2>1, ControlStep, FlagsStep, CountersStep, StatesStep, DeferredStep, JobsStep
       DEF TypeOK
  <2>3. OpsOK' /\ MutxOK' /\ StatesKept'
    BY <2>1, OpsStep, MutxStep, StatesKeptStep DEF EnvInv
  <2>4. NoReinit' /\ HandedOver'
    BY <2>1, NoReinitStep, HandedOverStep DEF EnvInv
  <2>5. EnvOK'
    BY <2>1, EnvStep DEF EnvInv
  <2> QED
    BY <2>2, <2>3, <2>4, <2>5 DEF EnvInv
<1>2. EnvInv => EnvironmentIsCurrent
  BY DEF EnvInv, EnvOK, Unfilled, EnvironmentIsCurrent
<1> QED
  BY EnvInit, <1>1, <1>2, PTL DEF SafeSpec

=============================================================================
