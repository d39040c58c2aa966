-------------------------- MODULE SchedulerProofs --------------------------
(***************************************************************************)
(* Proofs about Scheduler, for every set of VMs and all bounds.            *)
(***************************************************************************)
EXTENDS Scheduler, TLAPS

-----------------------------------------------------------------------------
(* Type correctness, one part of TypeOK at a time.                         *)

LEMMA TypeInit == Init => TypeOK
<1> SUFFICES ASSUME Init PROVE TypeOK
  OBVIOUS
<1> USE DEF Init
<1>1. FlagsOK
  BY Zenon DEF FlagsOK
<1>2. CountersOK
  BY BoundsAssumption DEF CountersOK
<1>3. StatesOK
  BY BoundsAssumption DEF StatesOK, Null
<1>4. DeferredOK
  BY DEF DeferredOK, Deferrals
<1>5. JobsOK
  BY DEF JobsOK, Jobs, Codes, NoJob
<1>6. ControlOK
  BY ThreadsAssumption DEF ControlOK, Threads, Labels, Ops
<1> QED
  BY <1>1, <1>2, <1>3, <1>4, <1>5, <1>6 DEF TypeOK

LEMMA ControlStep == ControlOK /\ CountersOK /\ [Next]_vars => ControlOK'
<1> SUFFICES ASSUME ControlOK, CountersOK, [Next]_vars PROVE ControlOK'
  OBVIOUS
<1> USE ThreadsAssumption DEF ControlOK, Threads, Labels, Ops, Goto
<1>1. ASSUME NEW t \in Threads, LockAction(t) PROVE ControlOK'
  BY <1>1 DEF LockAction, LockTest, LockSet, Unlock, Leave, Caller, Body, locals
<1>2. ASSUME NEW t \in Threads, StepAction(t) PROVE ControlOK'
  <2>1. CASE StepCompare(t)
    BY <2>1 DEF StepCompare, Call, Leave, Caller, locals
  <2>2. CASE StepEmpty(t)
    BY <2>2 DEF StepEmpty, locals
  <2>3. CASE StepBack(t)
    BY <2>3 DEF StepBack, Crash, locals
  <2>4. CASE StepPop(t)
    BY <2>4 DEF StepPop, Crash, locals
  <2>5. CASE StepExecute(t)
    BY <2>5 DEF StepExecute, Crash, locals
  <2> QED
    BY <1>2, <2>1, <2>2, <2>3, <2>4, <2>5 DEF StepAction
<1>3. ASSUME NEW t \in Threads, StatesAction(t) PROVE ControlOK'
  BY <1>3 DEF StatesAction, InitializeRoblox, InitializeExecutor, ReinitializeExecutor, ReinitializeRoblox, locals
<1>4. ASSUME NEW v \in VMs, EnvironmentAction(v) PROVE ControlOK'
  BY <1>4 DEF EnvironmentAction, getreg, getrenv, checkcaller, CallEnvironment, ReadRoblox, CheckExecutor, ReadExecutor, Call, Crash, locals
<1>5. ASSUME NEW v \in VMs, DetourAction(v) PROVE ControlOK'
  BY <1>5 DEF DetourAction, DetourEnter, DetourLock, DetourSkip, Reject, DetourRejectSingleStep, DetourRejectPlace, DetourGrab, DetourUnlock, Call, locals
<1>6. ASSUME NEW v \in VMs, StudioAction(v) PROVE ControlOK'
  <2> keyV \in Nat
    BY DEF CountersOK
  <2>1. CASE ResumeDeferred(v) \/ Stepped(v)
    BY <2>1 DEF ResumeDeferred, Stepped, locals
  <2>2. CASE SteppedRunner(v)
    BY <2>2 DEF SteppedRunner
  <2>3. CASE SteppedKey(v)
    BY <2>3 DEF SteppedKey
  <2> QED
    BY <1>6, <2>1, <2>2, <2>3 DEF StudioAction
<1>7. CASE MainAction
  <2> keyV \in Nat
    BY DEF CountersOK
  <2>1. CASE MainStep
    BY <2>1 DEF MainStep
  <2>2. CASE MainRegisterEnv
    BY <2>2 DEF MainRegisterEnv
  <2>3. CASE MainEmplace
    BY <2>3 DEF MainEmplace, AfterEmplace
  <2>4. CASE MainInstallHook \/ MainWaitUntilInitialised \/ MainSetSchedulerKey
    BY <2>4 DEF MainInstallHook, MainWaitUntilInitialised, MainSetSchedulerKey,
                locals
  <2>5. CASE MainRegisterLibraries \/ MainRemoveHook
    BY <2>5 DEF MainRegisterLibraries, MainRemoveHook, Crash, locals
  <2>6. CASE MainScheduleHook \/ MainScheduleInit
    BY <2>6 DEF MainScheduleHook, MainScheduleInit, ScheduleJob
  <2> QED
    BY <1>7, <2>1, <2>2, <2>3, <2>4, <2>5, <2>6 DEF MainAction
<1>8. ASSUME NEW code \in UserCode, MainInput(code) PROVE ControlOK'
  BY <1>8, SMTT(60) DEF MainInput, ScheduleJob
<1>9. CASE MainReinit
  BY <1>9 DEF MainReinit, Call
<1>10. CASE UNCHANGED vars
  BY <1>10 DEF vars, locals
<1> QED
  BY <1>1, <1>2, <1>3, <1>4, <1>5, <1>6, <1>7, <1>8, <1>9, <1>10 DEF Next

LEMMA FlagsStep == FlagsOK /\ [Next]_vars => FlagsOK'
<1> SUFFICES ASSUME FlagsOK, [Next]_vars PROVE FlagsOK'
  OBVIOUS
<1> USE DEF FlagsOK, lockVars, queueVars, hookVars, studioVars
<1>1. ASSUME NEW t \in Threads, LockAction(t) PROVE FlagsOK'
  BY <1>1, Zenon DEF LockAction, LockTest, LockSet, Unlock
<1>2. ASSUME NEW t \in Threads, StepAction(t) PROVE FlagsOK'
  BY <1>2, Zenon DEF StepAction, StepCompare, StepEmpty, StepBack, StepPop,
              StepExecute, Crash
<1>3. ASSUME NEW t \in Threads, StatesAction(t) PROVE FlagsOK'
  BY <1>3, Zenon DEF StatesAction, InitializeRoblox, InitializeExecutor,
              ReinitializeExecutor, ReinitializeRoblox
<1>4. ASSUME NEW v \in VMs, EnvironmentAction(v) PROVE FlagsOK'
  BY <1>4, Zenon DEF EnvironmentAction, getreg, getrenv, checkcaller,
              CallEnvironment, ReadRoblox, CheckExecutor, ReadExecutor, Crash
<1>5. ASSUME NEW v \in VMs, DetourAction(v) PROVE FlagsOK'
  BY <1>5, Zenon DEF DetourAction, DetourEnter, DetourLock, DetourSkip, Reject,
              DetourRejectSingleStep, DetourRejectPlace, DetourGrab,
              DetourUnlock
<1>6. ASSUME NEW v \in VMs, StudioAction(v) PROVE FlagsOK'
  BY <1>6, Zenon DEF StudioAction, ResumeDeferred, Stepped, SteppedRunner, SteppedKey
<1>7. CASE MainAction
  BY <1>7, Zenon DEF MainAction, MainInstallHook, MainWaitUntilInitialised,
              MainRegisterEnv, MainSetSchedulerKey, MainRegisterLibraries,
              MainScheduleHook, MainEmplace, MainStep, MainScheduleInit,
              MainRemoveHook, ScheduleJob, Crash
<1>8. ASSUME NEW code \in UserCode, MainInput(code) PROVE FlagsOK'
  BY <1>8, Zenon DEF MainInput, ScheduleJob
<1>9. CASE MainReinit
  BY <1>9, Zenon DEF MainReinit
<1>10. CASE UNCHANGED vars
  BY <1>10, Zenon DEF vars
<1> QED
  BY <1>1, <1>2, <1>3, <1>4, <1>5, <1>6, <1>7, <1>8, <1>9, <1>10 DEF Next

LEMMA CountersStep == CountersOK /\ [Next]_vars => CountersOK'
<1> SUFFICES ASSUME CountersOK, [Next]_vars PROVE CountersOK'
  OBVIOUS
<1> USE BoundsAssumption DEF CountersOK, keyVars, hookVars, inputVars
<1>1. ASSUME NEW t \in Threads, LockAction(t) PROVE CountersOK'
  BY <1>1 DEF LockAction, LockTest, LockSet, Unlock
<1>2. ASSUME NEW t \in Threads, StepAction(t) PROVE CountersOK'
  BY <1>2 DEF StepAction, StepCompare, StepEmpty, StepBack, StepPop,
              StepExecute, Crash
<1>3. ASSUME NEW t \in Threads, StatesAction(t) PROVE CountersOK'
  BY <1>3 DEF StatesAction, InitializeRoblox, InitializeExecutor,
              ReinitializeExecutor, ReinitializeRoblox
<1>4. ASSUME NEW v \in VMs, EnvironmentAction(v) PROVE CountersOK'
  BY <1>4 DEF EnvironmentAction, getreg, getrenv, checkcaller,
              CallEnvironment, ReadRoblox, CheckExecutor, ReadExecutor, Crash
<1>5. ASSUME NEW v \in VMs, DetourAction(v) PROVE CountersOK'
  BY <1>5 DEF DetourAction, DetourEnter, DetourLock, DetourSkip, Reject,
              DetourRejectSingleStep, DetourRejectPlace, DetourGrab,
              DetourUnlock, CountedTry
<1>6. ASSUME NEW v \in VMs, StudioAction(v) PROVE CountersOK'
  BY <1>6 DEF StudioAction, ResumeDeferred, Stepped, SteppedRunner, SteppedKey
<1>7. CASE MainAction
  BY <1>7 DEF MainAction, MainInstallHook, MainWaitUntilInitialised,
              MainRegisterEnv, MainSetSchedulerKey, MainRegisterLibraries,
              MainScheduleHook, MainEmplace, MainStep, MainScheduleInit,
              MainRemoveHook, ScheduleJob, Crash
<1>8. ASSUME NEW code \in UserCode, MainInput(code) PROVE CountersOK'
  BY <1>8 DEF MainInput, ScheduleJob
<1>9. CASE MainReinit
  BY <1>9 DEF MainReinit
<1>10. CASE UNCHANGED vars
  BY <1>10 DEF vars
<1> QED
  BY <1>1, <1>2, <1>3, <1>4, <1>5, <1>6, <1>7, <1>8, <1>9, <1>10 DEF Next

statesVars == <<home, execState, rbxState, envs, runner>>

LEMMA StatesSame == StatesOK /\ UNCHANGED statesVars => StatesOK'
  BY DEF StatesOK, statesVars

LEMMA RunnerSet ==
  ASSUME StatesOK, UNCHANGED <<home, execState, rbxState, envs>>,
         NEW t \in Threads, NEW r \in 0..Len(home),
         runner' = [runner EXCEPT ![t] = r]
  PROVE  StatesOK'
  BY DEF StatesOK

LEMMA StatesStep == StatesOK /\ [Next]_vars => StatesOK'
<1> SUFFICES ASSUME StatesOK, [Next]_vars PROVE StatesOK'
  OBVIOUS
<1> USE DEF hookVars, studioVars, lockVars, locals
<1>0. Null \in 0..Len(home) /\ execState \in 0..Len(home)
  BY DEF StatesOK, Null
<1>1. ASSUME NEW t \in Threads, LockAction(t) PROVE StatesOK'
  <2>1. CASE LockTest(t) \/ LockSet(t)
    BY <2>1, StatesSame DEF LockTest, LockSet, statesVars
  <2>2. CASE Unlock(t)
    BY <2>2, <1>0, RunnerSet DEF Unlock, Leave
  <2> QED
    BY <1>1, <2>1, <2>2 DEF LockAction
<1>2. ASSUME NEW t \in Threads, StepAction(t) PROVE StatesOK'
  <2>1. CASE StepCompare(t)
    <3>1. CASE schedKey = key[t]
      BY <2>1, <3>1, StatesSame DEF StepCompare, statesVars
    <3>2. CASE schedKey # key[t]
      BY <2>1, <3>2, <1>0, RunnerSet DEF StepCompare, Leave
    <3> QED
      BY <3>1, <3>2
  <2>2. CASE StepEmpty(t) \/ StepBack(t) \/ StepPop(t) \/ StepExecute(t)
    BY <2>2, StatesSame DEF StepEmpty, StepBack, StepPop, StepExecute, Crash,
                            statesVars
  <2> QED
    BY <1>2, <2>1, <2>2 DEF StepAction
<1>3. ASSUME NEW t \in Threads, StatesAction(t) PROVE StatesOK'
  <2>1. CASE InitializeRoblox(t)
    BY <2>1 DEF InitializeRoblox, StatesOK
  <2>2. CASE InitializeExecutor(t)
    BY <2>2 DEF InitializeExecutor, StatesOK
  <2>3. CASE ReinitializeExecutor(t)
    BY <2>3, <1>0 DEF ReinitializeExecutor, StatesOK
  <2>4. CASE ReinitializeRoblox(t)
    BY <2>4, <1>0 DEF ReinitializeRoblox, StatesOK
  <2> QED
    BY <1>3, <2>1, <2>2, <2>3, <2>4 DEF StatesAction
<1>4. ASSUME NEW v \in VMs, EnvironmentAction(v) PROVE StatesOK'
  BY <1>4, StatesSame DEF EnvironmentAction, getreg, getrenv, checkcaller,
       CallEnvironment, ReadRoblox, CheckExecutor, ReadExecutor, Crash, Call,
       statesVars
<1>5. ASSUME NEW v \in VMs, DetourAction(v) PROVE StatesOK'
  <2>1. CASE DetourGrab(v)
    <3>1. /\ UNCHANGED <<execState, rbxState, envs>>
          /\ home' = Append(home, v) /\ Len(home) < MaxGrabs
          /\ runner' = [runner EXCEPT ![v] = Len(home) + 1]
      BY <2>1 DEF DetourGrab, NewState
    <3>2. /\ home' \in Seq(VMs) /\ Len(home') = Len(home) + 1
          /\ Len(home') <= MaxGrabs
      BY <3>1, BoundsAssumption DEF StatesOK
    <3>3. runner' \in [Threads -> 0..Len(home')]
      <4>1. Len(home) \in Nat /\ runner \in [Threads -> 0..Len(home)]
        BY DEF StatesOK
      <4>2. Len(home') = Len(home) + 1
        BY <3>2
      <4>3. Len(home) + 1 \in 0..Len(home') /\ 0..Len(home) \subseteq 0..Len(home')
        BY <4>1, <4>2
      <4>4. runner' = [runner EXCEPT ![v] = Len(home) + 1]
        BY <3>1
      <4> QED
        BY <4>1, <4>3, <4>4
    <3>4. /\ execState' \in 0..Len(home') /\ rbxState' \in 0..Len(home')
          /\ envs' \subseteq 1..Len(home')
      BY <3>1, <3>2 DEF StatesOK
    <3> QED
      BY <3>2, <3>3, <3>4 DEF StatesOK
  <2>2. CASE \/ DetourEnter(v) \/ DetourLock(v) \/ DetourSkip(v)
             \/ DetourRejectSingleStep(v) \/ DetourRejectPlace(v)
             \/ DetourUnlock(v)
    BY <2>2, StatesSame DEF DetourEnter, DetourLock, DetourSkip, Reject,
         DetourRejectSingleStep, DetourRejectPlace, DetourUnlock, statesVars
  <2> QED
    BY <1>5, <2>1, <2>2 DEF DetourAction
<1>6. ASSUME NEW v \in VMs, StudioAction(v) PROVE StatesOK'
  <2>1. CASE SteppedRunner(v)
    BY <2>1, <1>0, RunnerSet DEF SteppedRunner, Threads
  <2>2. CASE ResumeDeferred(v) \/ Stepped(v) \/ SteppedKey(v)
    BY <2>2, StatesSame DEF ResumeDeferred, Stepped, SteppedKey, statesVars
  <2> QED
    BY <1>6, <2>1, <2>2 DEF StudioAction
<1>7. CASE MainAction
  <2>1. CASE MainRegisterEnv \/ MainStep
    BY <2>1, <1>0, RunnerSet DEF MainRegisterEnv, MainStep, Threads
  <2>2. CASE MainRegisterLibraries
    <3>1. CASE runner[Main] = Null
      BY <2>2, <3>1, StatesSame DEF MainRegisterLibraries, Crash, statesVars
    <3>2. CASE runner[Main] # Null
      <4>1. runner[Main] \in 1..Len(home)
        BY <3>2 DEF StatesOK, Threads, Null
      <4> QED
        BY <2>2, <3>2, <4>1 DEF MainRegisterLibraries, StatesOK
    <3> QED
      BY <3>1, <3>2
  <2>3. CASE \/ MainInstallHook \/ MainWaitUntilInitialised
             \/ MainSetSchedulerKey \/ MainScheduleHook \/ MainEmplace
             \/ MainScheduleInit \/ MainRemoveHook
    BY <2>3, StatesSame DEF MainInstallHook, MainWaitUntilInitialised,
         MainSetSchedulerKey, MainScheduleHook, MainEmplace, MainScheduleInit,
         MainRemoveHook, ScheduleJob, statesVars
  <2> QED
    BY <1>7, <2>1, <2>2, <2>3 DEF MainAction
<1>8. ASSUME NEW code \in UserCode, MainInput(code) PROVE StatesOK'
  BY <1>8, StatesSame DEF MainInput, ScheduleJob, statesVars
<1>9. CASE MainReinit
  BY <1>9, StatesSame DEF MainReinit, statesVars
<1>10. CASE UNCHANGED vars
  BY <1>10, StatesSame DEF vars, statesVars
<1> QED
  BY <1>1, <1>2, <1>3, <1>4, <1>5, <1>6, <1>7, <1>8, <1>9, <1>10 DEF Next

LEMMA DeferredSame ==
  DeferredOK /\ UNCHANGED <<home, deferred>> => DeferredOK'
  BY DEF DeferredOK, Deferrals

LEMMA DeferredStep == DeferredOK /\ StatesOK /\ JobsOK /\ [Next]_vars => DeferredOK'
<1> SUFFICES ASSUME DeferredOK, StatesOK, JobsOK, [Next]_vars PROVE DeferredOK'
  OBVIOUS
<1> USE DEF hookVars, studioVars
<1>1. ASSUME NEW t \in Threads, LockAction(t) PROVE DeferredOK'
  BY <1>1, DeferredSame DEF LockAction, LockTest, LockSet, Unlock
<1>2. ASSUME NEW t \in Threads, StepAction(t) PROVE DeferredOK'
  <2>1. CASE StepExecute(t)
    <3> DEFINE r == runner[t]
               c == job[t].code
    <3>1. CASE r # Null /\ deferred' = [deferred EXCEPT ![home[r]] =
                                Append(@, [code |-> c, state |-> r])]
      <4>1. r \in 1..Len(home)
        BY <3>1 DEF StatesOK, Null
      <4>2. home[r] \in VMs
        BY <4>1 DEF StatesOK
      <4>3. c \in Codes
        BY DEF JobsOK, Jobs
      <4>4. [code |-> c, state |-> r] \in Deferrals
        BY <4>1, <4>3 DEF Deferrals
      <4>5. deferred[home[r]] \in Seq(Deferrals)
        BY <4>2 DEF DeferredOK
      <4>6. Append(deferred[home[r]], [code |-> c, state |-> r]) \in Seq(Deferrals)
        BY <4>4, <4>5
      <4>7. Deferrals' = Deferrals
        BY <2>1 DEF StepExecute, Crash, Deferrals
      <4> HIDE DEF r, c
      <4> QED
        BY <3>1, <4>6, <4>7 DEF DeferredOK
    <3>2. CASE UNCHANGED deferred
      BY <2>1, <3>2, DeferredSame DEF StepExecute, Crash
    <3> QED
      BY <2>1, <3>1, <3>2 DEF StepExecute, Crash
  <2>2. CASE StepCompare(t) \/ StepEmpty(t) \/ StepBack(t) \/ StepPop(t)
    BY <2>2, DeferredSame DEF StepCompare, StepEmpty, StepBack, StepPop, Crash
  <2> QED
    BY <1>2, <2>1, <2>2 DEF StepAction
<1>3. ASSUME NEW t \in Threads, StatesAction(t) PROVE DeferredOK'
  BY <1>3, DeferredSame DEF StatesAction, InitializeRoblox, InitializeExecutor,
       ReinitializeExecutor, ReinitializeRoblox
<1>4. ASSUME NEW v \in VMs, EnvironmentAction(v) PROVE DeferredOK'
  BY <1>4, DeferredSame DEF EnvironmentAction, getreg, getrenv, checkcaller,
       CallEnvironment, ReadRoblox, CheckExecutor, ReadExecutor, Crash
<1>5. ASSUME NEW v \in VMs, DetourAction(v) PROVE DeferredOK'
  <2>1. CASE DetourGrab(v)
    <3>1. UNCHANGED deferred /\ home' = Append(home, v)
      BY <2>1 DEF DetourGrab
    <3>2. Len(home') = Len(home) + 1 /\ Len(home) \in Nat
      BY <3>1 DEF StatesOK
    <3>3. Deferrals \subseteq Deferrals'
      BY <3>2 DEF Deferrals
    <3>4. Seq(Deferrals) \subseteq Seq(Deferrals')
      BY <3>3
    <3> QED
      BY <3>1, <3>4 DEF DeferredOK
  <2>2. CASE \/ DetourEnter(v) \/ DetourLock(v) \/ DetourSkip(v)
             \/ DetourRejectSingleStep(v) \/ DetourRejectPlace(v)
             \/ DetourUnlock(v)
    BY <2>2, DeferredSame DEF DetourEnter, DetourLock, DetourSkip, Reject,
         DetourRejectSingleStep, DetourRejectPlace, DetourUnlock
  <2> QED
    BY <1>5, <2>1, <2>2 DEF DetourAction
<1>6. ASSUME NEW v \in VMs, StudioAction(v) PROVE DeferredOK'
  <2>1. CASE ResumeDeferred(v)
    <3>1. /\ UNCHANGED home /\ deferred[v] # <<>>
          /\ deferred' = [deferred EXCEPT ![v] = Tail(deferred[v])]
      BY <2>1 DEF ResumeDeferred
    <3>2. Tail(deferred[v]) \in Seq(Deferrals)
      BY <3>1 DEF DeferredOK
    <3>3. Deferrals' = Deferrals
      BY <3>1 DEF Deferrals
    <3> QED
      BY <3>1, <3>2, <3>3 DEF DeferredOK
  <2>2. CASE Stepped(v) \/ SteppedRunner(v) \/ SteppedKey(v)
    BY <2>2, DeferredSame DEF Stepped, SteppedRunner, SteppedKey
  <2> QED
    BY <1>6, <2>1, <2>2 DEF StudioAction
<1>7. CASE MainAction
  BY <1>7, DeferredSame DEF MainAction, MainInstallHook,
       MainWaitUntilInitialised, MainRegisterEnv, MainSetSchedulerKey,
       MainRegisterLibraries, MainScheduleHook, MainEmplace, MainStep,
       MainScheduleInit, MainRemoveHook, ScheduleJob, Crash
<1>8. ASSUME NEW code \in UserCode, MainInput(code) PROVE DeferredOK'
  BY <1>8, DeferredSame DEF MainInput, ScheduleJob
<1>9. CASE MainReinit
  BY <1>9, DeferredSame DEF MainReinit
<1>10. CASE UNCHANGED vars
  BY <1>10, DeferredSame DEF vars
<1> QED
  BY <1>1, <1>2, <1>3, <1>4, <1>5, <1>6, <1>7, <1>8, <1>9, <1>10 DEF Next

jobVars == <<jobs, nextId, executed, job>>

LEMMA JobsSame == JobsOK /\ UNCHANGED jobVars => JobsOK'
  BY DEF JobsOK, jobVars

LEMMA JobSet ==
  ASSUME JobsOK, UNCHANGED <<jobs, nextId, executed>>,
         NEW t \in Threads, NEW j \in Jobs, job' = [job EXCEPT ![t] = j]
  PROVE  JobsOK'
  BY DEF JobsOK

LEMMA SpecialJobs == NoJob \in Jobs /\ Garbage \in Jobs
  BY DEF NoJob, Garbage, Jobs, Codes

LEMMA Scheduled ==
  ASSUME JobsOK, NEW code \in Codes, ScheduleJob(code)
  PROVE  JobsOK'
<1>1. [id |-> nextId, code |-> code] \in Jobs
  BY DEF JobsOK, Jobs
<1>2. Main \in Threads
  BY DEF Threads
<1> QED
  BY <1>1, <1>2 DEF ScheduleJob, JobsOK

LEMMA JobsStep == JobsOK /\ [Next]_vars => JobsOK'
<1> SUFFICES ASSUME JobsOK, [Next]_vars PROVE JobsOK'
  OBVIOUS
<1> USE DEF queueVars, locals
<1>1. ASSUME NEW t \in Threads, LockAction(t) PROVE JobsOK'
  <2>1. CASE LockTest(t) \/ LockSet(t)
    BY <2>1, JobsSame DEF LockTest, LockSet, jobVars
  <2>2. CASE Unlock(t)
    BY <2>2, SpecialJobs, JobSet DEF Unlock, Leave
  <2> QED
    BY <1>1, <2>1, <2>2 DEF LockAction
<1>2. ASSUME NEW t \in Threads, StepAction(t) PROVE JobsOK'
  <2>1. CASE StepCompare(t)
    <3>1. CASE schedKey = key[t]
      BY <2>1, <3>1, JobsSame DEF StepCompare, jobVars
    <3>2. CASE schedKey # key[t]
      BY <2>1, <3>2, SpecialJobs, JobSet DEF StepCompare, Leave
    <3> QED
      BY <3>1, <3>2
  <2>2. CASE StepEmpty(t)
    BY <2>2, JobsSame DEF StepEmpty, jobVars
  <2>3. CASE StepBack(t)
    <3> DEFINE newest == IF jobs = <<>> THEN Garbage ELSE jobs[Len(jobs)]
    <3>1. newest \in Jobs
      <4>1. CASE jobs = <<>>
        BY <4>1, SpecialJobs
      <4>2. CASE jobs # <<>>
        BY <4>2 DEF JobsOK
      <4> QED
        BY <4>1, <4>2
    <3>2. CASE Crash
      BY <3>2, JobsSame DEF Crash, jobVars
    <3>3. CASE /\ UNCHANGED <<jobs, nextId, executed>>
               /\ job' = [job EXCEPT ![t] = newest]
      <4> HIDE DEF newest
      <4> QED
        BY <3>1, <3>3, JobSet
    <3> QED
      BY <2>3, <3>2, <3>3 DEF StepBack
  <2>4. CASE StepPop(t)
    <3>1. CASE Crash
      BY <3>1, JobsSame DEF Crash, jobVars
    <3>2. CASE jobs # <<>> /\ jobs' = AfterPop /\ UNCHANGED <<nextId, executed, job>>
      BY <3>2 DEF JobsOK, AfterPop
    <3> QED
      BY <2>4, <3>1, <3>2 DEF StepPop
  <2>5. CASE StepExecute(t)
    <3>1. CASE Crash
      BY <3>1, JobsSame DEF Crash, jobVars
    <3>2. CASE UNCHANGED <<jobs, nextId, executed, job>>
      BY <3>2 DEF JobsOK
    <3>3. CASE /\ executed' = Append(executed, job[t].id)
               /\ UNCHANGED <<jobs, nextId, job>>
      <4>1. job[t].id \in Nat
        BY DEF JobsOK, Jobs
      <4> QED
        BY <3>3, <4>1 DEF JobsOK
    <3> QED
      BY <2>5, <3>1, <3>2, <3>3 DEF StepExecute
  <2> QED
    BY <1>2, <2>1, <2>2, <2>3, <2>4, <2>5 DEF StepAction
<1>3. ASSUME NEW t \in Threads, StatesAction(t) PROVE JobsOK'
  BY <1>3, JobsSame DEF StatesAction, InitializeRoblox, InitializeExecutor,
       ReinitializeExecutor, ReinitializeRoblox, jobVars
<1>4. ASSUME NEW v \in VMs, EnvironmentAction(v) PROVE JobsOK'
  BY <1>4, JobsSame DEF EnvironmentAction, getreg, getrenv, checkcaller,
       CallEnvironment, ReadRoblox, CheckExecutor, ReadExecutor, Crash, jobVars
<1>5. ASSUME NEW v \in VMs, DetourAction(v) PROVE JobsOK'
  BY <1>5, JobsSame DEF DetourAction, DetourEnter, DetourLock, DetourSkip,
       Reject, DetourRejectSingleStep, DetourRejectPlace, DetourGrab,
       DetourUnlock, jobVars
<1>6. ASSUME NEW v \in VMs, StudioAction(v) PROVE JobsOK'
  BY <1>6, JobsSame DEF StudioAction, ResumeDeferred, Stepped, SteppedRunner,
       SteppedKey, jobVars
<1>7. CASE MainAction
  <2>1. CASE MainScheduleHook \/ MainScheduleInit
    <3>1. {"hook", "init"} \subseteq Codes
      BY DEF Codes
    <3> QED
      BY <2>1, <3>1, Scheduled DEF MainScheduleHook, MainScheduleInit
  <2>2. CASE MainEmplace
    <3> DEFINE pushed == Append(jobs, job[Main])
    <3>1. /\ jobs' \in {pushed, jobs, <<Garbage>> \o pushed}
          /\ job' = [job EXCEPT ![Main] = NoJob]
          /\ UNCHANGED <<nextId, executed>>
      BY <2>2 DEF MainEmplace
    <3>2. Main \in Threads
      BY DEF Threads
    <3>3. pushed \in Seq(Jobs)
      BY <3>2 DEF JobsOK
    <3>4. <<Garbage>> \in Seq(Jobs)
      BY SpecialJobs
    <3> HIDE DEF pushed
    <3>5. <<Garbage>> \o pushed \in Seq(Jobs)
      BY <3>3, <3>4
    <3>6. jobs' \in Seq(Jobs)
      BY <3>1, <3>3, <3>5 DEF JobsOK
    <3>7. job' \in [Threads -> Jobs]
      BY <3>1, SpecialJobs DEF JobsOK
    <3> QED
      BY <3>1, <3>6, <3>7 DEF JobsOK
  <2>3. CASE \/ MainInstallHook \/ MainWaitUntilInitialised \/ MainRegisterEnv
             \/ MainSetSchedulerKey \/ MainRegisterLibraries \/ MainStep
             \/ MainRemoveHook
    BY <2>3, JobsSame DEF MainInstallHook, MainWaitUntilInitialised,
         MainRegisterEnv, MainSetSchedulerKey, MainRegisterLibraries, MainStep,
         MainRemoveHook, Crash, jobVars
  <2> QED
    BY <1>7, <2>1, <2>2, <2>3 DEF MainAction
<1>8. ASSUME NEW code \in UserCode, MainInput(code) PROVE JobsOK'
  <2>1. code \in Codes
    BY CodeAssumption DEF Codes
  <2> QED
    BY <1>8, <2>1, Scheduled DEF MainInput
<1>9. CASE MainReinit
  BY <1>9, JobsSame DEF MainReinit, jobVars
<1>10. CASE UNCHANGED vars
  BY <1>10, JobsSame DEF vars, jobVars
<1> QED
  BY <1>1, <1>2, <1>3, <1>4, <1>5, <1>6, <1>7, <1>8, <1>9, <1>10 DEF Next

\* Every variable keeps to the values its comment gives it, for any VMs.
THEOREM TypeCorrect == SafeSpec => []TypeOK
<1>1. TypeOK /\ [Next]_vars => TypeOK'
  BY ControlStep, FlagsStep, CountersStep, StatesStep, DeferredStep, JobsStep
     DEF TypeOK
<1> QED
  BY TypeInit, <1>1, PTL DEF SafeSpec

=============================================================================
