----------------------- MODULE SchedulerSafetyProofs -----------------------
(***************************************************************************)
(* Proofs of the safety properties of Scheduler that hold whatever the     *)
(* user types, reinit() included, for every set of VMs and all bounds.     *)
(***************************************************************************)
EXTENDS SchedulerProofs

-----------------------------------------------------------------------------
(* The flag is never left set.  A step of a thread keeps the invariant     *)
(* when it stays inside the critical section, or does not leave it.        *)

LEMMA StaysInside ==
  ASSUME ControlOK, LockNotOrphaned, NEW t \in Threads, NEW l,
         pc' = [pc EXCEPT ![t] = l], UNCHANGED locked,
         pc[t] \in CriticalSection => l \in CriticalSection
  PROVE  LockNotOrphaned'
<1> SUFFICES ASSUME locked' PROVE \E u \in Threads : pc'[u] \in CriticalSection
  BY Zenon DEF LockNotOrphaned
<1>1. PICK u \in Threads : pc[u] \in CriticalSection
  BY DEF LockNotOrphaned
<1>2. pc'[u] \in CriticalSection
  <2>1. CASE u = t
    BY <2>1, <1>1 DEF ControlOK
  <2>2. CASE u # t
    BY <2>2, <1>1 DEF ControlOK
  <2> QED
    BY <2>1, <2>2
<1> QED
  BY <1>1, <1>2

LEMMA SameControl ==
  LockNotOrphaned /\ UNCHANGED <<locked, pc>> => LockNotOrphaned'
  BY Zenon DEF LockNotOrphaned

LEMMA BodyIsInside == \A o : Body(o) \in CriticalSection
  BY DEF Body, CriticalSection

LEMMA LockNotOrphanedStep ==
  ControlOK /\ LockNotOrphaned /\ [Next]_vars => LockNotOrphaned'
<1> SUFFICES ASSUME ControlOK, LockNotOrphaned, [Next]_vars PROVE LockNotOrphaned'
  OBVIOUS
<1> USE DEF Goto, At, lockVars
<1>1. ASSUME NEW t \in Threads, LockAction(t) PROVE LockNotOrphaned'
  <2>1. CASE LockTest(t)
    BY <2>1, StaysInside DEF LockTest, CriticalSection
  <2>2. CASE LockSet(t)
    <3>1. pc'[t] \in CriticalSection
      BY <2>2, BodyIsInside DEF LockSet, ControlOK
    <3> QED
      BY <3>1 DEF LockNotOrphaned
  <2>3. CASE Unlock(t)
    BY <2>3 DEF Unlock, LockNotOrphaned
  <2> QED
    BY <1>1, <2>1, <2>2, <2>3 DEF LockAction
<1>2. ASSUME NEW t \in Threads, StepAction(t) PROVE LockNotOrphaned'
  <2>1. CASE StepCompare(t)
    BY <2>1, StaysInside DEF StepCompare, Call, Leave, CriticalSection
  <2>2. CASE StepEmpty(t)
    BY <2>2, StaysInside DEF StepEmpty, CriticalSection
  <2>3. CASE StepBack(t)
    BY <2>3, StaysInside, SameControl DEF StepBack, Crash, CriticalSection
  <2>4. CASE StepPop(t)
    BY <2>4, StaysInside, SameControl DEF StepPop, Crash, CriticalSection
  <2>5. CASE StepExecute(t)
    BY <2>5, StaysInside, SameControl DEF StepExecute, Crash, CriticalSection
  <2> QED
    BY <1>2, <2>1, <2>2, <2>3, <2>4, <2>5 DEF StepAction
<1>3. ASSUME NEW t \in Threads, StatesAction(t) PROVE LockNotOrphaned'
  BY <1>3, StaysInside DEF StatesAction, InitializeRoblox, InitializeExecutor,
       ReinitializeExecutor, ReinitializeRoblox, CriticalSection
<1>4. ASSUME NEW v \in VMs, EnvironmentAction(v) PROVE LockNotOrphaned'
  <2> v \in Threads
    BY DEF Threads
  <2>1. CASE getreg(v) \/ getrenv(v) \/ checkcaller(v)
    BY <2>1, StaysInside DEF getreg, getrenv, checkcaller, CallEnvironment,
         Call, CriticalSection
  <2>2. CASE ReadRoblox(v)
    BY <2>2, StaysInside, SameControl DEF ReadRoblox, Crash, CriticalSection
  <2>3. CASE CheckExecutor(v)
    BY <2>3, StaysInside DEF CheckExecutor, CriticalSection
  <2>4. CASE ReadExecutor(v)
    BY <2>4, StaysInside, SameControl DEF ReadExecutor, Crash, CriticalSection
  <2> QED
    BY <1>4, <2>1, <2>2, <2>3, <2>4 DEF EnvironmentAction
<1>5. ASSUME NEW v \in VMs, DetourAction(v) PROVE LockNotOrphaned'
  <2> v \in Threads
    BY DEF Threads
  <2> QED
    BY <1>5, StaysInside DEF DetourAction, DetourEnter, DetourLock, DetourSkip,
         Reject, DetourRejectSingleStep, DetourRejectPlace, DetourGrab,
         DetourUnlock, Call, CriticalSection
<1>6. ASSUME NEW v \in VMs, StudioAction(v) PROVE LockNotOrphaned'
  <2> v \in Threads
    BY DEF Threads
  <2>1. CASE ResumeDeferred(v)
    BY <2>1, SameControl DEF ResumeDeferred
  <2>2. CASE Stepped(v) \/ SteppedRunner(v) \/ SteppedKey(v)
    BY <2>2, StaysInside DEF Stepped, SteppedRunner, SteppedKey, CriticalSection
  <2> QED
    BY <1>6, <2>1, <2>2 DEF StudioAction
<1>7. CASE MainAction
  <2> Main \in Threads
    BY DEF Threads
  <2>1. CASE \/ MainInstallHook \/ MainWaitUntilInitialised \/ MainRegisterEnv
             \/ MainSetSchedulerKey \/ MainStep \/ MainRemoveHook
    BY <2>1, StaysInside DEF MainInstallHook, MainWaitUntilInitialised,
         MainRegisterEnv, MainSetSchedulerKey, MainStep, MainRemoveHook,
         CriticalSection
  <2>2. CASE MainRegisterLibraries
    BY <2>2, StaysInside, SameControl DEF MainRegisterLibraries, Crash,
         CriticalSection
  <2>3. CASE MainScheduleHook \/ MainScheduleInit
    BY <2>3, StaysInside DEF MainScheduleHook, MainScheduleInit, ScheduleJob,
         CriticalSection
  <2>4. CASE MainEmplace
    BY <2>4, StaysInside DEF MainEmplace, CriticalSection
  <2> QED
    BY <1>7, <2>1, <2>2, <2>3, <2>4 DEF MainAction
<1>8. ASSUME NEW code \in UserCode, MainInput(code) PROVE LockNotOrphaned'
  BY <1>8, StaysInside DEF MainInput, ScheduleJob, CriticalSection, Threads
<1>9. CASE MainReinit
  BY <1>9, StaysInside DEF MainReinit, Call, CriticalSection, Threads
<1>10. CASE UNCHANGED vars
  BY <1>10, SameControl DEF vars
<1> QED
  BY <1>1, <1>2, <1>3, <1>4, <1>5, <1>6, <1>7, <1>8, <1>9, <1>10 DEF Next

\* scheduler_locked is set only while some thread is between lock_scheduler
\* and unlock_scheduler: no early return of scheduler_step, initialize_with,
\* re_initialize, getreg, getrenv or checkcaller leaves it set.
THEOREM LockIsNotOrphaned == SafeSpec => []LockNotOrphaned
<1>1. Init => LockNotOrphaned
  BY DEF Init, LockNotOrphaned
<1>2. TypeOK /\ LockNotOrphaned /\ [Next]_vars => LockNotOrphaned'
  BY LockNotOrphanedStep DEF TypeOK
<1> QED
  BY TypeCorrect, <1>1, <1>2, PTL DEF SafeSpec

-----------------------------------------------------------------------------
(* Which labels belong to which operation, and what each operation knows.  *)

Region(o) ==
    CASE o = "none" ->
            {"install", "wait", "env", "set_key", "register", "schedule_hook",
             "emplace", "step", "schedule_init", "remove", "input", "idle",
             "det_lock", "det_check", "det_unlock", "args", "args_key",
             "args_runner", "compare"}
      [] o = "step" -> {"lock", "set", "empty", "back", "pop", "execute", "unlock"}
      [] o = "initialize_with" -> {"lock", "set", "set_rbx", "set_exec", "unlock"}
      [] o = "re_initialize" -> {"lock", "set", "null_exec", "null_rbx", "unlock"}
      [] o = "checkcaller" -> {"lock", "set", "check_exec", "read_exec", "unlock"}
      [] OTHER -> {"lock", "set", "read_rbx", "unlock"}

\* Only a VM in the detour initialises, with states it has created; only the
\* module's thread clears them.
OpOK(t) == /\ pc[t] \in Region(op[t])
           /\ op[t] = "initialize_with" => t \in VMs /\ runner[t] # Null
           /\ op[t] = "re_initialize" => t = Main
OpsOK == \A t \in Threads : OpOK(t)

LEMMA OpMoves ==
  ASSUME ControlOK, StatesOK, OpsOK, NEW t \in Threads,
         NEW l, NEW o \in Ops, NEW r,
         pc' = [pc EXCEPT ![t] = l], op' = [op EXCEPT ![t] = o],
         runner' = [runner EXCEPT ![t] = r],
         l \in Region(o),
         o = "initialize_with" => t \in VMs /\ r # Null,
         o = "re_initialize" => t = Main
  PROVE  OpsOK'
<1> SUFFICES ASSUME NEW u \in Threads PROVE OpOK(u)'
  BY DEF OpsOK
<1>1. CASE u = t
  BY <1>1 DEF ControlOK, StatesOK, OpOK
<1>2. CASE u # t
  <2>1. pc'[u] = pc[u] /\ op'[u] = op[u] /\ runner'[u] = runner[u]
    BY <1>2 DEF ControlOK, StatesOK
  <2> QED
    BY <2>1 DEF OpsOK, OpOK
<1> QED
  BY <1>1, <1>2

\* The common case: only the label changes.
LEMMA LabelMoves ==
  ASSUME ControlOK, StatesOK, OpsOK, NEW t \in Threads, NEW l,
         pc' = [pc EXCEPT ![t] = l], UNCHANGED <<op, runner>>,
         l \in Region(op[t])
  PROVE  OpsOK'
<1> SUFFICES ASSUME NEW u \in Threads PROVE OpOK(u)'
  BY DEF OpsOK
<1>1. CASE u = t
  BY <1>1 DEF ControlOK, OpsOK, OpOK
<1>2. CASE u # t
  BY <1>2 DEF ControlOK, OpsOK, OpOK
<1> QED
  BY <1>1, <1>2

LEMMA OpsSame == OpsOK /\ UNCHANGED <<pc, op, runner>> => OpsOK'
  BY DEF OpsOK, OpOK

\* What the label of a thread says of its operation.
LEMMA OpAtLabel ==
  ASSUME ControlOK, OpsOK, NEW t \in Threads
  PROVE  /\ pc[t] \in Region("none") => op[t] = "none"
         /\ pc[t] \in {"empty", "back", "pop", "execute"} => op[t] = "step"
         /\ pc[t] \in {"set_rbx", "set_exec"} => op[t] = "initialize_with"
         /\ pc[t] \in {"null_exec", "null_rbx"} => op[t] = "re_initialize"
         /\ pc[t] = "read_rbx" => op[t] = "read_rbx"
         /\ pc[t] \in {"check_exec", "read_exec"} => op[t] = "checkcaller"
         /\ pc[t] \in {"lock", "set"} => op[t] # "none"
<1>1. op[t] \in Ops /\ pc[t] \in Region(op[t])
  BY DEF ControlOK, OpsOK, OpOK
<1> QED
  BY <1>1 DEF Ops, Region

LEMMA OpsStep == ControlOK /\ StatesOK /\ OpsOK /\ [Next]_vars => OpsOK'
<1> SUFFICES ASSUME ControlOK, StatesOK, OpsOK, [Next]_vars PROVE OpsOK'
  OBVIOUS
<1> USE DEF Goto, At, locals
<1>1. ASSUME NEW t \in Threads, LockAction(t) PROVE OpsOK'
  <2>1. CASE LockTest(t)
    <3>1. "set" \in Region(op[t])
      BY <2>1, OpAtLabel DEF LockTest, Region, ControlOK, Ops
    <3> QED
      BY <2>1, <3>1, LabelMoves DEF LockTest
  <2>2. CASE LockSet(t)
    <3>1. Body(op[t]) \in Region(op[t])
      BY <2>2, OpAtLabel DEF LockSet, Region, Body, ControlOK, Ops
    <3> QED
      BY <2>2, <3>1, LabelMoves DEF LockSet
  <2>3. CASE Unlock(t)
    <3>1. Caller(t) \in Region("none")
      BY DEF Caller, Region
    <3> QED
      BY <2>3, <3>1, OpMoves DEF Unlock, Leave, Ops
  <2> QED
    BY <1>1, <2>1, <2>2, <2>3 DEF LockAction
<1>2. ASSUME NEW t \in Threads, StepAction(t) PROVE OpsOK'
  <2>1. CASE StepCompare(t)
    <3>1. CASE schedKey = key[t]
      <4>1. runner' = [runner EXCEPT ![t] = runner[t]]
        BY <2>1, <3>1 DEF StepCompare, StatesOK
      <4> QED
        BY <2>1, <3>1, <4>1, OpMoves DEF StepCompare, Call, Ops, Region
    <3>2. CASE schedKey # key[t]
      <4>1. Caller(t) \in Region("none")
        BY DEF Caller, Region
      <4> QED
        BY <2>1, <3>2, <4>1, OpMoves DEF StepCompare, Leave, Ops
    <3> QED
      BY <3>1, <3>2
  <2>2. CASE Crash
    BY <2>2, OpsSame DEF Crash
  <2>3. CASE ~Crash /\ (StepEmpty(t) \/ StepBack(t) \/ StepPop(t) \/ StepExecute(t))
    <3>1. op[t] = "step"
      BY <2>3, OpAtLabel DEF StepEmpty, StepBack, StepPop, StepExecute
    <3>2. {"empty", "back", "pop", "execute", "unlock"} \subseteq Region(op[t])
      BY <3>1 DEF Region
    <3> QED
      BY <2>3, <3>2, LabelMoves DEF StepEmpty, StepBack, StepPop, StepExecute
  <2> QED
    BY <1>2, <2>1, <2>2, <2>3 DEF StepAction
<1>3. ASSUME NEW t \in Threads, StatesAction(t) PROVE OpsOK'
  <2>1. CASE InitializeRoblox(t) \/ InitializeExecutor(t)
    <3>1. op[t] = "initialize_with"
      BY <2>1, OpAtLabel DEF InitializeRoblox, InitializeExecutor
    <3>2. {"set_exec", "unlock"} \subseteq Region(op[t])
      BY <3>1 DEF Region
    <3> QED
      BY <2>1, <3>2, LabelMoves DEF InitializeRoblox, InitializeExecutor
  <2>2. CASE ReinitializeExecutor(t) \/ ReinitializeRoblox(t)
    <3>1. op[t] = "re_initialize"
      BY <2>2, OpAtLabel DEF ReinitializeExecutor, ReinitializeRoblox
    <3>2. {"null_rbx", "unlock"} \subseteq Region(op[t])
      BY <3>1 DEF Region
    <3> QED
      BY <2>2, <3>2, LabelMoves DEF ReinitializeExecutor, ReinitializeRoblox
  <2> QED
    BY <1>3, <2>1, <2>2 DEF StatesAction
<1>4. ASSUME NEW v \in VMs, EnvironmentAction(v) PROVE OpsOK'
  <2> v \in Threads
    BY DEF Threads
  <2>1. ASSUME NEW o \in {"read_rbx", "checkcaller"}, CallEnvironment(v, o)
        PROVE  OpsOK'
    <3>1. runner' = [runner EXCEPT ![v] = runner[v]]
      BY <2>1 DEF CallEnvironment, StatesOK
    <3>2. "lock" \in Region(o)
      BY DEF Region
    <3> QED
      BY <2>1, <3>1, <3>2, OpMoves DEF CallEnvironment, Call, Ops
  <2>2. CASE Crash
    BY <2>2, OpsSame DEF Crash
  <2>3. CASE ~Crash /\ ReadRoblox(v)
    BY <2>3, LabelMoves, OpAtLabel DEF ReadRoblox, Region
  <2>4. CASE ~Crash /\ (CheckExecutor(v) \/ ReadExecutor(v))
    <3>1. op[v] = "checkcaller"
      BY <2>4, OpAtLabel DEF CheckExecutor, ReadExecutor
    <3>2. {"read_exec", "unlock"} \subseteq Region(op[v])
      BY <3>1 DEF Region
    <3> QED
      BY <2>4, <3>2, LabelMoves DEF CheckExecutor, ReadExecutor
  <2> QED
    BY <1>4, <2>1, <2>2, <2>3, <2>4 DEF EnvironmentAction, getreg, getrenv, checkcaller
<1>5. ASSUME NEW v \in VMs, DetourAction(v) PROVE OpsOK'
  <2> v \in Threads
    BY DEF Threads
  <2>1. CASE DetourGrab(v)
    <3>1. Len(home) + 1 # Null
      BY DEF StatesOK, Null
    <3> QED
      BY <2>1, <3>1, OpMoves DEF DetourGrab, NewState, Call, Ops, Region
  <2>2. CASE \/ DetourEnter(v) \/ DetourLock(v) \/ DetourSkip(v) \/ Reject(v)
             \/ DetourUnlock(v)
    <3>1. op[v] = "none"
      BY <2>2, OpAtLabel DEF DetourEnter, DetourLock, DetourSkip, Reject,
           DetourUnlock, Region
    <3>2. {"idle", "det_lock", "det_check", "det_unlock"} \subseteq Region(op[v])
      BY <3>1 DEF Region
    <3> QED
      BY <2>2, <3>2, LabelMoves DEF DetourEnter, DetourLock, DetourSkip, Reject,
           DetourUnlock
  <2> QED
    BY <1>5, <2>1, <2>2 DEF DetourAction, DetourRejectSingleStep, DetourRejectPlace
<1>6. ASSUME NEW v \in VMs, StudioAction(v) PROVE OpsOK'
  <2> v \in Threads
    BY DEF Threads
  <2>1. CASE ResumeDeferred(v)
    BY <2>1, OpsSame DEF ResumeDeferred
  <2>2. CASE Stepped(v) \/ SteppedRunner(v) \/ SteppedKey(v)
    <3>1. op[v] = "none"
      BY <2>2, OpAtLabel DEF Stepped, SteppedRunner, SteppedKey, Region
    <3>2. {"args", "args_key", "args_runner", "compare"} \subseteq Region(op[v])
      BY <3>1 DEF Region
    <3>3. CASE Stepped(v) \/ SteppedKey(v)
      BY <3>2, <3>3, LabelMoves DEF Stepped, SteppedKey
    <3>4. CASE SteppedRunner(v)
      <4>1. op' = [op EXCEPT ![v] = op[v]]
        BY <3>4 DEF SteppedRunner, ControlOK
      <4> QED
        BY <3>1, <3>2, <3>4, <4>1, OpMoves DEF SteppedRunner, Ops
    <3> QED
      BY <2>2, <3>3, <3>4
  <2> QED
    BY <1>6, <2>1, <2>2 DEF StudioAction
<1>7. CASE MainAction
  <2> Main \in Threads
    BY DEF Threads
  <2>1. CASE Crash
    BY <2>1, OpsSame DEF Crash
  <2>2. CASE ~Crash
    <3>1. op[Main] = "none"
      BY <1>7, OpAtLabel DEF MainAction, MainInstallHook,
           MainWaitUntilInitialised, MainRegisterEnv, MainSetSchedulerKey,
           MainRegisterLibraries, MainScheduleHook, MainEmplace, MainStep,
           MainScheduleInit, MainRemoveHook, Region
    <3>2. /\ {"wait", "env", "set_key", "register", "schedule_hook", "emplace",
              "step", "compare", "remove", "input"} \subseteq Region(op[Main])
          /\ AfterEmplace(job[Main].code) \in Region(op[Main])
      BY <3>1 DEF Region, AfterEmplace
    <3>3. CASE MainRegisterEnv \/ MainStep
      <4>1. op' = [op EXCEPT ![Main] = op[Main]]
        BY <3>3 DEF MainRegisterEnv, MainStep, ControlOK
      <4> QED
        BY <3>1, <3>2, <3>3, <4>1, OpMoves DEF MainRegisterEnv, MainStep, Ops
    <3>4. CASE \/ MainInstallHook \/ MainWaitUntilInitialised
               \/ MainSetSchedulerKey \/ MainRegisterLibraries \/ MainEmplace
               \/ MainRemoveHook
      BY <2>2, <3>2, <3>4, LabelMoves DEF MainInstallHook, MainWaitUntilInitialised,
           MainSetSchedulerKey, MainRegisterLibraries, MainEmplace, MainRemoveHook
    <3>5. CASE MainScheduleHook \/ MainScheduleInit
      BY <3>2, <3>5, LabelMoves DEF MainScheduleHook, MainScheduleInit, ScheduleJob
    <3> QED
      BY <1>7, <3>3, <3>4, <3>5 DEF MainAction
  <2> QED
    BY <2>1, <2>2
<1>8. ASSUME NEW code \in UserCode, MainInput(code) PROVE OpsOK'
  <2>1. Main \in Threads
    BY DEF Threads
  <2>2. "emplace" \in Region(op[Main])
    BY <1>8, <2>1, OpAtLabel DEF MainInput, Region
  <2> QED
    BY <1>8, <2>1, <2>2, LabelMoves DEF MainInput, ScheduleJob
<1>9. CASE MainReinit
  <2>1. Main \in Threads
    BY DEF Threads
  <2>2. runner' = [runner EXCEPT ![Main] = runner[Main]]
    BY <1>9 DEF MainReinit, StatesOK
  <2> QED
    BY <1>9, <2>1, <2>2, OpMoves DEF MainReinit, Call, Ops, Region
<1>10. CASE UNCHANGED vars
  BY <1>10, OpsSame DEF vars
<1> QED
  BY <1>1, <1>2, <1>3, <1>4, <1>5, <1>6, <1>7, <1>8, <1>9, <1>10 DEF Next

LEMMA OpsCorrect == SafeSpec => []OpsOK
<1>1. Init => OpsOK
  BY ThreadsAssumption DEF Init, OpsOK, OpOK, Region, Threads
<1>2. TypeOK /\ OpsOK /\ [Next]_vars => OpsOK'
  BY OpsStep DEF TypeOK
<1> QED
  BY TypeCorrect, <1>1, <1>2, PTL DEF SafeSpec

-----------------------------------------------------------------------------
(* mutx: whoever is past lock() in the detour owns it, also while it calls *)
(* initialize_with and polls the scheduler's lock.                         *)

Owns(v)  == mutx = v
InDetour(v) == pc[v] \in {"det_check", "det_unlock"} \/ op[v] = "initialize_with"
MutxOK == \A v \in VMs : InDetour(v) => Owns(v)

LEMMA MutxSame ==
  ASSUME MutxOK, UNCHANGED mutx, \A v \in VMs : InDetour(v)' => InDetour(v)
  PROVE  MutxOK'
  BY DEF MutxOK, Owns

\* A step of thread t outside the detour.
LEMMA OutsideDetour ==
  ASSUME ControlOK, MutxOK, NEW t \in Threads, NEW l, NEW o,
         UNCHANGED mutx, pc' = [pc EXCEPT ![t] = l],
         op' = [op EXCEPT ![t] = o],
         t \in VMs /\ (l \in {"det_check", "det_unlock"} \/ o = "initialize_with")
            => InDetour(t)
  PROVE  MutxOK'
<1> SUFFICES ASSUME NEW v \in VMs, InDetour(v)' PROVE InDetour(v)
  BY MutxSame
<1>1. v \in Threads
  BY DEF Threads
<1> QED
  BY <1>1 DEF InDetour, ControlOK

LEMMA LabelOutsideDetour ==
  ASSUME ControlOK, MutxOK, NEW t \in Threads, NEW l,
         UNCHANGED <<mutx, op>>, pc' = [pc EXCEPT ![t] = l],
         l \in {"det_check", "det_unlock"} => InDetour(t)
  PROVE  MutxOK'
<1> SUFFICES ASSUME NEW v \in VMs, InDetour(v)' PROVE InDetour(v)
  BY MutxSame
<1>1. v \in Threads
  BY DEF Threads
<1> QED
  BY <1>1 DEF InDetour, ControlOK

LEMMA MutxStep ==
  ControlOK /\ OpsOK /\ MutxOK /\ [Next]_vars => MutxOK'
<1> SUFFICES ASSUME ControlOK, OpsOK, MutxOK, [Next]_vars PROVE MutxOK'
  OBVIOUS
<1> USE DEF Goto, At, locals, hookVars
<1>1. ASSUME NEW t \in Threads, LockAction(t) PROVE MutxOK'
  <2>1. CASE LockTest(t) \/ LockSet(t)
    <3>1. Body(op[t]) \notin {"det_check", "det_unlock"}
      BY DEF Body
    <3> QED
      BY <2>1, <3>1, LabelOutsideDetour DEF LockTest, LockSet
  <2>2. CASE Unlock(t)
    <3>1. Caller(t) \in {"det_check", "det_unlock"} => InDetour(t)
      BY DEF Caller, InDetour
    <3> QED
      BY <2>2, <3>1, OutsideDetour DEF Unlock, Leave
  <2> QED
    BY <1>1, <2>1, <2>2 DEF LockAction
<1>2. ASSUME NEW t \in Threads, StepAction(t) PROVE MutxOK'
  <2>1. CASE StepCompare(t)
    <3>1. Caller(t) \in {"det_check", "det_unlock"} => InDetour(t)
      BY DEF Caller, InDetour
    <3> QED
      BY <2>1, <3>1, OutsideDetour DEF StepCompare, Call, Leave
  <2>2. CASE Crash
    BY <2>2, MutxSame DEF Crash, InDetour
  <2>3. CASE ~Crash /\ (StepEmpty(t) \/ StepBack(t) \/ StepPop(t) \/ StepExecute(t))
    BY <2>3, LabelOutsideDetour DEF StepEmpty, StepBack, StepPop, StepExecute
  <2> QED
    BY <1>2, <2>1, <2>2, <2>3 DEF StepAction
<1>3. ASSUME NEW t \in Threads, StatesAction(t) PROVE MutxOK'
  BY <1>3, LabelOutsideDetour DEF StatesAction, InitializeRoblox,
       InitializeExecutor, ReinitializeExecutor, ReinitializeRoblox
<1>4. ASSUME NEW v \in VMs, EnvironmentAction(v) PROVE MutxOK'
  <2> v \in Threads
    BY DEF Threads
  <2>1. ASSUME NEW o \in {"read_rbx", "checkcaller"}, CallEnvironment(v, o)
        PROVE  MutxOK'
    BY <2>1, OutsideDetour DEF CallEnvironment, Call
  <2>2. CASE Crash
    BY <2>2, MutxSame DEF Crash, InDetour
  <2>3. CASE ~Crash /\ (ReadRoblox(v) \/ CheckExecutor(v) \/ ReadExecutor(v))
    BY <2>3, LabelOutsideDetour DEF ReadRoblox, CheckExecutor, ReadExecutor
  <2> QED
    BY <1>4, <2>1, <2>2, <2>3 DEF EnvironmentAction, getreg, getrenv, checkcaller
<1>5. ASSUME NEW v \in VMs, DetourAction(v) PROVE MutxOK'
  <2> v \in Threads
    BY DEF Threads
  <2>1. CASE DetourEnter(v) \/ DetourSkip(v) \/ Reject(v)
    BY <2>1, LabelOutsideDetour DEF DetourEnter, DetourSkip, Reject, InDetour
  <2>2. CASE DetourLock(v)
    <3>1. \A w \in VMs : ~InDetour(w)
      BY <2>2, ThreadsAssumption DEF DetourLock, MutxOK, Owns
    <3>2. \A w \in VMs : InDetour(w)' => w = v
      BY <2>2, <3>1 DEF DetourLock, InDetour, ControlOK
    <3> QED
      BY <2>2, <3>2 DEF DetourLock, MutxOK, Owns
  <2>3. CASE DetourGrab(v)
    BY <2>3, OutsideDetour DEF DetourGrab, Call, InDetour
  <2>4. CASE DetourUnlock(v)
    <3>1. op[v] = "none"
      BY <2>4, OpAtLabel DEF DetourUnlock, Region
    <3>2. InDetour(v)
      BY <2>4 DEF DetourUnlock, InDetour
    <3>3. \A w \in VMs : InDetour(w) => w = v
      BY <3>2 DEF MutxOK, Owns
    <3>4. pc'[v] = "idle" /\ op'[v] = "none"
      BY <2>4, <3>1 DEF DetourUnlock, ControlOK
    <3>5. ~InDetour(v)'
      BY <3>4 DEF InDetour
    <3>6. \A w \in VMs : w # v => ~InDetour(w)'
      BY <2>4, <3>3 DEF DetourUnlock, InDetour, ControlOK
    <3> QED
      BY <3>5, <3>6 DEF MutxOK
  <2> QED
    BY <1>5, <2>1, <2>2, <2>3, <2>4
       DEF DetourAction, DetourRejectSingleStep, DetourRejectPlace
<1>6. ASSUME NEW v \in VMs, StudioAction(v) PROVE MutxOK'
  <2> v \in Threads
    BY DEF Threads
  <2>1. CASE ResumeDeferred(v)
    BY <2>1, MutxSame DEF ResumeDeferred, InDetour
  <2>2. CASE Stepped(v) \/ SteppedRunner(v) \/ SteppedKey(v)
    BY <2>2, LabelOutsideDetour DEF Stepped, SteppedRunner, SteppedKey
  <2> QED
    BY <1>6, <2>1, <2>2 DEF StudioAction
<1>7. CASE MainAction
  <2>1. Main \in Threads /\ Main \notin VMs
    BY ThreadsAssumption DEF Threads
  <2>2. CASE Crash
    BY <2>2, MutxSame DEF Crash, InDetour
  <2>3. CASE ~Crash
    <3>1. UNCHANGED <<mutx, op>> /\ \E l : pc' = [pc EXCEPT ![Main] = l]
      BY <1>7, <2>3 DEF MainAction, MainInstallHook, MainWaitUntilInitialised,
           MainRegisterEnv, MainSetSchedulerKey, MainRegisterLibraries,
           MainScheduleHook, MainEmplace, MainStep, MainScheduleInit,
           MainRemoveHook, ScheduleJob
    <3>2. op' = [op EXCEPT ![Main] = op[Main]]
      BY <3>1 DEF ControlOK
    <3> QED
      BY <2>1, <3>1, <3>2, OutsideDetour
  <2> QED
    BY <2>2, <2>3
<1>8. ASSUME NEW code \in UserCode, MainInput(code) PROVE MutxOK'
  BY <1>8, LabelOutsideDetour DEF MainInput, ScheduleJob, Threads
<1>9. CASE MainReinit
  BY <1>9, ThreadsAssumption, OutsideDetour DEF MainReinit, Call, Threads
<1>10. CASE UNCHANGED vars
  BY <1>10, MutxSame DEF vars, InDetour
<1> QED
  BY <1>1, <1>2, <1>3, <1>4, <1>5, <1>6, <1>7, <1>8, <1>9, <1>10 DEF Next

\* The detour of pseudo2addr hands over the states of one VM at a time, however
\* many VMs run into it, also after re_initialize().
THEOREM OneInitializerAtATime == SafeSpec => []OneInitializer
<1>1. Init => MutxOK
  BY ThreadsAssumption DEF Init, MutxOK, InDetour, Threads
<1>2. TypeOK /\ OpsOK /\ MutxOK /\ [Next]_vars => MutxOK'
  BY MutxStep DEF TypeOK
<1>3. MutxOK => OneInitializer
  BY DEF MutxOK, InDetour, Owns, OneInitializer
<1> QED
  BY TypeCorrect, OpsCorrect, <1>1, <1>2, <1>3, PTL DEF SafeSpec

-----------------------------------------------------------------------------
(* The states the module's thread waited for stay until it clears them.    *)

Waiting == pc[Main] \in {"install", "wait"} \/ op[Main] = "re_initialize"
StatesKept == Waiting \/ (execState # Null /\ rbxState # Null)

\* A step that keeps both states and does not end the module's wait.
LEMMA KeptSame ==
  ASSUME StatesKept, UNCHANGED <<execState, rbxState>>, Waiting => Waiting'
  PROVE  StatesKept'
  BY DEF StatesKept

\* The steps of the other threads.
LEMMA KeptByOthers ==
  ASSUME ControlOK, StatesKept, NEW t \in Threads, t # Main, NEW l, NEW o,
         UNCHANGED <<execState, rbxState>>,
         pc' = [pc EXCEPT ![t] = l], op' = [op EXCEPT ![t] = o]
  PROVE  StatesKept'
<1>1. pc'[Main] = pc[Main] /\ op'[Main] = op[Main]
  BY DEF ControlOK, Threads
<1> QED
  BY <1>1, KeptSame DEF Waiting

\* The steps within an operation, of whatever thread.
LEMMA KeptInside ==
  ASSUME ControlOK, OpsOK, StatesKept, NEW t \in Threads, NEW l,
         UNCHANGED <<op, execState, rbxState>>,
         pc[t] \notin {"install", "wait"} \/ l \in {"install", "wait"},
         pc' = [pc EXCEPT ![t] = l]
  PROVE  StatesKept'
<1>1. CASE t = Main
  <2>1. Waiting => Waiting'
    BY <1>1 DEF Waiting, ControlOK
  <2> QED
    BY <2>1, KeptSame
<1>2. CASE t # Main
  <2>1. pc'[Main] = pc[Main]
    BY <1>2 DEF ControlOK, Threads
  <2> QED
    BY <2>1, KeptSame DEF Waiting
<1> QED
  BY <1>1, <1>2

LEMMA StatesKeptStep ==
  ControlOK /\ StatesOK /\ OpsOK /\ StatesKept /\ [Next]_vars => StatesKept'
<1> SUFFICES ASSUME ControlOK, StatesOK, OpsOK, StatesKept, [Next]_vars
             PROVE  StatesKept'
  OBVIOUS
<1> USE DEF Goto, At, locals, lockVars
<1>1. ASSUME NEW t \in Threads, LockAction(t) PROVE StatesKept'
  <2>1. CASE LockTest(t) \/ LockSet(t)
    BY <2>1, KeptInside DEF LockTest, LockSet
  <2>2. CASE Unlock(t)
    <3>1. CASE t = Main
      <4>1. pc[Main] = "unlock" /\ pc'[Main] = Caller(Main)
        BY <2>2, <3>1 DEF Unlock, Leave, ControlOK
      <4>2. op[Main] = "re_initialize" => Caller(Main) = "install"
        BY DEF Caller
      <4>3. Waiting => Waiting'
        BY <4>1, <4>2 DEF Waiting
      <4> QED
        BY <2>2, <4>3, KeptSame DEF Unlock
    <3>2. CASE t # Main
      BY <2>2, <3>2, KeptByOthers DEF Unlock, Leave
    <3> QED
      BY <3>1, <3>2
  <2> QED
    BY <1>1, <2>1, <2>2 DEF LockAction
<1>2. ASSUME NEW t \in Threads, StepAction(t) PROVE StatesKept'
  <2>1. CASE StepCompare(t)
    <3>1. UNCHANGED <<execState, rbxState>>
      BY <2>1 DEF StepCompare
    <3>2. CASE t = Main
      <4>1. op[Main] = "none" /\ pc[Main] = "compare"
        BY <2>1, <3>2, OpAtLabel DEF StepCompare, Region
      <4>2. ~Waiting
        BY <4>1 DEF Waiting
      <4> QED
        BY <3>1, <4>2, KeptSame
    <3>3. CASE t # Main
      BY <2>1, <3>1, <3>3, KeptByOthers DEF StepCompare, Call, Leave
    <3> QED
      BY <3>2, <3>3
  <2>2. CASE Crash
    BY <2>2, KeptSame DEF Crash, Waiting
  <2>3. CASE ~Crash /\ (StepEmpty(t) \/ StepBack(t) \/ StepPop(t) \/ StepExecute(t))
    BY <2>3, KeptInside DEF StepEmpty, StepBack, StepPop, StepExecute
  <2> QED
    BY <1>2, <2>1, <2>2, <2>3 DEF StepAction
<1>3. ASSUME NEW t \in Threads, StatesAction(t) PROVE StatesKept'
  <2>1. CASE InitializeRoblox(t) \/ InitializeExecutor(t)
    <3>1. t \in VMs /\ runner[t] # Null
      BY <2>1, OpAtLabel DEF InitializeRoblox, InitializeExecutor, OpsOK, OpOK
    <3>2. Waiting => Waiting'
      BY <2>1, <3>1, ThreadsAssumption
         DEF InitializeRoblox, InitializeExecutor, Waiting, ControlOK, Threads
    <3> QED
      BY <2>1, <3>1, <3>2 DEF InitializeRoblox, InitializeExecutor, StatesKept
  <2>2. CASE ReinitializeExecutor(t) \/ ReinitializeRoblox(t)
    <3>1. op[Main] = "re_initialize"
      BY <2>2, OpAtLabel DEF ReinitializeExecutor, ReinitializeRoblox, OpsOK, OpOK
    <3> QED
      BY <2>2, <3>1 DEF ReinitializeExecutor, ReinitializeRoblox, StatesKept, Waiting
  <2> QED
    BY <1>3, <2>1, <2>2 DEF StatesAction
<1>4. ASSUME NEW v \in VMs, EnvironmentAction(v) PROVE StatesKept'
  <2> v \in Threads /\ v # Main
    BY ThreadsAssumption DEF Threads
  <2>1. ASSUME NEW o, CallEnvironment(v, o)
        PROVE  StatesKept'
    BY <2>1, KeptByOthers DEF CallEnvironment, Call
  <2>2. CASE Crash
    BY <2>2, KeptSame DEF Crash, Waiting
  <2>3. CASE ~Crash /\ (ReadRoblox(v) \/ CheckExecutor(v) \/ ReadExecutor(v))
    BY <2>3, KeptInside DEF ReadRoblox, CheckExecutor, ReadExecutor
  <2> QED
    BY <1>4, <2>1, <2>2, <2>3 DEF EnvironmentAction, getreg, getrenv, checkcaller
<1>5. ASSUME NEW v \in VMs, DetourAction(v) PROVE StatesKept'
  <2> v \in Threads /\ v # Main
    BY ThreadsAssumption DEF Threads
  <2>1. CASE DetourGrab(v)
    BY <2>1, KeptByOthers DEF DetourGrab, Call
  <2>2. CASE \/ DetourEnter(v) \/ DetourLock(v) \/ DetourSkip(v) \/ Reject(v)
             \/ DetourUnlock(v)
    BY <2>2, KeptInside DEF DetourEnter, DetourLock, DetourSkip, Reject, DetourUnlock
  <2> QED
    BY <1>5, <2>1, <2>2 DEF DetourAction, DetourRejectSingleStep, DetourRejectPlace
<1>6. ASSUME NEW v \in VMs, StudioAction(v) PROVE StatesKept'
  <2> v \in Threads
    BY DEF Threads
  <2>1. CASE ResumeDeferred(v)
    BY <2>1, KeptSame DEF ResumeDeferred, Waiting
  <2>2. CASE Stepped(v) \/ SteppedRunner(v) \/ SteppedKey(v)
    BY <2>2, KeptInside DEF Stepped, SteppedRunner, SteppedKey
  <2> QED
    BY <1>6, <2>1, <2>2 DEF StudioAction
<1>7. CASE MainAction
  <2> Main \in Threads
    BY DEF Threads
  <2>1. CASE Crash
    BY <2>1, KeptSame DEF Crash, Waiting
  <2>2. CASE MainWaitUntilInitialised
    BY <2>2 DEF MainWaitUntilInitialised, is_initialized, StatesKept
  <2>3. CASE ~Crash /\ \/ MainInstallHook \/ MainRegisterEnv
                       \/ MainSetSchedulerKey \/ MainRegisterLibraries
                       \/ MainStep \/ MainRemoveHook
    BY <2>3, KeptInside DEF MainInstallHook, MainRegisterEnv,
         MainSetSchedulerKey, MainRegisterLibraries, MainStep, MainRemoveHook
  <2>4. CASE MainScheduleHook \/ MainScheduleInit
    BY <2>4, KeptInside DEF MainScheduleHook, MainScheduleInit, ScheduleJob
  <2>5. CASE MainEmplace
    BY <2>5, KeptInside DEF MainEmplace
  <2> QED
    BY <1>7, <2>1, <2>2, <2>3, <2>4, <2>5 DEF MainAction
<1>8. ASSUME NEW code \in UserCode, MainInput(code) PROVE StatesKept'
  BY <1>8, KeptInside DEF MainInput, ScheduleJob, Threads
<1>9. CASE MainReinit
  BY <1>9 DEF MainReinit, Call, StatesKept, Waiting, ControlOK, Threads
<1>10. CASE UNCHANGED vars
  BY <1>10, KeptSame DEF vars, Waiting
<1> QED
  BY <1>1, <1>2, <1>3, <1>4, <1>5, <1>6, <1>7, <1>8, <1>9, <1>10 DEF Next

\* After the wait for is_initialized() in main, register_env and the loop that
\* reads the prompt find both states, until the module's thread itself calls
\* re_initialize: no VM can take them away or replace them by null.
THEOREM MainFindsStates == SafeSpec => []MainSeesStates
<1>1. Init => StatesKept
  BY DEF Init, StatesKept, Waiting, Threads
<1>2. TypeOK /\ OpsOK /\ StatesKept /\ [Next]_vars => StatesKept'
  BY StatesKeptStep DEF TypeOK
<1>3. TypeOK /\ OpsOK /\ StatesKept => MainSeesStates
  <2> SUFFICES ASSUME TypeOK, OpsOK, StatesKept,
                      pc[Main] \in {"env", "set_key", "register", "schedule_hook",
                                    "step", "schedule_init", "remove", "input"}
               PROVE  ~Waiting
    BY DEF StatesKept, MainSeesStates
  <2>1. op[Main] = "none"
    BY OpAtLabel DEF TypeOK, Region, Threads
  <2> QED
    BY <2>1 DEF Waiting
<1> QED
  BY TypeCorrect, OpsCorrect, <1>1, <1>2, <1>3, PTL DEF SafeSpec

=============================================================================
