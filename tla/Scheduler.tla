------------------------------ MODULE Scheduler ------------------------------
(***************************************************************************)
(* The job scheduler of RbxStu, the hook that captures lua_States for it,  *)
(* and the threads that use them: the module's own thread (main.cpp), and  *)
(* one thread per Studio Lua VM, which runs scripts, deferred threads, the *)
(* RunService.Stepped connections and, while the hook is enabled, the      *)
(* pseudo2addr detour.                                                     *)
(*                                                                         *)
(* One action is one access to shared memory, or a block of code that      *)
(* touches no memory another thread writes.  Threads communicate through   *)
(* plain words; their accesses interleave.                                 *)
(***************************************************************************)
EXTENDS Integers, Sequences, FiniteSets

CONSTANTS
    VMs,         \* Studio's Lua VMs, each run by one thread at a time
    Main,        \* the thread DllMain starts
    Published,   \* the VMs whose DataModel has a PlaceId and a GameId
    LocalFile,   \* whether a Studio window with a local .rbxl is in front
    UserCode,    \* the kinds of line typed at the prompt
    Patient,     \* whether the user types only once the queue is empty
    TriesLimit,  \* rejections before the checks are ignored (30 in the code)
    MaxReinits,  \* bound: how often the user types reinit()
    MaxInputs,   \* bound: how many other lines the user types
    MaxGrabs     \* bound: how many pairs of lua_States are created

NoThread == "no thread"

ASSUME ThreadsAssumption == Main \notin VMs /\ NoThread \notin VMs
ASSUME VMsAssumption     == Published \subseteq VMs
ASSUME FlagsAssumption   == LocalFile \in BOOLEAN /\ Patient \in BOOLEAN
ASSUME CodeAssumption    == UserCode \subseteq {"user", "empty", "broken"}
ASSUME BoundsAssumption  == /\ TriesLimit \in Nat
                            /\ MaxReinits \in Nat
                            /\ MaxInputs \in Nat
                            /\ MaxGrabs \in Nat \ {0}

Threads == VMs \cup {Main}
Null    == 0               \* nullptr, where a lua_State * is expected
States  == 1..MaxGrabs     \* the pairs <<nL, rL>> the detour has created

VARIABLES
    locked,     \* scheduler_locked
    jobs,       \* m_sjJobs
    execState,  \* m_lsInitialisedWith
    rbxState,   \* m_lsRoblox
    schedKey,   \* m_lcurrent_scheduler_key
    keyV,       \* schedulerKeyV
    mutx,       \* the owner of Hook.cpp's std::mutex
    hookOn,     \* the pseudo2addr hook is enabled
    tries,      \* rejections so far, up to TriesLimit + 1
    home,       \* the VM each created state lives in
    envs,       \* the states register_env has filled the globals of
    deferred,   \* per VM, the threads given to task.defer and not yet resumed
    stepping,   \* per VM, a Stepped connection of ours is alive
    scripts,    \* per VM, a script of ours runs (it may call the environment)
    crashed,    \* an access violation has ended the process
    pc, op, runner, key, job,     \* per thread: label and locals
    raced,      \* a pop overlaps the emplace in progress
    reinits, inputs,              \* bounded inputs so far
    nextId, executed              \* history: ids given, and executed in order

lockVars   == <<locked, execState, rbxState>>
queueVars  == <<jobs, raced, nextId, executed>>
keyVars    == <<schedKey, keyV>>
hookVars   == <<mutx, hookOn, tries, home>>
studioVars == <<envs, deferred, stepping, scripts>>
inputVars  == <<reinits, inputs>>
locals     == <<op, runner, key, job>>
vars == <<lockVars, queueVars, keyVars, hookVars, studioVars, inputVars,
          crashed, pc, locals>>

-----------------------------------------------------------------------------
(* Jobs.  A job is a script: the two that register_env schedules, or a     *)
(* line typed at the prompt.  Garbage is a destroyed or uninitialised      *)
(* deque element.                                                          *)

Codes   == {"none", "garbage", "hook", "init", "user", "empty", "broken"}
NoJob   == [id |-> 0, code |-> "none"]
Garbage == [id |-> 0, code |-> "garbage"]
Jobs    == [id : Nat, code : Codes]

\* The scripts luau_load accepts.  The initialization script is not one: its
\* list of names lacks a comma (Environment.cpp:1336), a syntax error.
Loads(code) == code \in {"hook", "user"}

EitherStateSet == execState # Null \/ rbxState # Null              \* mutant
is_initialized == execState # Null /\ rbxState # Null

\* Published places, local files and exhausted patience pass the detour's
\* checks; a thread that is single-stepped never does.
Eligible(v) == v \in Published \/ LocalFile \/ tries > TriesLimit

Labels == {"install", "wait", "env", "set_key", "register", "schedule_hook",
           "emplace", "step", "schedule_init", "remove", "input",
           "idle", "det_lock", "det_check", "det_unlock",
           "args", "args_key", "args_runner",
           "compare", "lock", "set", "empty", "back", "pop", "execute",
           "set_rbx", "set_exec", "null_exec", "null_rbx",
           "read_rbx", "check_exec", "read_exec", "unlock"}
Ops == {"none", "step", "initialize_with", "re_initialize", "read_rbx",
        "checkcaller"}

\* Where the body of each operation that takes the scheduler's lock starts.
Body(o) == CASE o = "step"            -> "empty"
             [] o = "initialize_with" -> "set_rbx"
             [] o = "re_initialize"   -> "null_exec"
             [] o = "checkcaller"     -> "check_exec"
             [] OTHER                 -> "read_rbx"

\* Where thread t continues once the operation it called returns.
Caller(t) ==
    IF op[t] = "re_initialize" THEN "install"
    ELSE IF op[t] = "initialize_with" THEN "det_unlock"
    ELSE IF t = Main THEN "schedule_init" ELSE "idle"

Init ==
    /\ locked = FALSE /\ execState = Null /\ rbxState = Null
    /\ jobs = <<>> /\ raced = FALSE /\ nextId = 1 /\ executed = <<>>
    /\ schedKey = 0 /\ keyV = 0
    /\ mutx = NoThread /\ hookOn = FALSE /\ tries = 0 /\ home = <<>>
    /\ envs = {} /\ deferred = [v \in VMs |-> <<>>]
    /\ stepping = [v \in VMs |-> FALSE] /\ scripts = [v \in VMs |-> FALSE]
    /\ reinits = 0 /\ inputs = 0 /\ crashed = FALSE
    /\ pc = [t \in Threads |-> IF t = Main THEN "install" ELSE "idle"]
    /\ op = [t \in Threads |-> "none"]
    /\ runner = [t \in Threads |-> Null] /\ key = [t \in Threads |-> 0]
    /\ job = [t \in Threads |-> NoJob]

At(t, label)   == ~crashed /\ pc[t] = label
Goto(t, label) == pc' = [pc EXCEPT ![t] = label]

\* An access violation: the unhandled exception filter ends the process.
Crash == /\ crashed' = TRUE
         /\ UNCHANGED <<lockVars, queueVars, keyVars, hookVars, studioVars,
                        inputVars, pc, locals>>

\* Thread t calls operation o, which begins by taking the lock.
Call(t, o) == Goto(t, "lock") /\ op' = [op EXCEPT ![t] = o]

\* Thread t leaves the operation it called; its locals go out of scope.
Leave(t) == /\ Goto(t, Caller(t))
            /\ op' = [op EXCEPT ![t] = "none"]
            /\ runner' = [runner EXCEPT ![t] = Null]
            /\ key' = [key EXCEPT ![t] = 0]
            /\ job' = [job EXCEPT ![t] = NoJob]

-----------------------------------------------------------------------------
(* lock_scheduler and unlock_scheduler.                                    *)

\* The flag is seen clear; only the next step sets it.
LockTestUnguarded(t) ==                                             \* mutant
    /\ At(t, "lock")
    /\ Goto(t, "set")
    /\ UNCHANGED <<lockVars, queueVars, keyVars, hookVars, studioVars,
                   inputVars, crashed, locals>>
LockTest(t) ==
    /\ At(t, "lock") /\ ~locked
    /\ Goto(t, "set")
    /\ UNCHANGED <<lockVars, queueVars, keyVars, hookVars, studioVars,
                   inputVars, crashed, locals>>

LockSet(t) ==
    /\ At(t, "set")
    /\ locked' = TRUE
    /\ Goto(t, Body(op[t]))
    /\ UNCHANGED <<execState, rbxState, queueVars, keyVars, hookVars,
                   studioVars, inputVars, crashed, locals>>

Unlock(t) ==
    /\ At(t, "unlock")
    /\ locked' = FALSE
    /\ Leave(t)
    /\ UNCHANGED <<execState, rbxState, queueVars, keyVars, hookVars,
                   studioVars, inputVars, crashed>>

-----------------------------------------------------------------------------
(* scheduler_step, with get_scheduler_job and execute_job.                 *)

\* A wrong key returns before the lock is taken.
StepCompare(t) ==
    /\ At(t, "compare")
    /\ IF schedKey = key[t]
       THEN Call(t, "step") /\ UNCHANGED <<runner, key, job>>
       ELSE Leave(t)
    /\ UNCHANGED <<lockVars, queueVars, keyVars, hookVars, studioVars,
                   inputVars, crashed>>

\* An empty queue yields the stub job, which execute_job returns from.
StepEmptyKeepsLock(t) ==                                            \* mutant
    /\ At(t, "empty")
    /\ Goto(t, IF jobs = <<>> THEN Caller(t) ELSE "back")
    /\ UNCHANGED <<lockVars, queueVars, keyVars, hookVars, studioVars,
                   inputVars, crashed, locals>>
StepEmpty(t) ==
    /\ At(t, "empty")
    /\ Goto(t, IF jobs = <<>> THEN "unlock" ELSE "back")
    /\ UNCHANGED <<lockVars, queueVars, keyVars, hookVars, studioVars,
                   inputVars, crashed, locals>>

\* back() copies the newest job.  On a queue emptied meanwhile it is undefined.
StepBack(t) ==
    /\ At(t, "back")
    /\ \/ /\ job' = [job EXCEPT ![t] = IF jobs = <<>> THEN Garbage
                                       ELSE jobs[Len(jobs)]]
          /\ Goto(t, "pop")
          /\ UNCHANGED <<lockVars, queueVars, keyVars, hookVars, studioVars,
                         inputVars, crashed, op, runner, key>>
       \/ jobs = <<>> /\ Crash

PopForgotten == jobs                                                \* mutant
AfterPop == Tail(jobs)

\* pop() drops the oldest job.  On an empty queue, or beside another pop, it
\* is undefined and may corrupt the deque; an overlapped emplace is marked.
StepPop(t) ==
    /\ At(t, "pop")
    /\ \/ /\ jobs # <<>>
          /\ jobs' = AfterPop
          /\ raced' = (raced \/ pc[Main] = "emplace")
          /\ Goto(t, "execute")
          /\ UNCHANGED <<lockVars, nextId, executed, keyVars, hookVars,
                         studioVars, inputVars, crashed, locals>>
       \/ /\ jobs = <<>> \/ \E u \in Threads \ {t} : pc[u] = "pop"
          /\ Crash

\* execute_job.  An empty script returns at once; otherwise a thread of the
\* runner is made (a null runner is dereferenced), and the script is loaded
\* into it and handed to the runner's VM for task.defer.
StepExecute(t) ==
    LET c == job[t].code
        done == /\ executed' = IF job[t].id = 0 THEN executed
                               ELSE Append(executed, job[t].id)
                /\ Goto(t, "unlock")
                /\ UNCHANGED <<lockVars, jobs, raced, nextId, keyVars, hookVars,
                               envs, stepping, scripts, inputVars, crashed,
                               locals>>
    IN  /\ At(t, "execute")
        /\ \/ c \in {"empty", "garbage"} /\ UNCHANGED deferred /\ done
           \/ c # "empty" /\ runner[t] = Null /\ Crash
           \/ c = "garbage" /\ Crash
           \/ /\ c \notin {"empty", "garbage"} /\ runner[t] # Null
              /\ deferred' =
                    IF Loads(c)
                    THEN [deferred EXCEPT ![home[runner[t]]] =
                              Append(@, [code |-> c, state |-> runner[t]])]
                    ELSE deferred
              /\ done

-----------------------------------------------------------------------------
(* initialize_with and re_initialize.                                      *)

InitializeRoblox(t) ==
    /\ At(t, "set_rbx")
    /\ rbxState' = runner[t]
    /\ Goto(t, "set_exec")
    /\ UNCHANGED <<locked, execState, queueVars, keyVars, hookVars,
                   studioVars, inputVars, crashed, locals>>

InitializeExecutor(t) ==
    /\ At(t, "set_exec")
    /\ execState' = runner[t]
    /\ Goto(t, "unlock")
    /\ UNCHANGED <<locked, rbxState, queueVars, keyVars, hookVars,
                   studioVars, inputVars, crashed, locals>>

ReinitializeExecutor(t) ==
    /\ At(t, "null_exec")
    /\ execState' = Null
    /\ Goto(t, "null_rbx")
    /\ UNCHANGED <<locked, rbxState, queueVars, keyVars, hookVars,
                   studioVars, inputVars, crashed, locals>>

\* The queue is not cleared.
ReinitializeRoblox(t) ==
    /\ At(t, "null_rbx")
    /\ rbxState' = Null
    /\ Goto(t, "unlock")
    /\ UNCHANGED <<locked, execState, queueVars, keyVars, hookVars,
                   studioVars, inputVars, crashed, locals>>

-----------------------------------------------------------------------------
(* The environment functions that use the scheduler's states.              *)

CallEnvironment(v, o) ==
    /\ At(v, "idle") /\ scripts[v]
    /\ Call(v, o)
    /\ UNCHANGED <<lockVars, queueVars, keyVars, hookVars, studioVars,
                   inputVars, crashed, runner, key, job>>

getreg(v)      == CallEnvironment(v, "read_rbx")
getrenv(v)     == CallEnvironment(v, "read_rbx")
checkcaller(v) == CallEnvironment(v, "checkcaller")

\* getreg and getrenv dereference the Roblox state unchecked.
ReadRoblox(v) ==
    /\ At(v, "read_rbx")
    /\ IF rbxState = Null
       THEN Crash
       ELSE /\ Goto(v, "unlock")
            /\ UNCHANGED <<lockVars, queueVars, keyVars, hookVars, studioVars,
                           inputVars, crashed, locals>>

\* checkcaller compares the executor state with nullptr, and reads it again.
CheckExecutor(v) ==
    /\ At(v, "check_exec")
    /\ Goto(v, IF execState = Null THEN "unlock" ELSE "read_exec")
    /\ UNCHANGED <<lockVars, queueVars, keyVars, hookVars, studioVars,
                   inputVars, crashed, locals>>

ReadExecutor(v) ==
    /\ At(v, "read_exec")
    /\ IF execState = Null
       THEN Crash
       ELSE /\ Goto(v, "unlock")
            /\ UNCHANGED <<lockVars, queueVars, keyVars, hookVars, studioVars,
                           inputVars, crashed, locals>>

-----------------------------------------------------------------------------
(* pseudo2addr__detour.                                                    *)

\* Disabling the hook does not stop a thread that has entered the detour.
DetourEnter(v) ==
    /\ At(v, "idle") /\ hookOn
    /\ Goto(v, "det_lock")
    /\ UNCHANGED <<lockVars, queueVars, keyVars, hookVars, studioVars,
                   inputVars, crashed, locals>>

DetourLockIgnored(v) ==                                             \* mutant
    /\ At(v, "det_lock")
    /\ mutx' = v
    /\ Goto(v, "det_check")
    /\ UNCHANGED <<lockVars, queueVars, keyVars, hookOn, tries, home,
                   studioVars, inputVars, crashed, locals>>
DetourLock(v) ==
    /\ At(v, "det_lock") /\ mutx = NoThread
    /\ mutx' = v
    /\ Goto(v, "det_check")
    /\ UNCHANGED <<lockVars, queueVars, keyVars, hookOn, tries, home,
                   studioVars, inputVars, crashed, locals>>

\* Initialised already, or the 1 in 255 chance is missed.
DetourSkipKeepsMutx(v) ==                                           \* mutant
    /\ At(v, "det_check")
    /\ Goto(v, "idle")
    /\ UNCHANGED <<lockVars, queueVars, keyVars, hookVars, studioVars,
                   inputVars, crashed, locals>>
DetourSkip(v) ==
    /\ At(v, "det_check")
    /\ Goto(v, "det_unlock")
    /\ UNCHANGED <<lockVars, queueVars, keyVars, hookVars, studioVars,
                   inputVars, crashed, locals>>

TryNotCounted == tries                                              \* mutant
CountedTry == IF tries > TriesLimit THEN tries ELSE tries + 1

Reject(v) ==
    /\ At(v, "det_check") /\ ~is_initialized
    /\ tries' = CountedTry
    /\ Goto(v, "det_unlock")
    /\ UNCHANGED <<lockVars, queueVars, keyVars, mutx, hookOn, home,
                   studioVars, inputVars, crashed, locals>>

\* A state that is single-stepped is never taken.
DetourRejectSingleStep(v) == Reject(v)

\* Its DataModel is missing, or has no PlaceId or GameId.
DetourRejectPlace(v) == ~Eligible(v) /\ Reject(v)

NextStateSkipped == Len(home) + 2                                   \* mutant
NewState == Len(home) + 1

\* Two threads nL and rL of this VM are created for the scheduler.
DetourGrab(v) ==
    /\ At(v, "det_check") /\ ~is_initialized /\ Eligible(v)
    /\ Len(home) < MaxGrabs
    /\ home' = Append(home, v)
    /\ runner' = [runner EXCEPT ![v] = NewState]
    /\ Call(v, "initialize_with")
    /\ UNCHANGED <<lockVars, queueVars, keyVars, mutx, hookOn, tries,
                   studioVars, inputVars, crashed, key, job>>

DetourUnlock(v) ==
    /\ At(v, "det_unlock")
    /\ mutx' = NoThread
    /\ Goto(v, "idle")
    /\ UNCHANGED <<lockVars, queueVars, keyVars, hookOn, tries, home,
                   studioVars, inputVars, crashed, locals>>

-----------------------------------------------------------------------------
(* What Studio does on a VM's thread with the scripts it was given.        *)

\* A deferred thread is resumed.  It fails at once where register_env has not
\* run; the scheduler's hook script connects to Stepped; others keep running.
ResumeDeferred(v) ==
    /\ At(v, "idle") /\ deferred[v] # <<>>
    /\ LET thread == Head(deferred[v])
           runs   == thread.state \in envs
       IN  /\ stepping' = [stepping EXCEPT ![v] = @ \/ (runs /\ thread.code = "hook")]
           /\ scripts' = [scripts EXCEPT ![v] = @ \/ (runs /\ thread.code = "user")]
    /\ deferred' = [deferred EXCEPT ![v] = Tail(@)]
    /\ UNCHANGED <<lockVars, queueVars, keyVars, hookVars, envs, inputVars,
                   crashed, pc, locals>>

\* __SCHEDULER_STEPPED__HOOK finds the scheduler initialised ...
Stepped(v) ==
    /\ At(v, "idle") /\ stepping[v] /\ is_initialized
    /\ Goto(v, "args")
    /\ UNCHANGED <<lockVars, queueVars, keyVars, hookVars, studioVars,
                   inputVars, crashed, locals>>

\* ... and then reads the executor state and the key, in either order.
SteppedRunner(v) ==
    /\ \/ At(v, "args") /\ Goto(v, "args_key")
       \/ At(v, "args_runner") /\ Goto(v, "compare")
    /\ runner' = [runner EXCEPT ![v] = execState]
    /\ UNCHANGED <<lockVars, queueVars, keyVars, hookVars, studioVars,
                   inputVars, crashed, op, key, job>>

SteppedKey(v) ==
    /\ \/ At(v, "args") /\ Goto(v, "args_runner")
       \/ At(v, "args_key") /\ Goto(v, "compare")
    /\ key' = [key EXCEPT ![v] = keyV]
    /\ UNCHANGED <<lockVars, queueVars, keyVars, hookVars, studioVars,
                   inputVars, crashed, op, runner, job>>

-----------------------------------------------------------------------------
(* main and register_env.                                                  *)

MainInstallHook ==
    /\ At(Main, "install")
    /\ hookOn' = TRUE
    /\ Goto(Main, "wait")
    /\ UNCHANGED <<lockVars, queueVars, keyVars, mutx, tries, home, studioVars,
                   inputVars, crashed, locals>>

MainWaitUntilInitialised ==
    /\ At(Main, "wait") /\ is_initialized
    /\ Goto(Main, "env")
    /\ UNCHANGED <<lockVars, queueVars, keyVars, hookVars, studioVars,
                   inputVars, crashed, locals>>

\* register_env is called with the executor state, and draws a fresh key.
MainRegisterEnv ==
    /\ At(Main, "env")
    /\ runner' = [runner EXCEPT ![Main] = execState]
    /\ keyV' = reinits + 1
    /\ Goto(Main, "set_key")
    /\ UNCHANGED <<lockVars, queueVars, schedKey, hookVars, studioVars,
                   inputVars, crashed, op, key, job>>

MainForgetsSchedulerKey ==                                          \* mutant
    /\ At(Main, "set_key")
    /\ Goto(Main, "register")
    /\ UNCHANGED <<lockVars, queueVars, keyVars, hookVars, studioVars,
                   inputVars, crashed, locals>>
MainSetSchedulerKey ==
    /\ At(Main, "set_key")
    /\ schedKey' = keyV
    /\ Goto(Main, "register")
    /\ UNCHANGED <<lockVars, queueVars, keyV, hookVars, studioVars,
                   inputVars, crashed, locals>>

MainRegisterLibraries ==
    /\ At(Main, "register")
    /\ IF runner[Main] = Null
       THEN Crash
       ELSE /\ envs' = envs \cup {runner[Main]}
            /\ Goto(Main, "schedule_hook")
            /\ UNCHANGED <<lockVars, queueVars, keyVars, hookVars, deferred,
                           stepping, scripts, inputVars, crashed, locals>>

\* schedule_job takes no lock: the emplace starts here ...
ScheduleJob(code) ==
    /\ job' = [job EXCEPT ![Main] = [id |-> nextId, code |-> code]]
    /\ nextId' = nextId + 1
    /\ raced' = FALSE
    /\ Goto(Main, "emplace")
    /\ UNCHANGED <<lockVars, jobs, executed, keyVars, hookVars, studioVars,
                   crashed, op, runner, key>>

AfterEmplace(code) == CASE code = "hook" -> "step"
                        [] code = "init" -> "remove"
                        [] OTHER         -> "input"

\* ... and ends here.  A pop in between may leave the new job lost, or
\* preceded by the destroyed element.
MainEmplace ==
    /\ At(Main, "emplace")
    /\ LET pushed == Append(jobs, job[Main])
       IN  jobs' \in IF raced THEN {pushed, jobs, <<Garbage>> \o pushed}
                     ELSE {pushed}
    /\ raced' = FALSE
    /\ Goto(Main, AfterEmplace(job[Main].code))
    /\ job' = [job EXCEPT ![Main] = NoJob]
    /\ UNCHANGED <<lockVars, nextId, executed, keyVars, hookVars, studioVars,
                   inputVars, crashed, op, runner, key>>

MainScheduleHook ==
    At(Main, "schedule_hook") /\ ScheduleJob("hook") /\ UNCHANGED inputVars

\* register_env steps the scheduler itself, on the module's thread.
MainStep ==
    /\ At(Main, "step")
    /\ runner' = [runner EXCEPT ![Main] = execState]
    /\ key' = [key EXCEPT ![Main] = keyV]
    /\ Goto(Main, "compare")
    /\ UNCHANGED <<lockVars, queueVars, keyVars, hookVars, studioVars,
                   inputVars, crashed, op, job>>

MainScheduleInit ==
    At(Main, "schedule_init") /\ ScheduleJob("init") /\ UNCHANGED inputVars

MainRemoveHook ==
    /\ At(Main, "remove")
    /\ hookOn' = FALSE
    /\ Goto(Main, "input")
    /\ UNCHANGED <<lockVars, queueVars, keyVars, mutx, tries, home, studioVars,
                   inputVars, crashed, locals>>

\* main sleeps for two seconds after each job; Patient is the assumption that
\* a step has taken the job by the time the user types again.
MainInputUnpaced(code) ==                                           \* mutant
    /\ At(Main, "input") /\ inputs < MaxInputs
    /\ inputs' = inputs + 1
    /\ ScheduleJob(code)
    /\ UNCHANGED reinits
MainInput(code) ==
    /\ At(Main, "input") /\ inputs < MaxInputs
    /\ Patient => jobs = <<>>
    /\ inputs' = inputs + 1
    /\ ScheduleJob(code)
    /\ UNCHANGED reinits

MainReinit ==
    /\ At(Main, "input") /\ reinits < MaxReinits
    /\ reinits' = reinits + 1
    /\ Call(Main, "re_initialize")
    /\ UNCHANGED <<lockVars, queueVars, keyVars, hookVars, studioVars,
                   inputs, crashed, runner, key, job>>

-----------------------------------------------------------------------------
LockAction(t) == LockTest(t) \/ LockSet(t) \/ Unlock(t)

StepAction(t) == StepCompare(t) \/ StepEmpty(t) \/ StepBack(t) \/ StepPop(t)
                     \/ StepExecute(t)

StatesAction(t) == \/ InitializeRoblox(t) \/ InitializeExecutor(t)
                   \/ ReinitializeExecutor(t) \/ ReinitializeRoblox(t)

EnvironmentAction(v) == \/ getreg(v) \/ getrenv(v) \/ checkcaller(v)
                        \/ ReadRoblox(v) \/ CheckExecutor(v) \/ ReadExecutor(v)

DetourAction(v) == \/ DetourEnter(v) \/ DetourLock(v) \/ DetourSkip(v)
                   \/ DetourRejectSingleStep(v) \/ DetourRejectPlace(v)
                   \/ DetourGrab(v) \/ DetourUnlock(v)

StudioAction(v) == \/ ResumeDeferred(v) \/ Stepped(v) \/ SteppedRunner(v)
                   \/ SteppedKey(v)

MainAction == \/ MainInstallHook \/ MainWaitUntilInitialised
              \/ MainRegisterEnv \/ MainSetSchedulerKey
              \/ MainRegisterLibraries \/ MainScheduleHook \/ MainEmplace
              \/ MainStep \/ MainScheduleInit \/ MainRemoveHook

Next == \/ \E t \in Threads : LockAction(t) \/ StepAction(t) \/ StatesAction(t)
        \/ \E v \in VMs : EnvironmentAction(v) \/ DetourAction(v) \/ StudioAction(v)
        \/ MainAction
        \/ \E code \in UserCode : MainInput(code)
        \/ MainReinit

SafeSpec == Init /\ [][Next]_vars

\* What a thread inside the module does next, where nothing holds it back.
Inside(t) == \/ LockSet(t) \/ Unlock(t) \/ StepAction(t) \/ StatesAction(t)
             \/ t = Main /\ MainAction
             \/ /\ t \in VMs
                /\ \/ ReadRoblox(t) \/ CheckExecutor(t) \/ ReadExecutor(t)
                   \/ SteppedRunner(t) \/ SteppedKey(t)
                   \/ DetourSkip(t) \/ DetourUnlock(t)

\* A thread gets one of the two locks it may be waiting for.
Acquire(t) == LockTest(t) \/ (t \in VMs /\ DetourLock(t))

\* The 1 in 255 chance is hit on a state that is not single-stepped.
DetourRoll(v) == DetourGrab(v) \/ DetourRejectPlace(v)

\* The operating system runs every thread, and a thread that polls the lock
\* every 16 ms, or waits for mutx, gets it if it is free again and again.
\* Studio keeps every VM running: deferred threads are resumed each cycle,
\* Stepped fires each frame, scripts reach pseudo2addr, and one call in 255
\* goes on.  The user, and the scripts that call the environment, owe nothing.
Fairness ==
    /\ \A t \in Threads : WF_vars(Inside(t)) /\ SF_vars(Acquire(t))
    /\ \A v \in VMs : /\ SF_vars(DetourEnter(v)) /\ SF_vars(DetourRoll(v))
                      /\ SF_vars(ResumeDeferred(v)) /\ SF_vars(Stepped(v))

Spec == SafeSpec /\ Fairness

-----------------------------------------------------------------------------
(* Properties.                                                             *)

CriticalSection == {"empty", "back", "pop", "execute", "set_rbx", "set_exec",
                    "null_exec", "null_rbx", "read_rbx", "check_exec",
                    "read_exec", "unlock"}

FlagsOK == /\ locked \in BOOLEAN /\ raced \in BOOLEAN /\ hookOn \in BOOLEAN
           /\ crashed \in BOOLEAN /\ mutx \in VMs \cup {NoThread}
           /\ stepping \in [VMs -> BOOLEAN] /\ scripts \in [VMs -> BOOLEAN]

CountersOK == /\ schedKey \in Nat /\ keyV \in Nat /\ tries \in 0..(TriesLimit + 1)
              /\ reinits \in 0..MaxReinits /\ inputs \in 0..MaxInputs

\* Only states that have been created are used anywhere.
StatesOK == /\ home \in Seq(VMs) /\ Len(home) <= MaxGrabs
            /\ execState \in 0..Len(home) /\ rbxState \in 0..Len(home)
            /\ envs \subseteq 1..Len(home)
            /\ runner \in [Threads -> 0..Len(home)]

Deferrals  == [code : Codes, state : 1..Len(home)]
DeferredOK == deferred \in [VMs -> Seq(Deferrals)]

JobsOK == /\ jobs \in Seq(Jobs) /\ nextId \in Nat /\ executed \in Seq(Nat)
          /\ job \in [Threads -> Jobs]

ControlOK == /\ pc \in [Threads -> Labels] /\ op \in [Threads -> Ops]
             /\ key \in [Threads -> Nat]

\* The values of the variables, and of every thread's locals.
TypeOK == FlagsOK /\ CountersOK /\ StatesOK /\ DeferredOK /\ JobsOK /\ ControlOK

\* lock_scheduler tests and sets in two steps, so it excludes nobody by
\* itself.  Before the first reinit() it is never contended at the wrong
\* moment: no two threads are between it and unlock_scheduler.
LockMutex ==
    \A t, u \in Threads :
        pc[t] \in CriticalSection /\ pc[u] \in CriticalSection => t = u

\* The flag is set only while some thread is on its way to clear it: no early
\* return of a locked operation leaves every other thread polling for ever.
LockNotOrphaned == locked => \E t \in Threads : pc[t] \in CriticalSection

\* No null or destroyed object is ever used.
NeverCrashes == ~crashed

\* main pushes jobs without the lock; no pop ever overlaps the push.
QueueRaceFree == ~raced

\* From the end of the wait until the next reinit(), the module's thread finds
\* both states present, whatever the VMs do.
MainSeesStates ==
    pc[Main] \in {"env", "set_key", "register", "schedule_hook", "step",
                  "schedule_init", "remove", "input"}
        => execState # Null /\ rbxState # Null

\* At most one VM is handing its states to the scheduler.
OneInitializer ==
    \A v, w \in VMs : op[v] = "initialize_with" /\ op[w] = "initialize_with"
                          => v = w

\* execute_job is never given a script to run on a null lua_State.
RunnerIsValid ==
    \A t \in Threads : pc[t] = "execute" /\ job[t].code \notin {"empty", "garbage"}
                           => runner[t] # Null

Ids(s) == [i \in 1..Len(s) |-> s[i].id]
InHand == {t \in Threads : pc[t] = "execute" /\ job[t].id # 0}

\* The job a step drops from the queue is the one it goes on to execute, so that
\* a job pushed for execution is executed, and executed once.
DroppedJobIsExecuted ==
    \A t \in Threads : pc[t] = "pop" /\ jobs # <<>> => job[t] = Head(jobs)

\* When a reinit() is reported successful, the executor state in use is one
\* whose globals were registered.
EnvironmentIsCurrent == pc[Main] = "input" /\ execState # Null => execState \in envs

\* The scheduler executes every job once, in order of submission.
Queue == INSTANCE JobQueue
           WITH pending <- IF InHand = {} THEN Ids(jobs)
                           ELSE <<job[CHOOSE t \in InHand : TRUE].id>> \o Ids(jobs)
ImplementsJobQueue == Queue!Spec

\* The module always gets back to its prompt: an installation, the first or
\* that of a reinit(), ends, whatever lua_States Studio offers.
MainReturnsToPrompt == []<>(pc[Main] = "input" \/ crashed)

\* A thread that takes mutx gives it back, though it polls the scheduler's lock
\* while it holds it.
MutxReleased == mutx # NoThread ~> mutx = NoThread \/ crashed

\* Jobs do not stay in the queue: some Stepped connection keeps taking them.
QueueDrains == jobs # <<>> ~> jobs = <<>> \/ crashed

=============================================================================
