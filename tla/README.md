# RbxStu: a verification development

RbxStu is a module loaded into Roblox Studio. It waits until it can create
Lua threads in one of Studio's VMs, gives their global table a library of
functions, and runs the scripts typed at its console inside Studio. This
directory holds TLA+ modules that model the program, the TLC configurations
that check them on small instances, and proofs checked by TLAPS.

All source references are to the repository (`src/`).

## 1. Inventory

### The program's parts

| Part | State it keeps | Operations | Talks to |
| --- | --- | --- | --- |
| **main / DllMain** (`main.cpp`) | none of its own | start, prompt loop, `reinit()`, crash report | all others, on the thread DllMain creates |
| **Scheduler** (`Scheduler.cpp`) | `scheduler_locked`, `m_sjJobs`, `m_lsInitialisedWith`, `m_lsRoblox`, `m_lcurrent_scheduler_key` | `lock_scheduler`, `unlock_scheduler`, `schedule_job`, `get_scheduler_job`, `scheduler_step`, `execute_job`, `initialize_with`, `re_initialize` | main (push, re-initialize), the VMs' threads (step, initialize), Luau, Studio's `task.defer` |
| **Hook** (`Hook.cpp`) | the detour's `mutx`, its `tries`, whether the hook is enabled | `install_hook`, `wait_until_initialised`, `remove_hook`, `pseudo2addr__detour`, `freeblock__detour` | runs on any VM's thread, calls the scheduler |
| **Environment** (`Environment/Environment.cpp`) | `schedulerKeyV` | `register_env`, some forty Lua functions (`getreg`, `getrenv`, `checkcaller`, `setidentity` among them), the Stepped hook | scheduler, closures, security, Luau |
| **Closures, ClosureLibrary** | the wrapper map (C closure to wrapped Lua closure) | `newcclosure`, `newlclosure`, `hookfunction`, `clonefunction`, `loadstring`, predicates | Luau closures, environment |
| **WebsocketLibrary** | the map of sockets, each socket's Lua references | `connect`, `Send`, `Close`, indexing, the message callback | a thread per socket (IXWebSocket), the VM's thread, Luau's registry |
| **Security** | the identity and capabilities in a thread's `ExtraSpace`, the word of capabilities that a function's prototypes point to | the two encodings, `set_thread_security`, `reallocate_extraspace`, `set_luaclosure_security`, `wipe_proto` | hook, scheduler, environment, closures |
| **Execution** | none | `lua_loadstring`, compilation | security, Luau |
| **DebugLibrary** | none; reads and writes closures' constants, upvalues, protos, stack slots | `getconstant(s)`, `setconstant`, `getupvalue(s)`, `setupvalue`, `getproto(s)`, `getstack`, `setstack`, `getinfo` | Luau |
| **Utilities** | none | `is_pointer_valid`, `get_random_string`, console output | all |
| **Log** | the shared text buffer | append, flush | all, on every thread |
| CryptLibrary | none | hashes, ciphers, base64 | stateless |
| FilesystemLibrary, Communication, Scanner, RBXScheduler | see section 7 | | not reachable, or pure layouts |

### How they interact

*Threads.* The module's own thread runs `main`. Each Studio VM is run by one
thread at a time; what the module puts there (hook scripts, deferred scripts,
the `RunService.Stepped` connection, the `pseudo2addr` detour) runs on that
thread. Each websocket has a thread of its own, which calls into Lua.

*Shared memory.* The scheduler is a plain object reached through a singleton;
its "lock" is a `bool` that `lock_scheduler` polls every 16 ms and then sets.
The detour has a real mutex. The queue is pushed without any lock. The
wrapper map and the websocket map have no lock either.

*Life.* main enables the `pseudo2addr` hook and spins until some VM's detour has
created two Lua threads and handed them over. It then fills their globals,
queues the script that connects to `Stepped`, steps the scheduler once itself,
queues the initialization script, disables the hook and reads lines. From
then on the VM's `Stepped` callback steps the scheduler. `reinit()` forgets the
states and goes through all of it again, while everything it put into the old
VM goes on.

### What is hard

* the lock is not one: two threads that see the flag clear both pass;
* states are read before the lock is taken and used after it is got;
* the queue is pushed from one thread and popped from another;
* the detour holds one lock while it polls the other;
* nothing of the previous epoch is undone by `reinit()`;
* progress rests on what Studio happens to do (frames, deferred threads, a
  one-in-255 chance), and on the count of rejections;
* the Lua registry's references are released from a socket's callback, from
  `Close` and from the destructor path, in any order;
* `hookfunction` must keep the original callable through five kinds of closure
  pairs, and wrappers live in a map of raw pointers;
* a thread's `ExtraSpace` is copied, shared, reallocated, raised and restored by
  six functions that agree on no owner, in two encodings that are not inverses,
  and every function inside a chunk shares the chunk's word of capabilities.

### What makes each part correct

* Scheduler: mutual exclusion where the code relies on it; every job executed
  once and in order; the lock never left set; no null state used; the queue
  empties.
* Hook: one VM at a time hands over its states; the mutex is always given
  back; the wait ends.
* main/Environment: between the wait and the next `reinit()` both states are
  there, and the states in use have their globals.
* WebsocketLibrary: a Lua reference is released once, by its owner; a closed
  socket calls nobody.
* Closures: a hooked function behaves as the hook, its original stays callable
  (a stub's does not), wrapping and unwrapping do not loop.
* Security: nobody but a thread changes what its identity counts as; its
  capabilities are those of its identity; `checkcaller` is true on the module's
  threads alone; code keeps what it was given when it was loaded.

## 2. The modules

The order is by what matters most to the program: what it runs and on which
states (Scheduler), what it gives to scripts that has threads of its own
(WebsocketLibrary), what it does to Luau's objects behind Luau's back
(Closures, DebugLibrary), and whom its threads and its code are taken for
(Identity).

| Module | Models | Uses | Proofs |
| --- | --- | --- | --- |
| `JobQueue` | what a job scheduler promises; the abstract specification that the Scheduler implements | | `SchedulerQueueProofs` |
| `Scheduler` | `Scheduler`, `Hook`, `main`, and `Environment` where it uses the scheduler: composed in one module, since they share the states, the flag and the queue | `JobQueue`, as `INSTANCE ... WITH` | `SchedulerProofs`, `SchedulerSafetyProofs`, `SchedulerEpochProofs`, `SchedulerQueueProofs` |
| `References` | Luau's registry (`lua_ref`, `lua_unref`, its free list) | | `WebsocketProofs` |
| `WebsocketLibrary` | `connect`, `Send`, `Close`, the callback, and the part of IXWebSocket that orders them | `References` | `WebsocketProofs` |
| `Closures` | `newcclosure`, `newlclosure`, `clonefunction`, every case of `hookfunction`, `closureMap`, the collector | | `ClosuresProofs` |
| `DebugLibrary` | the debug functions under Luau's incremental collector | | `DebugProofs` |
| `Identity` | `Security` composed with its callers: the detour, `execute_job`, `setidentity`, `checkcaller`, `lua_loadstring`, `newlclosure`, `clonefunction` | | `IdentityProofs` |
| `MC...` | the constants of the instances | the module they check | |

`Scheduler` and `Identity` both have the detour and `execute_job`. The first has
what they do to the words that threads share, step by step; the second what
they do to the `ExtraSpace`s of one VM, on whose thread they run.

## 3. How the modules correspond to the code

`PROJECT.json` maps every definition to the lines that it stands for. The
conventions:

**Scheduler.** One action is one access to shared memory, or a block of code
that touches none that others write. A thread is at a label `pc`, within an
operation `op` (`step`, `initialize_with`, `re_initialize`, a locked read), with
its locals: the arguments of `scheduler_step` (`runner`, `key`) and the job that
`get_scheduler_job` copied. `LockTest` and `LockSet` are the loop of
`lock_scheduler` and the assignment after it; `StepEmpty`, `StepBack`, `StepPop`
and `StepExecute` are `empty()`, `back()`, `pop()` and `execute_job`.
`scheduler_step` takes its two arguments by value, so the Stepped hook's two
reads (`SteppedRunner`, `SteppedKey`) are steps of their own, in either order.
lua_States are numbers in the order of their creation and 0 is `nullptr`; what a
state needs to be told apart by is the VM it lives in (`home`) and whether
`register_env` has filled its globals (`envs`). A script is its kind: one that
runs, an empty one, one that does not load, the script that connects to
`Stepped`, and the initialization script, which does not load either (section 8).
`emplace` on the deque takes two steps, and what a `back()` or `pop()` during it
reads is any of what it may read, an indeterminate job included; using that, or
a null state, is `Crash`, after which nothing moves, as after `exception_filter`.

**WebsocketLibrary.** Each socket names its worker. A worker's labels are the
points of `WebSocket::run` between which another thread can intervene:
the test of `_stop` (`check`), `connecting`, `run`, `poll`, inside a
message's `Fire` (`handler`, `last handler`), and after the Close callback
(`closed`). `close` is five steps: `stop` (the transport is told to close),
`wake`, `flag` (`_stop` is set), `join`, and `release` (the references, the
map's entry, `delete`). The registry is a sequence of slots with a free list
threaded through them, exactly as Luau keeps it, because releasing a slot twice
corrupts that list and the corruption is what matters. A freed socket's use is a
step (`WorkerUsesFreed`, `CloseUsesFreed`) that ends the process.

**Closures.** A closure is its index in `heap`; what it is (`kind`, `code`,
upvalues, their count, the room allocated for them, what a stub calls) is
overwritten in place by `hookfunction`, as in the code, so that whoever holds the
closure sees the change. `Behaviour` follows the calls (`NewCClosureHandler`
through the map, stubs through their environment) to the code that runs in the
end, over `Chain`: the least set that contains the closure and what its members
call. A write past an array's end (`Overrun`) is undefined: no function is called
after it. Of environments the model keeps only the target that a stub finds in
its own (`target`). `lua_clonefunction` (`lapi.cpp:1449-1461`) gives the copy of a Lua
closure the caller's globals for an environment, so `Copy` drops the target: the
copy of a stub calls nothing and comes to an error, which `Behaviour` shows as the code
`stub` itself. A global named `abcdefg` of the script's own is left out.

**DebugLibrary.** The collector is Luau's tri-colour marking with its steps
(`MarkStack`, `Propagate`, `Sweep`) interleaved with the script's. Luau's atomic
phase and the sweep are one step, after which the next cycle may start; the
running thread stays gray until then, so its stack is looked at again
before the sweep. A call that raises an error changes nothing and is no step. What
is undefined (a negative index, a cell of a type that no script may hold) ends the
behaviour (`undefined`).

**Identity.** All its actions run on the thread of one VM, so each is a whole
function. An `ExtraSpace` is a cell; the one `malloc` makes for a thread is named
by that thread, so that two threads share a cell exactly when one's `userdata`
points to the other's. In the same way a word of capabilities is named by the
prototype it was allocated for. `Garbage` is what `malloc` leaves, `StudioGave`
whatever Studio had put there: the module writes neither. `Grabbed` and
`JobSpace` are the calls of the detour and of `execute_job` in their order,
nested. `family` and `granted` are histories: the state a thread descends from,
and what code was given when it was loaded. Studio's part is external:
`newthread` copies a parent's space, `rFromLuaState` makes parent and child share
it or not (both are explored), scripts make coroutines.

External, since it is not under `src/`: the resumption of threads that Studio's
`task.defer` was given, and the script that drops its last variable. What of Luau and IXWebSocket matters is mapped to the
vendored sources.

## 4. The runs

Runs that pass:

| Run | Shows | Instance | States |
| --- | --- | --- | --- |
| `first_epoch` | up to the first `reinit()`, the two-step lock excludes, nothing null is used, no push races a pop, one VM at a time hands over its states, and the scheduler implements `JobQueue`: every job once, in order | two VMs in published places, two lines typed of any kind, a user who waits for the queue to empty, two grabs | 20 k |
| `reinit_liveness` | the prompt comes back, `mutx` is given back, the queue empties; with a `reinit()` against the old and the new Stepped connection, the flag is never left set and main keeps finding its states | one VM whose place passes no check, so only the count of rejections lets it through; a job and a `reinit()` | 21 k |
| `websocket` | the map names live sockets only, a worker that outlives its socket closed it itself, references are shared only after a second release, `close` leaves open only what the library has reconnected, and `close` returns | two sockets, one with a peer that ends connections and with handlers that close sockets on their worker; invalid texts are sent | 127 k |
| `closures` | every handler has its entry; a hook takes effect, is local, and returns the original unless it was a stub | two natives and a function, with and without upvalues; three more closures | 49 k |
| `debug_library` | types, and that upvalues are never hidden from the collector | a function that captures one variable and has called itself through a native, a closure and a table yet to be made, indices -1 to 2, levels -1 to 3 | 239 k |
| `identity` | no identity changes but by its thread's own `setidentity`, capabilities fit identities, `checkcaller` knows the module's threads, code keeps its capabilities | two threads of Studio, one with an identity that counts as another's (1) and one with 6; five more threads; a chunk with a function in a function, a stub, and code of Studio's that has capabilities or not; `setidentity` in and out of range | 74 k |

Runs that find a violation of what the repository says (section 8):
`null_runner`, `job_lost`, `stale_environment`, `websocket_references`,
`closures_collected`, `debug_constants`.

*Bounds.* `TriesLimit` is 2 instead of 30: the code only compares the count with
it, so what matters is that rejections are fewer, as many, and more.
`MaxGrabs` bounds the pairs of states ever created: an initialization needs one,
or two when two steps are inside the lock, so three suffice for one `reinit()`.
`MaxReinits` = 1 already overlaps what an epoch leaves behind with the next;
nothing in the code counts epochs. Two VMs are needed for `OneInitializer`, for
`mutx` to be contended and for scripts of one VM to meet the other's steps.
Two jobs are the least with which `back()` and `pop()` differ. Two sockets
make shared registry slots and workers that wait for each other. Six closures
are the initial three, two that a single hook of a wrapper makes, and one more to
hook them with. Five threads are what two grabs (a `reinit()` between them) take, and
one for a job or a coroutine; three levels of functions are the least in which
an inner function is reached both through a clone and through its chunk. `MaxUnheld` bounds how many closures a script has dropped at once.
`DebugLibrary` is bounded by its finite sets of objects only.

*Deadlock* is checked where the system goes on for ever (`first_epoch`, `MaxInputs`
and `MaxReinits` notwithstanding, since the Stepped connections go on). It
is not where the system may stop: a crash ends the process, bounds are used up,
all sockets are closed, the room for closures or threads is used up, or a call's
outcome is undefined.

*Symmetry* of the threads still to be made is used in `identity`, which has no
liveness property; the other runs use none.

## 5. Fairness, and why the code has it

*Scheduler.* `WF` of what a thread inside the module does next: the operating
system runs every thread. `SF` of getting a lock (`LockTest`, `DetourLock`): the
first polls every 16 ms, the second is a `std::mutex`, and what they
wait for becomes free again and again rather than for good. `SF` of
`DetourEnter`, `DetourRoll`, `ResumeDeferred` and `Stepped`: Studio keeps
calling `pseudo2addr`, one call in 255 goes on, deferred threads are resumed
each cycle and `Stepped` fires each frame. Nothing is assumed of the user or of
scripts. `JobQueue`'s fairness, `WF` of `Execute`, is implied by these, which
`ImplementsJobQueue` checks.

*Websockets.* `WF` of `connect`, of each step of `close` and of each worker: these
are threads that run. `SF` of the end of a closing connection:
`WebSocketTransport::poll` gives up waiting for the peer's answer after a fixed
delay. A peer need not answer, send or stay connected.

*Closures*, *DebugLibrary* and *Identity* have only safety properties: nothing in
them waits.

## 6. What is proved

All theorems hold for every value of the constants that the named assumptions of
the module allow. They are checked by TLAPS.

* **Scheduler** (any number of VMs, published or not, any bounds).
  `TypeCorrect`: `TypeOK` is inductive by itself.
  `LockIsNotOrphaned`: with the types, it is inductive too. The lemma `StaysInside`
  covers every step that goes on inside the critical section; the only step that
  leaves it, `Unlock`, clears the flag.
  `OneInitializerAtATime` rests on `OpsOK`, that each operation keeps a thread within a
  region of labels (and that only VMs initialise, with a state that is not null, and
  only main re-initialises), and on `MutxOK`: whoever is past `DetourLock`, also
  inside `initialize_with`, owns `mutx`.
  `MainFindsStates` rests on `OpsOK` and `StatesKept`: unless main still waits or is in
  `re_initialize`, both states are set; whoever else writes them writes one that
  was created.
* **Scheduler, first epoch** (`SchedulerEpochProofs`; any number of VMs, any jobs and
  bounds, under `FirstEpoch`: no `reinit()`, and a user who types a line only when
  the queue is empty). `LockExcludes`, `PushIsAlone`, `FirstEpochIsSafe`,
  `RunnersAreStates` and `TakenJobIsDropped` all follow from one invariant,
  `EpochInv`. The flag alone excludes nobody, so the argument is about who is there:
  until main queues the Stepped job, the lock is contended only by main and by the
  one VM that holds `mutx`, and main reads the states only after that VM's `Unlock`
  (`HandedOver`); from then on only main and the VM that the states live in ever step
  (`AtHome`). `Exclusion` states what that leaves to both, `RunnersOK` that what
  is run is never null, `KeysOK` whose key is current, `JobsPaced` that at most one
  job is queued while somebody steps, which is why `back()` and `pop()` agree.
  Each of these is false after a `reinit()`, where several are the violation runs of
  section 8. `EnvironmentIsFilled` needs only that there is no `reinit()`, not the
  patient user: `EnvOK` says that `register_env` works on the executor state until its
  globals are filled, and `StatesStay` that nobody replaces that state.
* **The queue is implemented** (`SchedulerQueueProofs`, same hypothesis).
  `JobQueueImplemented`: the initial states and every step of `Scheduler` map
  to an initial state, a `Submit`, an `Execute` or a stutter of `JobQueue`. The mapped
  queue is the job that a thread has taken and not executed yet, then the jobs
  queued. `Numbered` says that executed, taken, queued and pushed jobs have consecutive
  numbers in that order, and `PendingIs` what the mapped queue then is in each of its
  four cases.
* **WebsocketLibrary** (any sockets, handlers and peers).
  `WebsocketTypeCorrect`: with `RegistryOK`, that every link of the free list
  stays inside the array, circle or not, since a second release makes circles.
  `MapIsRight`: `MapHoldsLiveSockets` is inductive once the types of `closing` and
  `object` are added (`MapInv`). `WorkersAreOutlived` from `WorkerInv`: the actor
  that is about to release a socket has joined its worker, or is that worker
  (`JoinedWorkerIsDone`); what can be closed has been made
  (`KnownSocketsExist`); and nobody can close a socket that is still being connected
  (`CallerIsFresh`), so no worker starts on a deleted one.
  `ReferencesAreOwnBefore` from `OwnInv`: until a reference is released for the second
  time, the slots of the sockets that were not released hold their own objects and
  are told apart by socket and kind, and the free list is good (`ListOK`). That
  the list has no circle would be an induction along it; `ListOK` says what each
  link needs to know instead: head and links name free slots, no free slot has two
  predecessors and the head has none. `RefTakesFree` and `UnrefFrees` show what
  `lua_ref` and `lua_unref` make of such a list, and `FirstRelease` why the four
  slots that a first release frees are not free yet.
  `CloseLeavesReconnected` from `ReportedInv`: a worker that connects again, and one
  whose connection is closed, has reported an end before, which released the
  references; and a connection that is open although some `close` is past its first step
  is such a new one. It follows the order of the closer's five steps against those
  of the worker, whoever the closer is.
* **Closures** (any initial closures, codes and upvalues). `HandlersHaveEntries` and
  `ClosuresTypeCorrect` from `ClosuresInv`, in which every closure is `Good` (only
  stubs have a target, and they are Lua closures; no array is shorter than its room) and every
  handler has its entry. The lemmas `OneMore` and `TwoMore` say what a step that makes one or two
  closures, and overwrites one, keeps.
  The action properties `HooksAreLocal` and `HooksTakeEffect` are about chains of
  calls of any length. Since each closure calls at most one other, calls are
  paths in a graph (`Calling`), and what a call reaches is a least closed set, about
  which no induction is needed: it unfolds (`ReachUnfolds`), it is the same in two graphs that
  agree on it (`ReachSame`), and a node on a circle has no end (`CircleHasNoEnd`, which is
  why a hook of a function that calls itself for ever is excepted). The other exception
  is a hooked stub: what is returned for it is a copy, which has lost the target. `HookShape`
  is what each of the eight cases of `hookfunction` is shown to do: it changes no
  closure and no entry but the hooked function's, what it returns calls or is what the hooked
  function did or was (`Keeps`) unless that had a target, and the hooked function now calls, or runs, the hook or what
  the hook wraps (`Takes`). `OthersKeep`, `OriginalKept` and `ChangedRuns`
  conclude from these about the graph.
* **DebugLibrary** (any functions, prototypes, initial stack, indices and levels).
  `DebugTypeCorrect` and `CollectorSeesUpvalues` from `DebugInv`: the types, the
  absence of an edge from a black function or variable to a white object, and
  `ValuesMade`, that every value somewhere in use has been made. The last is
  needed because a creation paints its object white: if a black object could
  refer to an object before its creation, the creation would break the
  invariant. Stores are covered by `BarrierFacts`: the barrier turns what it is given
  gray, and nothing else changes.
* **Identity** (any threads of Studio with any identities, any prototypes, any
  argument of `setidentity`). `TypesCorrect`, `CapabilitiesCorrect`,
  `CheckcallerCorrect` and the action property `IdentityKept` rest on `ThreadInv`: types,
  `OwnSpaces` (every thread has a space of its own), `CapabilitiesMatch` and
  `FamiliesOK`. `OwnSpaces` is the strengthening, and `reallocate_extraspace` what
  makes it inductive: without it a thread that `rFromLuaState` made share its parent's
  space would write into it. `CapabilitiesKept` rests on
  `CodeInv`, about the words that prototypes share.

Every invariant and every action property that a passing run checks is also proved.
Only model-checked: the liveness properties (`MainReturnsToPrompt`, `MutxReleased`,
`QueueDrains`, `CloseReturns`), and that the fairness of `JobQueue` is implied by the
scheduler's. Liveness under fairness and `ENABLED` are out of the prover's reach.

What fails is not proved either, but where a run of section 8 refutes a claim there is
mostly a theorem that bounds the failure: `RunnersAreStates` and `TakenJobIsDropped`
for `null_runner` and `job_lost`, `EnvironmentIsFilled` for `stale_environment`,
`ReferencesAreOwnBefore` for `websocket_references`, and `CollectorSeesUpvalues` for
`debug_constants`.

## 7. What is not modelled, and why

* *FilesystemLibrary*: its registration table is commented out. *Communication*
  is never instantiated, *Scanner* never called, *RBXScheduler* not compiled.
  *CryptLibrary* maps its arguments to results and keeps nothing; its ciphers are
  the vendored library's.
* *Utilities* are helpers without state (pointer checks, random strings, console
  output). *Log* is one string that every thread appends to without a lock; no control
  depends on it. *`freeblock__detour`* decides by which pages Windows has mapped.
* *Security*: `wipe_proto` only changes what debug output reads; a `setfenv` with level
  0 and a Lua error in the middle of the detour are left out of `Identity`.
* *VM destruction.* Studio may destroy a VM that the module still holds states of;
  when and in which order it does is not in the repository.
* *Races on the heap of a VM*: main fills a VM's globals (`main.cpp:147`) while
  that VM's thread may run, and websocket workers run Luau (`WebsocketLibrary.cpp:67`).
  Luau has no lock, so any outcome is possible: the modules make such calls atomic.
  The same holds for the two `std::map`s, and for the plain words of the scheduler,
  whose accesses are taken to be sequentially consistent.
* *Yielding jobs*: nothing creates one, and `yield_job` is empty.
* *The scheduler's keys*: `rand()` is assumed to give a key that is not in use.
* `is_initialized` reads its two words in one step; its callers poll it.
* A cycle of the detour's mutex and Studio's own locks, if `task.defer` itself
  reaches `pseudo2addr`, is Studio's to know.
* *Addresses*: a freed closure's address is never used again in the model, so a stale
  entry of `closureMap` is never met; an entry is read for handlers only, and each
  gets its own when it is made (`closureMap[wrapper] = original`). Upvalues that hold closures
  are not traced by the model's collector.
* *Calls and returns* during the debug functions, open upvalues, metatables and
  Luau's strings.

## 8. What the checks found

Each of these is a run that TLC ends with the counterexample.

* `null_runner`: the Stepped hook checks the executor state and reads it again
  for the call (`Environment.cpp:911-913`). A `reinit()` between the two hands
  `execute_job` a null state, whose comment promises valid ones.
* `job_lost`: `back()` then `pop()` on a queue (`Scheduler.cpp:34-35`) executes
  the newest job and drops the oldest. `first_epoch` shows that the user's waiting
  (and `Sleep(2000)` in `main.cpp`) is what makes the queue right.
* `stale_environment`: two threads inside the two-step lock let a detour hand
  over states in the middle of `re_initialize`; `register_env` then fills the
  globals of a state that is replaced, and success is reported.
* `websocket_references`: `close` releases references that the Close callback
  has released already (`WebsocketLibrary.cpp:109-116` and `147-154`).
* `closures_collected`: hooking a native with a Lua function keeps no
  reference to it (`ClosureLibrary.cpp:171`).
* `debug_constants`: `setconstant` has no write barrier
  (`DebugLibrary.cpp:99-100`), unlike `setupvalue` (`:401`).

Seen while modelling, with no run of their own. Part of the models:

* The initialization script lacks a comma in its list of names
  (`Environment.cpp:1336`), so `luau_load` refuses what `:958` announces.
* A handler that closes its own socket: `stop()` throws at `join`
  (`WebsocketLibrary.cpp:141`), which is why `WorkerUsesLiveSocket` excepts
  self-closed sockets; two workers that close each other's sockets never
  return (`CloseEachOther`).
* A reconnected socket has no events any more; `stop()` can race the reconnection and
  leave the worker running (`IXWebSocket.cpp:189`).
* `hookfunction` reads the upvalues of the wrapper, not of the closure it wraps
  (`ClosureLibrary.cpp:64`, used at 110 and 136), and copies upvalues past the end of a
  smaller array (`:241`, whose check at `:235` is commented out): the premise
  `~Overrun'` of the hook properties, and the reason why `HookTakesEffect`
  compares code only.
* A stub that is cloned, or hooked, gives a closure that raises an error: `lua_clonefunction`
  (`lapi.cpp:1457`, called at `Closures.cpp:66` and `ClosureLibrary.cpp:72`, `130` and `153`)
  sets the environment to `L->gt`, and there is no `abcdefg` there. It is met by hooking what
  `newlclosure` returned, or by hooking a Lua function a second time after it was
  hooked with a C closure that wraps no Lua function. `HookIsLocal` excepts just these
  hooked functions (`HasTarget`).
* A negative index passes the index checks of four debug functions
  (`DebugLibrary.cpp:87`, `136`, `390`, `432`); `getupvalue` returns a captured
  variable's object as a value (`:441`), and after `setupvalue` on such a cell the
  function's own assignment takes the new value for a variable.
* The detour's restore leaves `Full` capabilities on the thread it captured and
  does not restore every identity: reading one from what `Full` encodes gives 4 for 1, 6
  for 3, 8 for 7 and 2 for 0.
* `setidentity()` without an argument raises an error instead of taking the 8 that its
  code provides for.
* `isourclosure` recognises a Lua closure only once `wipe_proto` has been over it.
* Cloning a function whose prototype has no `userdata` writes an uninitialised
  word into the prototype that it shares (`Closures.cpp:68-70`).

Outside the models:

* `encrypt` returns the base64 of the base64 of its initialization vector, never the ciphertext
  (`CryptLibrary.cpp:193-203`); `decrypt` builds an encrypting cipher (`:215`).
* `FilesystemLibrary`'s registration table is commented out, which leaves `loadfile`
  unreachable.
* `exception_filter` writes to the log buffer of a process that may have crashed
  while appending to it (`main.cpp:21`, `Log.hpp:11`).
* `is_pointer_valid` never takes the case of freed memory, since `==` binds tighter than
  `&` (`Utilities.hpp:59`), and what its message calls "assumed to NOT valid" returns
  true (`:79-83`); `freeblock__detour` relies on it (`Hook.cpp:39-42`).
* The random strings are drawn from an alphabet that includes the terminating NUL
  (`Utilities.cpp:29`, `:45`).
