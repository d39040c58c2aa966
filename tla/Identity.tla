------------------------------- MODULE Identity -------------------------------
(***************************************************************************)
(* Who the threads of a VM and the code that runs on them are taken for:   *)
(* the identity and the capabilities in a thread's ExtraSpace, which the   *)
(* detour raises, restores and copies, which execute_job copies again and  *)
(* setidentity overwrites; the table of globals that checkcaller tells our *)
(* threads by; and the word of capabilities that the protos of a chunk     *)
(* share.  Every action runs on the thread of the one VM.                  *)
(***************************************************************************)
EXTENDS Integers, FiniteSets

CONSTANTS
    None,         \* a null pointer
    StudioThreads,\* the threads Studio has when the module is loaded
    SpareThreads, \* bound: the threads that may still be made
    StudioIs,     \* the identity Studio gave to each of its threads
    GlobalsOf,    \* whose table of globals each of them has
    SetTo,        \* the arguments scripts call setidentity with
    Protos,       \* the functions as the compiler makes them
    Inside,       \* a proto, the protos of the functions inside it, and so on
    Chunks,       \* main functions of what loadstring and execute_job load
    Stubs,        \* main functions of what newlclosure loads
    StudioProtos  \* the protos of Studio's own scripts

Threads    == StudioThreads \cup SpareThreads
Identities == 0..9

ASSUME IdentityAssumption ==
    /\ StudioThreads \cap SpareThreads = {} /\ None \notin Threads \cup Protos
    /\ StudioIs \in [StudioThreads -> Identities]
    /\ GlobalsOf \in [StudioThreads -> StudioThreads]
    /\ SetTo \subseteq Int
    /\ Chunks \subseteq Protos /\ Stubs \subseteq Protos /\ StudioProtos \subseteq Protos
    /\ Inside \in [Protos -> SUBSET Protos]

\* Functions are nested: inside is reflexive and transitive, a chunk and Studio's
\* code contain what is inside them and lie in nothing else.
ASSUME NestingAssumption ==
    /\ \A p \in Protos : p \in Inside[p]
    /\ \A p, q \in Protos : q \in Inside[p] => Inside[q] \subseteq Inside[p]
    /\ \A c \in Chunks, p \in Protos : Inside[p] \cap Inside[c] # {} => p \in Inside[c]
    /\ \A p \in Protos : Inside[p] \cap StudioProtos # {} => p \in StudioProtos
    /\ \A p \in StudioProtos : Inside[p] \subseteq StudioProtos

VARIABLES
    made,      \* the threads that exist
    memory,    \* the ExtraSpaces, and where each thread's userdata points
    gt,        \* the table of globals of a thread, named by who it was made for
    executor,  \* m_lsInitialisedWith
    states,    \* the threads that were ever handed to the scheduler
    roblox,    \* the threads that were ever m_lsRoblox: they run nothing
    family,    \* history: the state a thread descends from
    loaded,    \* the protos that exist
    word,      \* where the userdata of a proto points, named by who it was made for
    content,   \* what is written there
    granted    \* history: the capabilities a proto was given when it was loaded

threadVars   == <<made, memory, gt, executor, states, roblox, family>>
codeVars     == <<loaded, word, content, granted>>
identityVars == <<made, memory, gt, executor, states, roblox, family,
                  loaded, word, content, granted>>

-----------------------------------------------------------------------------
(* The two encodings of identities.                                        *)

to_obfuscated_identity(identity) ==
    CASE identity \in {1, 4} -> 3   [] identity \in {3, 6} -> 11
      [] identity = 5        -> 1   [] identity \in {7, 8} -> 63
      [] identity = 9        -> 12  [] OTHER               -> 0

deobfuscate_identity(obfuscated) ==
    CASE obfuscated = 3  -> 4  [] obfuscated = 0  -> 2  [] obfuscated = 11 -> 6
      [] obfuscated = 1  -> 5  [] obfuscated = 63 -> 8  [] obfuscated = 12 -> 9
      [] OTHER -> 0

Eight_Seven == 63

Full       == 67108608         \* 0x3FFFF00: its last byte is 0, so that | is +
StudioGave == 0                \* whatever Studio put there
Garbage    == -1               \* whatever malloc left there

Capabilities(identity) == Full + to_obfuscated_identity(identity)

-----------------------------------------------------------------------------
(* ExtraSpaces.                                                            *)

Space(identity, capabilities) == [identity |-> identity, capabilities |-> capabilities]
Uninitialised == Space(Garbage, Garbage)

SpaceOf(m, t)  == m.space[m.userdata[t]]
PointsTo(m, t, cell) == [m EXCEPT !.userdata[t] = cell]
Write(m, t, space)   == [m EXCEPT !.space[m.userdata[t]] = space]

\* A space of the thread's own; malloc makes the one that is named by it.
Allocated(m, t, space) == Write(PointsTo(m, t, t), t, space)

NotReallocated(m, t) == m                                           \* mutant
reallocate_extraspace(m, t) ==
    Allocated(m, t, IF m.userdata[t] = None THEN Uninitialised ELSE SpaceOf(m, t))

set_thread_security(m, t, obfuscated) ==
    LET valid    == IF m.userdata[t] = None THEN Allocated(m, t, Uninitialised) ELSE m
        identity == deobfuscate_identity(obfuscated)
    IN  Write(valid, t, Space(identity, Capabilities(identity)))

\* Studio's newthread gives a thread a copy of its parent's space;
\* rFromLuaState then leaves that, or makes both point to the parent's.
newthread(m, L, t) == Allocated(m, t, SpaceOf(m, L))
rFromLuaState(m, L, t, shared) == IF shared THEN PointsTo(m, t, m.userdata[L]) ELSE m

-----------------------------------------------------------------------------
(* Threads.                                                                *)

IdentityInit ==
    /\ made = StudioThreads
    /\ memory = [userdata |-> [t \in Threads |-> IF t \in StudioThreads THEN t ELSE None],
                 space |-> [t \in Threads |-> IF t \in StudioThreads
                                              THEN Space(StudioIs[t], StudioGave)
                                              ELSE Uninitialised]]
    /\ gt = [t \in Threads |-> IF t \in StudioThreads THEN GlobalsOf[t] ELSE t]
    /\ executor = None /\ states = {} /\ roblox = {}
    /\ family = [t \in Threads |-> None]
    /\ loaded = StudioProtos
    /\ \E named \in BOOLEAN :    \* whether Studio gives its functions capabilities
         /\ word = [p \in Protos |-> IF p \in StudioProtos /\ named THEN p ELSE None]
         /\ granted = [p \in Protos |-> IF p \in StudioProtos /\ named
                                        THEN StudioGave ELSE Garbage]
    /\ content = [p \in Protos |-> IF p \in StudioProtos THEN StudioGave ELSE Garbage]

\* The detour's globals for nL: a clone of those of L, and those of L itself.
GlobalsKept(L, nL)   == gt[L]                                       \* mutant
GlobalsCloned(L, nL) == nL

\* The detour's treatment of L's ExtraSpace and nL's and rL's, in the order of
\* the code: L is raised while the threads are made, then restored.
Grabbed(L, nL, rL, shared) ==
    LET old      == to_obfuscated_identity(SpaceOf(memory, L).identity)
        raised   == set_thread_security(memory, L, Eight_Seven)
        made2    == newthread(newthread(raised, L, nL), L, rL)
        given    == rFromLuaState(made2, L, nL, shared)
        restored == set_thread_security(given, L, old)
    IN  set_thread_security(reallocate_extraspace(restored, nL), nL, Eight_Seven)

\* The detour takes the thread L it runs on.
pseudo2addr__detour(L, nL, rL) ==
    /\ executor = None
    /\ L \in made \ roblox /\ {nL, rL} \subseteq SpareThreads \ made /\ nL # rL
    /\ \E shared \in BOOLEAN : memory' = Grabbed(L, nL, rL, shared)
    /\ gt' = [gt EXCEPT ![nL] = GlobalsCloned(L, nL), ![rL] = rL]
    /\ made' = made \cup {nL, rL}
    /\ executor' = nL /\ states' = states \cup {nL} /\ roblox' = roblox \cup {rL}
    /\ family' = [family EXCEPT ![nL] = nL]
    /\ UNCHANGED codeVars

re_initialize ==
    /\ executor # None
    /\ executor' = None
    /\ UNCHANGED <<made, memory, gt, states, roblox, family, loaded, word, content, granted>>

\* luaE_newthread, unlike lua_newthread, does not call Studio's callback: the
\* thread has no ExtraSpace yet.
JobSpace(runOn, nLs) ==
    LET own == reallocate_extraspace(memory, nLs)
    IN  set_thread_security(Write(own, nLs, SpaceOf(own, runOn)), nLs, Eight_Seven)

\* A coroutine that a script makes.
newcoroutine(t, new) ==
    /\ t \in made \ roblox /\ new \in SpareThreads \ made
    /\ memory' = newthread(memory, t, new)
    /\ gt' = [gt EXCEPT ![new] = gt[t]]
    /\ family' = [family EXCEPT ![new] = family[t]]
    /\ made' = made \cup {new}
    /\ UNCHANGED <<executor, states, roblox, loaded, word, content, granted>>

Unchecked(n) == TRUE                                                \* mutant
InRange(n)   == n >= 0 /\ n <= 9

\* A closure of ours called on thread t, which may be one of Studio's.
setidentity_alone(t, n) ==                                          \* mutant
    /\ states # {} /\ t \in made \ roblox
    /\ InRange(n)
    /\ memory' = Write(memory, t, Space(n, SpaceOf(memory, t).capabilities))
    /\ UNCHANGED <<made, gt, executor, states, roblox, family, loaded, word, content, granted>>
setidentity(t, n) ==
    /\ states # {} /\ t \in made \ roblox
    /\ InRange(n)
    /\ memory' = Write(memory, t, Space(n, Capabilities(n)))
    /\ UNCHANGED <<made, gt, executor, states, roblox, family, loaded, word, content, granted>>

checkcaller(t) ==
    /\ memory.userdata[t] # None /\ executor # None
    /\ gt[t] = gt[executor]
    /\ SpaceOf(memory, t).identity >= 4 /\ SpaceOf(memory, t).identity <= 9

-----------------------------------------------------------------------------
(* Code.                                                                   *)

set_proto_itself(words, p, w) == [words EXCEPT ![p] = w]            \* mutant
set_proto(words, p, w) == [q \in Protos |-> IF q \in Inside[p] THEN w ELSE words[q]]

\* A function of a chunk that has a word of capabilities keeps it; else one is
\* allocated.
AlwaysAllocated(p) == p                                             \* mutant
WordFor(p)         == IF word[p] # None THEN word[p] ELSE p

\* luau_load and set_luaclosure_security.
LoadElevated(c) ==
    /\ Inside[c] \cap loaded = {}
    /\ loaded' = loaded \cup Inside[c]
    /\ content' = [content EXCEPT ![WordFor(c)] = Capabilities(deobfuscate_identity(Eight_Seven))]
    /\ word' = set_proto(word, c, WordFor(c))
    /\ granted' = [p \in Protos |-> IF p \in Inside[c] THEN Full + Eight_Seven ELSE granted[p]]

\* loadstring (and loadfile, which nothing registers).
lua_loadstring(c) ==
    /\ states # {}
    /\ LoadElevated(c)
    /\ UNCHANGED threadVars

\* Its job may be run by a state that was replaced, and may not compile.
execute_job(runOn, nLs) ==
    /\ runOn \in states /\ nLs \in SpareThreads \ made
    /\ memory' = JobSpace(runOn, nLs)
    /\ gt' = [gt EXCEPT ![nLs] = gt[runOn]]
    /\ family' = [family EXCEPT ![nLs] = family[runOn]]
    /\ made' = made \cup {nLs}
    /\ \/ \E c \in Chunks : LoadElevated(c)
       \/ UNCHANGED codeVars
    /\ UNCHANGED <<executor, states, roblox>>

\* ToLClosure loads a stub and gives it no capabilities.
newlclosure(d) ==
    /\ states # {} /\ Inside[d] \cap loaded = {}
    /\ loaded' = loaded \cup Inside[d]
    /\ UNCHANGED <<word, content, granted>> /\ UNCHANGED threadVars

\* A clone has the proto of the original, whose word is set again or, if there
\* is none, allocated and left unwritten.
clonefunction(p) ==
    /\ states # {} /\ p \in loaded
    /\ word' = set_proto(word, p, WordFor(p))
    /\ content' = IF WordFor(p) = word[p] THEN content ELSE [content EXCEPT ![p] = Garbage]
    /\ UNCHANGED <<loaded, granted>> /\ UNCHANGED threadVars

IdentityNext ==
    \/ \E L \in made, nL, rL \in SpareThreads : pseudo2addr__detour(L, nL, rL)
    \/ re_initialize
    \/ \E t \in made, new \in SpareThreads : newcoroutine(t, new) \/ execute_job(t, new)
    \/ \E t \in made, n \in SetTo : setidentity(t, n)
    \/ \E c \in Chunks : lua_loadstring(c)
    \/ \E d \in Stubs : newlclosure(d)
    \/ \E p \in loaded : clonefunction(p)

IdentitySpec == IdentityInit /\ [][IdentityNext]_identityVars

-----------------------------------------------------------------------------
(* Properties.                                                             *)

\* Every thread that exists has an ExtraSpace with an identity that the range
\* check of setidentity lets through.
IdentityTypeOK ==
    /\ made \subseteq Threads /\ StudioThreads \subseteq made
    /\ memory \in [userdata : [Threads -> Threads \cup {None}],
                   space : [Threads -> [identity : Identities \cup {Garbage}, capabilities : Int]]]
    /\ \A t \in made : /\ memory.userdata[t] # None
                       /\ SpaceOf(memory, t).identity \in Identities
    /\ gt \in [Threads -> Threads] /\ family \in [Threads -> Threads \cup {None}]
    /\ states \subseteq made \cap SpareThreads /\ roblox \subseteq made \ states
    /\ executor \in states \cup {None}
    /\ loaded \subseteq Protos /\ word \in [Protos -> Protos \cup {None}]
    /\ content \in [Protos -> Int] /\ granted \in [Protos -> Int]

\* No step but a thread's own setidentity changes what its identity counts as:
\* what the detour raises it restores (1 becomes 4 and so on, which count the
\* same), and the threads it makes share no ExtraSpace with the one it took.
Counts(t) == to_obfuscated_identity(SpaceOf(memory, t).identity)
IdentityIsOwn ==
    [][\A t \in made : Counts(t)' # Counts(t) => \E n \in SetTo : setidentity(t, n)]_identityVars

\* The capabilities of a thread are Studio's own, or those of the very identity
\* that its ExtraSpace has, though both are encoded and copied separately.
CapabilitiesMatch ==
    \A t \in made : LET space == SpaceOf(memory, t)
                    IN  space.capabilities \in {StudioGave, Capabilities(space.identity)}

\* checkcaller is true exactly on the threads that descend from the state the
\* scheduler has now and have an identity of 4 or more: on none of Studio's,
\* whatever its identity, on none of an earlier state's, and not on that of the
\* thread the detour took.
CheckcallerKnowsOurs ==
    \A t \in made :
        checkcaller(t) <=> /\ executor # None /\ family[t] = executor
                           /\ SpaceOf(memory, t).identity \in 4..9

\* Code keeps the capabilities it was loaded with, whatever was cloned since:
\* every function inside a chunk, too, points to a word that holds them.
CodeKeepsCapabilities ==
    \A p \in Protos : granted[p] # Garbage => /\ word[p] # None
                                              /\ content[word[p]] = granted[p]
=============================================================================
