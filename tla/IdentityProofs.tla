---------------------------- MODULE IdentityProofs ----------------------------
(***************************************************************************)
(* Proofs about Identity: its type invariant, the integrity of identities, *)
(* what checkcaller tells and what code may do, for any number of threads  *)
(* and any nesting of functions.                                           *)
(***************************************************************************)
EXTENDS Identity, TLAPS

-----------------------------------------------------------------------------
(* The encodings.                                                          *)

\* An identity that is encoded, decoded and encoded again counts as before:
\* what the detour relies on when it restores the thread it took.
LEMMA RoundTrip ==
    \A i \in Identities :
        /\ deobfuscate_identity(to_obfuscated_identity(i)) \in Identities
        /\ to_obfuscated_identity(deobfuscate_identity(to_obfuscated_identity(i)))
             = to_obfuscated_identity(i)
  <1> SUFFICES ASSUME NEW i \in Identities
               PROVE  /\ deobfuscate_identity(to_obfuscated_identity(i)) \in Identities
                      /\ to_obfuscated_identity(deobfuscate_identity(to_obfuscated_identity(i)))
                           = to_obfuscated_identity(i)
    OBVIOUS
  <1>1. i \in {0, 1, 2, 3, 4, 5, 6, 7, 8, 9}
    BY DEF Identities
  <1> QED
    BY <1>1 DEF Identities, to_obfuscated_identity, deobfuscate_identity

\* Identity 8, which the module gives to its threads and its code.
LEMMA EightDecodes == /\ deobfuscate_identity(Eight_Seven) = 8
                      /\ to_obfuscated_identity(8) = Eight_Seven
  BY DEF deobfuscate_identity, to_obfuscated_identity, Eight_Seven

\* Every identity is encoded as an integer.
LEMMA EncodedType == \A i : to_obfuscated_identity(i) \in Int /\ Capabilities(i) \in Int
  BY DEF to_obfuscated_identity, Capabilities, Full

-----------------------------------------------------------------------------
(* ExtraSpaces.                                                            *)

AnySpace == [identity : Identities \cup {Garbage}, capabilities : Int]
Memories == [userdata : [Threads -> Threads \cup {None}], space : [Threads -> AnySpace]]

\* The space that set_thread_security leaves.
Secured(obfuscated) == Space(deobfuscate_identity(obfuscated),
                             Capabilities(deobfuscate_identity(obfuscated)))

\* Whatever malloc left is a space.
LEMMA UninitialisedType == Uninitialised \in AnySpace
  BY DEF Uninitialised, Space, AnySpace, Garbage

\* A space holds the identity and the capabilities it is made of.
LEMMA SpaceType ==
    \A i \in Identities, c \in Int :
        /\ Space(i, c) \in AnySpace
        /\ Space(i, c).identity = i /\ Space(i, c).capabilities = c
  BY DEF Space, AnySpace

\* What a write changes.
LEMMA WriteIs ==
    ASSUME NEW m \in Memories, NEW t \in Threads, NEW s \in AnySpace, m.userdata[t] \in Threads
    PROVE  /\ Write(m, t, s) \in Memories
           /\ Write(m, t, s).userdata = m.userdata
           /\ \A c \in Threads : Write(m, t, s).space[c]
                                   = IF c = m.userdata[t] THEN s ELSE m.space[c]
  BY DEF Write, Memories

\* What a change of pointer changes.
LEMMA PointsToIs ==
    ASSUME NEW m \in Memories, NEW t \in Threads, NEW c \in Threads
    PROVE  /\ PointsTo(m, t, c) \in Memories
           /\ PointsTo(m, t, c).space = m.space
           /\ \A u \in Threads : PointsTo(m, t, c).userdata[u]
                                   = IF u = t THEN c ELSE m.userdata[u]
  BY DEF PointsTo, Memories

\* What an allocation changes.
LEMMA AllocatedIs ==
    ASSUME NEW m \in Memories, NEW t \in Threads, NEW s \in AnySpace
    PROVE  /\ Allocated(m, t, s) \in Memories
           /\ \A u \in Threads : Allocated(m, t, s).userdata[u]
                                   = IF u = t THEN t ELSE m.userdata[u]
           /\ \A c \in Threads : Allocated(m, t, s).space[c]
                                   = IF c = t THEN s ELSE m.space[c]
  BY PointsToIs, WriteIs DEF Allocated

\* What set_thread_security changes, for a thread that has a space.
LEMMA SecurityIs ==
    ASSUME NEW m \in Memories, NEW t \in Threads, NEW o, m.userdata[t] \in Threads,
           m.userdata[t] # None, deobfuscate_identity(o) \in Identities
    PROVE  /\ set_thread_security(m, t, o) \in Memories
           /\ set_thread_security(m, t, o).userdata = m.userdata
           /\ \A c \in Threads : set_thread_security(m, t, o).space[c]
                                   = IF c = m.userdata[t] THEN Secured(o) ELSE m.space[c]
  <1>1. Secured(o) \in AnySpace
    BY SpaceType, EncodedType DEF Secured
  <1>2. set_thread_security(m, t, o) = Write(m, t, Secured(o))
    BY DEF set_thread_security, Secured
  <1> QED
    BY <1>1, <1>2, WriteIs

\* What reallocate_extraspace changes, for a thread that has a space.
LEMMA ReallocateIs ==
    ASSUME NEW m \in Memories, NEW t \in Threads, m.userdata[t] \in Threads,
           m.userdata[t] # None
    PROVE  /\ reallocate_extraspace(m, t) \in Memories
           /\ \A u \in Threads : reallocate_extraspace(m, t).userdata[u]
                                   = IF u = t THEN t ELSE m.userdata[u]
           /\ \A c \in Threads : reallocate_extraspace(m, t).space[c]
                                   = IF c = t THEN m.space[m.userdata[t]] ELSE m.space[c]
  <1>1. m.space[m.userdata[t]] \in AnySpace
    BY DEF Memories
  <1> QED
    BY <1>1, AllocatedIs DEF reallocate_extraspace, SpaceOf

\* What rFromLuaState changes: at most where t's userdata points.
LEMMA FromLuaStateIs ==
    ASSUME NEW m \in Memories, NEW L \in Threads, NEW t \in Threads, NEW shared \in BOOLEAN,
           m.userdata[L] = L, m.userdata[t] = t
    PROVE  LET given == rFromLuaState(m, L, t, shared) IN
           /\ given \in Memories /\ given.space = m.space
           /\ \A u \in Threads \ {t} : given.userdata[u] = m.userdata[u]
           /\ given.userdata[t] \in {t, L}
  <1>1. CASE shared
    <2>1. rFromLuaState(m, L, t, shared) = PointsTo(m, t, L)
      BY <1>1 DEF rFromLuaState
    <2> QED
      BY <2>1, PointsToIs
  <1>2. CASE ~shared
    BY <1>2 DEF rFromLuaState
  <1> QED
    BY <1>1, <1>2

-----------------------------------------------------------------------------
(* The invariant of the threads.                                           *)

\* Every thread has a space of its own.
OwnSpaces == \A t \in made : memory.userdata[t] = t

\* A state's globals are named by it, and its family has them; nobody else does.
FamiliesOK ==
    /\ \A t \in made : gt[t] \in made
    /\ \A t \in made : family[t] = None => gt[t] \notin states
    /\ \A t \in made : family[t] # None => family[t] \in states /\ gt[t] = family[t]
    /\ \A f \in states : family[f] = f
    /\ \A t \in Threads \ made : family[t] = None

ThreadInv == IdentityTypeOK /\ OwnSpaces /\ CapabilitiesMatch /\ FamiliesOK

\* What the invariant says of memory.
LEMMA MemoryType ==
    ASSUME ThreadInv
    PROVE  /\ memory \in Memories /\ made \subseteq Threads
           /\ \A t \in made : /\ t \in Threads /\ t # None
                              /\ memory.userdata[t] = t /\ SpaceOf(memory, t) = memory.space[t]
                              /\ memory.space[t].identity \in Identities
                              /\ memory.space[t].capabilities
                                   \in {StudioGave, Capabilities(memory.space[t].identity)}
  BY IdentityAssumption
  DEF ThreadInv, IdentityTypeOK, OwnSpaces, CapabilitiesMatch, SpaceOf, Memories, AnySpace

\* The space of a thread of ours, and that of the thread the detour restored.
LEMMA SecuredType ==
    \A i \in Identities :
        LET o == to_obfuscated_identity(i) IN
        /\ Secured(o) \in AnySpace
        /\ Secured(o).identity \in Identities
        /\ to_obfuscated_identity(Secured(o).identity) = o
        /\ Secured(o).capabilities = Capabilities(Secured(o).identity)
  BY RoundTrip, SpaceType, EncodedType DEF Secured

LEMMA SecuredEight ==
    /\ Secured(Eight_Seven) \in AnySpace
    /\ Secured(Eight_Seven).identity = 8
    /\ Secured(Eight_Seven).capabilities = Capabilities(8)
    /\ deobfuscate_identity(Eight_Seven) \in Identities
  BY EightDecodes, SpaceType, EncodedType DEF Secured, Identities

\* The outcome of the detour does not depend on whether rFromLuaState made nL
\* share the space of the thread it took.
LEMMA GrabbedIs ==
    ASSUME ThreadInv, NEW L \in made, NEW nL \in Threads \ made, NEW rL \in Threads \ made,
           nL # rL, NEW shared \in BOOLEAN
    PROVE  /\ Grabbed(L, nL, rL, shared) \in Memories
           /\ \A t \in Threads : Grabbed(L, nL, rL, shared).userdata[t]
                = IF t \in {nL, rL} THEN t ELSE memory.userdata[t]
           /\ \A t \in Threads : Grabbed(L, nL, rL, shared).space[t]
                = IF t = L THEN Secured(to_obfuscated_identity(memory.space[L].identity))
                  ELSE IF t \in {nL, rL} THEN Secured(Eight_Seven)
                  ELSE memory.space[t]
  <1> DEFINE old      == to_obfuscated_identity(SpaceOf(memory, L).identity)
             raised   == set_thread_security(memory, L, Eight_Seven)
             one      == newthread(raised, L, nL)
             made2    == newthread(one, L, rL)
             given    == rFromLuaState(made2, L, nL, shared)
             restored == set_thread_security(given, L, old)
             own      == reallocate_extraspace(restored, nL)
             final    == set_thread_security(own, nL, Eight_Seven)
  <1>a. /\ memory \in Memories /\ L \in Threads /\ L # None /\ nL # None /\ rL # None
        /\ memory.userdata[L] = L /\ SpaceOf(memory, L) = memory.space[L]
        /\ memory.space[L].identity \in Identities /\ L # nL /\ L # rL
    BY MemoryType, IdentityAssumption
  <1>b. /\ deobfuscate_identity(old) \in Identities /\ Secured(old) \in AnySpace
        /\ Secured(Eight_Seven) \in AnySpace /\ deobfuscate_identity(Eight_Seven) \in Identities
    BY <1>a, RoundTrip, SecuredType, SecuredEight
  <1>c. Grabbed(L, nL, rL, shared) = final
    BY DEF Grabbed
  <1>1. /\ raised \in Memories /\ raised.userdata = memory.userdata
        /\ \A t \in Threads : raised.space[t]
             = IF t = L THEN Secured(Eight_Seven) ELSE memory.space[t]
    BY <1>a, <1>b, SecurityIs
  <1>2. /\ one \in Memories
        /\ \A t \in Threads : one.userdata[t] = IF t = nL THEN nL ELSE memory.userdata[t]
        /\ \A t \in Threads : one.space[t]
             = IF t \in {L, nL} THEN Secured(Eight_Seven) ELSE memory.space[t]
    <2>1. SpaceOf(raised, L) = Secured(Eight_Seven)
      BY <1>a, <1>1 DEF SpaceOf
    <2>2. one = Allocated(raised, nL, Secured(Eight_Seven))
      BY <2>1 DEF newthread
    <2> HIDE DEF raised, one
    <2>3. raised \in Memories /\ nL \in Threads /\ Secured(Eight_Seven) \in AnySpace
      BY <1>b, <1>1
    <2> QED
      BY <1>a, <1>1, <2>2, <2>3, AllocatedIs
  <1>3. /\ made2 \in Memories
        /\ \A t \in Threads : made2.userdata[t] = IF t \in {nL, rL} THEN t ELSE memory.userdata[t]
        /\ \A t \in Threads : made2.space[t]
             = IF t \in {L, nL, rL} THEN Secured(Eight_Seven) ELSE memory.space[t]
    <2>1. SpaceOf(one, L) = Secured(Eight_Seven)
      BY <1>a, <1>2 DEF SpaceOf
    <2>2. made2 = Allocated(one, rL, Secured(Eight_Seven))
      BY <2>1 DEF newthread
    <2> HIDE DEF one, made2
    <2>3. one \in Memories /\ rL \in Threads /\ Secured(Eight_Seven) \in AnySpace
      BY <1>b, <1>2
    <2> QED
      BY <1>a, <1>2, <2>2, <2>3, AllocatedIs
  <1>4. /\ given \in Memories /\ given.space = made2.space
        /\ \A t \in Threads \ {nL} : given.userdata[t] = made2.userdata[t]
        /\ given.userdata[nL] \in {nL, L}
    <2>1. /\ made2 \in Memories /\ nL \in Threads /\ L \in Threads
          /\ made2.userdata[L] = L /\ made2.userdata[nL] = nL
      BY <1>a, <1>3
    <2> HIDE DEF made2
    <2> QED
      BY <2>1, FromLuaStateIs
  <1>5. /\ restored \in Memories /\ restored.userdata = given.userdata
        /\ \A t \in Threads : restored.space[t] = IF t = L THEN Secured(old) ELSE given.space[t]
    <2>1. given.userdata[L] = L
      BY <1>a, <1>3, <1>4
    <2> HIDE DEF given, old
    <2> QED
      BY <1>a, <1>b, <1>4, <2>1, SecurityIs
  <1>6. /\ own \in Memories
        /\ \A t \in Threads : own.userdata[t] = IF t = nL THEN nL ELSE given.userdata[t]
        /\ \A t \in Threads \ {nL} : own.space[t] = restored.space[t]
    <2>1. restored.userdata[nL] \in {nL, L}
      BY <1>4, <1>5
    <2> HIDE DEF restored, given
    <2> QED
      BY <1>a, <1>5, <2>1, ReallocateIs
  <1>7. /\ final \in Memories /\ final.userdata = own.userdata
        /\ \A t \in Threads : final.space[t] = IF t = nL THEN Secured(Eight_Seven) ELSE own.space[t]
    <2> HIDE DEF own
    <2> QED
      BY <1>a, <1>b, <1>6, SecurityIs
  <1> HIDE DEF raised, one, made2, given, restored, own, final
  <1>8. \A t \in Threads : final.userdata[t] = IF t \in {nL, rL} THEN t ELSE memory.userdata[t]
    BY <1>3, <1>4, <1>6, <1>7
  <1>9. \A t \in Threads : final.space[t]
             = IF t = L THEN Secured(old)
               ELSE IF t \in {nL, rL} THEN Secured(Eight_Seven) ELSE memory.space[t]
    BY <1>a, <1>3, <1>4, <1>5, <1>6, <1>7
  <1> QED
    BY <1>a, <1>c, <1>7, <1>8, <1>9

\* The space of a job's thread.
LEMMA JobSpaceIs ==
    ASSUME ThreadInv, NEW runOn \in made, NEW nLs \in Threads \ made
    PROVE  /\ JobSpace(runOn, nLs) \in Memories
           /\ \A t \in Threads : JobSpace(runOn, nLs).userdata[t]
                = IF t = nLs THEN t ELSE memory.userdata[t]
           /\ \A t \in Threads : JobSpace(runOn, nLs).space[t]
                = IF t = nLs THEN Secured(Eight_Seven) ELSE memory.space[t]
  <1> DEFINE own    == reallocate_extraspace(memory, nLs)
             copied == Write(own, nLs, SpaceOf(own, runOn))
  <1>a. memory \in Memories /\ runOn \in Threads /\ memory.userdata[runOn] = runOn /\ runOn # nLs
    BY MemoryType
  <1>1. /\ own \in Memories
        /\ \A t \in Threads : own.userdata[t] = IF t = nLs THEN t ELSE memory.userdata[t]
        /\ \A t \in Threads \ {nLs} : own.space[t] = memory.space[t]
    <2>1. memory.userdata[nLs] # None => SpaceOf(memory, nLs) \in AnySpace
      BY <1>a DEF Memories, SpaceOf
    <2> QED
      BY <1>a, <2>1, AllocatedIs, UninitialisedType DEF reallocate_extraspace
  <1>2. SpaceOf(own, runOn) \in AnySpace /\ own.userdata[nLs] = nLs
    BY <1>a, <1>1 DEF SpaceOf, Memories
  <1> HIDE DEF own
  <1>3. /\ copied \in Memories /\ copied.userdata = own.userdata
        /\ \A t \in Threads \ {nLs} : copied.space[t] = own.space[t]
    BY <1>1, <1>2, WriteIs
  <1> HIDE DEF copied
  <1>4. nLs # None
    BY IdentityAssumption
  <1>5. JobSpace(runOn, nLs) = set_thread_security(copied, nLs, Eight_Seven)
    BY DEF JobSpace, copied, own
  <1> QED
    BY <1>1, <1>2, <1>3, <1>4, <1>5, SecuredEight, SecurityIs

\* The space of a coroutine.
LEMMA CoroutineSpaceIs ==
    ASSUME ThreadInv, NEW t \in made, NEW new \in Threads \ made
    PROVE  /\ newthread(memory, t, new) \in Memories
           /\ \A u \in Threads : newthread(memory, t, new).userdata[u]
                = IF u = new THEN u ELSE memory.userdata[u]
           /\ \A u \in Threads : newthread(memory, t, new).space[u]
                = IF u = new THEN memory.space[t] ELSE memory.space[u]
  <1>1. memory \in Memories /\ t \in Threads /\ SpaceOf(memory, t) = memory.space[t]
        /\ memory.space[t] \in AnySpace
    BY MemoryType DEF Memories
  <1> QED
    BY <1>1, AllocatedIs DEF newthread

\* setidentity changes the space of the calling thread only.
LEMMA SetIdentityIs ==
    ASSUME ThreadInv, NEW t \in made, NEW n \in Identities
    PROVE  LET m == Write(memory, t, Space(n, Capabilities(n))) IN
           /\ m \in Memories /\ m.userdata = memory.userdata
           /\ \A u \in Threads : m.space[u]
                = IF u = t THEN Space(n, Capabilities(n)) ELSE memory.space[u]
  BY MemoryType, WriteIs, SpaceType, EncodedType

-----------------------------------------------------------------------------
(* Every step preserves the invariant of the threads.                      *)

\* Memory is in order when every thread of a set has its own space and its
\* identity and capabilities match.
InOrder(m, threads) ==
    /\ m \in Memories
    /\ \A t \in threads :
         /\ m.userdata[t] = t
         /\ m.space[t].identity \in Identities
         /\ m.space[t].capabilities \in {StudioGave, Capabilities(m.space[t].identity)}

LEMMA ThreadInvIs ==
    ThreadInv <=> /\ IdentityTypeOK /\ FamiliesOK /\ InOrder(memory, made)
  BY IdentityAssumption
  DEF ThreadInv, IdentityTypeOK, OwnSpaces, CapabilitiesMatch, SpaceOf, InOrder, Memories, AnySpace

\* What a step may do to the threads: memory stays in order, those that exist
\* keep their globals and their family, and new ones join a family, found one,
\* or (m_lsRoblox) have globals that nobody else has.
ThreadStep ==
    /\ made \subseteq made' /\ made' \subseteq Threads
    /\ InOrder(memory, made)'
    /\ gt' \in [Threads -> Threads] /\ family' \in [Threads -> Threads \cup {None}]
    /\ states \subseteq states' /\ states' \subseteq made' \cap SpareThreads
    /\ states' \cap made = states
    /\ roblox' \subseteq made' \ states' /\ executor' \in states' \cup {None}
    /\ \A t \in made : gt'[t] = gt[t] /\ family'[t] = family[t]
    /\ \A t \in Threads \ made' : family'[t] = family[t]
    /\ \A t \in made' \ made :
         \/ t \in states' /\ gt'[t] = t /\ family'[t] = t
         \/ t \notin states' /\ gt'[t] = t /\ family'[t] = None
         \/ t \notin states' /\ \E u \in made : gt'[t] = gt[u] /\ family'[t] = family[u]

CodeTypeOK ==
    /\ loaded \subseteq Protos /\ word \in [Protos -> Protos \cup {None}]
    /\ content \in [Protos -> Int] /\ granted \in [Protos -> Int]

LEMMA ThreadStepKeeps ==
    ASSUME ThreadInv, ThreadStep, CodeTypeOK'
    PROVE  ThreadInv'
  <1>1. FamiliesOK /\ IdentityTypeOK
    BY DEF ThreadInv
  <1>2. FamiliesOK'
    <2>1. ASSUME NEW t \in made'
          PROVE  /\ gt'[t] \in made'
                 /\ family'[t] = None => gt'[t] \notin states'
                 /\ family'[t] # None => family'[t] \in states' /\ gt'[t] = family'[t]
      <3>0. t # None /\ made \subseteq made' /\ states \subseteq states'
        BY <2>1, IdentityAssumption DEF ThreadStep
      <3>1. CASE t \in made
        BY <1>1, <3>0, <3>1 DEF FamiliesOK, ThreadStep
      <3>2. CASE t \notin made /\ \E u \in made : gt'[t] = gt[u] /\ family'[t] = family[u]
        BY <1>1, <3>0, <3>2 DEF FamiliesOK, ThreadStep
      <3>3. CASE t \notin made /\ gt'[t] = t /\ \/ t \in states' /\ family'[t] = t
                                                \/ t \notin states' /\ family'[t] = None
        BY <2>1, <3>0, <3>3
      <3> QED
        BY <2>1, <3>1, <3>2, <3>3 DEF ThreadStep
    <2>2. ASSUME NEW f \in states' PROVE family'[f] = f
      BY <1>1, <2>2 DEF FamiliesOK, ThreadStep
    <2>3. ASSUME NEW t \in Threads \ made' PROVE family'[t] = None
      BY <1>1, <2>3 DEF FamiliesOK, ThreadStep
    <2> QED
      BY <2>1, <2>2, <2>3 DEF FamiliesOK, Threads
  <1>3. IdentityTypeOK'
    <2>1. memory' \in Memories
      BY DEF ThreadStep, InOrder
    <2>2. \A t \in made' : memory'.userdata[t] # None /\ SpaceOf(memory', t).identity \in Identities
      BY IdentityAssumption DEF ThreadStep, InOrder, SpaceOf
    <2>3. made' \subseteq Threads /\ StudioThreads \subseteq made'
      BY <1>1 DEF ThreadStep, IdentityTypeOK
    <2>4. /\ gt' \in [Threads -> Threads] /\ family' \in [Threads -> Threads \cup {None}]
          /\ states' \subseteq made' \cap SpareThreads /\ roblox' \subseteq made' \ states'
          /\ executor' \in states' \cup {None}
      BY DEF ThreadStep
    <2> QED
      BY <2>1, <2>2, <2>3, <2>4 DEF IdentityTypeOK, CodeTypeOK, Memories, AnySpace, SpaceOf
  <1> QED
    BY <1>2, <1>3, ThreadInvIs DEF ThreadStep, ThreadInv, InOrder, OwnSpaces, CapabilitiesMatch,
                                    SpaceOf

\* The detour.
LEMMA DetourStep ==
    ASSUME ThreadInv, NEW L \in made, NEW nL \in SpareThreads, NEW rL \in SpareThreads,
           pseudo2addr__detour(L, nL, rL)
    PROVE  ThreadStep
  <1>1. IdentityTypeOK /\ memory \in Memories /\ nL \in Threads \ made /\ rL \in Threads \ made
        /\ nL # rL /\ L \in Threads
    BY MemoryType DEF ThreadInv, pseudo2addr__detour, Threads
  <1>2. PICK shared \in BOOLEAN : memory' = Grabbed(L, nL, rL, shared)
    BY DEF pseudo2addr__detour
  <1>3. InOrder(memory, made)'
    <2>0. made' = made \cup {nL, rL}
      BY DEF pseudo2addr__detour
    <2>1. memory' \in Memories
      BY <1>1, <1>2, GrabbedIs
    <2>2. ASSUME NEW t \in made'
          PROVE  /\ memory'.userdata[t] = t
                 /\ memory'.space[t].identity \in Identities
                 /\ memory'.space[t].capabilities
                      \in {StudioGave, Capabilities(memory'.space[t].identity)}
      <3>1. memory'.userdata[t] = t
        BY <1>1, <1>2, <2>0, GrabbedIs, MemoryType
      <3>2. CASE t = L
        BY <1>1, <1>2, <3>2, GrabbedIs, MemoryType, SecuredType
      <3>3. CASE t \in {nL, rL}
        BY <1>1, <1>2, <3>3, GrabbedIs, SecuredEight DEF Identities
      <3>4. CASE t \in made \ {L}
        BY <1>1, <1>2, <3>4, GrabbedIs, MemoryType
      <3> QED
        BY <2>0, <3>1, <3>2, <3>3, <3>4
    <2> QED
      BY <2>1, <2>2 DEF InOrder
  <1>4. /\ gt' = [gt EXCEPT ![nL] = nL, ![rL] = rL] /\ family' = [family EXCEPT ![nL] = nL]
        /\ made' = made \cup {nL, rL} /\ states' = states \cup {nL}
        /\ roblox' = roblox \cup {rL} /\ executor' = nL
    BY DEF pseudo2addr__detour, GlobalsCloned
  <1>5. gt' \in [Threads -> Threads] /\ family' \in [Threads -> Threads \cup {None}]
    BY <1>1, <1>4 DEF IdentityTypeOK
  <1>6. /\ \A t \in made : gt'[t] = gt[t] /\ family'[t] = family[t]
        /\ gt'[nL] = nL /\ family'[nL] = nL /\ gt'[rL] = rL
    BY <1>1, <1>4 DEF IdentityTypeOK
  <1>7. family'[rL] = family[rL]
    BY <1>1, <1>4 DEF IdentityTypeOK
  <1>8. family[rL] = None
    BY <1>1 DEF ThreadInv, FamiliesOK
  <1>9. states' \subseteq made' \cap SpareThreads /\ states' \cap made = states
        /\ roblox' \subseteq made' \ states' /\ made \subseteq made' /\ made' \subseteq Threads
    BY <1>1, <1>4 DEF IdentityTypeOK
  <1>10. \A t \in Threads \ made' : family'[t] = family[t]
    BY <1>1, <1>4 DEF IdentityTypeOK
  <1> QED
    BY <1>1, <1>3, <1>4, <1>5, <1>6, <1>7, <1>8, <1>9, <1>10 DEF ThreadStep

\* A job, however it ends.
LEMMA JobStep ==
    ASSUME ThreadInv, NEW t \in made, NEW new \in SpareThreads, execute_job(t, new)
    PROVE  ThreadStep
  <1>1. IdentityTypeOK /\ new \in Threads \ made /\ made' = made \cup {new}
        /\ memory' = JobSpace(t, new)
    BY DEF ThreadInv, execute_job, Threads
  <1>2. InOrder(memory, made)'
    BY <1>1, JobSpaceIs, MemoryType, SecuredEight DEF InOrder, Identities
  <1> QED
    BY <1>1, <1>2 DEF execute_job, ThreadStep, IdentityTypeOK

\* A coroutine.
LEMMA CoroutineStep ==
    ASSUME ThreadInv, NEW t \in made, NEW new \in SpareThreads, newcoroutine(t, new)
    PROVE  ThreadStep
  <1>1. IdentityTypeOK /\ new \in Threads \ made /\ made' = made \cup {new}
        /\ memory' = newthread(memory, t, new)
    BY DEF ThreadInv, newcoroutine, Threads
  <1>2. InOrder(memory, made)'
    BY <1>1, CoroutineSpaceIs, MemoryType DEF InOrder
  <1> QED
    BY <1>1, <1>2 DEF newcoroutine, ThreadStep, IdentityTypeOK

\* setidentity.
LEMMA SetIdentityStep ==
    ASSUME ThreadInv, NEW t \in made, NEW n \in SetTo, setidentity(t, n)
    PROVE  ThreadStep
  <1>1. IdentityTypeOK /\ n \in Identities /\ made' = made
        /\ memory' = Write(memory, t, Space(n, Capabilities(n)))
    BY IdentityAssumption DEF ThreadInv, setidentity, InRange, Identities
  <1>2. InOrder(memory, made)'
    BY <1>1, SetIdentityIs, MemoryType, SpaceType, EncodedType DEF InOrder
  <1> QED
    BY <1>1, <1>2 DEF setidentity, ThreadStep, IdentityTypeOK

\* A step that leaves the threads alone, or only forgets the state.
LEMMA QuietStep ==
    ASSUME ThreadInv, UNCHANGED <<made, memory, gt, states, roblox, family>>,
           executor' \in {executor, None}
    PROVE  ThreadStep
  BY ThreadInvIs DEF ThreadInv, ThreadStep, IdentityTypeOK, InOrder

\* What loading a chunk does, with the encodings computed.
LEMMA LoadIs ==
    ASSUME CodeTypeOK, NEW c \in Chunks, LoadElevated(c)
    PROVE  /\ WordFor(c) \in Protos
           /\ word' = [q \in Protos |-> IF q \in Inside[c] THEN WordFor(c) ELSE word[q]]
           /\ content' = [content EXCEPT ![WordFor(c)] = Full + Eight_Seven]
           /\ CodeTypeOK'
  <1>1. Capabilities(deobfuscate_identity(Eight_Seven)) = Full + Eight_Seven
    BY EightDecodes DEF Capabilities
  <1>2. Full + Eight_Seven \in Int
    BY DEF Full, Eight_Seven
  <1>3. c \in Protos /\ Inside[c] \subseteq Protos
    BY IdentityAssumption
  <1>4. WordFor(c) \in Protos
    BY <1>3 DEF WordFor, CodeTypeOK
  <1>5. /\ word' = [q \in Protos |-> IF q \in Inside[c] THEN WordFor(c) ELSE word[q]]
        /\ content' = [content EXCEPT ![WordFor(c)] = Full + Eight_Seven]
    BY <1>1 DEF LoadElevated, set_proto
  <1>6. word' \in [Protos -> Protos \cup {None}]
    BY <1>4, <1>5 DEF CodeTypeOK
  <1>7. content' \in [Protos -> Int]
    BY <1>2, <1>5 DEF CodeTypeOK
  <1>8. granted' \in [Protos -> Int]
    BY <1>2 DEF CodeTypeOK, LoadElevated
  <1> QED
    BY <1>3, <1>4, <1>5, <1>6, <1>7, <1>8 DEF CodeTypeOK, LoadElevated

\* Every step does to the code what its type allows.
LEMMA CodeTypeStep ==
    ASSUME CodeTypeOK, IdentityNext
    PROVE  CodeTypeOK'
  <1>1. ASSUME NEW c \in Chunks, LoadElevated(c) PROVE CodeTypeOK'
    BY <1>1, LoadIs
  <1>2. ASSUME NEW p \in loaded, clonefunction(p) PROVE CodeTypeOK'
    BY <1>2 DEF CodeTypeOK, clonefunction, set_proto, WordFor, Garbage
  <1>3. ASSUME NEW d \in Stubs, newlclosure(d) PROVE CodeTypeOK'
    BY <1>3, IdentityAssumption DEF CodeTypeOK, newlclosure
  <1>4. CASE UNCHANGED codeVars
    BY <1>4 DEF CodeTypeOK, codeVars
  <1> QED
    BY <1>1, <1>2, <1>3, <1>4
    DEF IdentityNext, pseudo2addr__detour, re_initialize, newcoroutine, execute_job, setidentity,
        lua_loadstring, codeVars

LEMMA ThreadInvStep ==
    ASSUME ThreadInv, [IdentityNext]_identityVars
    PROVE  ThreadInv' /\ (ThreadStep \/ UNCHANGED identityVars)
  <1>0. CodeTypeOK
    BY DEF ThreadInv, IdentityTypeOK, CodeTypeOK
  <1>1. CASE IdentityNext
    <2>1. CodeTypeOK'
      BY <1>0, <1>1, CodeTypeStep
    <2>2. ThreadStep
      <3>1. CASE re_initialize
        BY <3>1, QuietStep DEF re_initialize
      <3>2. CASE UNCHANGED threadVars
        BY <3>2, QuietStep DEF threadVars
      <3> QED
        BY <1>1, <3>1, <3>2, DetourStep, JobStep, CoroutineStep, SetIdentityStep
        DEF IdentityNext, lua_loadstring, newlclosure, clonefunction
    <2> QED
      BY <2>1, <2>2, ThreadStepKeeps
  <1>2. CASE UNCHANGED identityVars
    BY <1>2 DEF identityVars, ThreadInv, IdentityTypeOK, OwnSpaces, CapabilitiesMatch, FamiliesOK,
                SpaceOf
  <1> QED
    BY <1>1, <1>2

LEMMA ThreadInvInit == IdentityInit => ThreadInv
  <1> SUFFICES ASSUME IdentityInit PROVE ThreadInv
    OBVIOUS
  <1>1. \A t \in made : t \in StudioThreads /\ memory.space[t] = Space(StudioIs[t], StudioGave)
                        /\ memory.userdata[t] = t
    BY DEF IdentityInit, Threads
  <1>2. memory \in Memories
    <2>1. \A t \in Threads : (IF t \in StudioThreads THEN Space(StudioIs[t], StudioGave)
                                                     ELSE Uninitialised) \in AnySpace
      BY IdentityAssumption, SpaceType, UninitialisedType DEF StudioGave
    <2> QED
      BY <2>1 DEF IdentityInit, Memories, Threads
  <1>3. InOrder(memory, made)
    BY <1>1, <1>2, IdentityAssumption, SpaceType DEF InOrder, StudioGave
  <1>4. FamiliesOK
    BY IdentityAssumption DEF IdentityInit, FamiliesOK, Threads
  <1>5. CodeTypeOK
    BY IdentityAssumption DEF IdentityInit, CodeTypeOK, StudioGave, Garbage
  <1>6. IdentityTypeOK
    <2>1. \A t \in made : memory.userdata[t] # None /\ SpaceOf(memory, t).identity \in Identities
      BY <1>1, <1>3, IdentityAssumption DEF InOrder, SpaceOf, Threads
    <2> QED
      BY <1>2, <1>5, <2>1, IdentityAssumption
      DEF IdentityInit, IdentityTypeOK, CodeTypeOK, Memories, AnySpace, Threads
  <1> QED
    BY <1>3, <1>4, <1>6, ThreadInvIs

LEMMA ThreadInvCorrect == IdentitySpec => []ThreadInv
  <1>1. ThreadInv /\ [IdentityNext]_identityVars => ThreadInv'
    BY ThreadInvStep
  <1> QED
    BY <1>1, ThreadInvInit, PTL DEF IdentitySpec

-----------------------------------------------------------------------------
(* What holds of the threads.                                              *)

\* The memory and the sets of threads are what they should be, and every thread
\* has an identity that the range check allows, whatever scripts pass to setidentity.
THEOREM TypesCorrect == IdentitySpec => []IdentityTypeOK
  BY ThreadInvCorrect, PTL DEF ThreadInv

\* The capabilities of a thread fit its identity or are Studio's.
THEOREM CapabilitiesCorrect == IdentitySpec => []CapabilitiesMatch
  BY ThreadInvCorrect, PTL DEF ThreadInv

\* checkcaller recognises the threads of the scheduler's state and no others.
THEOREM CheckcallerCorrect == IdentitySpec => []CheckcallerKnowsOurs
  <1>1. ThreadInv => CheckcallerKnowsOurs
    <2> SUFFICES ASSUME ThreadInv, NEW t \in made
                 PROVE  checkcaller(t) <=> /\ executor # None /\ family[t] = executor
                                           /\ SpaceOf(memory, t).identity \in 4..9
      BY DEF CheckcallerKnowsOurs
    <2>1. /\ IdentityTypeOK /\ FamiliesOK
          /\ SpaceOf(memory, t).identity \in Identities /\ memory.userdata[t] # None
      BY MemoryType DEF ThreadInv, IdentityTypeOK
    <2>2. executor # None => executor \in states /\ executor \in made /\ family[executor] = executor
                             /\ gt[executor] = executor
      BY <2>1 DEF IdentityTypeOK, FamiliesOK
    <2>3. executor # None => (gt[t] = gt[executor] <=> family[t] = executor)
      BY <2>1, <2>2 DEF FamiliesOK
    <2> QED
      BY <2>1, <2>3 DEF checkcaller, Identities
  <1> QED
    BY <1>1, ThreadInvCorrect, PTL

\* The detour leaves what every thread's identity counts as.
LEMMA DetourRestores ==
    ASSUME ThreadInv, NEW L \in made, NEW nL \in SpareThreads, NEW rL \in SpareThreads,
           pseudo2addr__detour(L, nL, rL), NEW t \in made
    PROVE  Counts(t)' = Counts(t)
  <1>1. nL \in Threads \ made /\ rL \in Threads \ made /\ nL # rL
    BY DEF pseudo2addr__detour, Threads
  <1>2. PICK shared \in BOOLEAN : memory' = Grabbed(L, nL, rL, shared)
    BY DEF pseudo2addr__detour
  <1>3. t \in Threads /\ memory.userdata[t] = t /\ memory.space[L].identity \in Identities
    BY MemoryType
  <1>4. memory'.userdata[t] = t
    BY <1>1, <1>2, <1>3, GrabbedIs
  <1>5. CASE t = L
    BY <1>1, <1>2, <1>3, <1>4, <1>5, GrabbedIs, SecuredType DEF Counts, SpaceOf
  <1>6. CASE t # L
    BY <1>1, <1>2, <1>3, <1>4, <1>6, GrabbedIs DEF Counts, SpaceOf
  <1> QED
    BY <1>5, <1>6

\* What a thread's identity counts as is changed by its own setidentity alone:
\* the detour restores what it raised and no two threads share a space.
THEOREM IdentityKept == IdentitySpec => IdentityIsOwn
  <1> DEFINE Kept == \A t \in made : Counts(t)' # Counts(t) => \E n \in SetTo : setidentity(t, n)
  <1>1. ThreadInv /\ [IdentityNext]_identityVars => Kept
    <2> SUFFICES ASSUME ThreadInv, [IdentityNext]_identityVars, NEW t \in made,
                        Counts(t)' # Counts(t)
                 PROVE  \E n \in SetTo : setidentity(t, n)
      OBVIOUS
    <2>0. t \in Threads /\ memory.userdata[t] = t
      BY MemoryType
    <2>1. memory' # memory
      BY DEF Counts, SpaceOf
    <2>2. ASSUME NEW u \in made, NEW new \in SpareThreads, newcoroutine(u, new) PROVE FALSE
      <3>1. new \in Threads \ made /\ memory' = newthread(memory, u, new)
        BY <2>2 DEF newcoroutine, Threads
      <3> QED
        BY <2>0, <3>1, CoroutineSpaceIs DEF Counts, SpaceOf
    <2>3. ASSUME NEW u \in made, NEW new \in SpareThreads, execute_job(u, new) PROVE FALSE
      <3>1. new \in Threads \ made /\ memory' = JobSpace(u, new)
        BY <2>3 DEF execute_job, Threads
      <3> QED
        BY <2>0, <3>1, JobSpaceIs DEF Counts, SpaceOf
    <2>4. ASSUME NEW u \in made, NEW n \in SetTo, setidentity(u, n)
          PROVE  \E k \in SetTo : setidentity(t, k)
      <3>1. n \in Identities /\ memory' = Write(memory, u, Space(n, Capabilities(n)))
        BY <2>4, IdentityAssumption DEF setidentity, InRange, Identities
      <3>2. u = t
        BY <2>0, <3>1, SetIdentityIs DEF Counts, SpaceOf
      <3> QED
        BY <2>4, <3>2
    <2> QED
      BY <2>1, <2>2, <2>3, <2>4, DetourRestores
      DEF IdentityNext, identityVars, threadVars, re_initialize, lua_loadstring, newlclosure,
          clonefunction
  <1>2. IdentitySpec => [][Kept]_identityVars
    BY <1>1, ThreadInvCorrect, PTL DEF IdentitySpec
  <1> QED
    BY <1>2 DEF IdentityIsOwn

-----------------------------------------------------------------------------
(* The code.                                                               *)

CodeInv ==
    /\ CodeTypeOK
    /\ \A p \in loaded : Inside[p] \subseteq loaded
    /\ \A p \in Protos \ loaded : word[p] = None /\ granted[p] = Garbage
    /\ \A p \in Protos : word[p] # None => word[word[p]] # None
    /\ \A p \in Protos : \A q \in Inside[p] : granted[q] # Garbage => granted[p] = granted[q]
    /\ CodeKeepsCapabilities

LEMMA CodeInvInit == IdentityInit => CodeInv
  <1> SUFFICES ASSUME IdentityInit PROVE CodeInv
    OBVIOUS
  <1>1. PICK named \in BOOLEAN :
          /\ word = [p \in Protos |-> IF p \in StudioProtos /\ named THEN p ELSE None]
          /\ granted = [p \in Protos |-> IF p \in StudioProtos /\ named
                                         THEN StudioGave ELSE Garbage]
    BY DEF IdentityInit
  <1>2. content = [p \in Protos |-> IF p \in StudioProtos THEN StudioGave ELSE Garbage]
        /\ loaded = StudioProtos
    BY DEF IdentityInit
  <1> QED
    BY <1>1, <1>2, IdentityAssumption, NestingAssumption
    DEF CodeInv, CodeTypeOK, CodeKeepsCapabilities, StudioGave, Garbage

\* A chunk is new: it gets a word of its own, which nothing else points to.
LEMMA LoadKeeps ==
    ASSUME CodeInv, NEW c \in Chunks, LoadElevated(c)
    PROVE  CodeInv'
  <1>1. c \in Protos /\ c \in Inside[c] /\ c \notin loaded
    BY IdentityAssumption, NestingAssumption DEF LoadElevated
  <1>2. WordFor(c) = c /\ \A p \in Protos : word[p] # c
    BY <1>1, IdentityAssumption DEF CodeInv, WordFor
  <1>3. CodeTypeOK' /\ loaded' = loaded \cup Inside[c]
    BY LoadIs DEF CodeInv, LoadElevated
  <1>4. /\ \A p \in Protos : word'[p] = IF p \in Inside[c] THEN c ELSE word[p]
        /\ \A p \in Protos : granted'[p] = IF p \in Inside[c] THEN Full + Eight_Seven ELSE granted[p]
        /\ \A p \in Protos : content'[p] = IF p = c THEN Full + Eight_Seven ELSE content[p]
    <2>1. /\ word' = [q \in Protos |-> IF q \in Inside[c] THEN c ELSE word[q]]
          /\ content' = [content EXCEPT ![c] = Full + Eight_Seven]
      BY <1>2, LoadIs DEF CodeInv
    <2> QED
      BY <2>1 DEF LoadElevated, CodeInv, CodeTypeOK
  <1>5. \A p \in loaded' : Inside[p] \subseteq loaded'
    BY <1>1, <1>3, IdentityAssumption, NestingAssumption DEF CodeInv
  <1>6. \A p \in Protos \ loaded' : word'[p] = None /\ granted'[p] = Garbage
    BY <1>3, <1>4 DEF CodeInv
  <1>7. \A p \in Protos : word'[p] # None => word'[word'[p]] # None
    BY <1>1, <1>2, <1>4, IdentityAssumption DEF CodeInv, CodeTypeOK
  <1>8. \A p \in Protos : \A q \in Inside[p] : granted'[q] # Garbage => granted'[p] = granted'[q]
    <2> SUFFICES ASSUME NEW p \in Protos, NEW q \in Inside[p], granted'[q] # Garbage
                 PROVE  granted'[p] = granted'[q]
      OBVIOUS
    <2>1. q \in Protos
      BY IdentityAssumption
    <2>2. CASE q \in Inside[c]
      BY <1>1, <1>4, <2>1, <2>2, NestingAssumption
    <2>3. CASE q \notin Inside[c]
      BY <1>1, <1>4, <2>1, <2>3, NestingAssumption DEF CodeInv
    <2> QED
      BY <2>2, <2>3
  <1>9. CodeKeepsCapabilities'
    BY <1>1, <1>2, <1>4, IdentityAssumption DEF CodeInv, CodeTypeOK, CodeKeepsCapabilities
  <1> QED
    BY <1>3, <1>5, <1>6, <1>7, <1>8, <1>9 DEF CodeInv

\* A clone spreads a function's own word, or allocates one where none of the
\* functions inside it was given any.
LEMMA CloneKeeps ==
    ASSUME CodeInv, NEW p \in loaded, clonefunction(p)
    PROVE  CodeInv'
  <1>1. p \in Protos /\ p \in Inside[p] /\ p # None
    BY IdentityAssumption, NestingAssumption DEF CodeInv, CodeTypeOK
  <1>2. /\ CodeTypeOK' /\ loaded' = loaded /\ granted' = granted
        /\ \A q \in Protos : word'[q] = IF q \in Inside[p] THEN WordFor(p) ELSE word[q]
    BY DEF CodeInv, CodeTypeOK, clonefunction, set_proto, WordFor, Garbage
  <1>3. \A q \in Protos \ loaded' : word'[q] = None /\ granted'[q] = Garbage
    BY <1>1, <1>2 DEF CodeInv
  <1>4. CASE word[p] # None
    <2>1. WordFor(p) = word[p] /\ content' = content /\ word[p] \in Protos
      BY <1>1, <1>4 DEF WordFor, clonefunction, CodeInv, CodeTypeOK
    <2>2. \A q \in Protos : word'[q] # None => word'[word'[q]] # None
      BY <1>2, <1>4, <2>1 DEF CodeInv, CodeTypeOK
    <2>3. CodeKeepsCapabilities'
      BY <1>1, <1>2, <1>4, <2>1 DEF CodeInv, CodeKeepsCapabilities
    <2> QED
      BY <1>2, <1>3, <2>2, <2>3 DEF CodeInv
  <1>5. CASE word[p] = None
    <2>1. /\ WordFor(p) = p
          /\ \A q \in Protos : word[q] # p
          /\ \A q \in Protos \ {p} : content'[q] = content[q]
      BY <1>1, <1>5 DEF WordFor, clonefunction, CodeInv, CodeTypeOK
    <2>2. \A q \in Protos : word'[q] # None => word'[word'[q]] # None
      BY <1>1, <1>2, <2>1 DEF CodeInv, CodeTypeOK
    <2>3. \A q \in Inside[p] : granted[q] = Garbage
      BY <1>1, <1>5, IdentityAssumption DEF CodeInv, CodeKeepsCapabilities
    <2>4. CodeKeepsCapabilities'
      BY <1>1, <1>2, <2>1, <2>3 DEF CodeInv, CodeTypeOK, CodeKeepsCapabilities
    <2> QED
      BY <1>2, <1>3, <2>2, <2>4 DEF CodeInv
  <1> QED
    BY <1>4, <1>5

\* A stub has no word.
LEMMA StubKeeps ==
    ASSUME CodeInv, NEW d \in Stubs, newlclosure(d)
    PROVE  CodeInv'
  <1>1. /\ loaded' = loaded \cup Inside[d] /\ word' = word /\ granted' = granted
        /\ content' = content
    BY DEF newlclosure
  <1>2. \A p \in loaded' : Inside[p] \subseteq loaded'
    BY <1>1, IdentityAssumption, NestingAssumption DEF CodeInv
  <1> QED
    BY <1>1, <1>2, IdentityAssumption DEF CodeInv, CodeTypeOK, CodeKeepsCapabilities

\* Code keeps the capabilities it was loaded with: all functions of a chunk point
\* to its word, and a clone allocates one only where none was given.
THEOREM CapabilitiesKept == IdentitySpec => []CodeKeepsCapabilities
  <1>1. CodeInv /\ [IdentityNext]_identityVars => CodeInv'
    <2> SUFFICES ASSUME CodeInv, [IdentityNext]_identityVars PROVE CodeInv'
      OBVIOUS
    <2>1. CASE UNCHANGED codeVars
      BY <2>1 DEF codeVars, CodeInv, CodeTypeOK, CodeKeepsCapabilities
    <2> QED
      BY <2>1, LoadKeeps, CloneKeeps, StubKeeps
      DEF IdentityNext, identityVars, codeVars, pseudo2addr__detour, re_initialize, newcoroutine,
          execute_job, setidentity, lua_loadstring
  <1>2. CodeInv => CodeKeepsCapabilities
    BY DEF CodeInv
  <1> QED
    BY <1>1, <1>2, CodeInvInit, PTL DEF IdentitySpec
=============================================================================
