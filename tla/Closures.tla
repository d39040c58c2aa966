------------------------------ MODULE Closures ------------------------------
(***************************************************************************)
(* The closures of a VM as newcclosure, newlclosure, clonefunction and     *)
(* hookfunction make, copy and overwrite them, and the map closureMap from *)
(* wrappers to the closures they wrap.                                     *)
(*                                                                         *)
(* A closure is Lua (L) or C.  A C closure whose function is               *)
(* NewCClosureHandler (NC) calls what the map says; the Lua closures that  *)
(* ToLClosure makes (stubs) call what their environment holds.  Of         *)
(* environments only that is kept: whether they hold the target of a stub. *)
(***************************************************************************)
EXTENDS Integers, Sequences, FiniteSets

CONSTANTS
    Codes,            \* the code of natives and of functions of scripts
    Upvalues,         \* the values upvalues have
    InitialClosures,  \* the closures a script finds: natives and its own functions
    MaxClosures,      \* bound: how many closures are ever made
    MaxUnheld         \* bound: scripts drop a closure only if they hold almost all

\* A closure: Lua or C, its code, the upvalues written to its array, how many of
\* them count, how many the array has room for, and what a stub's environment holds.
ClosureType == [kind : {"Lua", "C"}, code : Codes \cup {"handler", "stub"},
                ups : Seq(Upvalues \cup {"garbage"}),
                nupvalues : Nat, room : Nat, target : Nat]
Closure(kind, code, ups) ==
    [kind |-> kind, code |-> code, ups |-> ups, nupvalues |-> Len(ups),
     room |-> Len(ups), target |-> 0]

ASSUME ClosuresAssumption ==
    /\ "handler" \notin Codes /\ "stub" \notin Codes
    /\ InitialClosures \in Seq(ClosureType)
    /\ \A i \in DOMAIN InitialClosures :
         LET cl == InitialClosures[i]
         IN  /\ cl.code \in Codes /\ cl.target = 0
             /\ cl.nupvalues = Len(cl.ups) /\ cl.room = Len(cl.ups)
    /\ MaxClosures \in Nat /\ MaxUnheld \in Nat

VARIABLES
    heap,        \* the closures ever made; a closure is its index
    closureMap,  \* wrapper to wrapped, a raw pointer
    held,        \* the closures scripts hold
    pinned,      \* the closures lua_ref keeps for good
    collected    \* the closures the collector has freed

closureVars == <<heap, closureMap, held, pinned, collected>>

Handler      == Closure("C", "handler", <<>>)
Stub(target) == [Closure("Lua", "stub", <<>>) EXCEPT !.target = target]

Ids  == 1..Len(heap)
New  == Len(heap) + 1
isC(c) == heap[c].kind = "C"
IsCClosureHandler(c) == isC(c) /\ heap[c].code = "handler"
HasTarget(c) == heap[c].target # 0
FindWrappedClosure(c) == closureMap[c]
Wrap(map, wrapper, original) ==                     \* AddWrappedClosure
    [c \in DOMAIN map \cup {wrapper} |-> IF c = wrapper THEN original ELSE map[c]]

\* An array of upvalues was overrun: what the program does next is not defined.
Overrun == \E c \in Ids : \/ heap[c].nupvalues > heap[c].room
                           \/ Len(heap[c].ups) > heap[c].room

\* A script calls a function of the library with closures it holds.
Calls(cs) == cs \subseteq held /\ ~Overrun

Room(n) == Len(heap) + n <= MaxClosures

ClosuresInit ==
    /\ heap = InitialClosures /\ closureMap = [c \in {} |-> 0]
    /\ held = Ids /\ pinned = {} /\ collected = {}

-----------------------------------------------------------------------------
(* newcclosure, newlclosure, clonefunction.                                *)

\* ToCClosure: a handler that wraps c, which is kept from collection.
newcclosure(c) ==
    /\ Calls({c}) /\ Room(1) /\ ~isC(c)
    /\ heap' = Append(heap, Handler)
    /\ closureMap' = Wrap(closureMap, New, c)
    /\ held' = held \cup {New} /\ pinned' = pinned \cup {c}
    /\ UNCHANGED collected

\* ToLClosure: a stub, kept from collection itself.
newlclosure(c) ==
    /\ Calls({c}) /\ Room(1) /\ isC(c)
    /\ heap' = Append(heap, Stub(c))
    /\ held' = held \cup {New} /\ pinned' = pinned \cup {New}
    /\ UNCHANGED <<closureMap, collected>>

\* The entry of a cloned wrapper.
CloneUnmapped(c, map) == map                                        \* mutant
CloneMapped(c, map) ==
    IF IsCClosureHandler(c) THEN Wrap(map, New, FindWrappedClosure(c)) ELSE map

\* A copy, with an array for the upvalues that count.  The environment of a Lua
\* closure is not copied (lua_clonefunction): the copy gets the caller's globals,
\* where the copy of a stub finds nothing to call.  Only stubs have a target, and
\* they are Lua, so the environment that a C closure keeps is not told apart.
Copy(c) == [heap[c] EXCEPT !.ups = SubSeq(@, 1, heap[c].nupvalues),
                           !.room = heap[c].nupvalues, !.target = 0]

clonefunction(c) ==
    /\ Calls({c}) /\ Room(1)
    /\ heap' = Append(heap, Copy(c))
    /\ closureMap' = CloneMapped(c, closureMap)
    /\ held' = held \cup {New}
    /\ UNCHANGED <<pinned, collected>>

-----------------------------------------------------------------------------
(* hookfunction(a, b), one action per pair of kinds it tells apart.  Each  *)
(* returns a closure that stands for what a was.                           *)

\* a's array after the first n elements of another are written to it; what lies
\* beyond the end of the other is garbage.
Overwritten(a, n, from) ==
    [i \in 1..n |-> IF i \in DOMAIN from.ups THEN from.ups[i] ELSE "garbage"]
        \o SubSeq(heap[a].ups, n + 1, Len(heap[a].ups))

EnvironmentKept(a, by, n) ==                                        \* mutant
    [heap[a] EXCEPT !.code = by.code, !.ups = Overwritten(a, n, by),
                    !.nupvalues = by.nupvalues]

\* Lua closure a becomes the Lua closure `by`, but receives n upvalues only.
Become(a, by, n) ==
    [heap[a] EXCEPT !.code = by.code, !.target = by.target,
                    !.ups = Overwritten(a, n, by), !.nupvalues = by.nupvalues]

HookLL(a, b) ==
    /\ Calls({a, b}) /\ Room(1) /\ ~isC(a) /\ ~isC(b)
    /\ heap' = Append([heap EXCEPT ![a] = Become(a, heap[b], heap[b].nupvalues)], Copy(a))
    /\ held' = held \cup {New}
    /\ UNCHANGED <<closureMap, pinned, collected>>

\* A new handler gets what a wrapped, then a wraps what b wraps.
OriginalReadLate(a, b) == FindWrappedClosure(b)                     \* mutant
OriginalWrapped(a, b)  == FindWrappedClosure(a)
HookNCNC(a, b) ==
    /\ Calls({a, b}) /\ Room(1) /\ IsCClosureHandler(a) /\ IsCClosureHandler(b)
    /\ heap' = Append(heap, Handler)
    /\ closureMap' = Wrap(Wrap(closureMap, New, OriginalWrapped(a, b)), a, FindWrappedClosure(b))
    /\ held' = held \cup {New} /\ pinned' = pinned \cup {OriginalWrapped(a, b)}
    /\ UNCHANGED collected

\* The closure b wraps, or a stub for it, takes b's place; the number of
\* upvalues that are copied is still that of b.
HookLNC(a, b) ==
    LET w == FindWrappedClosure(b)
    IN  /\ Calls({a, b}) /\ ~isC(a) /\ IsCClosureHandler(b)
        /\ \/ /\ isC(w) /\ Room(2)
              /\ heap' = [heap EXCEPT ![a] = Become(a, Stub(w), heap[b].nupvalues)]
                             \o <<Stub(w), Copy(a)>>
              /\ pinned' = pinned \cup {New}
           \/ /\ ~isC(w) /\ Room(1)
              /\ heap' = Append([heap EXCEPT ![a] = Become(a, heap[w], heap[b].nupvalues)],
                                Copy(a))
              /\ UNCHANGED pinned
        /\ held' = held \cup {Len(heap')}
        /\ UNCHANGED <<closureMap, collected>>

HookLC(a, b) ==
    /\ Calls({a, b}) /\ Room(2) /\ ~isC(a) /\ isC(b) /\ ~IsCClosureHandler(b)
    /\ heap' = [heap EXCEPT ![a] = Become(a, Stub(b), heap[b].nupvalues)]
                   \o <<Stub(b), Copy(a)>>
    /\ held' = held \cup {Len(heap')} /\ pinned' = pinned \cup {New}
    /\ UNCHANGED <<closureMap, collected>>

\* The hook is not kept from collection.
HookCL(a, b) ==
    /\ Calls({a, b}) /\ Room(1) /\ isC(a) /\ ~IsCClosureHandler(a) /\ ~isC(b)
    /\ heap' = Append([heap EXCEPT ![a] = [heap[a] EXCEPT !.code = "handler"]], Copy(a))
    /\ closureMap' = Wrap(closureMap, a, b)
    /\ held' = held \cup {New}
    /\ UNCHANGED <<pinned, collected>>

\* a takes over b's upvalues and becomes a handler that wraps w.
BecomeHandler(a, from) ==
    [heap[a] EXCEPT !.code = "handler", !.ups = Overwritten(a, from.nupvalues, from),
                    !.nupvalues = from.nupvalues]
HookC(a, b, w) ==
    /\ heap' = Append([heap EXCEPT ![a] = BecomeHandler(a, heap[b])], Copy(a))
    /\ closureMap' = Wrap(closureMap, a, w)
    /\ held' = held \cup {New}
    /\ UNCHANGED <<pinned, collected>>

\* More upvalues than a has are refused.
HookCNC(a, b) ==
    /\ Calls({a, b}) /\ Room(1)
    /\ isC(a) /\ ~IsCClosureHandler(a) /\ IsCClosureHandler(b)
    /\ heap[a].nupvalues >= heap[b].nupvalues
    /\ HookC(a, b, FindWrappedClosure(b))

\* A new handler gets what a wrapped, then a wraps b.
RewrapForgotten(map, a, b) == map                                   \* mutant
Rewrap(map, a, b) == Wrap(map, a, b)
HookNCAny(a, b) ==
    /\ Calls({a, b}) /\ Room(1) /\ IsCClosureHandler(a) /\ ~IsCClosureHandler(b)
    /\ heap' = Append(heap, Handler)
    /\ closureMap' = Wrap(Rewrap(closureMap, a, b), New, FindWrappedClosure(a))
    /\ held' = held \cup {New}
    /\ pinned' = IF isC(b) THEN pinned ELSE pinned \cup {b}
    /\ UNCHANGED collected

HookCC(a, b) ==
    /\ Calls({a, b}) /\ Room(1) /\ isC(a) /\ isC(b)
    /\ ~IsCClosureHandler(a) /\ ~IsCClosureHandler(b)
    /\ HookC(a, b, b)

hookfunction(a, b) == \/ HookLL(a, b) \/ HookNCNC(a, b) \/ HookLNC(a, b)
                      \/ HookLC(a, b) \/ HookCL(a, b) \/ HookCNC(a, b)
                      \/ HookNCAny(a, b) \/ HookCC(a, b)

-----------------------------------------------------------------------------
(* The collector, which knows nothing of closureMap.                       *)

\* A stub holds its target; nothing else holds a closure.
Reachable(roots) == roots \cup {heap[c].target : c \in {d \in roots : HasTarget(d)}}

\* A script no longer holds closure c.
Drop(c) == /\ c \in held /\ Cardinality(Ids \ held) < MaxUnheld
           /\ held' = held \ {c}
           /\ UNCHANGED <<heap, closureMap, pinned, collected>>

\* A cycle of the collector frees what is not reachable.
Collect == LET garbage == (Ids \ collected) \ Reachable(Reachable(Reachable(held \cup pinned)))
           IN  /\ garbage # {}
               /\ collected' = collected \cup garbage
               /\ UNCHANGED <<heap, closureMap, held, pinned>>

ClosuresNext ==
    \/ \E c \in held : newcclosure(c) \/ newlclosure(c) \/ clonefunction(c) \/ Drop(c)
    \/ \E a, b \in held : hookfunction(a, b)
    \/ Collect

ClosuresSpec == ClosuresInit /\ [][ClosuresNext]_closureVars

-----------------------------------------------------------------------------
(* What a call of a closure comes to.                                      *)

\* A stub that lost its target calls nothing: it raises an error.
Indirect(c) == IsCClosureHandler(c) \/ HasTarget(c)
CallsOn(c)  == IF IsCClosureHandler(c) THEN FindWrappedClosure(c) ELSE heap[c].target

\* The closures a call of c passes through (c, what it calls, and so on): those
\* in every set that contains c and whatever its members call.
StaysWithin(S) == \A d \in S : Indirect(d) => CallsOn(d) \in S
Chain(c) == {d \in Ids : \A S \in SUBSET Ids : c \in S /\ StaysWithin(S) => d \in S}

\* The code that runs in the end, with its upvalues ("stub" for an error); nothing
\* if the call goes round in a circle.
Behaviour(c) == {<<heap[d].code, SubSeq(heap[d].ups, 1, heap[d].nupvalues)>> :
                    d \in {e \in Chain(c) : ~Indirect(e)}}

Code(c) == {b[1] : b \in Behaviour(c)}

-----------------------------------------------------------------------------
(* Properties.                                                             *)

ClosuresTypeOK ==
    /\ heap \in Seq(ClosureType)
    /\ \A c \in Ids : /\ heap[c].target \in 0..Len(heap)
                      /\ HasTarget(c) => heap[c].code = "stub" /\ ~isC(c)
                      /\ Len(heap[c].ups) >= heap[c].room
    /\ DOMAIN closureMap \subseteq Ids /\ \A c \in DOMAIN closureMap : closureMap[c] \in Ids
    /\ held \subseteq Ids /\ pinned \subseteq Ids /\ collected \subseteq Ids

\* FindWrappedClosure dereferences what find returns: every handler, however it
\* came to be one, has its entry.
HandlersAreMapped == \A c \in Ids : IsCClosureHandler(c) => c \in DOMAIN closureMap

\* A function that scripts can call does not call a freed one.
CalleesAreAlive == \A c \in held : Chain(c) \cap collected = {}

\* What hookfunction returns still does what the hooked function did, unless that
\* was a stub, whose copy has lost its target, or called itself for ever; and
\* whoever does not call the hooked function is not affected.
HookIsLocal ==
    [][\A a, b \in held :
          hookfunction(a, b) /\ ~Overrun' /\ CalleesAreAlive =>
             /\ ~HasTarget(a) /\ Behaviour(a) # {}
                    => Behaviour(Len(heap))' = Behaviour(a)
             /\ \A c \in Ids : a \notin Chain(c) => Behaviour(c)' = Behaviour(c)]_closureVars

\* The hooked function runs the code of the hook, unless the hook calls it.
HookTakesEffect ==
    [][\A a, b \in held :
          hookfunction(a, b) /\ ~Overrun' /\ CalleesAreAlive /\ a \notin Chain(b)
             => Code(a)' = Code(b)]_closureVars
=============================================================================
