---------------------------- MODULE ClosuresProofs ----------------------------
(***************************************************************************)
(* Proofs about Closures, for any closures to start with and any number of *)
(* closures made: after every sequence of calls each handler has its entry *)
(* in closureMap, and heap, map and closures stay well formed; what        *)
(* hookfunction returns does what the hooked function did, if that was no  *)
(* stub, whoever does not call that one is not affected, and it runs the   *)
(* code of its hook.                                                       *)
(***************************************************************************)
EXTENDS Closures, SequenceTheorems, TLAPS

IsHandler(cl) == cl.kind = "C" /\ cl.code = "handler"

\* What an array of upvalues may hold.
Values == Upvalues \cup {"garbage"}

\* A closure of a heap of n closures.
Good(cl, n) ==
    /\ cl \in ClosureType /\ cl.target \in 0..n
    /\ cl.target # 0 => cl.code = "stub"
    /\ cl.code = "stub" => cl.kind = "Lua"
    /\ Len(cl.ups) >= cl.room

\* The map and the sets, in a heap of n closures.
MapTyped(map, n) == DOMAIN map \subseteq 1..n /\ \A c \in DOMAIN map : map[c] \in 1..n
SetsTyped(h, p, c, n) == h \subseteq 1..n /\ p \subseteq 1..n /\ c \subseteq 1..n

ClosuresInv ==
    /\ heap \in Seq(ClosureType)
    /\ \A c \in Ids : /\ Good(heap[c], Len(heap))
                      /\ IsHandler(heap[c]) => c \in DOMAIN closureMap
    /\ MapTyped(closureMap, Len(heap)) /\ SetsTyped(held, pinned, collected, Len(heap))

LEMMA InvMeans == ClosuresInv => ClosuresTypeOK /\ HandlersAreMapped
  BY DEF ClosuresInv, ClosuresTypeOK, HandlersAreMapped, Good, MapTyped, SetsTyped,
         Ids, IsCClosureHandler, isC, IsHandler, HasTarget

LEMMA InvInit == ClosuresInit => ClosuresInv
  <1> SUFFICES ASSUME ClosuresInit PROVE ClosuresInv
    OBVIOUS
  <1>1. heap \in Seq(ClosureType) /\ DOMAIN heap = Ids
    BY ClosuresAssumption DEF ClosuresInit, Ids
  <1>2. ASSUME NEW c \in Ids
        PROVE  Good(heap[c], Len(heap)) /\ ~IsHandler(heap[c])
    <2>1. heap[c] \in ClosureType
      BY <1>1
    <2>2. /\ heap[c].code \notin {"handler", "stub"} /\ heap[c].target = 0
          /\ heap[c].room = Len(heap[c].ups)
      BY <1>1, ClosuresAssumption DEF ClosuresInit
    <2>3. heap[c].room \in Nat
      BY <2>1 DEF ClosureType, Values
    <2> QED
      BY <1>1, <2>1, <2>2, <2>3 DEF Good, IsHandler
  <1> QED
    BY <1>1, <1>2 DEF ClosuresInit, ClosuresInv, MapTyped, SetsTyped, Ids

-----------------------------------------------------------------------------
(* The closures that the actions make.                                     *)

LEMMA HandlerGood == ASSUME NEW n \in Nat PROVE Good(Handler, n) /\ IsHandler(Handler)
  <1>1. Handler = [kind |-> "C", code |-> "handler", ups |-> <<>>, nupvalues |-> 0,
                   room |-> 0, target |-> 0]
    BY EmptySeq DEF Handler, Closure
  <1>2. Handler \in ClosureType
    <2>1. <<>> \in Seq(Values)
      BY EmptySeq
    <2> QED
      BY <1>1, <2>1 DEF ClosureType, Values
  <1>3. Len(Handler.ups) = 0 /\ Handler.room = 0
    BY <1>1, EmptySeq
  <1> QED
    BY <1>1, <1>2, <1>3 DEF Good, IsHandler

LEMMA StubGood ==
    ASSUME NEW n \in Nat, NEW w \in 1..n
    PROVE  Good(Stub(w), n) /\ ~IsHandler(Stub(w)) /\ Stub(w).kind = "Lua"
  <1>1. Stub(w) = [kind |-> "Lua", code |-> "stub", ups |-> <<>>, nupvalues |-> 0,
                   room |-> 0, target |-> w]
    <2>1. Closure("Lua", "stub", <<>>) =
            [kind |-> "Lua", code |-> "stub", ups |-> <<>>, nupvalues |-> 0,
             room |-> 0, target |-> 0]
      BY EmptySeq DEF Closure
    <2> QED
      BY <2>1 DEF Stub
  <1>2. Stub(w) \in ClosureType
    <2>1. <<>> \in Seq(Values) /\ w \in Nat
      BY EmptySeq
    <2> QED
      BY <1>1, <2>1 DEF ClosureType, Values
  <1>3. Len(Stub(w).ups) = 0 /\ Stub(w).room = 0
    BY <1>1, EmptySeq
  <1> QED
    BY <1>1, <1>2, <1>3 DEF Good, IsHandler

LEMMA GoodInLarger ==
    ASSUME NEW cl, NEW n \in Nat, NEW m \in Nat, n <= m, Good(cl, n)
    PROVE  Good(cl, m)
  BY DEF Good

LEMMA CopyGood ==
    ASSUME ClosuresInv, ~Overrun, NEW c \in Ids
    PROVE  Good(Copy(c), Len(heap)) /\ (IsHandler(Copy(c)) <=> IsHandler(heap[c]))
  <1> DEFINE cl == heap[c]
             part == SubSeq(cl.ups, 1, cl.nupvalues)
  <1>1. cl \in ClosureType /\ Good(cl, Len(heap))
    BY DEF ClosuresInv, Good
  <1>2. cl.ups \in Seq(Values) /\ cl.nupvalues \in Nat /\ cl.room \in Nat
    BY <1>1 DEF ClosureType, Values
  <1>3. cl.nupvalues <= Len(cl.ups)
    BY <1>1, <1>2 DEF Overrun, Good
  <1>4. \A i \in 1..cl.nupvalues : cl.ups[i] \in Values
    BY <1>2, <1>3
  <1>5. part \in Seq(Values) /\ Len(part) = cl.nupvalues
    BY <1>2, <1>4, SubSeqProperties
  <1>6. Copy(c) = [cl EXCEPT !.ups = part, !.room = cl.nupvalues, !.target = 0]
    BY DEF Copy
  <1> HIDE DEF part, cl
  <1>7. /\ Copy(c) \in ClosureType /\ Copy(c).kind = cl.kind /\ Copy(c).code = cl.code
        /\ Copy(c).target = 0 /\ Copy(c).ups = part /\ Copy(c).room = cl.nupvalues
    <2>1. Copy(c) = [kind |-> cl.kind, code |-> cl.code, ups |-> part,
                     nupvalues |-> cl.nupvalues, room |-> cl.nupvalues, target |-> 0]
      BY <1>1, <1>6 DEF ClosureType
    <2>2. 0 \in Nat /\ cl.kind \in {"Lua", "C"} /\ cl.code \in Codes \cup {"handler", "stub"}
      BY <1>1 DEF ClosureType
    <2> QED
      BY <1>2, <1>5, <2>1, <2>2 DEF ClosureType, Values
  <1>8. Good(Copy(c), Len(heap))
    BY <1>1, <1>2, <1>5, <1>7 DEF Good
  <1> QED
    BY <1>7, <1>8 DEF IsHandler, cl

LEMMA OverwrittenIsLonger ==
    ASSUME ClosuresInv, NEW a \in Ids, NEW n \in Nat, NEW from \in ClosureType
    PROVE  /\ Overwritten(a, n, from) \in Seq(Values)
           /\ Len(Overwritten(a, n, from)) >= Len(heap[a].ups)
  <1> DEFINE ups   == heap[a].ups
             front == [i \in 1..n |-> IF i \in DOMAIN from.ups THEN from.ups[i] ELSE "garbage"]
             rest  == SubSeq(ups, n + 1, Len(ups))
  <1>1. ups \in Seq(Values) /\ from.ups \in Seq(Values)
    BY DEF ClosuresInv, Good, ClosureType, Values
  <1>2. front \in Seq(Values) /\ Len(front) = n
    <2>1. \A i \in DOMAIN from.ups : from.ups[i] \in Values
      BY <1>1
    <2>2. \A i \in 1..n : front[i] \in Values
      BY <2>1 DEF Values
    <2>3. front \in [1..n -> Values]
      BY <2>2
    <2>4. front \in Seq(Values)
      BY <2>3, SeqDef
    <2> QED
      BY <2>3, <2>4, LenProperties
  <1>3. /\ rest \in Seq(Values)
        /\ Len(rest) = IF n + 1 <= Len(ups) THEN Len(ups) - n ELSE 0
    <2>1. \A i \in n + 1 .. Len(ups) : ups[i] \in Values
      BY <1>1
    <2> QED
      BY <1>1, <2>1, SubSeqProperties
  <1>4. Overwritten(a, n, from) = front \o rest
    BY DEF Overwritten
  <1> HIDE DEF ups, front, rest
  <1>5. Overwritten(a, n, from) \in Seq(Values) /\ Len(front \o rest) = Len(front) + Len(rest)
    BY <1>2, <1>3, <1>4, ConcatProperties
  <1> QED
    BY <1>1, <1>2, <1>3, <1>4, <1>5 DEF ups

LEMMA BecomeGood ==
    ASSUME ClosuresInv, NEW a \in Ids, ~isC(a), NEW m \in Nat, Len(heap) <= m,
           NEW by, Good(by, m), NEW n \in Nat
    PROVE  Good(Become(a, by, n), m) /\ ~IsHandler(Become(a, by, n))
  <1> DEFINE new == Become(a, by, n)
             ups == Overwritten(a, n, by)
  <1>1. Good(heap[a], Len(heap)) /\ heap[a] \in ClosureType /\ by \in ClosureType
    BY DEF ClosuresInv, Good
  <1>2. ups \in Seq(Values) /\ Len(ups) >= Len(heap[a].ups)
    BY <1>1, OverwrittenIsLonger
  <1>3. new = [heap[a] EXCEPT !.code = by.code, !.target = by.target, !.ups = ups,
                              !.nupvalues = by.nupvalues]
    BY DEF Become
  <1> HIDE DEF new, ups
  <1>4. /\ new \in ClosureType /\ new.kind = heap[a].kind /\ new.code = by.code
        /\ new.target = by.target /\ new.ups = ups /\ new.room = heap[a].room
    BY <1>1, <1>2, <1>3 DEF ClosureType, Values
  <1>5. Len(heap[a].ups) \in Nat /\ Len(ups) \in Nat /\ heap[a].room \in Nat
    BY <1>1, <1>2 DEF ClosureType, Values
  <1>6. Len(new.ups) >= new.room
    BY <1>1, <1>2, <1>4, <1>5 DEF Good
  <1>7. new.kind = "Lua"
    BY <1>1, <1>4 DEF isC, ClosureType
  <1>8. Good(new, m) /\ ~IsHandler(new)
    BY <1>4, <1>6, <1>7 DEF Good, IsHandler
  <1> QED
    BY <1>8 DEF new

-----------------------------------------------------------------------------
(* A step that replaces closure a and makes one or two new ones.           *)

\* What such a step leaves to show of the map and the sets.
MapGrows(n) ==
    /\ DOMAIN closureMap \subseteq DOMAIN closureMap'
    /\ MapTyped(closureMap', n) /\ SetsTyped(held', pinned', collected', n)

LEMMA OneMore ==
    ASSUME ClosuresInv, NEW a \in Ids, NEW cl, NEW d,
           Good(cl, New), Good(d, New),
           heap' = Append([heap EXCEPT ![a] = cl], d),
           IsHandler(cl) => a \in DOMAIN closureMap',
           IsHandler(d) => New \in DOMAIN closureMap',
           MapGrows(New)
    PROVE  ClosuresInv'
  <1> DEFINE changed == [heap EXCEPT ![a] = cl]
  <1>1. heap \in Seq(ClosureType) /\ Len(heap) \in Nat /\ cl \in ClosureType
        /\ d \in ClosureType
    BY LenProperties DEF ClosuresInv, Good
  <1>2. /\ changed \in Seq(ClosureType) /\ Len(changed) = Len(heap)
        /\ \A c \in Ids : changed[c] = IF c = a THEN cl ELSE heap[c]
    BY <1>1, ExceptSeq DEF Ids
  <1> HIDE DEF changed
  <1>3. /\ heap' \in Seq(ClosureType) /\ Len(heap') = New
        /\ \A c \in Ids : heap'[c] = changed[c]
        /\ heap'[New] = d
    BY <1>1, <1>2, AppendProperties DEF changed, New, Ids
  <1>4. ASSUME NEW c \in 1..New
        PROVE  Good(heap'[c], New) /\ (IsHandler(heap'[c]) => c \in DOMAIN closureMap')
    <2>1. CASE c = New
      BY <2>1, <1>3
    <2>2. CASE c = a
      BY <2>2, <1>2, <1>3
    <2>3. CASE c # New /\ c # a
      <3>1. c \in Ids /\ heap'[c] = heap[c]
        BY <2>3, <1>1, <1>2, <1>3 DEF New, Ids
      <3>2. Good(heap[c], New)
        BY <3>1, <1>1, GoodInLarger DEF ClosuresInv, New
      <3> QED
        BY <3>1, <3>2 DEF ClosuresInv, MapGrows
    <2> QED
      BY <2>1, <2>2, <2>3
  <1> QED
    BY <1>3, <1>4 DEF ClosuresInv, MapGrows, Ids

LEMMA TwoMore ==
    ASSUME ClosuresInv, NEW a \in Ids, NEW cl, NEW d, NEW e,
           Good(cl, New + 1), Good(d, New + 1), Good(e, New + 1),
           heap' = [heap EXCEPT ![a] = cl] \o <<d, e>>,
           ~IsHandler(cl), ~IsHandler(d), ~IsHandler(e),
           MapGrows(New + 1)
    PROVE  ClosuresInv'
  <1> DEFINE changed == [heap EXCEPT ![a] = cl]
  <1>1. heap \in Seq(ClosureType) /\ Len(heap) \in Nat /\ cl \in ClosureType
        /\ d \in ClosureType /\ e \in ClosureType
    BY LenProperties DEF ClosuresInv, Good
  <1>2. /\ changed \in Seq(ClosureType) /\ Len(changed) = Len(heap)
        /\ \A c \in Ids : changed[c] = IF c = a THEN cl ELSE heap[c]
    BY <1>1, ExceptSeq DEF Ids
  <1>3. <<d, e>> \in Seq(ClosureType) /\ Len(<<d, e>>) = 2
    BY <1>1
  <1> HIDE DEF changed
  <1>4. /\ heap' \in Seq(ClosureType) /\ Len(heap') = Len(heap) + 2
        /\ \A c \in 1..Len(heap) + 2 :
              heap'[c] = IF c <= Len(heap) THEN changed[c] ELSE <<d, e>>[c - Len(heap)]
    BY <1>1, <1>2, <1>3, ConcatProperties DEF changed
  <1>5. /\ Len(heap') = New + 1 /\ heap'[New] = d /\ heap'[New + 1] = e
        /\ \A c \in Ids : heap'[c] = changed[c]
    BY <1>1, <1>4 DEF New, Ids
  <1>6. ASSUME NEW c \in 1..New + 1
        PROVE  Good(heap'[c], New + 1) /\ (IsHandler(heap'[c]) => c \in DOMAIN closureMap')
    <2>1. CASE c \in {New, New + 1}
      BY <2>1, <1>5
    <2>2. CASE c = a
      BY <2>2, <1>2, <1>5
    <2>3. CASE c \notin {New, New + 1, a}
      <3>1. c \in Ids /\ heap'[c] = heap[c]
        BY <2>3, <1>1, <1>2, <1>5 DEF New, Ids
      <3>2. Good(heap[c], New + 1)
        BY <3>1, <1>1, GoodInLarger DEF ClosuresInv, New
      <3> QED
        BY <3>1, <3>2 DEF ClosuresInv, MapGrows
    <2> QED
      BY <2>1, <2>2, <2>3
  <1> QED
    BY <1>4, <1>5, <1>6 DEF ClosuresInv, MapGrows, Ids

-----------------------------------------------------------------------------
(* What the hooks of C closures and of wrappers have in common.            *)

LEMMA BecomeHandlerGood ==
    ASSUME ClosuresInv, NEW a \in Ids, isC(a), NEW b \in Ids
    PROVE  /\ Good(BecomeHandler(a, heap[b]), Len(heap))
           /\ Good([heap[a] EXCEPT !.code = "handler"], Len(heap))
  <1> DEFINE n == heap[b].nupvalues
             ups == Overwritten(a, n, heap[b])
             new == BecomeHandler(a, heap[b])
             renamed == [heap[a] EXCEPT !.code = "handler"]
  <1>1. Good(heap[a], Len(heap)) /\ heap[a] \in ClosureType /\ heap[b] \in ClosureType
    BY DEF ClosuresInv, Good
  <1>2. n \in Nat
    BY <1>1 DEF ClosureType
  <1>3. ups \in Seq(Values) /\ Len(ups) >= Len(heap[a].ups)
    BY <1>1, <1>2, OverwrittenIsLonger
  <1>4. heap[a].kind = "C" /\ heap[a].target = 0
    BY <1>1 DEF isC, Good
  <1>5. new = [heap[a] EXCEPT !.code = "handler", !.ups = ups, !.nupvalues = n]
    BY DEF BecomeHandler
  <1> HIDE DEF new, ups, n
  <1>6. /\ new \in ClosureType /\ new.kind = "C" /\ new.code = "handler"
        /\ new.target = 0 /\ new.ups = ups /\ new.room = heap[a].room
    BY <1>1, <1>2, <1>3, <1>4, <1>5 DEF ClosureType, Values
  <1>7. Len(heap[a].ups) \in Nat /\ Len(ups) \in Nat /\ heap[a].room \in Nat
    BY <1>1, <1>3 DEF ClosureType, Values
  <1>8. Len(heap) \in Nat
    BY LenProperties DEF ClosuresInv
  <1>9. Good(new, Len(heap))
    BY <1>1, <1>3, <1>6, <1>7, <1>8 DEF Good
  <1>10. /\ renamed \in ClosureType /\ renamed.kind = "C" /\ renamed.code = "handler"
         /\ renamed.target = 0 /\ renamed.ups = heap[a].ups /\ renamed.room = heap[a].room
    BY <1>1, <1>4 DEF ClosureType
  <1>11. Good(renamed, Len(heap))
    BY <1>1, <1>8, <1>10 DEF Good
  <1> QED
    BY <1>9, <1>11 DEF new

\* A handler has its entry, which names a closure.
LEMMA HandlerWraps ==
    ASSUME ClosuresInv, NEW c \in Ids, IsCClosureHandler(c)
    PROVE  FindWrappedClosure(c) \in Ids
  BY DEF ClosuresInv, IsCClosureHandler, isC, IsHandler, FindWrappedClosure, MapTyped, Ids

\* A step that makes one closure d and touches no other.
LEMMA JustOneMore ==
    ASSUME ClosuresInv, NEW a \in Ids, NEW d, Good(d, New), heap' = Append(heap, d),
           IsHandler(d) => New \in DOMAIN closureMap', MapGrows(New)
    PROVE  ClosuresInv'
  <1>1. heap = [heap EXCEPT ![a] = heap[a]]
    BY DEF ClosuresInv, Ids
  <1>2. Good(heap[a], New) /\ (IsHandler(heap[a]) => a \in DOMAIN closureMap')
    <2>1. Len(heap) \in Nat
      BY LenProperties DEF ClosuresInv
    <2> QED
      BY <2>1, GoodInLarger DEF ClosuresInv, MapGrows, New
  <1>3. heap' = Append([heap EXCEPT ![a] = heap[a]], d)
    BY <1>1
  <1> QED
    BY <1>2, <1>3, OneMore

-----------------------------------------------------------------------------
(* The steps.                                                              *)

\* What every call of the library starts from.
LEMMA CallFacts ==
    ASSUME ClosuresInv, NEW cs, Calls(cs)
    PROVE  /\ cs \subseteq Ids /\ ~Overrun
           /\ Len(heap) \in Nat /\ New = Len(heap) + 1 /\ New \in Nat
           /\ Ids = 1..Len(heap) /\ Ids \subseteq 1..New /\ New \in 1..New
           /\ held \subseteq Ids /\ pinned \subseteq Ids /\ collected \subseteq Ids
           /\ MapTyped(closureMap, Len(heap))
  BY LenProperties DEF ClosuresInv, Calls, SetsTyped, Ids, New

LEMMA WrapInNew ==
    ASSUME ClosuresInv, NEW cs, Calls(cs), NEW w \in 1..New, NEW o \in 1..New
    PROVE  /\ MapTyped(Wrap(closureMap, w, o), New)
           /\ DOMAIN Wrap(closureMap, w, o) = DOMAIN closureMap \cup {w}
  <1>1. /\ Len(heap) \in Nat /\ New \in Nat /\ Len(heap) <= New
        /\ MapTyped(closureMap, Len(heap))
    BY CallFacts
  <1>2. 1..Len(heap) \subseteq 1..New
    BY <1>1
  <1> QED
    BY <1>1, <1>2 DEF MapTyped, Wrap

LEMMA NewClosuresStep ==
    ASSUME ClosuresInv, NEW c \in held, newcclosure(c) \/ newlclosure(c) \/ clonefunction(c)
    PROVE  ClosuresInv'
  <1>1. Calls({c})
    BY DEF newcclosure, newlclosure, clonefunction
  <1>2. c \in Ids
    BY <1>1, CallFacts
  <1>3. CASE newcclosure(c)
    <2>1. MapTyped(closureMap', New) /\ DOMAIN closureMap' = DOMAIN closureMap \cup {New}
      <3>1. c \in 1..New /\ New \in 1..New
        BY <1>1, <1>2, CallFacts
      <3>2. closureMap' = Wrap(closureMap, New, c)
        BY <1>3 DEF newcclosure
      <3> QED
        BY <1>1, <3>1, <3>2, WrapInNew
    <2>2. MapGrows(New)
      BY <1>1, <1>2, <1>3, <2>1, CallFacts DEF newcclosure, MapGrows, SetsTyped
    <2>3. Good(Handler, New) /\ heap' = Append(heap, Handler)
      BY <1>1, <1>3, CallFacts, HandlerGood DEF newcclosure
    <2> QED
      BY <1>2, <2>1, <2>2, <2>3, JustOneMore
  <1>4. CASE newlclosure(c)
    <2>1. MapGrows(New)
      BY <1>1, <1>2, <1>4, CallFacts DEF newlclosure, MapGrows, SetsTyped, MapTyped
    <2>2. Good(Stub(c), New) /\ ~IsHandler(Stub(c)) /\ heap' = Append(heap, Stub(c))
      BY <1>1, <1>2, <1>4, CallFacts, StubGood DEF newlclosure
    <2> QED
      BY <1>2, <2>1, <2>2, JustOneMore
  <1>5. CASE clonefunction(c)
    <2>1. Good(Copy(c), New) /\ (IsHandler(Copy(c)) <=> IsHandler(heap[c]))
      BY <1>1, <1>2, CallFacts, CopyGood, GoodInLarger
    <2>2. heap' = Append(heap, Copy(c)) /\ closureMap' = CloneMapped(c, closureMap)
      BY <1>5 DEF clonefunction
    <2>3. IsHandler(heap[c]) <=> IsCClosureHandler(c)
      BY DEF IsHandler, IsCClosureHandler, isC
    <2>4. CASE IsCClosureHandler(c)
      <3>1. closureMap' = Wrap(closureMap, New, FindWrappedClosure(c))
        BY <2>2, <2>4 DEF CloneMapped
      <3>2. FindWrappedClosure(c) \in 1..New
        BY <1>1, <1>2, <2>4, CallFacts, HandlerWraps
      <3>3. MapTyped(closureMap', New) /\ DOMAIN closureMap' = DOMAIN closureMap \cup {New}
        <4>1. New \in 1..New
          BY <1>1, CallFacts
        <4> QED
          BY <1>1, <3>1, <3>2, <4>1, WrapInNew
      <3>4. MapGrows(New)
        BY <1>1, <1>5, <3>3, CallFacts DEF clonefunction, MapGrows, SetsTyped
      <3> QED
        BY <1>2, <2>1, <2>2, <3>3, <3>4, JustOneMore
    <2>5. CASE ~IsCClosureHandler(c)
      <3>1. closureMap' = closureMap
        BY <2>2, <2>5 DEF CloneMapped
      <3>2. MapGrows(New)
        BY <1>1, <1>5, <3>1, CallFacts DEF clonefunction, MapGrows, SetsTyped, MapTyped
      <3> QED
        BY <1>2, <2>1, <2>2, <2>3, <2>5, <3>2, JustOneMore
    <2> QED
      BY <2>4, <2>5
  <1> QED
    BY <1>3, <1>4, <1>5

\* The hooks of Lua closures.
LEMMA HookLuaStep ==
    ASSUME ClosuresInv, NEW a \in held, NEW b \in held,
           HookLL(a, b) \/ HookLNC(a, b) \/ HookLC(a, b)
    PROVE  ClosuresInv'
  <1>1. Calls({a, b}) /\ ~isC(a)
    BY DEF HookLL, HookLNC, HookLC
  <1>2. a \in Ids /\ b \in Ids
    BY <1>1, CallFacts
  <1>3. /\ Good(Copy(a), New) /\ Good(Copy(a), New + 1) /\ ~IsHandler(Copy(a))
    <2>1. Good(Copy(a), Len(heap)) /\ ~IsHandler(Copy(a))
      BY <1>1, <1>2, CallFacts, CopyGood DEF IsHandler, isC
    <2> QED
      BY <1>1, <2>1, CallFacts, GoodInLarger
  <1>4. heap[b].nupvalues \in Nat
    BY <1>2 DEF ClosuresInv, Good, ClosureType
  <1>5. ASSUME NEW w \in Ids, NEW n \in Nat
        PROVE  Good(Become(a, heap[w], n), New) /\ ~IsHandler(Become(a, heap[w], n))
    <2>1. Good(heap[w], New)
      BY <1>1, CallFacts, GoodInLarger DEF ClosuresInv
    <2> QED
      BY <1>1, <1>2, <2>1, CallFacts, BecomeGood
  <1>6. ASSUME NEW w \in Ids, NEW n \in Nat
        PROVE  /\ Good(Become(a, Stub(w), n), New + 1) /\ ~IsHandler(Become(a, Stub(w), n))
               /\ Good(Stub(w), New + 1) /\ ~IsHandler(Stub(w))
    <2>1. w \in 1..New + 1 /\ New + 1 \in Nat /\ Len(heap) <= New + 1
      BY <1>1, CallFacts
    <2>2. Good(Stub(w), New + 1) /\ ~IsHandler(Stub(w))
      BY <2>1, StubGood
    <2> QED
      BY <1>1, <1>2, <2>1, <2>2, BecomeGood
  <1>7. ASSUME UNCHANGED <<closureMap, collected>>,
               held' = held \cup {New}, pinned' = pinned
        PROVE  MapGrows(New)
    BY <1>1, <1>7, CallFacts DEF MapGrows, SetsTyped, MapTyped
  <1>8. ASSUME UNCHANGED <<closureMap, collected>>,
               held' = held \cup {New + 1}, pinned' = pinned \cup {New}
        PROVE  MapGrows(New + 1)
    BY <1>1, <1>8, CallFacts DEF MapGrows, SetsTyped, MapTyped
  <1>9. CASE HookLL(a, b)
    BY <1>2, <1>3, <1>4, <1>5, <1>7, <1>9, OneMore DEF HookLL
  <1>10. ASSUME NEW w \in Ids,
                heap' = [heap EXCEPT ![a] = Become(a, Stub(w), heap[b].nupvalues)]
                            \o <<Stub(w), Copy(a)>>,
                held' = held \cup {Len(heap')}, pinned' = pinned \cup {New},
                UNCHANGED <<closureMap, collected>>
         PROVE  ClosuresInv'
    <2>1. Len(heap') = New + 1
      <3>1. /\ [heap EXCEPT ![a] = Become(a, Stub(w), heap[b].nupvalues)] \in Seq(ClosureType)
            /\ Len([heap EXCEPT ![a] = Become(a, Stub(w), heap[b].nupvalues)]) = Len(heap)
        <4>1. Become(a, Stub(w), heap[b].nupvalues) \in ClosureType
          BY <1>4, <1>6 DEF Good
        <4>2. heap \in Seq(ClosureType) /\ a \in 1..Len(heap)
          BY <1>2 DEF ClosuresInv, Ids
        <4> QED
          BY <4>1, <4>2, ExceptSeq
      <3>2. <<Stub(w), Copy(a)>> \in Seq(ClosureType) /\ Len(<<Stub(w), Copy(a)>>) = 2
        BY <1>3, <1>4, <1>6 DEF Good
      <3> QED
        BY <1>1, <1>10, <3>1, <3>2, CallFacts, ConcatProperties
    <2>2. MapGrows(New + 1)
      BY <1>8, <1>10, <2>1
    <2> QED
      BY <1>2, <1>3, <1>4, <1>6, <1>10, <2>2, TwoMore
  <1>11. CASE HookLNC(a, b)
    <2> DEFINE w == FindWrappedClosure(b)
    <2>1. w \in Ids
      BY <1>2, <1>11, HandlerWraps DEF HookLNC
    <2>2. CASE isC(w)
      BY <1>10, <1>11, <2>1, <2>2 DEF HookLNC
    <2>3. CASE ~isC(w)
      <3>1. /\ heap' = Append([heap EXCEPT ![a] = Become(a, heap[w], heap[b].nupvalues)],
                              Copy(a))
            /\ held' = held \cup {Len(heap')} /\ pinned' = pinned
            /\ UNCHANGED <<closureMap, collected>>
        BY <1>11, <2>3 DEF HookLNC
      <3>2. Len(heap') = New
        <4>1. /\ [heap EXCEPT ![a] = Become(a, heap[w], heap[b].nupvalues)] \in Seq(ClosureType)
              /\ Len([heap EXCEPT ![a] = Become(a, heap[w], heap[b].nupvalues)]) = Len(heap)
          BY <1>2, <1>4, <1>5, <2>1, ExceptSeq DEF ClosuresInv, Good, Ids
        <4> QED
          BY <1>1, <1>3, <3>1, <4>1, CallFacts, AppendProperties DEF Good
      <3> QED
        BY <1>2, <1>3, <1>4, <1>5, <1>7, <2>1, <3>1, <3>2, OneMore
    <2> QED
      BY <2>2, <2>3
  <1>12. CASE HookLC(a, b)
    BY <1>2, <1>10, <1>12 DEF HookLC
  <1> QED
    BY <1>9, <1>11, <1>12

\* The hooks of wrappers.
LEMMA HookWrapperStep ==
    ASSUME ClosuresInv, NEW a \in held, NEW b \in held, HookNCNC(a, b) \/ HookNCAny(a, b)
    PROVE  ClosuresInv'
  <1>1. Calls({a, b}) /\ IsCClosureHandler(a)
    BY DEF HookNCNC, HookNCAny
  <1>2. /\ a \in Ids /\ b \in Ids /\ a \in 1..New /\ b \in 1..New
        /\ New \in Nat /\ New \in 1..New /\ Len(heap) <= New
    BY <1>1, CallFacts
  <1>3. FindWrappedClosure(a) \in Ids /\ FindWrappedClosure(a) \in 1..New
    BY <1>1, <1>2, CallFacts, HandlerWraps
  <1>4. heap' = Append(heap, Handler) /\ Good(Handler, New)
    BY <1>2, HandlerGood DEF HookNCNC, HookNCAny
  <1>5. ASSUME MapTyped(closureMap', New),
               DOMAIN closureMap' = DOMAIN closureMap \cup {a, New},
               held' = held \cup {New}, pinned' \subseteq pinned \cup Ids,
               collected' = collected
        PROVE  ClosuresInv'
    <2>1. MapGrows(New)
      BY <1>1, <1>5, CallFacts DEF MapGrows, SetsTyped
    <2> QED
      BY <1>2, <1>4, <1>5, <2>1, JustOneMore
  <1>6. ASSUME NEW w \in 1..New, NEW o \in 1..New
        PROVE  LET first  == Wrap(closureMap, New, w)
                   second == Wrap(closureMap, a, o)
               IN  /\ MapTyped(Wrap(first, a, o), New)
                   /\ DOMAIN Wrap(first, a, o) = DOMAIN closureMap \cup {a, New}
                   /\ MapTyped(Wrap(second, New, w), New)
                   /\ DOMAIN Wrap(second, New, w) = DOMAIN closureMap \cup {a, New}
    <2>1. MapTyped(closureMap, New)
      BY <1>1, <1>2, CallFacts DEF MapTyped
    <2> QED
      BY <1>2, <2>1 DEF MapTyped, Wrap
  <1>7. CASE HookNCNC(a, b)
    <2>1. FindWrappedClosure(b) \in 1..New
      BY <1>1, <1>2, <1>7, CallFacts, HandlerWraps DEF HookNCNC
    <2>2. /\ closureMap' = Wrap(Wrap(closureMap, New, FindWrappedClosure(a)), a,
                                FindWrappedClosure(b))
          /\ held' = held \cup {New} /\ pinned' = pinned \cup {FindWrappedClosure(a)}
          /\ collected' = collected
      BY <1>7 DEF HookNCNC, OriginalWrapped
    <2> QED
      BY <1>3, <1>5, <1>6, <2>1, <2>2
  <1>8. CASE HookNCAny(a, b)
    <2>1. /\ closureMap' = Wrap(Wrap(closureMap, a, b), New, FindWrappedClosure(a))
          /\ held' = held \cup {New} /\ pinned' \subseteq pinned \cup {b}
          /\ collected' = collected
      BY <1>8 DEF HookNCAny, Rewrap
    <2> QED
      BY <1>2, <1>3, <1>5, <1>6, <2>1
  <1> QED
    BY <1>7, <1>8

\* The hooks of natives.
LEMMA HookNativeStep ==
    ASSUME ClosuresInv, NEW a \in held, NEW b \in held,
           HookCL(a, b) \/ HookCNC(a, b) \/ HookCC(a, b)
    PROVE  ClosuresInv'
  <1>1. Calls({a, b}) /\ isC(a) /\ ~IsCClosureHandler(a)
    BY DEF HookCL, HookCNC, HookCC
  <1>2. /\ a \in Ids /\ b \in Ids /\ a \in 1..New /\ b \in 1..New
        /\ New \in Nat /\ Len(heap) \in Nat /\ Len(heap) <= New
    BY <1>1, CallFacts
  <1>3. Good(Copy(a), New) /\ ~IsHandler(Copy(a))
    <2>1. Good(Copy(a), Len(heap)) /\ ~IsHandler(Copy(a))
      BY <1>1, <1>2, CallFacts, CopyGood DEF IsHandler, IsCClosureHandler
    <2> QED
      BY <1>2, <2>1, GoodInLarger
  <1>4. /\ Good(BecomeHandler(a, heap[b]), New)
        /\ Good([heap[a] EXCEPT !.code = "handler"], New)
    BY <1>1, <1>2, BecomeHandlerGood, GoodInLarger
  <1>5. ASSUME NEW w \in Ids, closureMap' = Wrap(closureMap, a, w),
               held' = held \cup {New}, UNCHANGED <<pinned, collected>>
        PROVE  MapGrows(New) /\ a \in DOMAIN closureMap'
    <2>1. w \in 1..New
      BY <1>1, CallFacts
    <2>2. MapTyped(closureMap', New) /\ DOMAIN closureMap' = DOMAIN closureMap \cup {a}
      BY <1>1, <1>2, <1>5, <2>1, WrapInNew
    <2> QED
      BY <1>1, <1>5, <2>2, CallFacts DEF MapGrows, SetsTyped
  <1>6. CASE HookCL(a, b)
    <2>1. /\ heap' = Append([heap EXCEPT ![a] = [heap[a] EXCEPT !.code = "handler"]], Copy(a))
          /\ closureMap' = Wrap(closureMap, a, b)
          /\ held' = held \cup {New} /\ UNCHANGED <<pinned, collected>>
      BY <1>6 DEF HookCL
    <2> QED
      BY <1>2, <1>3, <1>4, <1>5, <2>1, OneMore
  <1>7. ASSUME NEW w \in Ids, HookC(a, b, w)
        PROVE  ClosuresInv'
    <2>1. /\ heap' = Append([heap EXCEPT ![a] = BecomeHandler(a, heap[b])], Copy(a))
          /\ closureMap' = Wrap(closureMap, a, w)
          /\ held' = held \cup {New} /\ UNCHANGED <<pinned, collected>>
      BY <1>7 DEF HookC
    <2> QED
      BY <1>2, <1>3, <1>4, <1>5, <2>1, OneMore
  <1>8. CASE HookCNC(a, b)
    BY <1>2, <1>7, <1>8, HandlerWraps DEF HookCNC
  <1>9. CASE HookCC(a, b)
    BY <1>2, <1>7, <1>9 DEF HookCC
  <1> QED
    BY <1>6, <1>8, <1>9

LEMMA InvStep == ClosuresInv /\ [ClosuresNext]_closureVars => ClosuresInv'
  <1> SUFFICES ASSUME ClosuresInv, [ClosuresNext]_closureVars
               PROVE  ClosuresInv'
    OBVIOUS
  <1>1. ASSUME NEW c \in held, newcclosure(c) \/ newlclosure(c) \/ clonefunction(c)
        PROVE  ClosuresInv'
    BY <1>1, NewClosuresStep
  <1>2. ASSUME NEW a \in held, NEW b \in held, hookfunction(a, b)
        PROVE  ClosuresInv'
    BY <1>2, HookLuaStep, HookWrapperStep, HookNativeStep DEF hookfunction
  <1>3. ASSUME UNCHANGED <<heap, closureMap, pinned>>, held' \subseteq held,
               collected' \subseteq collected \cup Ids
        PROVE  ClosuresInv'
    BY <1>3 DEF ClosuresInv, SetsTyped, Ids
  <1>4. ASSUME NEW c \in held, Drop(c)
        PROVE  ClosuresInv'
    BY <1>3, <1>4 DEF Drop
  <1>5. CASE Collect
    BY <1>3, <1>5 DEF Collect
  <1>6. CASE UNCHANGED closureVars
    BY <1>3, <1>6 DEF closureVars
  <1> QED
    BY <1>1, <1>2, <1>4, <1>5, <1>6 DEF ClosuresNext

\* FindWrappedClosure always finds: no sequence of newcclosure, clonefunction and
\* the eight cases of hookfunction leaves a handler without an entry, whatever
\* the closures to start with and with or without a collector.
THEOREM HandlersHaveEntries == ClosuresSpec => []HandlersAreMapped
  <1> QED
    BY InvInit, InvStep, InvMeans, PTL DEF ClosuresSpec

\* Map, sets and environments name only closures that were made, only Lua stubs
\* have a target in their environment, and an array never holds fewer values
\* than it has room for.
THEOREM ClosuresTypeCorrect == ClosuresSpec => []ClosuresTypeOK
  <1> QED
    BY InvInit, InvStep, InvMeans, PTL DEF ClosuresSpec

-----------------------------------------------------------------------------
(* Where calls lead: a graph in which some nodes call one other.           *)

\* f maps the nodes that call to what they call.
Graph(N, f) == DOMAIN f \subseteq N /\ f \in [DOMAIN f -> N]
Within(f, S) == \A e \in S : e \in DOMAIN f => f[e] \in S
Reach(N, f, c) == {d \in N : \A S \in SUBSET N : c \in S /\ Within(f, S) => d \in S}

\* Where a call that starts at c ends.
Ends(N, f, c) == Reach(N, f, c) \ DOMAIN f

LEMMA ReachLeast ==
    ASSUME NEW N, NEW f, Graph(N, f), NEW c \in N
    PROVE  /\ c \in Reach(N, f, c) /\ Reach(N, f, c) \subseteq N
           /\ Within(f, Reach(N, f, c))
           /\ \A S \in SUBSET N : c \in S /\ Within(f, S) => Reach(N, f, c) \subseteq S
  <1>1. Within(f, Reach(N, f, c))
    <2> SUFFICES ASSUME NEW e \in Reach(N, f, c), e \in DOMAIN f,
                        NEW S \in SUBSET N, c \in S, Within(f, S)
                 PROVE  f[e] \in S
      BY DEF Within, Reach, Graph
    <2> QED
      BY DEF Within, Reach
  <1> QED
    BY <1>1 DEF Reach

\* A call of c is c, then a call of what c calls.
LEMMA ReachUnfolds ==
    ASSUME NEW N, NEW f, Graph(N, f), NEW c \in N
    PROVE  /\ c \notin DOMAIN f => Reach(N, f, c) = {c}
           /\ c \in DOMAIN f => /\ f[c] \in N
                                /\ Reach(N, f, c) = {c} \cup Reach(N, f, f[c])
  <1>1. CASE c \notin DOMAIN f
    <2>1. Within(f, {c})
      BY <1>1 DEF Within
    <2>2. {c} \in SUBSET N /\ c \in {c}
      OBVIOUS
    <2>3. Reach(N, f, c) \subseteq {c} /\ c \in Reach(N, f, c)
      BY <2>1, <2>2, ReachLeast
    <2> QED
      BY <1>1, <2>3
  <1>2. CASE c \in DOMAIN f
    <2> DEFINE next == f[c]
               all  == {c} \cup Reach(N, f, next)
    <2>1. next \in N
      BY <1>2 DEF Graph
    <2>2. /\ next \in Reach(N, f, next) /\ Reach(N, f, next) \subseteq N
          /\ Within(f, Reach(N, f, next))
          /\ \A S \in SUBSET N : next \in S /\ Within(f, S) => Reach(N, f, next) \subseteq S
      BY <2>1, ReachLeast
    <2>3. /\ c \in Reach(N, f, c) /\ Reach(N, f, c) \subseteq N
          /\ Within(f, Reach(N, f, c))
          /\ \A S \in SUBSET N : c \in S /\ Within(f, S) => Reach(N, f, c) \subseteq S
      BY ReachLeast
    <2>4. all \in SUBSET N /\ c \in all /\ Within(f, all)
      BY <2>2 DEF Within
    <2>5. Reach(N, f, c) \subseteq all
      BY <2>3, <2>4
    <2>6. next \in Reach(N, f, c)
      BY <1>2, <2>3 DEF Within
    <2>7. Reach(N, f, next) \subseteq Reach(N, f, c)
      BY <2>2, <2>3, <2>6
    <2> QED
      BY <1>2, <2>1, <2>3, <2>5, <2>7
  <1> QED
    BY <1>1, <1>2

LEMMA ReachFollows ==
    ASSUME NEW N, NEW f, Graph(N, f), NEW c \in N, NEW d \in Reach(N, f, c)
    PROVE  d \in N /\ Reach(N, f, d) \subseteq Reach(N, f, c)
  <1>1. /\ Reach(N, f, c) \in SUBSET N /\ Within(f, Reach(N, f, c))
    BY ReachLeast
  <1>2. d \in N
    BY <1>1
  <1>3. \A S \in SUBSET N : d \in S /\ Within(f, S) => Reach(N, f, d) \subseteq S
    BY <1>2, ReachLeast
  <1> QED
    BY <1>1, <1>2, <1>3

\* Calls that pass through what two graphs agree on do not tell them apart.
LEMMA ReachSame ==
    ASSUME NEW N, NEW f, Graph(N, f), NEW M, NEW g, Graph(M, g), N \subseteq M,
           NEW c \in N,
           \A d \in Reach(N, f, c) : /\ d \in DOMAIN f <=> d \in DOMAIN g
                                     /\ d \in DOMAIN f => f[d] = g[d]
    PROVE  Reach(M, g, c) = Reach(N, f, c)
  <1> DEFINE R == Reach(N, f, c)
             Q == Reach(M, g, c)
  <1>1. /\ c \in R /\ R \subseteq N /\ Within(f, R)
        /\ \A S \in SUBSET N : c \in S /\ Within(f, S) => R \subseteq S
    BY ReachLeast
  <1>2. /\ c \in Q /\ Q \subseteq M /\ Within(g, Q)
        /\ \A S \in SUBSET M : c \in S /\ Within(g, S) => Q \subseteq S
    BY ReachLeast
  <1> HIDE DEF R, Q
  <1>3. Within(g, R) /\ R \in SUBSET M
    BY <1>1 DEF Within, R
  <1>4. Q \subseteq R
    BY <1>1, <1>2, <1>3
  <1>5. Within(f, Q) /\ Q \in SUBSET N
    BY <1>1, <1>2, <1>4 DEF Within, R
  <1> QED
    BY <1>1, <1>2, <1>4, <1>5 DEF R, Q

\* A node that calls itself in the end calls for ever.
LEMMA CircleHasNoEnd ==
    ASSUME NEW N, NEW f, Graph(N, f), NEW c \in N, c \in DOMAIN f,
           c \in Reach(N, f, f[c])
    PROVE  Ends(N, f, c) = {}
  <1> DEFINE R == Reach(N, f, c)
             Back == {d \in R : c \in Reach(N, f, d)}
  <1>1. /\ c \in R /\ R \subseteq N /\ Within(f, R)
        /\ \A S \in SUBSET N : c \in S /\ Within(f, S) => R \subseteq S
    BY ReachLeast
  <1>2. ASSUME NEW d \in Back, d \in DOMAIN f PROVE f[d] \in Back
    <2>1. d \in N /\ f[d] \in R
      BY <1>1, <1>2 DEF Within
    <2>2. Reach(N, f, d) = {d} \cup Reach(N, f, f[d])
      BY <1>2, <2>1, ReachUnfolds
    <2>3. c \in Reach(N, f, f[d])
      BY <1>2, <2>2
    <2> QED
      BY <2>1, <2>3
  <1>3. c \in Back
    BY <1>1
  <1>4. R \subseteq Back
    BY <1>1, <1>2, <1>3 DEF Within
  <1>5. ASSUME NEW d \in R, d \notin DOMAIN f PROVE FALSE
    <2>1. c \in Reach(N, f, d)
      BY <1>4, <1>5
    <2>2. Reach(N, f, d) = {d}
      BY <1>1, <1>5, ReachUnfolds
    <2> QED
      BY <1>5, <2>1, <2>2
  <1> QED
    BY <1>5 DEF Ends

-----------------------------------------------------------------------------
(* The graph of a heap and of a map, and what a hook does to it.           *)

IsIndirect(cl) == IsHandler(cl) \/ cl.target # 0
Calling(h, m) ==
    [d \in {e \in 1..Len(h) : IsIndirect(h[e])} |->
        IF IsHandler(h[d]) THEN m[d] ELSE h[d].target]

\* What a call of c passes through, and what it comes to.
Path(h, m, c) == Reach(1..Len(h), Calling(h, m), c)
Last(h, m, c) == Ends(1..Len(h), Calling(h, m), c)
Does(cl) == <<cl.code, SubSeq(cl.ups, 1, cl.nupvalues)>>
Outcome(h, m, c) == {Does(h[d]) : d \in Last(h, m, c)}
CodeOf(outcome)  == {does[1] : does \in outcome}

\* Chain and Behaviour are these of heap and closureMap.
LEMMA ChainIsPath == \A c : Chain(c) = Path(heap, closureMap, c)
  <1> DEFINE f == Calling(heap, closureMap)
  <1>1. \A S \in SUBSET Ids : StaysWithin(S) <=> Within(f, S)
    BY DEF StaysWithin, Within, Calling, Indirect, CallsOn, IsIndirect, IsHandler,
           HasTarget, IsCClosureHandler, isC, FindWrappedClosure, Ids
  <1> HIDE DEF f
  <1>2. ASSUME NEW c, NEW d \in Ids
        PROVE  d \in Chain(c) <=> d \in Reach(Ids, f, c)
    BY <1>1 DEF Chain, Reach
  <1> QED
    BY <1>2 DEF Path, Chain, Reach, Ids, f

LEMMA BehaviourIsOutcome ==
    /\ \A c : Behaviour(c) = Outcome(heap, closureMap, c)
    /\ Behaviour(Len(heap)) = Outcome(heap, closureMap, Len(heap))
    /\ \A c : Code(c) = CodeOf(Outcome(heap, closureMap, c))
  <1>1. ASSUME NEW c
        PROVE  {e \in Chain(c) : ~Indirect(e)} = Last(heap, closureMap, c)
    <2>1. Chain(c) = Path(heap, closureMap, c) /\ Chain(c) \subseteq 1..Len(heap)
      BY ChainIsPath DEF Chain, Ids
    <2>2. \A e \in 1..Len(heap) : Indirect(e) <=> e \in DOMAIN Calling(heap, closureMap)
      BY DEF Calling, Indirect, HasTarget, IsIndirect, IsHandler, IsCClosureHandler,
             isC
    <2> QED
      BY <2>1, <2>2 DEF Last, Path, Ends
  <1>2. \A c : Behaviour(c) = Outcome(heap, closureMap, c)
    BY <1>1 DEF Behaviour, Outcome, Does
  <1>3. \A c : Code(c) = CodeOf(Outcome(heap, closureMap, c))
    BY <1>2 DEF Code, CodeOf
  <1> QED
    BY <1>2, <1>3

\* A heap with its map.
WellFormed(h, m) ==
    /\ h \in Seq(ClosureType) /\ Len(h) \in Nat
    /\ \A c \in 1..Len(h) : /\ Good(h[c], Len(h))
                            /\ IsHandler(h[c]) => c \in DOMAIN m
    /\ MapTyped(m, Len(h))

LEMMA CallingIsGraph ==
    ASSUME NEW h, NEW m, WellFormed(h, m)
    PROVE  Graph(1..Len(h), Calling(h, m))
  <1>1. ASSUME NEW d \in DOMAIN Calling(h, m)
        PROVE  Calling(h, m)[d] \in 1..Len(h)
    <2>1. d \in 1..Len(h) /\ IsIndirect(h[d])
      BY DEF Calling
    <2>2. CASE IsHandler(h[d])
      BY <2>1, <2>2 DEF Calling, WellFormed, MapTyped
    <2>3. CASE ~IsHandler(h[d])
      <3>1. h[d].target \in 0..Len(h) /\ h[d].target # 0
        BY <2>1, <2>3 DEF WellFormed, Good, IsIndirect
      <3> QED
        BY <2>1, <2>3, <3>1 DEF Calling, WellFormed
    <2> QED
      BY <2>2, <2>3
  <1> QED
    BY <1>1 DEF Graph, Calling

\* A step from heap h and map m to g and k may change a, and makes new closures.
OnlyChanges(h, m, g, k, a) ==
    /\ WellFormed(h, m) /\ WellFormed(g, k) /\ a \in 1..Len(h) /\ Len(h) <= Len(g)
    /\ \A d \in 1..Len(h) \ {a} : g[d] = h[d] /\ (IsHandler(h[d]) => k[d] = m[d])

\* Calls that do not pass through a do what they did.
LEMMA OthersKeep ==
    ASSUME NEW h, NEW m, NEW g, NEW k, NEW a, OnlyChanges(h, m, g, k, a),
           NEW c \in 1..Len(h), a \notin Path(h, m, c)
    PROVE  /\ Path(g, k, c) = Path(h, m, c) /\ Last(g, k, c) = Last(h, m, c)
           /\ \A d \in Last(h, m, c) : g[d] = h[d]
           /\ Outcome(g, k, c) = Outcome(h, m, c)
  <1> DEFINE f == Calling(h, m)
             e == Calling(g, k)
  <1>1. /\ WellFormed(h, m) /\ WellFormed(g, k) /\ Len(h) \in Nat /\ Len(g) \in Nat
        /\ 1..Len(h) \subseteq 1..Len(g)
    BY DEF OnlyChanges, WellFormed
  <1>2. Graph(1..Len(h), f) /\ Graph(1..Len(g), e)
    BY <1>1, CallingIsGraph
  <1>3. Path(h, m, c) \subseteq 1..Len(h)
    BY DEF Path, Reach
  <1>4. ASSUME NEW d \in Path(h, m, c)
        PROVE  /\ g[d] = h[d]
               /\ d \in DOMAIN f <=> d \in DOMAIN e
               /\ d \in DOMAIN f => f[d] = e[d]
    <2>1. /\ d \in 1..Len(h) /\ d \in 1..Len(g) /\ d # a
      BY <1>1, <1>3
    <2>2. g[d] = h[d] /\ (IsHandler(h[d]) => k[d] = m[d])
      BY <2>1 DEF OnlyChanges
    <2> QED
      BY <2>1, <2>2 DEF Calling
  <1> HIDE DEF f, e
  <1>5. Path(g, k, c) = Path(h, m, c)
    BY <1>1, <1>2, <1>4, ReachSame DEF Path, f, e
  <1>6. Last(g, k, c) = Last(h, m, c)
    BY <1>4, <1>5 DEF Last, Ends, Path, f, e
  <1>7. \A d \in Last(h, m, c) : g[d] = h[d]
    BY <1>4 DEF Last, Ends, Path
  <1> QED
    BY <1>5, <1>6, <1>7 DEF Outcome

\* Closure r of g and k against closure w of h and m: both call the same one, or
\* neither calls another.
SameCall(g, k, r, h, m, w) ==
    /\ IsIndirect(h[w]) /\ IsIndirect(g[r]) /\ Calling(g, k)[r] = Calling(h, m)[w]
SameEnd(g, r, h, w) == ~IsIndirect(h[w]) /\ ~IsIndirect(g[r])

\* r keeps what a was; a takes what w is.
Keeps(g, k, r, h, m, a) ==
    SameCall(g, k, r, h, m, a) \/ (SameEnd(g, r, h, a) /\ Does(g[r]) = Does(h[a]))
Takes(g, k, a, h, m, w) ==
    \/ IsIndirect(g[a]) /\ Calling(g, k)[a] = w
    \/ SameCall(g, k, a, h, m, w)
    \/ SameEnd(g, a, h, w) /\ g[a].code = h[w].code

\* Where a call of c ends: at c, or where a call of what it calls ends.
LEMMA LastUnfolds ==
    ASSUME NEW h, NEW m, WellFormed(h, m), NEW c \in 1..Len(h)
    PROVE  /\ c \in Path(h, m, c) /\ Path(h, m, c) \subseteq 1..Len(h)
           /\ ~IsIndirect(h[c]) => Path(h, m, c) = {c} /\ Last(h, m, c) = {c}
           /\ IsIndirect(h[c]) =>
                LET d == Calling(h, m)[c]
                IN  /\ d \in 1..Len(h) /\ Path(h, m, c) = {c} \cup Path(h, m, d)
                    /\ Last(h, m, c) = Last(h, m, d)
  <1> DEFINE f == Calling(h, m)
  <1>1. Graph(1..Len(h), f)
    BY CallingIsGraph
  <1>2. c \in DOMAIN f <=> IsIndirect(h[c])
    BY DEF Calling
  <1> HIDE DEF f
  <1>3. c \in Path(h, m, c) /\ Path(h, m, c) \subseteq 1..Len(h)
    BY <1>1, ReachLeast DEF Path, f
  <1>4. CASE ~IsIndirect(h[c])
    <2>1. Path(h, m, c) = {c} /\ c \notin DOMAIN f
      BY <1>1, <1>2, <1>4, ReachUnfolds DEF Path, f
    <2> QED
      BY <1>3, <1>4, <2>1 DEF Last, Ends, Path, f
  <1>5. CASE IsIndirect(h[c])
    <2>1. /\ f[c] \in 1..Len(h) /\ c \in DOMAIN f
          /\ Path(h, m, c) = {c} \cup Path(h, m, f[c])
      BY <1>1, <1>2, <1>5, ReachUnfolds DEF Path, f
    <2>2. Last(h, m, c) = Last(h, m, f[c])
      BY <2>1 DEF Last, Ends, Path, f
    <2> QED
      BY <1>3, <1>5, <2>1, <2>2 DEF f
  <1> QED
    BY <1>4, <1>5

\* What keeps what a was does what a did, if a call of a came to an end.
LEMMA OriginalKept ==
    ASSUME NEW h, NEW m, NEW g, NEW k, NEW a, OnlyChanges(h, m, g, k, a),
           NEW r \in 1..Len(g), Last(h, m, a) # {}, Keeps(g, k, r, h, m, a)
    PROVE  Outcome(g, k, r) = Outcome(h, m, a)
  <1>1. /\ WellFormed(h, m) /\ WellFormed(g, k) /\ a \in 1..Len(h)
    BY DEF OnlyChanges
  <1>2. CASE SameEnd(g, r, h, a) /\ Does(g[r]) = Does(h[a])
    <2>1. Last(h, m, a) = {a} /\ Last(g, k, r) = {r}
      BY <1>1, <1>2, LastUnfolds DEF SameEnd
    <2> QED
      BY <1>2, <2>1 DEF Outcome
  <1>3. CASE SameCall(g, k, r, h, m, a)
    <2> DEFINE t == Calling(h, m)[a]
    <2>1. t \in 1..Len(h) /\ Last(h, m, a) = Last(h, m, t)
      BY <1>1, <1>3, LastUnfolds DEF SameCall
    <2>2. Last(g, k, r) = Last(g, k, t)
      BY <1>1, <1>3, LastUnfolds DEF SameCall
    <2>3. a \notin Path(h, m, t)
      <3>1. a \in DOMAIN Calling(h, m) /\ Graph(1..Len(h), Calling(h, m))
        BY <1>1, <1>3, CallingIsGraph DEF SameCall, Calling
      <3> QED
        BY <1>1, <3>1, CircleHasNoEnd DEF Last, Path
    <2>4. Outcome(g, k, t) = Outcome(h, m, t)
      BY <2>1, <2>3, OthersKeep
    <2> QED
      BY <2>1, <2>2, <2>4 DEF Outcome
  <1> QED
    BY <1>2, <1>3 DEF Keeps

\* What takes what w is runs w's code, if a call of w does not pass through it.
LEMMA ChangedRuns ==
    ASSUME NEW h, NEW m, NEW g, NEW k, NEW a, OnlyChanges(h, m, g, k, a),
           NEW w \in 1..Len(h), a \notin Path(h, m, w), Takes(g, k, a, h, m, w)
    PROVE  CodeOf(Outcome(g, k, a)) = CodeOf(Outcome(h, m, w))
  <1>1. /\ WellFormed(h, m) /\ WellFormed(g, k) /\ a \in 1..Len(h) /\ a \in 1..Len(g)
        /\ w \in 1..Len(g)
    BY DEF OnlyChanges, WellFormed
  <1>2. CASE IsIndirect(g[a]) /\ Calling(g, k)[a] = w
    <2>1. Last(g, k, a) = Last(g, k, w)
      BY <1>1, <1>2, LastUnfolds
    <2>2. Outcome(g, k, w) = Outcome(h, m, w)
      BY OthersKeep
    <2> QED
      BY <2>1, <2>2 DEF Outcome
  <1>3. CASE SameCall(g, k, a, h, m, w)
    <2> DEFINE t == Calling(h, m)[w]
    <2>1. /\ t \in 1..Len(h) /\ Last(h, m, w) = Last(h, m, t)
          /\ Path(h, m, w) = {w} \cup Path(h, m, t)
      BY <1>1, <1>3, LastUnfolds DEF SameCall
    <2>2. Last(g, k, a) = Last(g, k, t)
      BY <1>1, <1>3, LastUnfolds DEF SameCall
    <2>3. Outcome(g, k, t) = Outcome(h, m, t)
      BY <2>1, OthersKeep
    <2> QED
      BY <2>1, <2>2, <2>3 DEF Outcome
  <1>4. CASE SameEnd(g, a, h, w) /\ g[a].code = h[w].code
    <2>1. Last(h, m, w) = {w} /\ Last(g, k, a) = {a}
      BY <1>1, <1>4, LastUnfolds DEF SameEnd
    <2>2. Outcome(h, m, w) = {Does(h[w])} /\ Outcome(g, k, a) = {Does(g[a])}
      BY <2>1 DEF Outcome
    <2>3. Does(h[w])[1] = h[w].code /\ Does(g[a])[1] = g[a].code
      BY DEF Does
    <2> QED
      BY <1>4, <2>2, <2>3 DEF CodeOf
  <1> QED
    BY <1>2, <1>3, <1>4 DEF Takes

-----------------------------------------------------------------------------
(* What each hook leaves of the heap.                                      *)

\* A step that makes closure d and replaces a by cl, or by nothing else.
LEMMA AfterOne ==
    ASSUME ClosuresInv, NEW a \in Ids, NEW cl \in ClosureType, NEW d \in ClosureType,
           heap' = Append([heap EXCEPT ![a] = cl], d)
    PROVE  /\ Len(heap') = New /\ heap'[New] = d /\ heap'[a] = cl
           /\ \A c \in Ids \ {a} : heap'[c] = heap[c]
  <1> DEFINE changed == [heap EXCEPT ![a] = cl]
  <1>1. heap \in Seq(ClosureType) /\ Len(heap) \in Nat
    BY LenProperties DEF ClosuresInv
  <1>2. /\ changed \in Seq(ClosureType) /\ Len(changed) = Len(heap)
        /\ \A c \in Ids : changed[c] = IF c = a THEN cl ELSE heap[c]
    BY <1>1, ExceptSeq DEF Ids
  <1> HIDE DEF changed
  <1>3. /\ Len(heap') = New /\ heap'[New] = d
        /\ \A c \in Ids : heap'[c] = changed[c]
    BY <1>1, <1>2, AppendProperties DEF changed, New, Ids
  <1> QED
    BY <1>2, <1>3

\* One that makes closures d and e.
LEMMA AfterTwo ==
    ASSUME ClosuresInv, NEW a \in Ids, NEW cl \in ClosureType, NEW d \in ClosureType,
           NEW e \in ClosureType, heap' = [heap EXCEPT ![a] = cl] \o <<d, e>>
    PROVE  /\ Len(heap') = New + 1 /\ heap'[New + 1] = e /\ heap'[a] = cl
           /\ \A c \in Ids \ {a} : heap'[c] = heap[c]
  <1> DEFINE changed == [heap EXCEPT ![a] = cl]
  <1>1. heap \in Seq(ClosureType) /\ Len(heap) \in Nat
    BY LenProperties DEF ClosuresInv
  <1>2. /\ changed \in Seq(ClosureType) /\ Len(changed) = Len(heap)
        /\ \A c \in Ids : changed[c] = IF c = a THEN cl ELSE heap[c]
    BY <1>1, ExceptSeq DEF Ids
  <1>3. <<d, e>> \in Seq(ClosureType) /\ Len(<<d, e>>) = 2
    OBVIOUS
  <1> HIDE DEF changed
  <1>4. /\ Len(heap') = Len(heap) + 2
        /\ \A c \in 1..Len(heap) + 2 :
              heap'[c] = IF c <= Len(heap) THEN changed[c] ELSE <<d, e>>[c - Len(heap)]
    BY <1>1, <1>2, <1>3, ConcatProperties DEF changed
  <1>5. /\ Len(heap') = New + 1 /\ heap'[New + 1] = e
        /\ \A c \in Ids : heap'[c] = changed[c]
    BY <1>1, <1>4 DEF New, Ids
  <1> QED
    BY <1>2, <1>5

\* A copy has its original's code and upvalues, and no target.
LEMMA CopyDoes ==
    ASSUME ClosuresInv, ~Overrun, NEW c \in Ids
    PROVE  /\ Copy(c) \in ClosureType /\ Does(Copy(c)) = Does(heap[c])
           /\ Copy(c).kind = heap[c].kind /\ Copy(c).code = heap[c].code
           /\ Copy(c).target = 0
  <1> DEFINE cl == heap[c]
             n == cl.nupvalues
             part == SubSeq(cl.ups, 1, n)
  <1>1. cl \in ClosureType /\ Good(cl, Len(heap))
    BY DEF ClosuresInv, Good
  <1>2. cl.ups \in Seq(Values) /\ n \in Nat /\ cl.room \in Nat
    BY <1>1 DEF ClosureType, Values
  <1>3. n <= Len(cl.ups)
    BY <1>1, <1>2 DEF Overrun, Good
  <1>4. \A i \in 1..n : cl.ups[i] \in Values
    BY <1>2, <1>3
  <1>5. part \in Seq(Values) /\ Len(part) = n
    BY <1>2, <1>4, SubSeqProperties
  <1>6. Copy(c) = [cl EXCEPT !.ups = part, !.room = n, !.target = 0]
    BY DEF Copy
  <1> HIDE DEF part, cl, n
  <1>7. /\ Copy(c) \in ClosureType /\ Copy(c).kind = cl.kind /\ Copy(c).code = cl.code
        /\ Copy(c).target = 0 /\ Copy(c).ups = part
        /\ Copy(c).nupvalues = cl.nupvalues
    <2>1. Copy(c) = [kind |-> cl.kind, code |-> cl.code, ups |-> part,
                     nupvalues |-> cl.nupvalues, room |-> n, target |-> 0]
      BY <1>1, <1>6 DEF ClosureType
    <2>2. 0 \in Nat /\ cl.kind \in {"Lua", "C"} /\ cl.code \in Codes \cup {"handler", "stub"}
      BY <1>1 DEF ClosureType
    <2>3. n = cl.nupvalues
      BY DEF n
    <2> QED
      BY <1>2, <1>5, <2>1, <2>2, <2>3 DEF ClosureType, Values
  <1>8. SubSeq(part, 1, n) = part
    <2>1. \A i \in 1..n : part[i] \in Values
      BY <1>5
    <2>2. /\ SubSeq(part, 1, n) \in Seq(Values) /\ Len(SubSeq(part, 1, n)) = n
          /\ \A i \in 1..n : SubSeq(part, 1, n)[i] = part[i]
      BY <1>2, <1>5, <2>1, SubSeqProperties
    <2> QED
      BY <1>5, <2>2, SeqEqual
  <1> QED
    BY <1>7, <1>8 DEF Does, cl, n, part

\* What a hook of a by b promises of heap and map.
HookShape(a, b) ==
    /\ OnlyChanges(heap, closureMap, heap', closureMap', a)
    /\ Len(heap') \in 1..Len(heap')
    /\ ~HasTarget(a) => Keeps(heap', closureMap', Len(heap'), heap, closureMap, a)
    /\ \E w \in Ids : /\ w \in Path(heap, closureMap, b)
                      /\ Path(heap, closureMap, w) \subseteq Path(heap, closureMap, b)
                      /\ Last(heap, closureMap, w) = Last(heap, closureMap, b)
                      /\ Takes(heap', closureMap', a, heap, closureMap, w)

LEMMA HeapIsWellFormed == ClosuresInv => WellFormed(heap, closureMap)
  BY LenProperties DEF ClosuresInv, WellFormed, Ids

LEMMA HeapOnlyChanges ==
    ASSUME ClosuresInv, ClosuresInv', NEW a \in Ids, NEW more \in {1, 2},
           Len(heap') = Len(heap) + more,
           \A c \in Ids \ {a} : heap'[c] = heap[c],
           \A c \in Ids \ {a} : IsHandler(heap[c]) => closureMap'[c] = closureMap[c]
    PROVE  /\ OnlyChanges(heap, closureMap, heap', closureMap', a)
           /\ Len(heap') \in 1..Len(heap') /\ a \in 1..Len(heap')
  <1>1. WellFormed(heap, closureMap) /\ Len(heap) \in Nat
    BY HeapIsWellFormed DEF WellFormed
  <1>2. WellFormed(heap', closureMap')
    BY LenProperties DEF ClosuresInv, WellFormed, Ids
  <1> QED
    BY <1>1, <1>2 DEF OnlyChanges, Ids

\* A call of a wrapper is a call of what it wraps.
LEMMA HookIsOrWraps ==
    ASSUME ClosuresInv, NEW b \in Ids, NEW w,
           w = b \/ (IsCClosureHandler(b) /\ w = FindWrappedClosure(b))
    PROVE  /\ w \in Ids /\ w \in Path(heap, closureMap, b)
           /\ Path(heap, closureMap, w) \subseteq Path(heap, closureMap, b)
           /\ Last(heap, closureMap, w) = Last(heap, closureMap, b)
  <1>1. WellFormed(heap, closureMap) /\ b \in 1..Len(heap)
    BY HeapIsWellFormed DEF Ids
  <1>2. CASE w = b
    BY <1>1, <1>2, LastUnfolds
  <1>3. CASE IsCClosureHandler(b) /\ w = FindWrappedClosure(b)
    <2>1. /\ IsIndirect(heap[b]) /\ b \in DOMAIN Calling(heap, closureMap)
          /\ Calling(heap, closureMap)[b] = w
      BY <1>1, <1>3 DEF Calling, IsIndirect, IsHandler, IsCClosureHandler, isC,
         FindWrappedClosure
    <2>2. /\ w \in 1..Len(heap)
          /\ Path(heap, closureMap, b) = {b} \cup Path(heap, closureMap, w)
          /\ Last(heap, closureMap, b) = Last(heap, closureMap, w)
      BY <1>1, <2>1, LastUnfolds
    <2>3. w \in Path(heap, closureMap, w)
      BY <1>1, <2>2, LastUnfolds
    <2> QED
      BY <2>2, <2>3 DEF Ids
  <1> QED
    BY <1>2, <1>3

\* What hookfunction returns is a copy of a, or a handler with a's entry.
LEMMA ReturnedKeeps ==
    ASSUME ClosuresInv, ~Overrun, NEW a \in Ids, ~HasTarget(a), NEW r \in 1..Len(heap'),
           \/ ~IsHandler(heap[a]) /\ heap'[r] = Copy(a)
           \/ IsHandler(heap[a]) /\ IsHandler(heap'[r]) /\ closureMap'[r] = closureMap[a]
    PROVE  Keeps(heap', closureMap', r, heap, closureMap, a)
  <1>1. CASE ~IsHandler(heap[a]) /\ heap'[r] = Copy(a)
    <2>1. /\ Does(heap'[r]) = Does(heap[a]) /\ heap'[r].kind = heap[a].kind
          /\ heap'[r].code = heap[a].code /\ heap'[r].target = 0
      BY <1>1, CopyDoes
    <2>2. ~IsIndirect(heap'[r]) /\ ~IsIndirect(heap[a])
      BY <1>1, <2>1 DEF IsHandler, IsIndirect, HasTarget
    <2> QED
      BY <2>1, <2>2 DEF Keeps, SameEnd
  <1>2. CASE IsHandler(heap[a]) /\ IsHandler(heap'[r]) /\ closureMap'[r] = closureMap[a]
    <2>1. a \in 1..Len(heap) /\ IsIndirect(heap[a]) /\ IsIndirect(heap'[r])
      BY <1>2 DEF Ids, IsIndirect
    <2>2. /\ Calling(heap, closureMap)[a] = closureMap[a]
          /\ Calling(heap', closureMap')[r] = closureMap'[r]
      BY <1>2, <2>1 DEF Calling
    <2> QED
      BY <1>2, <2>1, <2>2 DEF SameCall, Keeps
  <1> QED
    BY <1>1, <1>2

\* The hooked function calls w, as a handler or as a stub, or has w's code.
LEMMA HookedTakes ==
    ASSUME ClosuresInv, NEW a \in Ids, a \in 1..Len(heap'), NEW w \in Ids,
           \/ IsHandler(heap'[a]) /\ closureMap'[a] = w
           \/ ~IsHandler(heap'[a]) /\ heap'[a].target = w
           \/ /\ ~IsHandler(heap[w]) /\ ~IsHandler(heap'[a])
              /\ heap'[a].code = heap[w].code /\ heap'[a].target = heap[w].target
    PROVE  Takes(heap', closureMap', a, heap, closureMap, w)
  <1>1. CASE IsHandler(heap'[a]) /\ closureMap'[a] = w
    BY <1>1 DEF Takes, Calling, IsIndirect
  <1>2. CASE ~IsHandler(heap'[a]) /\ heap'[a].target = w
    <2>1. heap'[a].target # 0
      BY <1>2 DEF Ids
    <2> QED
      BY <1>2, <2>1 DEF Takes, Calling, IsIndirect
  <1>3. CASE /\ ~IsHandler(heap[w]) /\ ~IsHandler(heap'[a])
             /\ heap'[a].code = heap[w].code /\ heap'[a].target = heap[w].target
    <2>1. CASE HasTarget(w)
      <3>1. w \in 1..Len(heap) /\ IsIndirect(heap[w]) /\ IsIndirect(heap'[a])
        BY <1>3, <2>1 DEF Ids, IsIndirect, HasTarget
      <3>2. /\ Calling(heap, closureMap)[w] = heap[w].target
            /\ Calling(heap', closureMap')[a] = heap'[a].target
        BY <1>3, <3>1 DEF Calling
      <3> QED
        BY <1>3, <3>1, <3>2 DEF Takes, SameCall
    <2>2. CASE ~HasTarget(w)
      BY <1>3, <2>2 DEF Takes, SameEnd, IsIndirect, HasTarget
    <2> QED
      BY <2>1, <2>2
  <1> QED
    BY <1>1, <1>2, <1>3

\* From the parts to the whole.
LEMMA ShapeFromParts ==
    ASSUME ClosuresInv, ClosuresInv', ~Overrun, NEW a \in Ids, NEW b \in Ids, NEW w,
           w = b \/ (IsCClosureHandler(b) /\ w = FindWrappedClosure(b)),
           NEW more \in {1, 2}, Len(heap') = Len(heap) + more,
           \A c \in Ids \ {a} : heap'[c] = heap[c],
           \A c \in Ids \ {a} : IsHandler(heap[c]) => closureMap'[c] = closureMap[c],
           \/ ~IsHandler(heap[a]) /\ heap'[Len(heap')] = Copy(a)
           \/ /\ IsHandler(heap[a]) /\ IsHandler(heap'[Len(heap')])
              /\ closureMap'[Len(heap')] = closureMap[a],
           \/ IsHandler(heap'[a]) /\ closureMap'[a] = w
           \/ ~IsHandler(heap'[a]) /\ heap'[a].target = w
           \/ /\ ~IsHandler(heap[w]) /\ ~IsHandler(heap'[a])
              /\ heap'[a].code = heap[w].code /\ heap'[a].target = heap[w].target
    PROVE  HookShape(a, b)
  <1>1. /\ OnlyChanges(heap, closureMap, heap', closureMap', a)
        /\ Len(heap') \in 1..Len(heap') /\ a \in 1..Len(heap')
    BY HeapOnlyChanges
  <1>2. ASSUME ~HasTarget(a)
        PROVE  Keeps(heap', closureMap', Len(heap'), heap, closureMap, a)
    <2>1. PICK r \in 1..Len(heap') : r = Len(heap')
      BY <1>1
    <2>2. \/ ~IsHandler(heap[a]) /\ heap'[r] = Copy(a)
          \/ IsHandler(heap[a]) /\ IsHandler(heap'[r]) /\ closureMap'[r] = closureMap[a]
      BY <2>1
    <2>3. Keeps(heap', closureMap', r, heap, closureMap, a)
      BY <1>2, <2>2, ReturnedKeeps
    <2> QED
      BY <2>1, <2>3
  <1>3. /\ w \in Ids /\ w \in Path(heap, closureMap, b)
        /\ Path(heap, closureMap, w) \subseteq Path(heap, closureMap, b)
        /\ Last(heap, closureMap, w) = Last(heap, closureMap, b)
    BY HookIsOrWraps
  <1>4. Takes(heap', closureMap', a, heap, closureMap, w)
    BY <1>1, <1>3, HookedTakes
  <1> QED
    BY <1>1, <1>2, <1>3, <1>4 DEF HookShape

\* A stub, or a Lua closure, that takes a's place in the array.
LEMMA BecomeIs ==
    ASSUME ClosuresInv, NEW a \in Ids, ~isC(a), NEW by, NEW n \in Nat,
           by \in ClosureType
    PROVE  /\ Become(a, by, n) \in ClosureType /\ ~IsHandler(Become(a, by, n))
           /\ Become(a, by, n).code = by.code /\ Become(a, by, n).target = by.target
  <1> DEFINE ups == Overwritten(a, n, by)
  <1>1. heap[a] \in ClosureType
    BY DEF ClosuresInv, Good
  <1>2. ups \in Seq(Values)
    BY OverwrittenIsLonger
  <1>3. Become(a, by, n) = [heap[a] EXCEPT !.code = by.code, !.target = by.target,
                                          !.ups = ups, !.nupvalues = by.nupvalues]
    BY DEF Become
  <1> HIDE DEF ups
  <1>4. /\ Become(a, by, n) \in ClosureType /\ Become(a, by, n).kind = heap[a].kind
        /\ Become(a, by, n).code = by.code /\ Become(a, by, n).target = by.target
    BY <1>1, <1>2, <1>3 DEF ClosureType, Values
  <1> QED
    BY <1>4 DEF IsHandler, isC

LEMMA HookLuaShape ==
    ASSUME ClosuresInv, ClosuresInv', NEW a \in held, NEW b \in held,
           HookLL(a, b) \/ HookLNC(a, b) \/ HookLC(a, b)
    PROVE  HookShape(a, b)
  <1>1. Calls({a, b}) /\ ~isC(a)
    BY DEF HookLL, HookLNC, HookLC
  <1>2. /\ a \in Ids /\ b \in Ids /\ ~Overrun /\ New = Len(heap) + 1
        /\ Len(heap) \in Nat
    BY <1>1, CallFacts
  <1>3. /\ heap[b].nupvalues \in Nat /\ ~IsHandler(heap[a]) /\ Copy(a) \in ClosureType
        /\ \A c \in Ids : heap[c] \in ClosureType
    <2>1. \A c \in Ids : heap[c] \in ClosureType
      BY DEF ClosuresInv, Good
    <2>2. heap[b].nupvalues \in Nat
      BY <1>2, <2>1 DEF ClosureType
    <2> QED
      BY <1>1, <1>2, <2>1, <2>2, CopyDoes DEF isC, IsHandler
  <1>4. closureMap' = closureMap
    BY DEF HookLL, HookLNC, HookLC
  <1>5. ASSUME NEW w \in Ids, ~isC(w),
               w = b \/ (IsCClosureHandler(b) /\ w = FindWrappedClosure(b)),
               heap' = Append([heap EXCEPT ![a] = Become(a, heap[w], heap[b].nupvalues)],
                              Copy(a))
        PROVE  HookShape(a, b)
    <2> DEFINE new == Become(a, heap[w], heap[b].nupvalues)
    <2>1. /\ new \in ClosureType /\ ~IsHandler(new)
          /\ new.code = heap[w].code /\ new.target = heap[w].target
      BY <1>1, <1>2, <1>3, BecomeIs
    <2> HIDE DEF new
    <2>2. /\ Len(heap') = New /\ heap'[New] = Copy(a) /\ heap'[a] = new
          /\ \A c \in Ids \ {a} : heap'[c] = heap[c]
      BY <1>2, <1>3, <1>5, <2>1, AfterOne DEF new
    <2>3. ~IsHandler(heap[w])
      BY <1>5 DEF isC, IsHandler
    <2>4. Len(heap') = Len(heap) + 1 /\ heap'[Len(heap')] = Copy(a)
      BY <1>2, <2>2
    <2> QED
      BY <1>2, <1>3, <1>4, <1>5, <2>1, <2>2, <2>3, <2>4, ShapeFromParts
  <1>6. ASSUME NEW w \in Ids,
               w = b \/ (IsCClosureHandler(b) /\ w = FindWrappedClosure(b)),
               heap' = [heap EXCEPT ![a] = Become(a, Stub(w), heap[b].nupvalues)]
                           \o <<Stub(w), Copy(a)>>
        PROVE  HookShape(a, b)
    <2> DEFINE new == Become(a, Stub(w), heap[b].nupvalues)
    <2>1. Stub(w) \in ClosureType /\ Stub(w).code = "stub" /\ Stub(w).target = w
      <3>1. Good(Stub(w), Len(heap))
        BY <1>2, StubGood DEF Ids
      <3> QED
        BY <3>1 DEF Good, Stub, Closure
    <2>2. /\ new \in ClosureType /\ ~IsHandler(new) /\ new.code = "stub" /\ new.target = w
      BY <1>1, <1>2, <1>3, <2>1, BecomeIs
    <2> HIDE DEF new
    <2>3. /\ Len(heap') = New + 1 /\ heap'[New + 1] = Copy(a) /\ heap'[a] = new
          /\ \A c \in Ids \ {a} : heap'[c] = heap[c]
      BY <1>2, <1>3, <1>6, <2>1, <2>2, AfterTwo DEF new
    <2>4. Len(heap') = Len(heap) + 2 /\ heap'[Len(heap')] = Copy(a)
      BY <1>2, <2>3
    <2> QED
      BY <1>2, <1>3, <1>4, <1>6, <2>2, <2>3, <2>4, ShapeFromParts
  <1>7. CASE HookLL(a, b)
    BY <1>2, <1>5, <1>7 DEF HookLL
  <1>8. CASE HookLNC(a, b)
    <2> DEFINE w == FindWrappedClosure(b)
    <2>1. w \in Ids /\ IsCClosureHandler(b)
      BY <1>2, <1>8, HandlerWraps DEF HookLNC
    <2>2. CASE isC(w)
      BY <1>6, <1>8, <2>1, <2>2 DEF HookLNC
    <2>3. CASE ~isC(w)
      BY <1>5, <1>8, <2>1, <2>3 DEF HookLNC
    <2> QED
      BY <2>2, <2>3
  <1>9. CASE HookLC(a, b)
    BY <1>2, <1>6, <1>9 DEF HookLC
  <1> QED
    BY <1>7, <1>8, <1>9

LEMMA HookWrapperShape ==
    ASSUME ClosuresInv, ClosuresInv', NEW a \in held, NEW b \in held,
           HookNCNC(a, b) \/ HookNCAny(a, b)
    PROVE  HookShape(a, b)
  <1>1. Calls({a, b}) /\ IsCClosureHandler(a) /\ heap' = Append(heap, Handler)
    BY DEF HookNCNC, HookNCAny
  <1>2. /\ a \in Ids /\ b \in Ids /\ ~Overrun /\ New = Len(heap) + 1
        /\ Len(heap) \in Nat /\ Ids = 1..Len(heap)
    BY <1>1, CallFacts
  <1>3. IsHandler(heap[a]) /\ IsHandler(Handler) /\ Handler \in ClosureType
    BY <1>1, <1>2, HandlerGood DEF IsHandler, IsCClosureHandler, isC, Good
  <1>4. /\ Len(heap') = Len(heap) + 1 /\ heap'[Len(heap')] = Handler
        /\ \A c \in Ids : heap'[c] = heap[c]
    <2>1. heap \in Seq(ClosureType)
      BY DEF ClosuresInv
    <2> QED
      BY <1>1, <1>2, <1>3, <2>1, AppendProperties
  <1>5. \A c \in Ids : IsHandler(heap[c]) => c \in DOMAIN closureMap /\ c # New
    BY <1>2 DEF ClosuresInv
  <1>6. ASSUME NEW w, closureMap'[a] = w, closureMap'[New] = closureMap[a],
               \A c \in DOMAIN closureMap \ {a, New} : closureMap'[c] = closureMap[c],
               w = b \/ (IsCClosureHandler(b) /\ w = FindWrappedClosure(b))
        PROVE  HookShape(a, b)
    <2>1. \A c \in Ids \ {a} : IsHandler(heap[c]) => closureMap'[c] = closureMap[c]
      BY <1>5, <1>6
    <2>2. IsHandler(heap'[Len(heap')]) /\ closureMap'[Len(heap')] = closureMap[a]
      BY <1>2, <1>3, <1>4, <1>6
    <2>3. IsHandler(heap'[a])
      BY <1>2, <1>3, <1>4
    <2> QED
      BY <1>2, <1>3, <1>4, <1>6, <2>1, <2>2, <2>3, ShapeFromParts
  <1>7. CASE HookNCNC(a, b)
    <2>1. /\ closureMap' = Wrap(Wrap(closureMap, New, closureMap[a]), a,
                                FindWrappedClosure(b))
          /\ IsCClosureHandler(b)
      BY <1>7 DEF HookNCNC, OriginalWrapped, FindWrappedClosure
    <2>2. /\ closureMap'[a] = FindWrappedClosure(b) /\ closureMap'[New] = closureMap[a]
          /\ \A c \in DOMAIN closureMap \ {a, New} : closureMap'[c] = closureMap[c]
      BY <1>2, <1>5, <2>1 DEF Wrap
    <2> QED
      BY <1>6, <2>1, <2>2
  <1>8. CASE HookNCAny(a, b)
    <2>1. closureMap' = Wrap(Wrap(closureMap, a, b), New, closureMap[a])
      BY <1>8 DEF HookNCAny, Rewrap, FindWrappedClosure
    <2>2. /\ closureMap'[a] = b /\ closureMap'[New] = closureMap[a]
          /\ \A c \in DOMAIN closureMap \ {a, New} : closureMap'[c] = closureMap[c]
      BY <1>2, <1>5, <2>1 DEF Wrap
    <2> QED
      BY <1>6, <2>2
  <1> QED
    BY <1>7, <1>8

LEMMA HookNativeShape ==
    ASSUME ClosuresInv, ClosuresInv', NEW a \in held, NEW b \in held,
           HookCL(a, b) \/ HookCNC(a, b) \/ HookCC(a, b)
    PROVE  HookShape(a, b)
  <1>1. Calls({a, b}) /\ isC(a) /\ ~IsCClosureHandler(a)
    BY DEF HookCL, HookCNC, HookCC
  <1>2. /\ a \in Ids /\ b \in Ids /\ ~Overrun /\ New = Len(heap) + 1
        /\ Len(heap) \in Nat
    BY <1>1, CallFacts
  <1>3. ~IsHandler(heap[a]) /\ Copy(a) \in ClosureType
    BY <1>1, <1>2, CopyDoes DEF isC, IsHandler, IsCClosureHandler
  <1>4. \A c \in Ids : IsHandler(heap[c]) => c \in DOMAIN closureMap
    BY DEF ClosuresInv
  <1>5. ASSUME NEW new \in ClosureType, IsHandler(new), NEW w,
               heap' = Append([heap EXCEPT ![a] = new], Copy(a)),
               closureMap' = Wrap(closureMap, a, w),
               w = b \/ (IsCClosureHandler(b) /\ w = FindWrappedClosure(b))
        PROVE  HookShape(a, b)
    <2>1. /\ Len(heap') = New /\ heap'[New] = Copy(a) /\ heap'[a] = new
          /\ \A c \in Ids \ {a} : heap'[c] = heap[c]
      BY <1>2, <1>3, <1>5, AfterOne
    <2>2. Len(heap') = Len(heap) + 1 /\ heap'[Len(heap')] = Copy(a)
      BY <1>2, <2>1
    <2>3. /\ closureMap'[a] = w
          /\ \A c \in Ids \ {a} : IsHandler(heap[c]) => closureMap'[c] = closureMap[c]
      BY <1>4, <1>5 DEF Wrap
    <2> QED
      BY <1>2, <1>3, <1>5, <2>1, <2>2, <2>3, ShapeFromParts
  <1>6. /\ BecomeHandler(a, heap[b]) \in ClosureType
        /\ IsHandler(BecomeHandler(a, heap[b]))
        /\ [heap[a] EXCEPT !.code = "handler"] \in ClosureType
        /\ IsHandler([heap[a] EXCEPT !.code = "handler"])
    <2>1. /\ Good(BecomeHandler(a, heap[b]), Len(heap))
          /\ Good([heap[a] EXCEPT !.code = "handler"], Len(heap))
      BY <1>1, <1>2, BecomeHandlerGood
    <2>2. heap[a] \in ClosureType /\ heap[a].kind = "C"
      BY <1>1, <1>2 DEF ClosuresInv, Good, isC
    <2>3. /\ BecomeHandler(a, heap[b]).kind = "C"
          /\ BecomeHandler(a, heap[b]).code = "handler"
          /\ [heap[a] EXCEPT !.code = "handler"].kind = "C"
          /\ [heap[a] EXCEPT !.code = "handler"].code = "handler"
      BY <2>2 DEF BecomeHandler, ClosureType
    <2> QED
      BY <2>1, <2>3 DEF Good, IsHandler
  <1>7. CASE HookCL(a, b)
    BY <1>5, <1>6, <1>7 DEF HookCL
  <1>8. CASE HookCNC(a, b)
    BY <1>5, <1>6, <1>8 DEF HookCNC, HookC
  <1>9. CASE HookCC(a, b)
    BY <1>5, <1>6, <1>9 DEF HookCC, HookC
  <1> QED
    BY <1>7, <1>8, <1>9

LEMMA HookHasShape ==
    ASSUME ClosuresInv, [ClosuresNext]_closureVars, NEW a \in held, NEW b \in held,
           hookfunction(a, b)
    PROVE  HookShape(a, b)
  <1>1. ClosuresInv'
    BY InvStep
  <1> QED
    BY <1>1, HookLuaShape, HookWrapperShape, HookNativeShape DEF hookfunction

-----------------------------------------------------------------------------
(* The two action properties.                                              *)

\* BehaviourIsOutcome and ChainIsPath of the state after a step.
LEMMA BehaviourAfter ==
    /\ \A c : Behaviour(c)' = Outcome(heap', closureMap', c)
    /\ Behaviour(Len(heap))' = Outcome(heap', closureMap', Len(heap'))
    /\ \A c : Code(c)' = CodeOf(Outcome(heap', closureMap', c))
  <1>1. (/\ \A c : Behaviour(c) = Outcome(heap, closureMap, c)
         /\ Behaviour(Len(heap)) = Outcome(heap, closureMap, Len(heap))
         /\ \A c : Code(c) = CodeOf(Outcome(heap, closureMap, c)))'
    BY BehaviourIsOutcome, PTL
  <1> QED
    BY <1>1

LEMMA HookStepIsLocal ==
    ASSUME ClosuresInv, [ClosuresNext]_closureVars, NEW a \in held, NEW b \in held,
           hookfunction(a, b)
    PROVE  /\ ~HasTarget(a) /\ Behaviour(a) # {} => Behaviour(Len(heap))' = Behaviour(a)
           /\ \A c \in Ids : a \notin Chain(c) => Behaviour(c)' = Behaviour(c)
  <1>1. /\ OnlyChanges(heap, closureMap, heap', closureMap', a)
        /\ Len(heap') \in 1..Len(heap')
        /\ ~HasTarget(a) => Keeps(heap', closureMap', Len(heap'), heap, closureMap, a)
    BY HookHasShape DEF HookShape
  <1>2. ASSUME ~HasTarget(a), Behaviour(a) # {}
        PROVE  Behaviour(Len(heap))' = Behaviour(a)
    <2>1. Last(heap, closureMap, a) # {} /\ Behaviour(a) = Outcome(heap, closureMap, a)
      BY <1>2, BehaviourIsOutcome DEF Outcome
    <2>2. Outcome(heap', closureMap', Len(heap')) = Outcome(heap, closureMap, a)
      BY <1>1, <1>2, <2>1, OriginalKept
    <2> QED
      BY <2>1, <2>2, BehaviourAfter
  <1>3. ASSUME NEW c \in Ids, a \notin Chain(c)
        PROVE  Behaviour(c)' = Behaviour(c)
    <2>1. c \in 1..Len(heap) /\ a \notin Path(heap, closureMap, c)
      BY <1>3, ChainIsPath DEF Ids
    <2>2. Outcome(heap', closureMap', c) = Outcome(heap, closureMap, c)
      BY <1>1, <2>1, OthersKeep
    <2> QED
      BY <2>2, BehaviourIsOutcome, BehaviourAfter
  <1> QED
    BY <1>2, <1>3

LEMMA HookStepTakesEffect ==
    ASSUME ClosuresInv, [ClosuresNext]_closureVars, NEW a \in held, NEW b \in held,
           hookfunction(a, b), a \notin Chain(b)
    PROVE  Code(a)' = Code(b)
  <1>1. OnlyChanges(heap, closureMap, heap', closureMap', a)
    BY HookHasShape DEF HookShape
  <1>2. PICK w \in Ids :
          /\ Path(heap, closureMap, w) \subseteq Path(heap, closureMap, b)
          /\ Last(heap, closureMap, w) = Last(heap, closureMap, b)
          /\ Takes(heap', closureMap', a, heap, closureMap, w)
    BY HookHasShape DEF HookShape
  <1>3. w \in 1..Len(heap) /\ a \notin Path(heap, closureMap, w)
    BY <1>2, ChainIsPath DEF Ids
  <1>4. CodeOf(Outcome(heap', closureMap', a)) = CodeOf(Outcome(heap, closureMap, w))
    BY <1>1, <1>2, <1>3, ChangedRuns
  <1>5. Outcome(heap, closureMap, w) = Outcome(heap, closureMap, b)
    BY <1>2 DEF Outcome
  <1>6. /\ Code(b) = CodeOf(Outcome(heap, closureMap, b))
        /\ Code(a)' = CodeOf(Outcome(heap', closureMap', a))
    BY BehaviourIsOutcome, BehaviourAfter
  <1> QED
    BY <1>4, <1>5, <1>6

\* In every state that calls of the library lead to, what hookfunction returns
\* does what the hooked function did, code and upvalues, unless that was a stub
\* (lua_clonefunction does not copy the environment a stub finds its target in);
\* and who does not call the hooked function is not affected; all eight cases,
\* any chain of hooks.
THEOREM HooksAreLocal == ClosuresSpec => HookIsLocal
  <1>1. ClosuresInv /\ [ClosuresNext]_closureVars =>
          [\A a, b \in held :
             hookfunction(a, b) /\ ~Overrun' /\ CalleesAreAlive =>
                /\ ~HasTarget(a) /\ Behaviour(a) # {}
                       => Behaviour(Len(heap))' = Behaviour(a)
                /\ \A c \in Ids : a \notin Chain(c)
                                    => Behaviour(c)' = Behaviour(c)]_closureVars
    BY HookStepIsLocal
  <1> QED
    BY <1>1, InvInit, InvStep, PTL DEF ClosuresSpec, HookIsLocal

\* The hooked function runs the code of the hook, unless the hook calls it.
THEOREM HooksTakeEffect == ClosuresSpec => HookTakesEffect
  <1>1. ClosuresInv /\ [ClosuresNext]_closureVars =>
          [\A a, b \in held :
             hookfunction(a, b) /\ ~Overrun' /\ CalleesAreAlive /\ a \notin Chain(b)
                => Code(a)' = Code(b)]_closureVars
    BY HookStepTakesEffect
  <1> QED
    BY <1>1, InvInit, InvStep, PTL DEF ClosuresSpec, HookTakesEffect

=============================================================================
