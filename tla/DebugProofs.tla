----------------------------- MODULE DebugProofs -----------------------------
(***************************************************************************)
(* Proofs about DebugLibrary, for any functions, prototypes and calls: the *)
(* types, and that the collector never misses what setupvalue stores.      *)
(***************************************************************************)
EXTENDS DebugLibrary, SequenceTheorems, TLAPS

\* A value that something holds was made: were it not, its creation, which
\* paints it white, could put a white object behind a black one.
Made(v) == /\ v \in Closures => v \in DOMAIN closure
           /\ v \in Tables => colour[v] # "unmade"

ValuesMade ==
    /\ \A c \in Closures \ DOMAIN closure : colour[c] = "unmade"
    /\ \A p \in Protos : \A i \in DOMAIN constants[p] : Made(constants[p][i])
    /\ \A c \in DOMAIN closure : \A i \in DOMAIN closure[c].cells : Made(closure[c].cells[i])
    /\ \A x \in Variables : Made(content[x])
    /\ \A n \in DOMAIN stack : /\ stack[n].func \in DOMAIN closure
                               /\ \A r \in DOMAIN stack[n].regs : Made(stack[n].regs[r])

DebugInv == DebugTypeOK /\ ValuesMade /\ FunctionsTriColor

LEMMA PlainSequences == \A s \in Seq(Plain) : s \in Seq(Values)
  BY DEF Values

LEMMA DebugInvInit == DebugInit => DebugInv
  <1> SUFFICES ASSUME DebugInit PROVE DebugInv
    OBVIOUS
  <1>1. constants \in [Protos -> Seq(Values)]
    BY DebugAssumption, PlainSequences DEF DebugInit
  <1>2. DOMAIN closure \subseteq Closures
    BY DebugAssumption DEF DebugInit
  <1>3. \A c \in DOMAIN closure :
          /\ closure[c] \in ClosureType
          /\ closure[c].kind = "Lua" => Len(closure[c].cells) = Nups[Proto(c)]
    BY DebugAssumption DEF DebugInit, Proto
  <1>4. content \in [Variables -> Values] /\ stack \in Seq(CallType) /\ stack # <<>>
    BY DebugAssumption DEF DebugInit, Values
  <1>5. /\ colour \in [Nodes -> {"unmade", "white", "gray", "black", "freed"}]
        /\ marking \in BOOLEAN /\ undefined \in BOOLEAN
    BY DEF DebugInit
  <1>6. DebugTypeOK
    BY <1>1, <1>2, <1>3, <1>4, <1>5 DEF DebugTypeOK
  <1>7. ValuesMade
    <2>1. \A v \in Plain \cup DOMAIN closure \cup Variables : Made(v)
      BY DebugAssumption DEF DebugInit, Made, Values, Nodes
    <2>2. \A c \in Closures \ DOMAIN closure : colour[c] = "unmade"
      BY DebugAssumption DEF DebugInit, Nodes
    <2>3. \A p \in Protos : \A i \in DOMAIN constants[p] : Made(constants[p][i])
      BY <2>1, DebugAssumption DEF DebugInit
    <2>4. \A c \in DOMAIN closure : \A i \in DOMAIN closure[c].cells : Made(closure[c].cells[i])
      BY <2>1, DebugAssumption DEF DebugInit, ToSet
    <2>5. \A x \in Variables : Made(content[x])
      BY <2>1, DebugAssumption DEF DebugInit
    <2>6. \A n \in DOMAIN stack : /\ stack[n].func \in DOMAIN closure
                                  /\ \A r \in DOMAIN stack[n].regs : Made(stack[n].regs[r])
      BY <2>1, DebugAssumption DEF DebugInit, ToSet
    <2> QED
      BY <2>2, <2>3, <2>4, <2>5, <2>6 DEF ValuesMade
  <1>8. FunctionsTriColor
    BY DEF DebugInit, FunctionsTriColor, RefersToWhite, Nodes, Values
  <1> QED
    BY <1>6, <1>7, <1>8 DEF DebugInv

-----------------------------------------------------------------------------
(* What the steps do to the parts of the invariant.                        *)

\* A result that goes to a register.
LEMMA ReturnsKeeps ==
    ASSUME DebugTypeOK, NEW v \in Values, Returns(v)
    PROVE  /\ stack' \in Seq(CallType) /\ stack' # <<>> /\ DOMAIN stack' = DOMAIN stack
           /\ \A n \in DOMAIN stack :
                /\ stack'[n].func = stack[n].func
                /\ DOMAIN stack'[n].regs = DOMAIN stack[n].regs
                /\ \A r \in DOMAIN stack[n].regs :
                     stack'[n].regs[r] = stack[n].regs[r] \/ stack'[n].regs[r] = v
  <1>1. PICK r \in DOMAIN stack[Depth].regs : stack' = [stack EXCEPT ![Depth].regs[r] = v]
    BY DEF Returns
  <1>2. Depth \in DOMAIN stack /\ stack[Depth] \in CallType
    BY DEF DebugTypeOK, Depth
  <1>3. [stack[Depth].regs EXCEPT ![r] = v] \in Seq(Values)
    BY <1>1, <1>2, ExceptSeq DEF CallType
  <1>4. stack' = [stack EXCEPT ![Depth] = [stack[Depth] EXCEPT !.regs[r] = v]]
    BY <1>1
  <1>5. [stack[Depth] EXCEPT !.regs[r] = v] \in CallType
    BY <1>2, <1>3 DEF CallType
  <1>6. stack' \in Seq(CallType) /\ Len(stack') = Len(stack)
    BY <1>2, <1>4, <1>5, ExceptSeq DEF DebugTypeOK
  <1> QED
    BY <1>1, <1>2, <1>6 DEF DebugTypeOK, CallType

\* A step that only hands the calling function a value that was made.
LEMMA HandsOut ==
    ASSUME DebugInv, NEW v \in Values, Made(v), Returns(v),
           UNCHANGED <<heapVars, colour, marking, undefined>>
    PROVE  DebugInv'
  <1>1. DebugTypeOK'
    BY ReturnsKeeps DEF DebugInv, DebugTypeOK, heapVars, Proto
  <1>2. ValuesMade'
    <2>1. \A w : Made(w)' <=> Made(w)
      BY DEF heapVars, Made
    <2> QED
      BY <2>1, ReturnsKeeps DEF DebugInv, ValuesMade, heapVars, Made
  <1>3. FunctionsTriColor'
    BY DEF DebugInv, FunctionsTriColor, RefersToWhite, White, Refs, Proto, heapVars
  <1> QED
    BY <1>1, <1>2, <1>3 DEF DebugInv

\* A step that leaves the script's data alone and unmakes nothing.
LEMMA CollectorKeeps ==
    ASSUME DebugInv, UNCHANGED <<heapVars, stack, undefined>>, marking' \in BOOLEAN,
           colour' \in [Nodes -> {"unmade", "white", "gray", "black", "freed"}],
           \A n \in Nodes : colour'[n] = "unmade" <=> colour[n] = "unmade"
    PROVE  DebugTypeOK' /\ ValuesMade'
  <1>1. DebugTypeOK'
    BY DEF DebugInv, DebugTypeOK, heapVars, Proto
  <1>2. \A w : Made(w)' <=> Made(w)
    BY DEF heapVars, Made, Nodes
  <1>3. ValuesMade'
    BY <1>2 DEF DebugInv, ValuesMade, heapVars, Made, Nodes, Values
  <1> QED
    BY <1>1, <1>3

LEMMA OutsideKeeps == DebugInv /\ Outside => DebugInv'
  BY DEF DebugInv, Outside, DebugTypeOK, ValuesMade, FunctionsTriColor, RefersToWhite, White,
         Refs, Made, Proto, heapVars

\* What the innermost function has at hand was made.
LEMMA ArgumentsMade ==
    ASSUME DebugInv
    PROVE  /\ \A v \in Arguments : v \in Values /\ Made(v)
           /\ \A v \in Arguments : Targets(v) \subseteq DOMAIN closure
  <1>1. Depth \in DOMAIN stack /\ stack[Depth] \in CallType
    BY DEF DebugInv, DebugTypeOK, Depth
  <1>2. \A v \in Plain : v \in Values /\ Made(v)
    BY DebugAssumption DEF Values, Made, Nodes
  <1>3. \A v \in Regs : v \in Values /\ Made(v)
    BY <1>1 DEF DebugInv, ValuesMade, Regs, ToSet, CallType
  <1>4. \A v \in Arguments : v \in Values /\ Made(v)
    BY <1>2, <1>3 DEF Arguments
  <1>5. ASSUME NEW v \in Arguments, NEW n \in Levels PROVE Level(n, v) \subseteq DOMAIN closure
    <2>1. \A l \in 1..Depth : Depth + 1 - l \in DOMAIN stack
      BY DEF DebugInv, DebugTypeOK, Depth
    <2> QED
      BY <1>4, <2>1 DEF Level, Made, DebugInv, ValuesMade
  <1>6. \A v \in Arguments : Targets(v) \subseteq DOMAIN closure
    BY <1>3, <1>5 DEF Targets, Made
  <1> QED
    BY <1>4, <1>6

-----------------------------------------------------------------------------
(* The collector's steps.                                                  *)

\* Gray changes white objects only.
LEMMA GrayFacts ==
    ASSUME DebugTypeOK, NEW ns
    PROVE  /\ Gray(ns) \in [Nodes -> {"unmade", "white", "gray", "black", "freed"}]
           /\ \A n \in Nodes : Gray(ns)[n] = colour[n] \/ (colour[n] = "white" /\ Gray(ns)[n] = "gray")
           /\ \A n \in Nodes \cap ns : Gray(ns)[n] # "white"
  <1>1. \A n \in Nodes : Gray(ns)[n] = IF n \in ns /\ colour[n] = "white" THEN "gray" ELSE colour[n]
    BY DEF Gray, White
  <1>3. \A n \in Nodes : colour[n] \in {"unmade", "white", "gray", "black", "freed"}
    BY DEF DebugTypeOK
  <1>4. \A n \in Nodes : Gray(ns)[n] \in {"unmade", "white", "gray", "black", "freed"}
    BY <1>1, <1>3
  <1>5. Gray(ns) \in [Nodes -> {"unmade", "white", "gray", "black", "freed"}]
    BY <1>4 DEF Gray
  <1>6. \A n \in Nodes : Gray(ns)[n] = colour[n] \/ (colour[n] = "white" /\ Gray(ns)[n] = "gray")
    BY <1>1
  <1>7. \A n \in Nodes \cap ns : Gray(ns)[n] # "white"
    BY <1>1
  <1> QED
    BY <1>5, <1>6, <1>7

LEMMA MarkStackKeeps == DebugInv /\ MarkStack => DebugInv'
  <1> SUFFICES ASSUME DebugInv, MarkStack PROVE DebugInv'
    OBVIOUS
  <1>1. DebugTypeOK /\ colour' = Gray(Roots)
    BY DEF DebugInv, MarkStack
  <1>2. DebugTypeOK' /\ ValuesMade'
    <2>1. \A n \in Nodes : colour'[n] = "unmade" <=> colour[n] = "unmade"
      BY <1>1, GrayFacts
    <2>2. colour' \in [Nodes -> {"unmade", "white", "gray", "black", "freed"}]
      BY <1>1, GrayFacts
    <2> QED
      BY <2>1, <2>2, CollectorKeeps DEF MarkStack
  <1>3. \A n \in Nodes : Refs(n)' = Refs(n)
    BY DEF MarkStack, heapVars, Refs, Proto
  <1>4. FunctionsTriColor'
    <2>1. \A n \in Nodes : /\ colour'[n] = "black" => colour[n] = "black"
                           /\ colour'[n] = "white" => colour[n] = "white"
      BY <1>1, GrayFacts
    <2> QED
      BY <1>3, <2>1 DEF DebugInv, FunctionsTriColor, RefersToWhite, White, Refs, Nodes, Values
  <1> QED
    BY <1>2, <1>4 DEF DebugInv

LEMMA PropagateKeeps == ASSUME DebugInv, NEW m \in Nodes, Propagate(m) PROVE DebugInv'
  <1>1. /\ DebugTypeOK /\ colour[m] = "gray"
        /\ colour' = [Gray(Refs(m)) EXCEPT ![m] = "black"]
    BY DEF DebugInv, Propagate
  <1>2. /\ colour' \in [Nodes -> {"unmade", "white", "gray", "black", "freed"}]
        /\ colour'[m] = "black"
        /\ \A n \in Nodes \ {m} : \/ colour'[n] = colour[n]
                                  \/ colour[n] = "white" /\ colour'[n] = "gray"
        /\ \A n \in Refs(m) : colour'[n] # "white"
    BY <1>1, GrayFacts DEF Refs
  <1>3. DebugTypeOK' /\ ValuesMade'
    <2>1. \A n \in Nodes : colour'[n] = "unmade" <=> colour[n] = "unmade"
      BY <1>1, <1>2
    <2> QED
      BY <1>2, <2>1, CollectorKeeps DEF Propagate, DebugInv, DebugTypeOK
  <1>4. \A n \in Nodes : Refs(n)' = Refs(n) /\ Refs(n) \subseteq Nodes
    BY DEF Propagate, heapVars, Refs, Proto
  <1>5. ASSUME NEW n \in Closures \cup Variables PROVE ~RefersToWhite(n)'
    <2>1. n \in Nodes
      BY DEF Nodes
    <2>2. CASE n = m
      BY <1>2, <1>4, <2>1, <2>2 DEF RefersToWhite, White
    <2>3. CASE n # m
      <3>1. colour'[n] = "black" => colour[n] = "black"
        BY <1>2, <2>1, <2>3
      <3>2. \A w \in Refs(n) : colour'[w] = "white" => colour[w] = "white"
        BY <1>2, <1>4, <2>1
      <3> QED
        BY <1>4, <2>1, <3>1, <3>2 DEF DebugInv, FunctionsTriColor, RefersToWhite, White
    <2> QED
      BY <2>2, <2>3
  <1> QED
    BY <1>3, <1>5 DEF DebugInv, FunctionsTriColor

LEMMA SweepKeeps == DebugInv /\ Sweep => DebugInv'
  <1> SUFFICES ASSUME DebugInv, Sweep PROVE DebugInv'
    OBVIOUS
  <1>1. /\ colour' \in [Nodes -> {"unmade", "white", "gray", "black", "freed"}]
        /\ \A n \in Nodes : /\ colour'[n] # "black"
                            /\ colour'[n] = "unmade" <=> colour[n] = "unmade"
    BY DEF Sweep, DebugInv, DebugTypeOK
  <1>2. DebugTypeOK' /\ ValuesMade'
    BY <1>1, CollectorKeeps DEF Sweep
  <1>3. FunctionsTriColor'
    BY <1>1 DEF FunctionsTriColor, RefersToWhite, Nodes, Values
  <1> QED
    BY <1>2, <1>3 DEF DebugInv

-----------------------------------------------------------------------------
(* Stores: with the barrier, or into what the invariant does not speak of. *)

\* The barrier marks what it is given, if that matters, and nothing else.
LEMMA BarrierFacts ==
    ASSUME DebugTypeOK, NEW n \in Nodes, NEW v \in Values
    PROVE  /\ Barrier(n, v) \in [Nodes -> {"unmade", "white", "gray", "black", "freed"}]
           /\ \A m \in Nodes : \/ Barrier(n, v)[m] = colour[m]
                               \/ /\ colour[m] = "white"
                                  /\ Barrier(n, v)[m] = "gray"
           /\ v \in Nodes /\ colour[n] = "black" => Barrier(n, v)[v] # "white"
  BY DEF DebugTypeOK, Barrier

\* The objects an upvalue or a variable can hold are objects of the heap.
LEMMA RefsOfFunctions ==
    /\ \A c \in Closures : Refs(c) = Nodes \cap ({Proto(c)} \cup ToSet(closure[c].cells))
    /\ \A c \in Closures : Refs(c)' = Nodes \cap ({Proto(c)'} \cup ToSet(closure'[c].cells))
    /\ \A x \in Variables : Refs(x) = Nodes \cap {content[x]} /\ Refs(x)' = Nodes \cap {content'[x]}
  BY DebugAssumption DEF Refs, Values, Nodes

LEMMA SetConstantKeeps ==
    ASSUME DebugInv, NEW v \in Arguments, NEW f \in Lua(Targets(v)), NEW i \in Int,
           debug_setconstant(f, i, v)
    PROVE  DebugInv'
  <1>1. CASE Outside
    BY <1>1, OutsideKeeps
  <1>2. CASE ~Outside
    <2> DEFINE p == Proto(f)
    <2>1. /\ i \in 1..Len(constants[p])
          /\ constants' = [constants EXCEPT ![p][i] = v]
          /\ UNCHANGED <<closure, content, stack, colour, marking, undefined>>
      <3>1. f \in DOMAIN closure
        BY ArgumentsMade DEF Lua
      <3>2. p \in Protos /\ Len(constants[p]) \in Nat
        BY <3>1 DEF DebugInv, DebugTypeOK, ClosureType, Proto
      <3> QED
        BY <1>2, <3>2 DEF debug_setconstant, Accepted
    <2>2. v \in Values /\ Made(v)
      BY ArgumentsMade
    <2>3. constants[p] \in Seq(Values) /\ p \in Protos
      <3>1. f \in DOMAIN closure
        BY ArgumentsMade DEF Lua
      <3> QED
        BY <3>1 DEF DebugInv, DebugTypeOK, ClosureType, Proto
    <2>4. [constants[p] EXCEPT ![i] = v] \in Seq(Values)
      BY <2>1, <2>2, <2>3, ExceptSeq
    <2>5. DebugTypeOK'
      BY <2>1, <2>3, <2>4 DEF DebugInv, DebugTypeOK, Proto
    <2>6. ValuesMade'
      BY <2>1, <2>2, <2>3 DEF DebugInv, DebugTypeOK, ValuesMade, Made
    <2>7. FunctionsTriColor'
      <3>1. \A n \in Closures \cup Variables : Refs(n)' = Refs(n)
        BY <2>1, <2>5, RefsOfFunctions, DebugAssumption DEF DebugInv, Refs, Proto, Values, Nodes
      <3> QED
        BY <2>1, <3>1 DEF DebugInv, FunctionsTriColor, RefersToWhite, White
    <2> QED
      BY <2>5, <2>6, <2>7 DEF DebugInv
  <1> QED
    BY <1>1, <1>2

LEMMA SetUpvalueKeeps ==
    ASSUME DebugInv, NEW v \in Arguments, NEW f \in Targets(v), NEW i \in Int,
           debug_setupvalue(f, i, v)
    PROVE  DebugInv'
  <1>1. CASE Outside
    BY <1>1, OutsideKeeps
  <1>2. CASE ~Outside
    <2>1. /\ f \in DOMAIN closure /\ f \in Closures /\ f \in Nodes
          /\ closure[f] \in ClosureType
          /\ v \in Values /\ Made(v)
      BY ArgumentsMade DEF DebugInv, DebugTypeOK, Nodes
    <2>2. /\ i \in 1..Len(closure[f].cells)
          /\ closure' = [closure EXCEPT ![f].cells[i] = v]
          /\ colour' = Barrier(f, v)
          /\ UNCHANGED <<constants, content, stack, marking, undefined>>
      <3>1. Len(closure[f].cells) \in Nat
        BY <2>1 DEF ClosureType
      <3> QED
        BY <1>2, <3>1 DEF debug_setupvalue, Accepted
    <2>3. [closure[f].cells EXCEPT ![i] = v] \in Seq(Values \cup Variables)
      BY <2>1, <2>2, ExceptSeq DEF ClosureType
    <2>4. Len([closure[f].cells EXCEPT ![i] = v]) = Len(closure[f].cells)
      BY <2>1, <2>2, ExceptSeq DEF ClosureType
    <2>5. closure' = [closure EXCEPT ![f] = [closure[f] EXCEPT !.cells[i] = v]]
      BY <2>2
    <2>6. [closure[f] EXCEPT !.cells[i] = v] \in ClosureType
      BY <2>1, <2>3 DEF ClosureType
    <2>7. /\ DOMAIN closure' = DOMAIN closure
          /\ closure'[f].kind = closure[f].kind /\ Proto(f)' = Proto(f)
          /\ closure'[f].cells = [closure[f].cells EXCEPT ![i] = v]
          /\ \A c \in DOMAIN closure \ {f} : closure'[c] = closure[c]
      BY <2>1, <2>5 DEF ClosureType, Proto
    <2>8. DebugTypeOK'
      <3>1. colour' \in [Nodes -> {"unmade", "white", "gray", "black", "freed"}]
        BY <2>1, <2>2, BarrierFacts DEF DebugInv
      <3>2. \A c \in DOMAIN closure' :
              /\ closure'[c] \in ClosureType
              /\ closure'[c].kind = "Lua" => Len(closure'[c].cells) = Nups[Proto(c)']
        BY <2>1, <2>4, <2>5, <2>6, <2>7 DEF DebugInv, DebugTypeOK, Proto
      <3> QED
        BY <2>2, <2>7, <3>1, <3>2 DEF DebugInv, DebugTypeOK, Proto
    <2>9. \A n \in Nodes : colour'[n] = "unmade" <=> colour[n] = "unmade"
      BY <2>1, <2>2, BarrierFacts DEF DebugInv
    <2>10. \A w : Made(w)' <=> Made(w)
      BY <2>7, <2>9 DEF Made, Nodes
    <2>11. ValuesMade'
      <3>1. (\A c \in DOMAIN closure : \A j \in DOMAIN closure[c].cells : Made(closure[c].cells[j]))'
        BY <2>1, <2>7, <2>10 DEF DebugInv, ValuesMade
      <3> QED
        BY <2>2, <2>7, <2>9, <2>10, <3>1 DEF DebugInv, ValuesMade, Nodes, Values
    <2>12. ASSUME NEW n \in Closures \cup Variables PROVE ~RefersToWhite(n)'
      <3>1. n \in Nodes /\ \A w \in Nodes : /\ colour'[w] = "white" => colour[w] = "white"
                                            /\ colour'[w] = "black" => colour[w] = "black"
        BY <2>1, <2>2, BarrierFacts DEF DebugInv, Nodes
      <3>2. colour'[n] = "black" => White(Refs(n)) = {}
        BY <3>1 DEF DebugInv, FunctionsTriColor, RefersToWhite
      <3>3. CASE n = f
        <4>1. Refs(f)' \subseteq Refs(f) \cup (Nodes \cap {v})
          <5>1. ToSet(closure'[f].cells) \subseteq ToSet(closure[f].cells) \cup {v}
            BY <2>1, <2>7 DEF ClosureType, ToSet
          <5> QED
            BY <2>1, <2>7, <5>1, RefsOfFunctions
        <4>2. v \in Nodes /\ colour'[f] = "black" => colour'[v] # "white"
          BY <2>1, <2>2, <3>1, BarrierFacts DEF DebugInv
        <4> QED
          BY <3>1, <3>2, <3>3, <4>1, <4>2 DEF RefersToWhite, White, Refs
      <3>4. CASE n # f
        <4>1. CASE n \in Closures \ DOMAIN closure
          BY <2>9, <3>1, <4>1 DEF DebugInv, ValuesMade, RefersToWhite
        <4>2. CASE n \in DOMAIN closure \cup Variables
          <5>1. Refs(n)' = Refs(n)
            <6>1. CASE n \in Variables
              BY <2>2, <6>1, RefsOfFunctions
            <6>2. CASE n \in DOMAIN closure
              <7>1. n \in Closures /\ closure'[n] = closure[n]
                BY <2>7, <3>4, <6>2 DEF DebugInv, DebugTypeOK
              <7>2. Proto(n)' = Proto(n)
                BY <7>1 DEF Proto
              <7> QED
                BY <7>1, <7>2, RefsOfFunctions
            <6> QED
              BY <4>2, <6>1, <6>2
          <5> QED
            BY <3>1, <3>2, <5>1 DEF RefersToWhite, White, Refs
        <4> QED
          BY <4>1, <4>2
      <3> QED
        BY <3>3, <3>4
    <2> QED
      BY <2>8, <2>11, <2>12 DEF DebugInv, FunctionsTriColor
  <1> QED
    BY <1>1, <1>2

LEMMA AssignKeeps ==
    ASSUME DebugInv, NEW v \in Arguments, NEW i \in Int, Assign(i, v)
    PROVE  DebugInv'
  <1>1. CASE Outside
    BY <1>1, OutsideKeeps
  <1>2. CASE ~Outside
    <2>0. PICK x \in Variables : x = Cells[i]
      BY <1>2 DEF Assign
    <2>1. /\ x \in Variables /\ x \in Nodes /\ x \notin Closures
          /\ v \in Values /\ Made(v)
          /\ content' = [content EXCEPT ![x] = v]
          /\ colour' = Barrier(x, v)
          /\ UNCHANGED <<constants, closure, stack, marking, undefined>>
      BY <1>2, <2>0, ArgumentsMade, DebugAssumption DEF Assign, Nodes, Values
    <2>2. /\ colour' \in [Nodes -> {"unmade", "white", "gray", "black", "freed"}]
          /\ \A n \in Nodes : /\ colour'[n] = "unmade" <=> colour[n] = "unmade"
                              /\ colour'[n] = "white" => colour[n] = "white"
                              /\ colour'[n] = "black" => colour[n] = "black"
      BY <2>1, BarrierFacts DEF DebugInv
    <2>3. DebugTypeOK'
      BY <2>1, <2>2 DEF DebugInv, DebugTypeOK, Proto
    <2>4. \A w : Made(w)' <=> Made(w)
      BY <2>1, <2>2 DEF Made, Nodes
    <2>5. ValuesMade'
      <3>1. \A y \in Variables : content'[y] = content[y] \/ content'[y] = v
        BY <2>1 DEF DebugInv, DebugTypeOK
      <3> QED
        BY <2>1, <2>2, <2>4, <3>1 DEF DebugInv, ValuesMade, Nodes, Values
    <2>6. ASSUME NEW n \in Closures \cup Variables PROVE ~RefersToWhite(n)'
      <3>1. n \in Nodes
        BY DEF Nodes
      <3>2. colour'[n] = "black" => White(Refs(n)) = {}
        BY <2>2, <3>1 DEF DebugInv, FunctionsTriColor, RefersToWhite
      <3>3. CASE n = x
        <4>1. Refs(x)' = Nodes \cap {v}
          BY <2>1, RefsOfFunctions DEF DebugInv, DebugTypeOK
        <4>2. v \in Nodes /\ colour'[x] = "black" => colour'[v] # "white"
          BY <2>1, <2>2, BarrierFacts DEF DebugInv
        <4> QED
          BY <3>3, <4>1, <4>2 DEF RefersToWhite, White
      <3>4. CASE n # x
        <4>1. Refs(n)' = Refs(n)
          BY <2>1, <3>4, RefsOfFunctions DEF DebugInv, DebugTypeOK, Proto
        <4> QED
          BY <2>2, <3>2, <4>1 DEF RefersToWhite, White, Refs
      <3> QED
        BY <3>3, <3>4
    <2> QED
      BY <2>3, <2>5, <2>6 DEF DebugInv, FunctionsTriColor
  <1> QED
    BY <1>1, <1>2

LEMMA SetStackKeeps ==
    ASSUME DebugInv, NEW v \in Arguments, NEW n \in Levels, NEW i \in Int, debug_setstack(n, i, v)
    PROVE  DebugInv'
  <1> DEFINE k == Call(n)
  <1>1. k \in DOMAIN stack /\ stack[k] \in CallType /\ i \in DOMAIN stack[k].regs
    BY DEF debug_setstack, InStack, Call, Depth, DebugInv, DebugTypeOK
  <1>2. v \in Values /\ Made(v)
    BY ArgumentsMade
  <1>3. [stack[k].regs EXCEPT ![i] = v] \in Seq(Values)
    BY <1>1, <1>2, ExceptSeq DEF CallType
  <1>4. stack' = [stack EXCEPT ![k] = [stack[k] EXCEPT !.regs[i] = v]]
    BY DEF debug_setstack
  <1>5. [stack[k] EXCEPT !.regs[i] = v] \in CallType
    BY <1>1, <1>3 DEF CallType
  <1>6. stack' \in Seq(CallType) /\ Len(stack') = Len(stack)
    BY <1>1, <1>4, <1>5, ExceptSeq DEF DebugInv, DebugTypeOK
  <1>7. UNCHANGED <<heapVars, colour, marking, undefined>>
    BY DEF debug_setstack
  <1>8. DebugTypeOK'
    BY <1>6, <1>7 DEF DebugInv, DebugTypeOK, heapVars, Proto
  <1>9. ValuesMade'
    <2>1. \A w : Made(w)' <=> Made(w)
      BY <1>7 DEF heapVars, Made
    <2>2. \A m \in DOMAIN stack : /\ stack'[m].func = stack[m].func
                                 /\ DOMAIN stack'[m].regs = DOMAIN stack[m].regs
                                 /\ \A r \in DOMAIN stack[m].regs :
                                      stack'[m].regs[r] = stack[m].regs[r] \/ stack'[m].regs[r] = v
      BY <1>1, <1>4 DEF DebugInv, DebugTypeOK, CallType
    <2>3. DOMAIN stack' = DOMAIN stack
      BY <1>6 DEF DebugInv, DebugTypeOK
    <2> QED
      BY <1>2, <1>7, <2>1, <2>2, <2>3 DEF DebugInv, ValuesMade, heapVars
  <1>10. FunctionsTriColor'
    BY <1>7 DEF DebugInv, FunctionsTriColor, RefersToWhite, White, Refs, Proto, heapVars
  <1> QED
    BY <1>8, <1>9, <1>10 DEF DebugInv

-----------------------------------------------------------------------------
(* Creations: what is new is white, and nothing refers to it yet.          *)

LEMMA NewTableKeeps == ASSUME DebugInv, NEW t \in Tables, NewTable(t) PROVE DebugInv'
  <1>1. /\ t \in Values /\ t \in Nodes /\ t \notin Closures /\ colour[t] = "unmade"
        /\ colour' = [colour EXCEPT ![t] = "white"]
        /\ Returns(t) /\ UNCHANGED <<heapVars, marking, undefined>>
    BY DebugAssumption DEF NewTable, Values, Nodes
  <1>2. colour' \in [Nodes -> {"unmade", "white", "gray", "black", "freed"}]
    BY <1>1 DEF DebugInv, DebugTypeOK
  <1>3. \A n \in Nodes \ {t} : colour'[n] = colour[n]
    BY <1>1 DEF DebugInv, DebugTypeOK
  <1>4. colour'[t] = "white"
    BY <1>1 DEF DebugInv, DebugTypeOK
  <1>5. DebugTypeOK'
    BY <1>1, <1>2, ReturnsKeeps DEF DebugInv, DebugTypeOK, heapVars, Proto
  <1>6. \A w : (Made(w) => Made(w)') /\ Made(t)'
    BY <1>1, <1>3, <1>4 DEF Made, heapVars, Nodes
  <1>7. ValuesMade'
    <2>1. \A c \in Closures \ DOMAIN closure : colour'[c] = "unmade"
      BY <1>1, <1>3 DEF DebugInv, ValuesMade, Nodes, Values
    <2> QED
      BY <1>1, <1>6, <2>1, ReturnsKeeps DEF DebugInv, ValuesMade, heapVars
  <1>8. ASSUME NEW n \in Closures \cup Variables PROVE ~RefersToWhite(n)'
    <2>1. n \in Nodes /\ n # t
      BY <1>1, DebugAssumption DEF Nodes, Values
    <2>2. CASE n \in Closures \ DOMAIN closure
      BY <1>3, <2>1, <2>2 DEF DebugInv, ValuesMade, RefersToWhite
    <2>3. CASE n \in DOMAIN closure \cup Variables
      <3>1. t \notin Refs(n)
        <4>1. ~Made(t)
          BY <1>1 DEF Made
        <4>2. CASE n \in Variables
          BY <4>1, <4>2, RefsOfFunctions DEF DebugInv, ValuesMade
        <4>3. CASE n \in DOMAIN closure
          <5>1. n \in Closures /\ Proto(n) \in Protos /\ t \notin Protos
            BY <4>3, <1>1, DebugAssumption DEF DebugInv, DebugTypeOK, ClosureType, Proto, Values
          <5>2. t \notin ToSet(closure[n].cells)
            BY <4>1, <4>3 DEF DebugInv, ValuesMade, ToSet
          <5> QED
            BY <5>1, <5>2, RefsOfFunctions
        <4> QED
          BY <2>3, <4>2, <4>3
      <3>2. Refs(n)' = Refs(n)
        BY <1>1 DEF Refs, Proto, heapVars
      <3> QED
        BY <1>3, <2>1, <3>1, <3>2 DEF DebugInv, FunctionsTriColor, RefersToWhite, White, Refs
    <2> QED
      BY <2>2, <2>3
  <1> QED
    BY <1>5, <1>7, <1>8 DEF DebugInv, FunctionsTriColor

LEMMA NewFunctionKeeps ==
    ASSUME DebugInv, NEW f \in Closures, NEW p \in Protos, luaF_newLclosure(f, p) PROVE DebugInv'
  <1>1. /\ f \notin DOMAIN closure /\ f \in Values /\ f \in Nodes /\ f \notin Tables
        /\ colour' = [colour EXCEPT ![f] = "white"]
        /\ Returns(f) /\ UNCHANGED <<constants, content, marking, undefined>>
    BY DebugAssumption DEF luaF_newLclosure, Unmade, Values, Nodes
  <1>2. /\ DOMAIN closure' = DOMAIN closure \cup {f}
        /\ \A c \in DOMAIN closure : closure'[c] = closure[c] /\ c \in Closures
        /\ closure'[f] = [kind |-> "Lua", proto |-> p, cells |-> NewCells(p)]
    BY DEF luaF_newLclosure, Unmade, DebugInv, DebugTypeOK
  <1>3. /\ colour' \in [Nodes -> {"unmade", "white", "gray", "black", "freed"}]
        /\ \A n \in Nodes \ {f} : colour'[n] = colour[n]
        /\ colour'[f] = "white"
    BY <1>1 DEF DebugInv, DebugTypeOK
  <1>4. /\ NewCells(p) \in Seq(Values \cup Variables) /\ Len(NewCells(p)) = Nups[p]
        /\ \A i \in DOMAIN NewCells(p) : NewCells(p)[i] = Nil
    <2>1. Nups[p] \in Nat /\ Nil \in Values \cup Variables
      BY DebugAssumption DEF Values
    <2>2. NewCells(p) \in [1..Nups[p] -> Values \cup Variables] /\ DOMAIN NewCells(p) = 1..Nups[p]
      BY <2>1 DEF NewCells
    <2>3. NewCells(p) \in Seq(Values \cup Variables) /\ Len(NewCells(p)) = Nups[p]
      BY <2>1, <2>2, LenProperties, IsASeq
    <2> QED
      BY <2>3 DEF NewCells
  <1>5. DebugTypeOK'
    <2>1. \A c \in DOMAIN closure' :
            /\ closure'[c] \in ClosureType
            /\ closure'[c].kind = "Lua" => Len(closure'[c].cells) = Nups[closure'[c].proto]
      BY <1>2, <1>4 DEF DebugInv, DebugTypeOK, ClosureType, Proto
    <2> QED
      BY <1>1, <1>2, <1>3, <2>1, ReturnsKeeps DEF DebugInv, DebugTypeOK, Proto
  <1>6. \A w : (Made(w) => Made(w)') /\ Made(f)' /\ Made(Nil)'
    BY <1>1, <1>2, <1>3, DebugAssumption DEF Made, Nodes
  <1>7. ValuesMade'
    <2>1. \A c \in Closures \ DOMAIN closure' : colour'[c] = "unmade"
      BY <1>1, <1>2, <1>3 DEF DebugInv, ValuesMade, Nodes, Values
    <2>2. (\A c \in DOMAIN closure : \A i \in DOMAIN closure[c].cells : Made(closure[c].cells[i]))'
      BY <1>2, <1>4, <1>6 DEF DebugInv, ValuesMade
    <2> QED
      BY <1>1, <1>2, <1>6, <2>1, <2>2, ReturnsKeeps DEF DebugInv, ValuesMade
  <1>8. ASSUME NEW n \in Closures \cup Variables PROVE ~RefersToWhite(n)'
    <2>1. CASE n = f
      BY <1>3, <2>1 DEF RefersToWhite
    <2>2. CASE n \in Closures \ (DOMAIN closure \cup {f})
      BY <1>3, <2>2 DEF DebugInv, ValuesMade, RefersToWhite, Nodes, Values
    <2>3. CASE n \in DOMAIN closure \cup Variables
      <3>1. n \in Nodes /\ n # f
        BY <1>1, <2>3, DebugAssumption DEF Nodes, Values
      <3>2. f \notin Refs(n) /\ Refs(n)' = Refs(n)
        <4>1. ~Made(f)
          BY <1>1 DEF Made
        <4>2. CASE n \in Variables
          BY <1>1, <4>1, <4>2, RefsOfFunctions DEF DebugInv, ValuesMade
        <4>3. CASE n \in DOMAIN closure
          <5>1. n \in Closures /\ Proto(n) \in Protos /\ f \notin Protos /\ Proto(n)' = Proto(n)
            BY <1>1, <1>2, <4>3, DebugAssumption DEF DebugInv, DebugTypeOK, ClosureType, Proto, Values
          <5>2. f \notin ToSet(closure[n].cells) /\ closure'[n] = closure[n]
            BY <1>2, <4>1, <4>3 DEF DebugInv, ValuesMade, ToSet
          <5> QED
            BY <5>1, <5>2, RefsOfFunctions
        <4> QED
          BY <2>3, <4>2, <4>3
      <3> QED
        BY <1>3, <3>1, <3>2 DEF DebugInv, FunctionsTriColor, RefersToWhite, White, Refs
    <2> QED
      BY <2>1, <2>2, <2>3
  <1> QED
    BY <1>5, <1>7, <1>8 DEF DebugInv, FunctionsTriColor

-----------------------------------------------------------------------------
(* Reads, and the theorems.                                                *)

LEMMA ConstantReadsKeep ==
    ASSUME DebugInv, NEW f \in Lua(Targets(Nil)), NEW i \in Int,
           debug_getconstant(f, i) \/ debug_getconstants(f)
    PROVE  DebugInv'
  <1>1. Nil \in Arguments /\ f \in DOMAIN closure
    BY ArgumentsMade, DebugAssumption DEF Arguments, Lua
  <1>2. Proto(f) \in Protos /\ constants[Proto(f)] \in Seq(Values)
    BY <1>1 DEF DebugInv, DebugTypeOK, ClosureType, Proto
  <1>3. \A j \in DOMAIN constants[Proto(f)] :
          Shown(constants[Proto(f)][j]) \in Values /\ Made(Shown(constants[Proto(f)][j]))
    BY <1>1, <1>2, ArgumentsMade DEF DebugInv, ValuesMade, Shown
  <1>4. CASE debug_getconstant(f, i)
    <2>1. CASE Outside
      BY <2>1, OutsideKeeps
    <2>2. CASE ~Outside
      <3>1. i \in DOMAIN constants[Proto(f)]
        BY <1>2, <1>4, <2>2 DEF debug_getconstant, Accepted
      <3>2. /\ Returns(Shown(constants[Proto(f)][i]))
            /\ UNCHANGED <<heapVars, colour, marking, undefined>>
        BY <1>4, <2>2 DEF debug_getconstant
      <3> QED
        BY <1>3, <3>1, <3>2, HandsOut
    <2> QED
      BY <2>1, <2>2
  <1>5. CASE debug_getconstants(f)
    <2>1. PICK j \in DOMAIN constants[Proto(f)] : /\ Returns(Shown(constants[Proto(f)][j]))
                                                 /\ UNCHANGED <<heapVars, colour, marking, undefined>>
      BY <1>5 DEF debug_getconstants, ToSet
    <2> QED
      BY <1>3, <2>1, HandsOut
  <1> QED
    BY <1>4, <1>5

LEMMA CellReadsKeep ==
    ASSUME DebugInv, NEW f \in Targets(Nil), NEW i \in Int,
           debug_getupvalue(f, i) \/ debug_getupvalues(f)
    PROVE  DebugInv'
  <1>1. f \in DOMAIN closure
    BY ArgumentsMade, DebugAssumption DEF Arguments
  <1>2. closure[f].cells \in Seq(Values \cup Variables)
    BY <1>1 DEF DebugInv, DebugTypeOK, ClosureType
  <1>3. ASSUME NEW j \in DOMAIN closure[f].cells, ReturnsCell(closure[f].cells[j]) PROVE DebugInv'
    <2>1. CASE closure[f].cells[j] \in Variables
      BY <1>3, <2>1, OutsideKeeps DEF ReturnsCell
    <2>2. CASE closure[f].cells[j] \notin Variables
      <3>1. closure[f].cells[j] \in Values /\ Made(closure[f].cells[j])
        BY <1>1, <1>2, <2>2 DEF DebugInv, ValuesMade
      <3>2. Returns(closure[f].cells[j]) /\ UNCHANGED <<heapVars, colour, marking, undefined>>
        BY <1>3, <2>2 DEF ReturnsCell
      <3> QED
        BY <3>1, <3>2, HandsOut
    <2> QED
      BY <2>1, <2>2
  <1>4. CASE debug_getupvalue(f, i)
    <2>1. CASE Outside
      BY <2>1, OutsideKeeps
    <2>2. CASE ~Outside
      <3>1. i \in DOMAIN closure[f].cells /\ ReturnsCell(closure[f].cells[i])
        BY <1>2, <1>4, <2>2 DEF debug_getupvalue, Accepted
      <3> QED
        BY <1>3, <3>1
    <2> QED
      BY <2>1, <2>2
  <1>5. CASE debug_getupvalues(f)
    BY <1>3, <1>5 DEF debug_getupvalues, ToSet
  <1> QED
    BY <1>4, <1>5

LEMMA StackReadKeeps ==
    ASSUME DebugInv, NEW n \in Levels, NEW i \in Int, debug_getstack(n, i) PROVE DebugInv'
  <1>1. Call(n) \in DOMAIN stack /\ i \in DOMAIN stack[Call(n)].regs
    BY DEF debug_getstack, InStack, Call, Depth, DebugInv, DebugTypeOK
  <1>2. stack[Call(n)].regs[i] \in Values /\ Made(stack[Call(n)].regs[i])
    <2>1. stack[Call(n)] \in CallType
      BY <1>1 DEF DebugInv, DebugTypeOK
    <2>2. stack[Call(n)].regs \in Seq(Values)
      BY <2>1 DEF CallType
    <2> QED
      BY <1>1, <2>2 DEF DebugInv, ValuesMade
  <1> QED
    BY <1>2, HandsOut DEF debug_getstack

LEMMA InfoKeeps == ASSUME DebugInv, debug_getinfo PROVE DebugInv'
  <1>1. PICK v \in Plain \cup (Regs \cap Closures) :
          Returns(v) /\ UNCHANGED <<heapVars, colour, marking, undefined>>
    BY DEF debug_getinfo
  <1>2. v \in Values /\ Made(v)
    BY <1>1, ArgumentsMade DEF Arguments
  <1> QED
    BY <1>1, <1>2, HandsOut

LEMMA ReadKeeps == ASSUME DebugInv, NEW i \in Int, Read(i) PROVE DebugInv'
  <1>1. stack[Depth].func \in DOMAIN closure
    BY DEF DebugInv, DebugTypeOK, ValuesMade, Depth
  <1>2. Cells \in Seq(Values \cup Variables) /\ \A j \in DOMAIN Cells : Made(Cells[j])
    BY <1>1 DEF DebugInv, DebugTypeOK, ValuesMade, ClosureType, Cells
  <1>3. PICK v : /\ v = IF Cells[i] \in Variables THEN content[Cells[i]] ELSE Cells[i]
                 /\ Returns(v) /\ UNCHANGED <<heapVars, colour, marking, undefined>>
    BY DEF Read
  <1>4. v \in Values /\ Made(v)
    BY <1>2, <1>3 DEF Read, DebugInv, DebugTypeOK, ValuesMade
  <1> QED
    BY <1>3, <1>4, HandsOut

LEMMA PrototypesKeep ==
    ASSUME DebugInv, NEW f \in Lua(Targets(Nil)), NEW i \in Int,
           debug_getproto(f, i) \/ debug_getprotos(f)
    PROVE  DebugInv'
  <1>1. f \in DOMAIN closure
    BY ArgumentsMade, DebugAssumption DEF Arguments, Lua
  <1>2. Nested[Proto(f)] \in Seq(Protos)
    BY <1>1, DebugAssumption DEF DebugInv, DebugTypeOK, ClosureType, Proto
  <1>3. PICK c \in Closures, p \in Protos : luaF_newLclosure(c, p)
    <2>1. CASE debug_getproto(f, i)
      BY <1>2, <2>1 DEF debug_getproto
    <2>2. CASE debug_getprotos(f)
      BY <1>2, <2>2 DEF debug_getprotos, ToSet
    <2> QED
      BY <2>1, <2>2
  <1> QED
    BY <1>3, NewFunctionKeeps

LEMMA DebugInvNext == DebugInv /\ [DebugNext]_debugVars => DebugInv'
  <1> SUFFICES ASSUME DebugInv, [DebugNext]_debugVars PROVE DebugInv'
    OBVIOUS
  <1> Indices \subseteq Int /\ Levels \subseteq Int
    BY DebugAssumption
  <1>1. ASSUME NEW v \in Arguments, NEW i \in Indices, Set(v, i) PROVE DebugInv'
    BY <1>1, SetConstantKeeps, SetUpvalueKeeps, SetStackKeeps, AssignKeeps DEF Set
  <1>2. ASSUME NEW i \in Indices, Get(i) PROVE DebugInv'
    BY <1>2, ConstantReadsKeep, PrototypesKeep, CellReadsKeep, StackReadKeeps, ReadKeeps DEF Get
  <1>3. CASE GetAll
    BY <1>3, InfoKeeps, ConstantReadsKeep, PrototypesKeep, CellReadsKeep DEF GetAll
  <1>4. ASSUME NEW t \in Tables, NewTable(t) PROVE DebugInv'
    BY <1>4, NewTableKeeps
  <1>5. CASE MarkStack \/ Sweep \/ \E n \in Nodes : Propagate(n)
    BY <1>5, MarkStackKeeps, SweepKeeps, PropagateKeeps
  <1>6. CASE UNCHANGED debugVars
    BY <1>6 DEF debugVars, heapVars, DebugInv, DebugTypeOK, ValuesMade, FunctionsTriColor,
                RefersToWhite, White, Refs, Made, Proto
  <1> QED
    BY <1>1, <1>2, <1>3, <1>4, <1>5, <1>6 DEF DebugNext

LEMMA DebugInvAlways == DebugSpec => []DebugInv
  BY DebugInvInit, DebugInvNext, PTL DEF DebugSpec

\* Whatever scripts pass to the debug functions, short of what is undefined,
\* constants, upvalues and the stack's registers hold what Lua can hold there.
THEOREM DebugTypeCorrect == DebugSpec => []DebugTypeOK
  <1>1. DebugInv => DebugTypeOK
    BY DEF DebugInv
  <1> QED
    BY <1>1, DebugInvAlways, PTL

\* setupvalue and the script's assignments leave no function and no variable that
\* the collector is done with referring to an object that it would free.
THEOREM CollectorSeesUpvalues == DebugSpec => []FunctionsTriColor
  <1>1. DebugInv => FunctionsTriColor
    BY DEF DebugInv
  <1> QED
    BY <1>1, DebugInvAlways, PTL
=============================================================================
