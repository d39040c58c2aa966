---------------------------- MODULE DebugLibrary ----------------------------
(***************************************************************************)
(* The debug functions that read and write the constants, upvalues, nested *)
(* prototypes and stack of a script's functions, under Luau's incremental  *)
(* collector.                                                              *)
(*                                                                         *)
(* The script is inside calls of Lua functions.  The innermost one calls   *)
(* the debug functions with what its registers hold; a result goes to one  *)
(* of its registers.  A call that raises an error changes nothing and is   *)
(* no step.  Captured variables that functions assign are objects of their *)
(* own (closed: their scopes have ended); the others are captured by value.*)
(***************************************************************************)
EXTENDS Integers, Sequences, SequencesExt

CONSTANTS
    Plain, Nil,        \* the values that are not collected, nil among them
    Tables,            \* the objects that scripts make
    Closures, Protos, Variables,   \* Luau's objects
    Nested,            \* per prototype, the prototypes nested in it
    Nups,              \* per prototype, how many variables it captures
    InitialClosures,   \* per closure that exists at first, what it is
    InitialConstants,  \* per prototype, its constants at first
    InitialStack,      \* the calls the script is in, innermost last
    Indices, Levels    \* the numbers that scripts pass

Values == Plain \cup Tables \cup Closures
Nodes  == Tables \cup Closures \cup Protos \cup Variables
ClosureType == [kind : {"Lua", "C"}, proto : Protos, cells : Seq(Values \cup Variables)]
CallType    == [func : Closures, regs : Seq(Values)]

ASSUME DebugAssumption ==
    /\ Nil \in Plain /\ Plain \cap Nodes = {} /\ Protos \cap Values = {}
    /\ Variables \cap (Values \cup Protos) = {} /\ Tables \cap Closures = {}
    /\ Nested \in [Protos -> Seq(Protos)] /\ Nups \in [Protos -> Nat]
    /\ DOMAIN InitialClosures \subseteq Closures
    /\ \A c \in DOMAIN InitialClosures :
         LET cl == InitialClosures[c]
         IN  /\ cl \in ClosureType
             /\ cl.kind = "Lua" => Len(cl.cells) = Nups[cl.proto]
             /\ ToSet(cl.cells) \subseteq Plain \cup DOMAIN InitialClosures \cup Variables
    /\ InitialConstants \in [Protos -> Seq(Plain)]
    /\ InitialStack \in Seq(CallType) /\ InitialStack # <<>>
    /\ InitialClosures[Last(InitialStack).func].kind = "Lua"
    /\ \A n \in DOMAIN InitialStack :
         /\ InitialStack[n].func \in DOMAIN InitialClosures
         /\ ToSet(InitialStack[n].regs) \subseteq Plain \cup DOMAIN InitialClosures
    /\ Indices \subseteq Int /\ Levels \subseteq Int

VARIABLES
    constants,  \* per prototype, its array k
    closure,    \* per closure that was made, its kind, prototype and upvalues
    content,    \* per captured variable, its value
    stack,      \* the calls the script is in
    colour,     \* per object, its colour, if it is neither unmade nor freed
    marking,    \* whether the collector is marking
    undefined   \* something was done whose outcome is not defined

heapVars  == <<constants, closure, content>>
debugVars == <<heapVars, stack, colour, marking, undefined>>

Unmade(c) == c \notin DOMAIN closure
Depth == Len(stack)
Regs  == ToSet(stack[Depth].regs)

DebugInit ==
    /\ constants = InitialConstants /\ closure = InitialClosures
    /\ content = [x \in Variables |-> Nil] /\ stack = InitialStack
    /\ colour = [n \in Nodes |-> IF n \in Tables \cup (Closures \ DOMAIN InitialClosures)
                                 THEN "unmade" ELSE "white"]
    /\ marking = FALSE /\ undefined = FALSE

-----------------------------------------------------------------------------
(* Arguments and results.                                                  *)

\* The function a level stands for: the innermost call, 0, is that of the debug
\* function itself, which is in C and has no upvalues; -1 is the last argument.
Level(n, last) ==
    IF n = -1 THEN {last} \cap Closures
    ELSE {stack[Depth + 1 - l].func : l \in {n} \cap (1..Depth)}

\* The functions that a first argument can stand for.
Targets(last) == (Regs \cap Closures) \cup UNION {Level(n, last) : n \in Levels}

Lua(cs) == {c \in cs : closure[c].kind = "Lua"}
Proto(c) == closure[c].proto

\* Any value the calling function has at hand.
Arguments == Regs \cup Plain

\* The index check of the constants' and upvalues' functions lets negative
\* numbers pass.
Accepted(i, size) == i # 0 /\ i <= size
Outside == undefined' = TRUE /\ UNCHANGED <<heapVars, stack, colour, marking>>

Returns(v) ==
    \E r \in DOMAIN stack[Depth].regs : stack' = [stack EXCEPT ![Depth].regs[r] = v]

\* luaC_barrier: a white object that a black one comes to refer to is marked.
BarrierForgotten(n, v) == colour                                    \* mutant
Barrier(n, v) ==
    IF v \in Nodes /\ colour[n] = "black" /\ colour[v] = "white"
    THEN [colour EXCEPT ![v] = "gray"] ELSE colour

-----------------------------------------------------------------------------
(* Constants: functions among them are neither shown nor replaced.         *)

debug_setconstant(f, i, v) ==
    LET p == Proto(f)
    IN  /\ Accepted(i, Len(constants[p]))
        /\ IF i < 0 THEN Outside
           ELSE /\ constants[p][i] \notin Closures
                /\ constants' = [constants EXCEPT ![p][i] = v]
                /\ UNCHANGED <<closure, content, stack, colour, marking, undefined>>

Shown(v) == IF v \in Closures THEN Nil ELSE v

debug_getconstant(f, i) ==
    LET k == constants[Proto(f)]
    IN  /\ Accepted(i, Len(k))
        /\ IF i < 0 THEN Outside
           ELSE Returns(Shown(k[i])) /\ UNCHANGED <<heapVars, colour, marking, undefined>>

\* It returns a table of all the constants, here and below: the script goes on with one.
debug_getconstants(f) ==
    /\ \E v \in ToSet(constants[Proto(f)]) : Returns(Shown(v))
    /\ UNCHANGED <<heapVars, colour, marking, undefined>>

-----------------------------------------------------------------------------
(* Upvalues, of Lua and C functions.                                       *)

\* The closure's own cell is written, not the variable that it may refer to.
debug_setupvalue(f, i, v) ==
    /\ Accepted(i, Len(closure[f].cells))
    /\ IF i < 0 THEN Outside
       ELSE /\ closure' = [closure EXCEPT ![f].cells[i] = v]
            /\ colour' = Barrier(f, v)
            /\ UNCHANGED <<constants, content, stack, marking, undefined>>

\* A cell that refers to a variable is returned as it is: no value of Lua.
ReturnsCell(cell) ==
    IF cell \in Variables THEN Outside
    ELSE Returns(cell) /\ UNCHANGED <<heapVars, colour, marking, undefined>>

debug_getupvalue(f, i) ==
    /\ Accepted(i, Len(closure[f].cells))
    /\ IF i < 0 THEN Outside ELSE ReturnsCell(closure[f].cells[i])

debug_getupvalues(f) == \E cell \in ToSet(closure[f].cells) : ReturnsCell(cell)

-----------------------------------------------------------------------------
(* Prototypes: a new closure, whose upvalues are nil.                      *)

OneCellMore(p) == [i \in 1..Nups[p] + 1 |-> Nil]                    \* mutant
NewCells(p)    == [i \in 1..Nups[p] |-> Nil]
luaF_newLclosure(c, p) ==
    /\ Unmade(c)
    /\ closure' = [d \in DOMAIN closure \cup {c} |->
                     IF d = c THEN [kind |-> "Lua", proto |-> p, cells |-> NewCells(p)]
                     ELSE closure[d]]
    /\ colour' = [colour EXCEPT ![c] = "white"]
    /\ Returns(c)
    /\ UNCHANGED <<constants, content, marking, undefined>>

debug_getproto(f, i) ==
    /\ i >= 1 /\ i <= Len(Nested[Proto(f)])
    /\ \E c \in Closures : luaF_newLclosure(c, Nested[Proto(f)][i])

debug_getprotos(f) ==
    \E c \in Closures, p \in ToSet(Nested[Proto(f)]) : luaF_newLclosure(c, p)

-----------------------------------------------------------------------------
(* The stack, by level and register (without one, getstack returns all).   *)

Call(n) == Depth + 1 - n
InStack(n, i) == /\ n \in 1..Depth /\ stack[Call(n)].func \in Lua(DOMAIN closure)
                 /\ i \in DOMAIN stack[Call(n)].regs

debug_setstack(n, i, v) ==
    /\ InStack(n, i)
    /\ stack' = [stack EXCEPT ![Call(n)].regs[i] = v]
    /\ UNCHANGED <<heapVars, colour, marking, undefined>>

debug_getstack(n, i) ==
    /\ InStack(n, i)
    /\ Returns(stack[Call(n)].regs[i])
    /\ UNCHANGED <<heapVars, colour, marking, undefined>>

\* A table of names and numbers, and of the function or level that was asked about.
debug_getinfo ==
    /\ \E v \in Plain \cup (Regs \cap Closures) : Returns(v)
    /\ UNCHANGED <<heapVars, colour, marking, undefined>>

-----------------------------------------------------------------------------
(* The script itself, and the collector.                                   *)

\* The innermost function makes a table, assigns a captured variable, reads one.
NewTable(t) ==
    /\ colour[t] = "unmade"
    /\ colour' = [colour EXCEPT ![t] = "white"]
    /\ Returns(t)
    /\ UNCHANGED <<heapVars, marking, undefined>>

Cells == closure[stack[Depth].func].cells

\* The instruction takes the cell for a variable, which after setupvalue it is not.
Assign(i, v) ==
    /\ i \in DOMAIN Cells
    /\ IF Cells[i] \notin Variables THEN Outside
       ELSE /\ content' = [content EXCEPT ![Cells[i]] = v]
            /\ colour' = Barrier(Cells[i], v)
            /\ UNCHANGED <<constants, closure, stack, marking, undefined>>

Read(i) ==
    /\ i \in DOMAIN Cells
    /\ Returns(IF Cells[i] \in Variables THEN content[Cells[i]] ELSE Cells[i])
    /\ UNCHANGED <<heapVars, colour, marking, undefined>>

\* What an object refers to.
Refs(n) == Nodes \cap
    (IF n \in Closures THEN {Proto(n)} \cup ToSet(closure[n].cells)
     ELSE IF n \in Protos THEN ToSet(constants[n]) \cup ToSet(Nested[n])
     ELSE IF n \in Variables THEN {content[n]}
     ELSE {})
Roots == Nodes \cap UNION {{call.func} \cup ToSet(call.regs) : call \in ToSet(stack)}

White(ns) == {n \in ns : colour[n] = "white"}
Gray(ns)  == [n \in Nodes |-> IF n \in White(ns) THEN "gray" ELSE colour[n]]

\* The running thread is a root that is gray until the sweep: its stack is marked when
\* the cycle starts, possibly again, and at last before the sweep.
MarkStack ==
    /\ White(Roots) # {}
    /\ marking' = TRUE /\ colour' = Gray(Roots)
    /\ UNCHANGED <<heapVars, stack, undefined>>

\* A gray object's references are marked, and it is done with.
Propagate(n) ==
    /\ colour[n] = "gray"
    /\ colour' = [Gray(Refs(n)) EXCEPT ![n] = "black"]
    /\ UNCHANGED <<heapVars, stack, marking, undefined>>

Sweep ==
    /\ marking /\ \A n \in Nodes : colour[n] # "gray"
    /\ White(Roots) = {}
    /\ colour' = [n \in Nodes |-> CASE colour[n] = "white" -> "freed"
                                    [] colour[n] = "black" -> "white"
                                    [] OTHER               -> colour[n]]
    /\ marking' = FALSE
    /\ UNCHANGED <<heapVars, stack, undefined>>

-----------------------------------------------------------------------------
Set(v, i) ==
    \/ \E f \in Lua(Targets(v)) : debug_setconstant(f, i, v)
    \/ \E f \in Targets(v) : debug_setupvalue(f, i, v)
    \/ \E n \in Levels : debug_setstack(n, i, v)
    \/ Assign(i, v)

Get(i) ==
    \/ \E f \in Lua(Targets(Nil)) : debug_getconstant(f, i) \/ debug_getproto(f, i)
    \/ \E f \in Targets(Nil) : debug_getupvalue(f, i)
    \/ \E n \in Levels : debug_getstack(n, i)
    \/ Read(i)

GetAll ==
    \/ debug_getinfo
    \/ \E f \in Lua(Targets(Nil)) : debug_getconstants(f) \/ debug_getprotos(f)
    \/ \E f \in Targets(Nil) : debug_getupvalues(f)

DebugNext ==
    \/ ~undefined /\ \E v \in Arguments, i \in Indices : Set(v, i)
    \/ ~undefined /\ \E i \in Indices : Get(i)
    \/ ~undefined /\ (GetAll \/ \E t \in Tables : NewTable(t))
    \/ ~undefined /\ (MarkStack \/ Sweep \/ \E n \in Nodes : Propagate(n))

DebugSpec == DebugInit /\ [][DebugNext]_debugVars

-----------------------------------------------------------------------------
(* Properties.                                                             *)

DebugTypeOK ==
    /\ constants \in [Protos -> Seq(Values)]
    /\ DOMAIN closure \subseteq Closures
    /\ \A c \in DOMAIN closure :
         /\ closure[c] \in ClosureType
         /\ closure[c].kind = "Lua" => Len(closure[c].cells) = Nups[Proto(c)]
    /\ content \in [Variables -> Values]
    /\ stack \in Seq(CallType) /\ stack # <<>>
    /\ colour \in [Nodes -> {"unmade", "white", "gray", "black", "freed"}]
    /\ marking \in BOOLEAN /\ undefined \in BOOLEAN

RefersToWhite(n) == colour[n] = "black" /\ White(Refs(n)) # {}

\* While the collector marks, no function or captured variable it has done with
\* refers to an object it has not reached: setupvalue tells the collector.
FunctionsTriColor == \A n \in Closures \cup Variables : ~RefersToWhite(n)

\* The same of everything, prototypes and their constants included.
TriColor == \A n \in Nodes : ~RefersToWhite(n)
=============================================================================
