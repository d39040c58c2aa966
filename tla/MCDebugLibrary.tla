--------------------------- MODULE MCDebugLibrary ---------------------------
(***************************************************************************)
(* An instance of DebugLibrary for model checking: a script whose function *)
(* has called itself through a native (as with pcall), captures a variable *)
(* and has one constant.                                                   *)
(***************************************************************************)
EXTENDS DebugLibrary

CONSTANTS nil, t, f, native, fresh, outer, inner, x

OnlyNil == {nil}
OneTable == {t}
AllClosures == {f, native, fresh}
AllProtos == {outer, inner}
OneVariable == {x}

NestedProtos == (outer :> <<inner>>) @@ (inner :> <<>>)
Captures     == (outer :> 1) @@ (inner :> 0)
Constants    == (outer :> <<nil>>) @@ (inner :> <<>>)

ScriptClosures == (f :> [kind |-> "Lua", proto |-> outer, cells |-> <<x>>])
                    @@ (native :> [kind |-> "C", proto |-> inner, cells |-> <<>>])
ThreeCalls == <<[func |-> f, regs |-> <<nil>>], [func |-> native, regs |-> <<f>>],
                [func |-> f, regs |-> <<nil>>]>>

SomeIndices == -1..2
SomeLevels  == -1..3
=============================================================================
