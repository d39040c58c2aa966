----------------------------- MODULE References -----------------------------
(***************************************************************************)
(* Luau's registry of references, as lua_ref and lua_unref keep it: an     *)
(* array of slots whose unused ones form a linked list.                    *)
(***************************************************************************)
EXTENDS Integers, Sequences

NoRef == 0                                        \* LUA_REFNIL
Link(next) == [holds |-> {}, next |-> next]       \* a number
Value(v)   == [holds |-> {v}, next |-> 0]         \* an object

NoReferences == [slots |-> <<>>, free |-> 0]

SlotUncounted(reg) == IF reg.free # 0 THEN reg.free ELSE Len(reg.slots)  \* mutant

\* The slot lua_ref takes: the head of the free list, or a new one at the end.
NextRef(reg) == IF reg.free # 0 THEN reg.free ELSE Len(reg.slots) + 1

\* The head of the list becomes what the slot says comes next.  In a slot that
\* holds an object that is its pointer, which reads as the number 0.
lua_ref(reg, v) ==
    IF reg.free # 0
    THEN [slots |-> [reg.slots EXCEPT ![reg.free] = Value(v)],
          free  |-> reg.slots[reg.free].next]
    ELSE [reg EXCEPT !.slots = Append(@, Value(v))]

lua_unref(reg, ref) ==
    IF ref <= NoRef THEN reg
    ELSE [slots |-> [reg.slots EXCEPT ![ref] = Link(reg.free)], free |-> ref]

\* The object lua_getref pushes, if it is one.
lua_getref(reg, ref) == reg.slots[ref].holds
=============================================================================
