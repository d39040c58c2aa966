----------------------------- MODULE MCClosures -----------------------------
(***************************************************************************)
(* Instances of Closures for model checking: a script that finds two       *)
(* natives and has two functions of its own.                               *)
(***************************************************************************)
EXTENDS Closures

CodesOfScript == {"print", "warn", "f", "g"}
ScriptValues == {"p", "x", "y"}

\* A native and a function of each kind: with upvalues and without.
MixedClosures == <<Closure("C", "print", <<"p">>), Closure("C", "warn", <<>>),
                   Closure("Lua", "f", <<"x">>)>>

OneEach == <<Closure("C", "print", <<>>), Closure("Lua", "f", <<>>)>>
=============================================================================
