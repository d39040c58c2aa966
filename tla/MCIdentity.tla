----------------------------- MODULE MCIdentity -----------------------------
(***************************************************************************)
(* An instance of Identity for model checking: two threads of Studio, one  *)
(* with an identity that counts as another, and code of every origin, with *)
(* functions inside functions.                                             *)
(***************************************************************************)
EXTENDS Identity, TLC

CONSTANTS s1, s2,
          chunk, callback, inner, stub, plugin

TwoOfStudio == {s1, s2}
PluginAndScript == [t \in TwoOfStudio |-> IF t = s1 THEN 6 ELSE 1]
SharedGlobals   == [t \in TwoOfStudio |-> s1]
InAndOutOfRange == {3, 10}

EveryProto == {chunk, callback, inner, stub, plugin}
Nesting == [p \in EveryProto |->
                CASE p = chunk    -> {chunk, callback, inner}
                  [] p = callback -> {callback, inner}
                  [] OTHER        -> {p}]
LoadedChunks == {chunk}
LoadedStubs  == {stub}
PluginCode   == {plugin}

ThreadSymmetry == Permutations(SpareThreads)
=============================================================================
