------------------------------ MODULE JobQueue ------------------------------
(***************************************************************************)
(* What a job scheduler promises: every job submitted is executed, once,   *)
(* in the order of submission.  Jobs are numbered as they are submitted.   *)
(***************************************************************************)
EXTENDS Integers, Sequences

VARIABLES pending,   \* the jobs submitted and not yet executed, oldest first
          executed   \* the jobs executed, in order

vars == <<pending, executed>>

Init == pending = <<>> /\ executed = <<>>

Submit ==
    /\ pending' = Append(pending, Len(pending) + Len(executed) + 1)
    /\ UNCHANGED executed

Execute ==
    /\ pending # <<>>
    /\ executed' = Append(executed, Head(pending))
    /\ pending' = Tail(pending)

Next == Submit \/ Execute

Spec == Init /\ [][Next]_vars /\ WF_vars(Execute)

=============================================================================
