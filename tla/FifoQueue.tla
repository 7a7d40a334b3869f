------------------------------ MODULE FifoQueue ------------------------------
(***************************************************************************)
(* What thread_util::Queue<T> (foo_rpc/safequeue.h) promises its callers:  *)
(* push and pop are atomic and the items come out in the order they went   *)
(* in, each exactly once.  The state is the history of both operations.    *)
(***************************************************************************)
EXTENDS Naturals, Sequences

CONSTANT Items

VARIABLES pushed,  \* every item pushed so far, in order
          popped   \* every item handed out by pop so far, in order

fifoVars == <<pushed, popped>>

Init == pushed = <<>> /\ popped = <<>>

Push(v) == pushed' = Append(pushed, v) /\ UNCHANGED popped

Pop == /\ Len(popped) < Len(pushed)
       /\ popped' = Append(popped, pushed[Len(popped) + 1])
       /\ UNCHANGED pushed

Next == Pop \/ \E v \in Items : Push(v)

Spec == Init /\ [][Next]_fifoVars
=============================================================================
