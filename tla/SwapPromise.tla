---------------------------- MODULE SwapPromise -----------------------------
(***************************************************************************)
(* What execute_swap promises its callers, whichever of the two executors  *)
(* they were given (they take the same order and return a SwapResult): a   *)
(* call returns once, with an outcome that callers are prepared for, which *)
(* is its outcome from then on; calls return one at a time, in any order,  *)
(* or never.                                                               *)
(***************************************************************************)
EXTENDS SwapContract

CONSTANTS Calls,
          Pending    \* a call that has not returned

VARIABLE outcome

Init == outcome = [c \in Calls |-> Pending]

Returns(c, o) ==
  /\ outcome[c] = Pending
  /\ outcome' = [outcome EXCEPT ![c] = o]

Next == \E c \in Calls, o \in SwapOutcomes : Returns(c, o)

Spec == Init /\ [][Next]_outcome
=============================================================================
