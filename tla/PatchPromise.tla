---------------------------- MODULE PatchPromise ----------------------------
(***************************************************************************)
(* What a script of apply_patch calls promises to whoever installs it, with *)
(* nothing of how: each target is replaced as a whole, in the order of the  *)
(* script, a replaced target stays replaced however often the script is    *)
(* run, and the script succeeds only when every target is replaced.        *)
(***************************************************************************)
EXTENDS Naturals

CONSTANT NJobs

VARIABLES
    status,     \* of each job's target: "old" or "new"
    result      \* of the present run: "running", "success" or "failure"

Init ==
    /\ status \in [1..NJobs -> {"old", "new"}]
    /\ result = "running"

\* The targets before j are replaced already; now that of j is.
Replace(j) ==
    /\ result = "running"
    /\ status[j] = "old"
    /\ \A i \in 1..(j - 1) : status[i] = "new"
    /\ status' = [status EXCEPT ![j] = "new"]
    /\ UNCHANGED result

Succeed ==
    /\ result = "running"
    /\ \A j \in 1..NJobs : status[j] = "new"
    /\ result' = "success"
    /\ UNCHANGED status

Fail ==
    /\ result = "running"
    /\ result' = "failure"
    /\ UNCHANGED status

RunAgain ==
    /\ result # "running"
    /\ result' = "running"
    /\ UNCHANGED status

Next == (\E j \in 1..NJobs : Replace(j)) \/ Succeed \/ Fail \/ RunAgain

Spec == Init /\ [][Next]_<<status, result>>
=============================================================================
