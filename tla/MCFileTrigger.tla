--------------------------- MODULE MCFileTrigger ---------------------------
(* A job with one debounced trigger, and one with two triggers that are both *)
(* debounced or both not.                                                    *)
EXTENDS FileTrigger, TLC
CONSTANTS solo, duo, d1, d2

On(d, b)  == [dir |-> d, debounce |-> b]
Immediate == (solo :> <<On(d1, TRUE)>>) @@ (duo :> <<On(d1, FALSE), On(d2, FALSE)>>)
Debounced == (duo :> <<On(d1, TRUE), On(d2, TRUE)>>)

\* d1 does not exist yet, and both jobs are enabled.
MCInit == Init /\ present = {d2} /\ \A j \in Jobs : enabled[j]
MCSpec == MCInit /\ [][Next]_vars /\ WF_vars(Advance)
=============================================================================
