--------------------------- MODULE GeneratedStore ---------------------------
(***************************************************************************)
(* What the generated files on main promise their readers: each publication *)
(* replaces some files of one job by newer generations, all at once, and   *)
(* touches no other file.                                                  *)
(***************************************************************************)
EXTENDS Naturals

CONSTANTS Files, Jobs, Outputs   \* Outputs[j]: the files job j generates

VARIABLE store                   \* store[f]: the generation of f on main

Init == store \in [Files -> Nat]

Publish(j) ==
  \E newer \in SUBSET (Outputs[j] \cap Files) :
    /\ newer # {}
    /\ \A f \in newer : store'[f] > store[f]
    /\ store' \in [Files -> Nat]
    /\ \A f \in Files \ newer : store'[f] = store[f]

Next == \E j \in Jobs : Publish(j)

Spec == Init /\ [][Next]_store
=============================================================================
