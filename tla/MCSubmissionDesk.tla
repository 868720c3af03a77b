--------------------------- MODULE MCSubmissionDesk ---------------------------
EXTENDS SubmissionDesk, TLC

CONSTANTS momentum, reversal, fast, slow

\* A universe each: the alphas differ in nothing.
Apart == [a \in Alphas |-> a]
Symmetry == Permutations(Alphas)

Wide == [file |-> "declared", points |-> {fast, slow}, chosen |-> {fast}]
Narrow == [file |-> "declared", points |-> {fast}, chosen |-> {fast}]
Form == [file |-> "form", points |-> {fast}, chosen |-> {fast}]

AFewDeclarations == {Narrow, Wide, Form}
TwoGrids == {{fast}, {slow}}
SomeGrids == {{fast}, {fast, slow}}

Narrowly == {[declarations |-> [a \in Alphas |-> Narrow], grids |-> [a \in Alphas |-> {fast}]]}

\* A run beside which people decide is the only one, of a tree nobody edits.
Alone == runs <= 1 /\ edits = 0 /\ ~scratch
Undecided == ledger = [file |-> "entries", entries |-> <<>>]

MCNext ==
    /\ IF Alone THEN TRUE ELSE ledger' = ledger
    /\ Next
    /\ Undecided \/ Alone'
MCSpec == Init /\ [][MCNext]_vars

==============================================================================
