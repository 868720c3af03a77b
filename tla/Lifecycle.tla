------------------------------ MODULE Lifecycle ------------------------------
(* Where an alpha stands, derived from its submission records and from the
   ledger of decisions (core/alphas/lifecycle.py).  Nothing here has a state:
   SubmissionDesk says how the records and the ledger come about.

   A submission is [approved, passed]: whether G0-G6 passed, and the set of the
   other gates that did.  The ledger is [file, entries], an entry [alpha, to].
   Authors, reasons and dates are left out: an entry without them makes the
   ledger malformed. *)
EXTENDS Integers, Sequences, FiniteSetsExt, SequencesExt

Status == {"retired", "stopped", "proposed", "gated", "paper", "live"}

RANK ==
    [s \in Status |->
        CASE s = "retired" -> 0 [] s = "stopped" -> 1 [] s = "proposed" -> 2
          [] s = "gated" -> 3 [] s = "paper" -> 4 [] s = "live" -> 5]

LEDGER_ALLOWED == {"stopped", "retired"}

LedgerFile == {"missing", "malformed", "entries"}

Cleared(s) == s.approved /\ "G1_preregistration" \in s.passed

\* Mutant: approval alone clears, whether or not N was declared.
EvidenceOfApproval(submissions) ==
    IF \E s \in submissions : s.approved THEN "gated" ELSE "proposed"

\* The highest status the measurements support.
Evidence(submissions) ==
    IF \E s \in submissions : Cleared(s) /\ "G7_paper" \in s.passed THEN "paper"
    ELSE IF \E s \in submissions : Cleared(s) THEN "gated"
    ELSE "proposed"

\* Mutant: the last allowed word wins.
LastWord(status, to) == IF to \in LEDGER_ALLOWED THEN to ELSE status

\* Mutant: a recorded word is taken for a status, as long as it is one.
AnyWord(status, to) == IF to \in Status THEN to ELSE status

\* One entry of the alpha's own: only the two lowering words, and only to lower.
Lowered(status, to) ==
    IF to \in LEDGER_ALLOWED /\ RANK[to] < RANK[status] THEN to ELSE status

\* The entries in file order, over the evidence.
Derive(alpha, submissions, entries) ==
    FoldLeft(LAMBDA status, e : IF e.alpha = alpha THEN Lowered(status, e.to) ELSE status,
             Evidence(submissions), entries)

\* A missing ledger is read as no entry.
Entries(ledger) == IF ledger.file = "missing" THEN <<>> ELSE ledger.entries

------------------------------------------------------------------------------
\* What the derivation is for: of the evidence and the alpha's own lowering
\* decisions, in whatever order they were written, the lowest.
Lowest(alpha, submissions, entries) ==
    LET said == {e.to : e \in {f \in ToSet(entries) : f.alpha = alpha}} \cap LEDGER_ALLOWED
    IN CHOOSE s \in said \cup {Evidence(submissions)} :
           \A t \in said \cup {Evidence(submissions)} : RANK[s] <= RANK[t]

==============================================================================
