----------------------------- MODULE PaperAnswer -----------------------------
(***************************************************************************)
(* What fetch_today promises whoever stores its answer: every archive of   *)
(* one interface, each once, or nothing; what an interface had answered    *)
(* before it failed is forgotten.  How much of an archive a batch holds is *)
(* PaperFetch's to say: search may give up before the window's edge.       *)
(***************************************************************************)
EXTENDS Naturals, Sequences

CONSTANT Archives   \* RSS_FEEDS, OAI_SETS, categories: the sequence asked

ASSUME ArchivesAssumption == Archives \in Seq(STRING) /\ Len(Archives) > 0

VARIABLES
    iface,      \* the interface being asked; "none" outside fetch_today
    unit,       \* index of the archive being asked
    got         \* the papers this interface has answered with so far

answerVars == <<iface, unit, got>>

Interfaces == {"rss", "oai", "search"}

AnswerInit == iface = "none" /\ unit = 1 /\ got = {}

Ask(i) == iface' = i /\ unit' = 1 /\ got' = {}

Begin == iface = "none" /\ Ask("rss")

\* The chain of except clauses: the interface tried when this one fails.
Fallback == [rss |-> "oai", oai |-> "search", search |-> "failed"]
InterfaceFails == iface \in Interfaces /\ Ask(Fallback[iface])

\* After the last page of an archive: the next archive, or the whole answer.
ArchiveAnswered(batch) ==
    /\ iface \in Interfaces
    /\ got' = got \cup batch
    /\ IF unit < Len(Archives)
       THEN unit' = unit + 1 /\ UNCHANGED iface
       ELSE iface' = "answered" /\ unit' = 1

\* fetch_today has returned or raised.
End == iface \in {"answered", "failed"} /\ iface' = "none" /\ unit' = 1 /\ UNCHANGED got

\* The process and its answer are gone.
Kill == iface' = "none" /\ unit' = 1 /\ got' = {}

AnswerTypeOK ==
    /\ iface \in Interfaces \cup {"none", "answered", "failed"}
    /\ unit \in 1..Len(Archives)
=============================================================================
