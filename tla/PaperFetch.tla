------------------------------ MODULE PaperFetch ------------------------------
(***************************************************************************)
(* One sweep's conversation with arXiv (scripts/fetch_papers.py): the RSS  *)
(* feeds, then the OAI-PMH harvest, then the search API, each asked        *)
(* archive by archive and page by page, every request retried by _get.     *)
(* The pauses between requests are left out.  It implements PaperAnswer,   *)
(* which sees an archive's pages when the last of them is in.              *)
(***************************************************************************)
EXTENDS Naturals, Sequences

CONSTANTS
    Archives,   \* RSS_FEEDS, OAI_SETS, categories: the sequence asked
    MaxPages,   \* of each interface: one, OAI_MAX_PAGES, MAX_PAGES
    Attempts    \* _get's attempts

Interfaces == {"rss", "oai", "search"}

ASSUME FetchAssumption ==
    /\ Archives \in Seq(STRING) /\ Len(Archives) > 0
    /\ MaxPages \in [Interfaces -> Nat \ {0}] /\ MaxPages["rss"] = 1
    /\ Attempts \in Nat \ {0}

VARIABLES
    iface,      \* the interface being asked; "none" outside fetch_today
    unit,       \* index of the archive being asked
    page,       \* page of that archive
    attempt,    \* attempt at that page
    got         \* the pages this interface has answered with so far

vars == <<iface, unit, page, attempt, got>>

\* A page and what it says of the archive: there is more when it carries a
\* resumption token, or is a full batch with a paper of the window in it.
Page == [of : Interfaces, unit : 1..Len(Archives), page : Nat \ {0},
         says : {"more", "last"}]

Init == iface = "none" /\ unit = 1 /\ page = 1 /\ attempt = 1 /\ got = {}

Ask(i) == iface' = i /\ unit' = 1 /\ page' = 1 /\ attempt' = 1 /\ got' = {}

BeginFetch == iface = "none" /\ Ask("rss")

\* The chain of except clauses: the interface tried when this one fails.
Fallback == [rss |-> "oai", oai |-> "search", search |-> "failed"]

\* _get or a parser raises: the interface's papers go with the exception.
FetchError == iface \in Interfaces /\ Ask(Fallback[iface])

Receive(says) ==
    got' = got \cup {[of |-> iface, unit |-> unit, page |-> page, says |-> says]}

\* The archive is left behind: the next one, or the papers are returned.
NextArchive ==
    /\ page' = 1 /\ attempt' = 1
    /\ IF unit < Len(Archives) THEN unit' = unit + 1 /\ UNCHANGED iface
       ELSE unit' = 1 /\ iface' = "answered"

LastPageServed == iface \in Interfaces /\ Receive("last") /\ NextArchive

\* Mutant: a token that leads back is followed again and again.
MorePagesLooping ==
    /\ iface \in {"oai", "search"} /\ Receive("more")
    /\ page' = (IF page < MaxPages[iface] THEN page + 1 ELSE 1) /\ attempt' = 1
    /\ UNCHANGED <<iface, unit>>
MorePages ==
    /\ iface \in Interfaces /\ page < MaxPages[iface] /\ Receive("more")
    /\ page' = page + 1 /\ attempt' = 1
    /\ UNCHANGED <<iface, unit>>

\* Mutant: the loop over the pages has no else.
HarvestCutShort ==
    iface = "oai" /\ page = MaxPages["oai"] /\ Receive("more") /\ NextArchive
\* The page bound is reached with more to come: harvest raises, and search's
\* loop just ends, with the newest papers it has.
HarvestNeverEnds == iface = "oai" /\ page = MaxPages["oai"] /\ FetchError
SearchCutShort ==
    iface = "search" /\ page = MaxPages["search"] /\ Receive("more") /\ NextArchive

\* A refusal worth waiting out (RETRYABLE), or no answer before the timeout.
Refused ==
    /\ iface \in Interfaces
    /\ \/ /\ attempt < Attempts
          /\ attempt' = attempt + 1
          /\ UNCHANGED <<iface, unit, page, got>>
       \/ attempt = Attempts /\ FetchError

\* An error not worth a retry, a body that is not what was asked for, or a
\* search feed without an entry.
Unusable == FetchError

\* fetch_today returns or raises; the next sweep is another process.
Kill == Ask("none")
EndFetch == iface \in {"answered", "failed"} /\ Kill

Step == LastPageServed \/ MorePages \/ HarvestNeverEnds \/ SearchCutShort
        \/ Refused \/ Unusable \/ EndFetch
Next == BeginFetch \/ Step \/ Kill

\* Every request is answered, refused or timed out, so a sweep's steps are
\* taken; which of the outcomes comes is arXiv's choice.
Spec == Init /\ [][Next]_vars /\ WF_vars(Step)

-----------------------------------------------------------------------------
\* However arXiv answers - refusing, hanging, handing out token after token -
\* fetch_today returns or raises.
EverySweepEnds == iface \in Interfaces ~> iface \in {"answered", "failed", "none"}

\* These pages of an archive are its first n, and the last of them says that it
\* ends there; only search may stop at its bound.
EndsAt(i, pages, n) ==
    /\ {g.page : g \in pages} = 1..n
    /\ \A g \in pages : \/ g.says = "more" <=> g.page < n
                        \/ i = "search" /\ g.page = MaxPages[i]

\* fetch_today returns one interface's answer and never a partial one
\* (scripts/fetch_papers.py:707, "a partial day looks like a quiet one"): every
\* page is of the interface that answered, none of one that failed before, and
\* every archive is there to its last page - except that search gives up on an
\* archive after MAX_PAGES and keeps them.
AnswerIsWhole ==
    iface = "answered" =>
        \E i \in Interfaces :
            /\ \A g \in got : g.of = i
            /\ \A u \in 1..Len(Archives) : \E n \in 1..MaxPages[i] :
                  EndsAt(i, {g \in got : g.unit = u}, n)

-----------------------------------------------------------------------------
\* PaperAnswer's answer: the pages of the archives left behind.
Settled == IF iface \in Interfaces THEN {g \in got : g.unit < unit} ELSE got

A == INSTANCE PaperAnswer WITH got <- Settled

\* The papers pile up page by page in the code: whatever the pages, the retries
\* and the bounds, whoever stores the answer sees whole archives, one after the
\* other, and an interface that fails takes with it what it had given.
ImplementsAnswer ==
    A!AnswerInit /\ [][\/ A!Begin \/ A!InterfaceFails \/ A!Kill
                       \/ A!ArchiveAnswered({g \in got' : g.of = iface /\ g.unit = unit})]_(A!answerVars)
=============================================================================
