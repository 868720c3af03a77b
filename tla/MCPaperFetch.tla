----------------------------- MODULE MCPaperFetch -----------------------------
(* Two archives, the attempts of _get and the pages of harvest and search. *)
EXTENDS PaperFetch

MCArchives == <<"q-fin", "econ.EM">>
MCMaxPages == [rss |-> 1, oai |-> 20, search |-> 10]
=============================================================================
