----------------------------- MODULE MCPaperStore -----------------------------
(* Two archives, one paper in each; days and alarm scaled down.            *)
EXTENDS PaperStore

MCArchives == <<"q-fin", "econ.EM">>
MCPapers == {"momentum"}
MCArchiveOf == [p \in MCPapers |-> IF p = "momentum" THEN 1 ELSE 2]
MCClears == {"momentum"}
=============================================================================
