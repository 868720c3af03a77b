------------------------------ MODULE MCSnapshot ------------------------------
\* Two American symbols, one of which may list late or miss a day, and a Korean
\* one, over five days; two vendors.
EXTENDS Snapshot

AskedValue == <<"spy", "voo", "kr">>
MarketOfValue == [spy |-> "US", voo |-> "US", kr |-> "KR"]
VendorsValue == <<"stooq", "yahoo">>
ShapesValue == [spy |-> {1 .. 5}, voo |-> {1 .. 5, 3 .. 5, {1, 2, 4, 5}}, kr |-> {2 .. 5}]
FactorFilesValue == {1 .. 4, {1, 2, 4, 5}}
UniversesValue == {{"spy"}, {"spy", "voo"}}
MaxRunsValue == [fetch |-> 1, snapshot |-> 2, submit |-> 1]
=============================================================================
