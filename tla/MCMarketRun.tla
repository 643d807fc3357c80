----------------------------- MODULE MCMarketRun -----------------------------
(* MarketRun on small instances. *)
EXTENDS MarketRun

\* Nothing, one match that passes all tests, one without a price or not trusted,
\* and a dear match before one that passes.
Listed(o, p, t) == [offer |-> o, price |-> p, trust |-> t, latency |-> 1]
Cheap == CHOOSE o \in Offers : TRUE
SomeListings == {<<>>, <<Listed(Cheap, 2, 1)>>, <<Listed(Cheap, NoPrice, 1)>>, <<Listed(Cheap, 2, 0)>>}
    \cup {<<Listed(o, 3, 1), Listed(Cheap, 2, 1)>> : o \in Offers \ {Cheap}}

AroundBudget == {2, 3}

\* Receipts are required by one run, and verified if present by the others.
First == CHOOSE r \in Runs : TRUE
OneRequires == [r \in Runs |-> IF r = First THEN "require" ELSE "verify-if-present"]
=============================================================================
