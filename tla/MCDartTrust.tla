----------------------------- MODULE MCDartTrust -----------------------------
(* DartTrust on small instances. *)
EXTENDS DartTrust

One == CHOOSE h \in Hashes : TRUE
Another == CHOOSE h \in Hashes \ {One} : TRUE

All(h) == [c \in Caps |-> h]

\* One hash was passed to the constructor, or none.
OneOrNone == {All(One), All(NoHash)}

\* The hub lists one hash for every capability, or another and then a malformed
\* entry, or nothing but that.
ListsAndBreaksOff == {[hashes |-> All(One), whole |-> TRUE],
                      [hashes |-> All(Another), whole |-> FALSE],
                      [hashes |-> All(NoHash), whole |-> FALSE]}

OneLifetime == {1}
=============================================================================
