-------------------------------- MODULE MCVault --------------------------------
(* Small vaults for TLC. *)
EXTENDS Vault, TLC

CONSTANTS n1, n2, ta, tb, r1, r2, d1

TwoNotes == {n1, n2}
TwoTexts == {ta, tb}
\* ta is wanted and links to n2, tb links to n1.
TwoLinks == (ta :> {n2}) @@ (tb :> {n1})
FirstVaults == {(n1 :> ta) @@ (n2 :> tb)}
OneDest == tb :> n1
WantedTexts == {ta}
\* A thread searches and walks the graph; the event loop reads notes.
Duties == (r1 :> {"attribute", "graph"}) @@ (r2 :> {"read"})
=============================================================================
