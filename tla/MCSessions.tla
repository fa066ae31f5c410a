----------------------------- MODULE MCSessions -----------------------------
(* Instances of Sessions for TLC.                                          *)
EXTENDS Sessions, TLC

CONSTANTS ana, bob, anaTyped, bobTyped, padded

\* "anaTyped" and "bobTyped" are well formed; "padded" is ana's address with
\* blanks around it, which login accepts and register refuses.
MCNormal == [s \in Spelling |-> IF s = bobTyped THEN bob ELSE ana]

\* The two users, each with the spelling of his own address.
Swap == (ana :> bob) @@ (bob :> ana) @@ (anaTyped :> bobTyped) @@ (bobTyped :> anaTyped)

Symmetry ==
    Permutations(Token) \cup Permutations(Req)
        \cup (IF User = {ana, bob} THEN {Swap} ELSE {})
=============================================================================
