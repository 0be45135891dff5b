------------------------------ MODULE MCEPaxos ------------------------------
(***************************************************************************)
(* Groups of replicas to check.                                            *)
(***************************************************************************)
EXTENDS EPaxos

CONSTANTS a, b, c

Proposals(size, f) == [r \in 0..(size - 1) |-> IF r \in DOMAIN f THEN f[r] ELSE <<>>]

Group(size, thrifty, f) ==
    [size |-> size, thrifty |-> thrifty, leader |-> 0, proposals |-> Proposals(size, f),
     mayCrash |-> {}, recoverers |-> {}, recoveries |-> 0,
     falseAlarms |-> FALSE]

ThreeRow == Group(3, TRUE, (0 :> <<a, b>>) @@ (2 :> <<c>>))
Five == Group(5, TRUE, (0 :> <<a>>) @@ (1 :> <<b>>))
ThreeAll == Group(3, FALSE, (0 :> <<a>>) @@ (2 :> <<c>>))
Crashing == [Group(3, TRUE, (0 :> <<a>>) @@ (2 :> <<c>>)) EXCEPT
                !.mayCrash = {0}, !.recoverers = {1}, !.recoveries = 1]
CrashingAll == [Crashing EXCEPT !.thrifty = FALSE]
Late == [Crashing EXCEPT !.mayCrash = {}, !.falseAlarms = TRUE]

OneRead == {c}
Checked == {ThreeRow, Five, ThreeAll, Crashing}
Recovering == {CrashingAll, Late}
=============================================================================
