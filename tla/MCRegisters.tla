----------------------------- MODULE MCRegisters -----------------------------
(* Registers for TLC: what the documents, drawings and bills say.            *)
EXTENDS Registers, TLC

Symmetry == Permutations(Workers) \cup Permutations(Contents)

\* The standard pattern matches the short clause, a promoted one may match the long.
TheTerms == {<<"LD_CAP", "short">>}

\* One thing is drawn, recorded with a quantity the column keeps, or with one of seven
\* decimals and the unit spelt otherwise.
TheObservable ==
    {[drawn |-> "pump", quantity |-> 20000000, unit |-> "no"],
     [drawn |-> "pump", quantity |-> 20000004, unit |-> "nos"]}

TheLikeness ==
    [d \in {"pump"} |-> [b \in {"pumps", "valves"} |-> IF b = "pumps" THEN 900 ELSE 300]]

\* The bill agrees to a millionth, in another spelling, or differs and has an item
\* less alike.
TheBoqs ==
    {[b \in {"pumps"} |-> [quantity |-> 20000009, unit |-> "each"]],
     [b \in {"pumps", "valves"} |-> [quantity |-> 20000011, unit |-> "nos"]]}

\* The bodies of a PATCH: beside the status one that says of the rest a response,
\* nulled dates or another sensitive field, one at a time.
AllPayloads ==
    {p \in Payload : \/ p.response = "-" /\ ~p.noDates
                     \/ p.response = "-" /\ ~p.material
                     \/ ~p.noDates /\ ~p.material}

\* Requests that overlap: the statuses around an approval, and an edit alone or
\* with a status.
RacingPayloads ==
    {p \in AllPayloads :
        /\ p.response = "-" /\ ~p.noDates
        /\ p.status \in IF p.material THEN {"-", "Approved"}
                        ELSE {"Draft", "Ready for Review", "Submitted", "Withdrawn"}}
=============================================================================
