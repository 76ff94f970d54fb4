---------------------------- MODULE ApprovedVersion ----------------------------
(***************************************************************************)
(* What approval promises of a template: it has at most one approved       *)
(* version, replaced in one step by the next one, and what was replaced    *)
(* stays replaced.  A template may become contested; from then on a step   *)
(* may promote one version and retire any others, or take one version back *)
(* into review.                                                            *)
(***************************************************************************)
CONSTANTS Artifacts, Templates

VARIABLES
    current,        \* the approved artifacts of each template
    retired,        \* artifacts that were replaced by an approval
    contested       \* templates whose register has been written concurrently

Init ==
    /\ current = [t \in Templates |-> {}]
    /\ retired = {}
    /\ contested = {}

Promote(t, a) ==
    /\ t \notin contested
    /\ a \notin retired
    /\ \A u \in Templates : a \notin current[u]
    /\ current' = [current EXCEPT ![t] = {a}]
    /\ retired' = retired \cup current[t]
    /\ UNCHANGED contested

Contest(t) ==
    /\ contested' = contested \cup {t}
    /\ UNCHANGED <<current, retired>>

PromoteOver(t, a, P) ==
    /\ t \in contested
    /\ current' = [current EXCEPT ![t] = (@ \ P) \cup {a}]
    /\ retired' = (retired \ {a}) \cup P
    /\ UNCHANGED contested

TakeBack(t, a) ==
    /\ t \in contested
    /\ current' = [current EXCEPT ![t] = @ \ {a}]
    /\ retired' = retired \ {a}
    /\ UNCHANGED contested

Next ==
    \E t \in Templates :
        \/ Contest(t)
        \/ \E a \in Artifacts :
              \/ Promote(t, a) \/ TakeBack(t, a)
              \/ \E P \in SUBSET (Artifacts \ {a}) : PromoteOver(t, a, P)

Spec == Init /\ [][Next]_<<current, retired, contested>>
=============================================================================
