----------------------------- MODULE ChargeOnce -----------------------------
(***************************************************************************)
(* What charging promises, without topics, workers or transactions: the    *)
(* merchant is billed for a commission at most once, a commission is       *)
(* decided at most once between two reopenings, and it is only recorded as *)
(* charged when the bill exists.  CommissionCharging implements this.      *)
(***************************************************************************)
EXTENDS Naturals

CONSTANT Commissions

VARIABLES
    bills,    \* how many usage records the merchant is invoiced for
    verdict   \* what the database says became of the commission

Verdicts == {"RECORDED", "FAILED", "CAPPED"}

ChargeOnceTypeOK ==
    /\ bills \in [Commissions -> 0 .. 1]
    /\ verdict \in [Commissions -> Verdicts \cup {"open"}]

Init ==
    /\ bills = [c \in Commissions |-> 0]
    /\ verdict = [c \in Commissions |-> "open"]

Bill(c) ==
    /\ bills[c] = 0
    /\ bills' = [bills EXCEPT ![c] = 1]
    /\ UNCHANGED verdict

Decide(c, v) ==
    /\ verdict[c] = "open"
    /\ v = "RECORDED" => bills[c] = 1
    /\ verdict' = [verdict EXCEPT ![c] = v]
    /\ UNCHANGED bills

\* A cap is the one verdict that can be taken back, and only the reconciler
\* takes it back, for any set of capped commissions in one transaction.
Reopen(C) ==
    /\ C # {}
    /\ \A c \in C : verdict[c] = "CAPPED"
    /\ verdict' = [c \in Commissions |-> IF c \in C THEN "open" ELSE verdict[c]]
    /\ UNCHANGED bills

Next ==
    \/ \E c \in Commissions : Bill(c)
    \/ \E c \in Commissions, v \in Verdicts : Decide(c, v)
    \/ \E C \in SUBSET Commissions : Reopen(C)

Spec == Init /\ [][Next]_<<bills, verdict>>
=============================================================================
