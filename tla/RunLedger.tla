----------------------------- MODULE RunLedger -----------------------------
(***************************************************************************)
(* What the table of runs promises to those who read it: tickets are       *)
(* worked on one at a time, a failed one is claimed again only while it    *)
(* has attempts left, a run is shipped only when a pull request exists for *)
(* its ticket, and a run that is being worked on ends.                     *)
(***************************************************************************)
EXTENDS Naturals

CONSTANTS Tickets, MaxAttempts, AttemptCap

VARIABLES
    phase,     \* of the latest run of each ticket
    attempts,  \* how often each ticket was claimed (saturates at AttemptCap)
    proposed   \* the tickets for which a pull request was ever opened

ledger == <<phase, attempts, proposed>>

Init ==
    /\ phase = [k \in Tickets |-> "unclaimed"]
    /\ attempts = [k \in Tickets |-> 0]
    /\ proposed = {}

Claim(k) ==
    /\ \A j \in Tickets : phase[j] # "working"
    /\ phase[k] = "failed" => attempts[k] < MaxAttempts
    /\ phase' = [phase EXCEPT ![k] = "working"]
    /\ attempts' = [attempts EXCEPT ![k] = IF @ < AttemptCap THEN @ + 1 ELSE @]
    /\ UNCHANGED proposed

Propose(k) ==
    /\ phase[k] = "working"
    /\ proposed' = proposed \cup {k}
    /\ UNCHANGED <<phase, attempts>>

Ship(k) ==
    /\ phase[k] = "working"
    /\ k \in proposed
    /\ phase' = [phase EXCEPT ![k] = "shipped"]
    /\ UNCHANGED <<attempts, proposed>>

Fail(k) ==
    /\ phase[k] = "working"
    /\ phase' = [phase EXCEPT ![k] = "failed"]
    /\ UNCHANGED <<attempts, proposed>>

Next == \E k \in Tickets : Claim(k) \/ Propose(k) \/ Ship(k) \/ Fail(k)

Spec == Init /\ [][Next]_ledger

RunsEnd == \A k \in Tickets : phase[k] = "working" ~> phase[k] # "working"
=============================================================================
