--------------------------- MODULE DevAgentLedger ---------------------------
(***************************************************************************)
(* The table dev_agent_runs, as the poll alone writes it, is a RunLedger.  *)
(***************************************************************************)
EXTENDS DevAgent

\* What the status column of a row says of the ticket.
Phase(k) == CASE run[k].status = "absent"    -> "unclaimed"
              [] run[k].status = "running"   -> "working"
              [] run[k].status = "pr_opened" -> "shipped"
              [] run[k].status = "failed"    -> "failed"

Ledger == INSTANCE RunLedger WITH
            phase <- [k \in Tickets |-> Phase(k)],
            attempts <- [k \in Tickets |-> run[k].attempt],
            proposed <- {k \in Tickets : pull[k] # "none"}

(***************************************************************************)
(* Every step of the poll, of process_ticket and of the people around them *)
(* is a step of the ledger or leaves it as it is, when neither the         *)
(* database nor the process fails and no /trigger request interferes.      *)
(***************************************************************************)
LedgerSpec == Ledger!Spec

(***************************************************************************)
(* Every claimed run reaches an outcome: process_ticket writes one on each *)
(* of its ways out, whichever external call raises.                        *)
(***************************************************************************)
LedgerRunsEnd == Ledger!RunsEnd
=============================================================================
