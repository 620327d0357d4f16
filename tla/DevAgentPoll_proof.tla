------------------------- MODULE DevAgentPoll_proof -------------------------
(***************************************************************************)
(* Theorems about DevAgent for the poll working alone, and about what the  *)
(* board shows with any number of /trigger requests.                       *)
(***************************************************************************)
EXTENDS DevAgent_proof, DevAgentLedger

(***************************************************************************)
(* What a step of process_ticket does, by the step the worker is at: the   *)
(* row of its ticket, the step that comes next, the board, the directory.  *)
(* The proofs below rest on this table and do not expand the actions again.*)
(***************************************************************************)
RowIs(k, status, state, link) ==
    /\ run'[k].status = status /\ run'[k].state = state /\ run'[k].link = link
    /\ run'[k].attempt = run[k].attempt

RowKept(k) == RowIs(k, run[k].status, run[k].state, run[k].link)

MayFail(before) == \E service \in before \cup {"db"} : MayRaise(service)

Writes(p, status, state, link, next, before) ==
    /\ \/ pc'[p] = next /\ RowIs(key[p], status, state, link)
       \/ MayFail(before) /\ pc'[p] = "exceptRow" /\ RowKept(key[p])
       \/ MayRaise("db") /\ pc'[p] = "exceptRow" /\ RowIs(key[p], status, state, link)
    /\ UNCHANGED <<jira, worktree>>

Sets(p, state, next, before) ==
    Writes(p, run[key[p]].status, state, run[key[p]].link, next, before)

Moves(p, status, next, onRaise) ==
    /\ RowKept(key[p]) /\ UNCHANGED worktree
    /\ \/ pc'[p] = next /\ jira'[key[p]] = status
       \/ /\ MayRaise("jira") /\ pc'[p] \in {next, onRaise}
          /\ jira'[key[p]] \in {jira[key[p]], status}

Left(p) ==
    /\ key'[p] = NoTicket
    /\ pc'[p] \in {"idle", "find", "batch"}
    /\ p = Poller => /\ ~ resuming'
                     /\ queue' \in {queue, {}}
                     /\ pc'[p] = "idle" => queue' = {}
                     /\ pc'[p] = "batch" => ~ resuming

Outcome(p) ==
    LET k == key[p]
        r == run[k]
    IN
    /\ pc[p] = "start" =>
         /\ UNCHANGED <<jira, worktree>>
         /\ run'[k].state = r.state /\ run'[k].link = r.link
         /\ \/ /\ pc'[p] = "triaged" /\ run'[k].status = "running"
               /\ run'[k].attempt = Incremented(r.attempt)
            \/ /\ MayRaise("db") /\ Left(p)
               /\ run'[k].status \in {"running", r.status}
    /\ pc[p] = "triaged" =>
         /\ UNCHANGED <<jira, worktree>>
         /\ \/ pc'[p] = "inProgress" /\ RowIs(k, r.status, "TRIAGED", r.link)
            \/ /\ MayRaise("db") /\ Left(p)
               /\ (RowKept(k) \/ RowIs(k, r.status, "TRIAGED", r.link))
    /\ pc[p] = "inProgress" => Moves(p, "progress", "planned", "exceptRow")
    /\ pc[p] = "planned" => Sets(p, "PLANNED", "worktree", {"jira"})
    /\ pc[p] = "worktree" =>
         /\ RowKept(k) /\ UNCHANGED jira
         /\ \/ pc'[p] = "implementing" /\ worktree'[k] = p
            \/ MayRaise("git") /\ pc'[p] = "exceptRow"
    /\ pc[p] = "implementing" => Sets(p, "IMPLEMENTING", "agent", {})
    /\ pc[p] = "agent" =>
         RowKept(k) /\ UNCHANGED <<jira, worktree>> /\ pc'[p] = "debugging"
    /\ pc[p] = "debugging" => Sets(p, "DEBUGGING", "findPr", {})
    /\ pc[p] = "findPr" =>
         /\ RowKept(k) /\ UNCHANGED <<jira, worktree>>
         /\ \/ pc'[p] = "reviewing" /\ pull[k] = "open"
            \/ pc'[p] = "failRow" /\ pull[k] # "open"
            \/ MayRaise("github") /\ pc'[p] = "exceptRow"
    /\ pc[p] = "failRow" => Writes(p, "failed", r.state, FALSE, "failState", {})
    /\ pc[p] = "failState" => Sets(p, "FAILED", "failJira", {"jira"})
    /\ pc[p] = "failJira" => Moves(p, "todo", "finally", "exceptRow")
    /\ pc[p] = "reviewing" => Sets(p, "REVIEWING", "provenance", {})
    /\ pc[p] = "provenance" =>
         /\ RowKept(k) /\ UNCHANGED <<jira, worktree>>
         /\ pc'[p] = "inReview" \/ (Faults # {} /\ pc'[p] = "exceptRow")
    /\ pc[p] = "inReview" => Moves(p, "review", "shipRow", "exceptRow")
    /\ pc[p] = "shipRow" => Writes(p, "pr_opened", r.state, TRUE, "shipState", {})
    /\ pc[p] = "shipState" => Sets(p, "SHIPPED", "finally", {})
    /\ pc[p] = "exceptRow" =>
         /\ pc'[p] = "exceptState" /\ UNCHANGED <<jira, worktree>>
         /\ RowIs(k, "failed", r.state, FALSE) \/ (MayRaise("db") /\ RowKept(k))
    /\ pc[p] = "exceptState" =>
         /\ pc'[p] = "exceptJira" /\ UNCHANGED <<jira, worktree>>
         /\ RowIs(k, r.status, "FAILED", r.link) \/ (MayRaise("db") /\ RowKept(k))
    /\ pc[p] = "exceptJira" => Moves(p, "todo", "finally", "finally")
    /\ pc[p] = "finally" => RowKept(k) /\ UNCHANGED jira /\ Left(p)

\* What every step of process_ticket leaves alone.
Frame(p) ==
    /\ pc[p] \in TicketSteps
    /\ UNCHANGED <<pull, crashes>>
    /\ \A j \in Tickets \ {key[p]} :
         run'[j] = run[j] /\ jira'[j] = jira[j] /\ worktree'[j] = worktree[j]
    /\ \A q \in Workers \ {p} : pc'[q] = pc[q] /\ key'[q] = key[q]
    /\ \/ pc'[p] \in TicketSteps /\ UNCHANGED <<key, resuming, queue>>
       \/ pc[p] \in {"start", "triaged", "finally"} /\ Left(p)
    /\ p # Poller => UNCHANGED <<resuming, queue>>

LEMMA TicketStepKey ==
    ASSUME TypeInv, NEW p \in Workers, ProcessTicket(p)
    PROVE  pc[p] \in TicketSteps /\ key[p] \in Tickets
BY StepNames DEF At, TypeInv, KeyOK, ProcessTicket, StartRun, AdvanceTriaged,
   TransitionInProgress, AdvancePlanned, CreateWorktree, AdvanceImplementing,
   AgentEnds, AdvanceDebugging, FindPr, FinishFailed, AdvanceFailed, ReturnToDo,
   AdvanceReviewing, RecordProvenance, TransitionInReview, FinishPrOpened,
   AdvanceShipped, ExceptFinish, ExceptAdvance, ExceptReturn, RemoveWorktree

\* A step either goes to another step of process_ticket or leaves it.
LEMMA Control ==
    ASSUME TypeInv, NEW p \in Workers
    PROVE  /\ \A step \in TicketSteps : Goto(p, step) =>
                /\ pc'[p] = step
                /\ \A q \in Workers \ {p} : pc'[q] = pc[q] /\ key'[q] = key[q]
                /\ UNCHANGED <<key, resuming, queue>>
           /\ \A raised \in BOOLEAN : Leave(p, raised) =>
                /\ Left(p)
                /\ \A q \in Workers \ {p} : pc'[q] = pc[q] /\ key'[q] = key[q]
                /\ p # Poller => UNCHANGED <<resuming, queue>>
<1> USE DEF TypeInv, TypeOK
<1>1. ASSUME NEW step \in TicketSteps, Goto(p, step)
      PROVE  /\ pc'[p] = step
             /\ \A q \in Workers \ {p} : pc'[q] = pc[q] /\ key'[q] = key[q]
             /\ UNCHANGED <<key, resuming, queue>>
  BY <1>1 DEF Goto, poll
<1>2. ASSUME NEW raised \in BOOLEAN, Leave(p, raised)
      PROVE  /\ Left(p)
             /\ \A q \in Workers \ {p} : pc'[q] = pc[q] /\ key'[q] = key[q]
             /\ p # Poller => UNCHANGED <<resuming, queue>>
  <2>1. CASE p = Poller
    BY <1>2, <2>1 DEF Leave, Left
  <2>2. CASE p # Poller
    BY <1>2, <2>2 DEF Leave, Left, poll
  <2> QED BY <2>1, <2>2
<1> QED BY <1>1, <1>2

\* The tables that the helpers return, at the ticket and elsewhere.
LEMMA TableEffects ==
    ASSUME TypeInv, NEW k \in Tickets
    PROVE  /\ \A state : run' = WithState(k, state) =>
                /\ RowIs(k, run[k].status, state, run[k].link)
                /\ \A j \in Tickets \ {k} : run'[j] = run[j]
           /\ \A status : run' = Finished(k, status) =>
                /\ RowIs(k, status, run[k].state, status = "pr_opened")
                /\ \A j \in Tickets \ {k} : run'[j] = run[j]
           /\ run' = run => RowKept(k)
           /\ Claim(k) =>
                /\ run'[k].status = "running" /\ run'[k].state = run[k].state
                /\ run'[k].link = run[k].link
                /\ run'[k].attempt = Incremented(run[k].attempt)
                /\ \A j \in Tickets \ {k} : run'[j] = run[j]
<1>1. run \in [Tickets -> Row] /\ run[k] \in Row
  BY DEF TypeInv, TypeOK
<1>2. ASSUME NEW state, run' = WithState(k, state)
      PROVE  /\ RowIs(k, run[k].status, state, run[k].link)
             /\ \A j \in Tickets \ {k} : run'[j] = run[j]
  BY <1>1, <1>2 DEF WithState, RowIs, Row
<1>3. ASSUME NEW status, run' = Finished(k, status)
      PROVE  /\ RowIs(k, status, run[k].state, status = "pr_opened")
             /\ \A j \in Tickets \ {k} : run'[j] = run[j]
  BY <1>1, <1>3 DEF Finished, RowIs, Row
<1>4. run' = run => RowKept(k)
  BY DEF RowKept, RowIs
<1>5. ASSUME Claim(k)
      PROVE  /\ run'[k].status = "running" /\ run'[k].state = run[k].state
             /\ run'[k].link = run[k].link
             /\ run'[k].attempt = Incremented(run[k].attempt)
             /\ \A j \in Tickets \ {k} : run'[j] = run[j]
  BY <1>1, <1>5 DEF Claim, Row
<1> QED BY <1>2, <1>3, <1>4, <1>5

\* The two shared forms of a step.
LEMMA WriteRowEffect ==
    ASSUME TypeInv, NEW p \in Workers, key[p] \in Tickets, pc[p] \in TicketSteps,
           NEW next \in TicketSteps, NEW before, UNCHANGED crashes, NEW newRun,
           WriteRow(p, newRun, next, before),
           NEW status, NEW state, NEW link,
           run' = newRun => /\ RowIs(key[p], status, state, link)
                            /\ \A j \in Tickets \ {key[p]} : run'[j] = run[j]
    PROVE  Frame(p) /\ Writes(p, status, state, link, next, before)
<1>1. UNCHANGED <<jira, pull, worktree>>
  BY DEF WriteRow, world
<1>2. "exceptRow" \in TicketSteps
  BY StepNames
<1>3. \/ run' = newRun /\ Goto(p, next)
      \/ MayFail(before) /\ run' = run /\ Goto(p, "exceptRow")
      \/ MayRaise("db") /\ run' = newRun /\ Goto(p, "exceptRow")
  BY DEF WriteRow, MayFail
<1>4. run' = run => RowKept(key[p])
  BY DEF RowKept, RowIs
<1>5. Frame(p)
  BY <1>1, <1>2, <1>3, Control DEF Frame
<1>6. Writes(p, status, state, link, next, before)
  BY <1>1, <1>2, <1>3, <1>4, Control DEF Writes
<1> QED BY <1>5, <1>6

LEMMA MoveTicketEffect ==
    ASSUME TypeInv, NEW p \in Workers, key[p] \in Tickets, pc[p] \in TicketSteps,
           NEW next \in TicketSteps, NEW onRaise \in TicketSteps, UNCHANGED crashes,
           NEW status, MoveTicket(p, status, next, onRaise)
    PROVE  Frame(p) /\ Moves(p, status, next, onRaise)
<1> DEFINE moved == [jira EXCEPT ![key[p]] = status]
<1>1. UNCHANGED <<run, pull, worktree>>
  BY DEF MoveTicket, rows
<1>2. /\ moved[key[p]] = status
      /\ \A j \in Tickets \ {key[p]} : moved[j] = jira[j]
  BY DEF TypeInv, TypeOK
<1>3. \/ jira' = moved /\ Goto(p, next)
      \/ MayRaise("jira") /\ jira' = jira /\ Goto(p, next)
      \/ MayRaise("jira") /\ jira' \in {jira, moved} /\ Goto(p, onRaise)
  BY DEF MoveTicket
<1> HIDE DEF moved
<1>4. Frame(p)
  BY <1>1, <1>2, <1>3, Control DEF Frame
<1>5. Moves(p, status, next, onRaise)
  BY <1>1, <1>2, <1>3, Control DEF Moves, RowKept, RowIs
<1> QED BY <1>4, <1>5

LEMMA TicketStepEffect ==
    ASSUME TypeInv, NEW p \in Workers, ProcessTicket(p)
    PROVE  Frame(p) /\ Outcome(p)
<1> USE DEF At
<1> DEFINE k == key[p]
<1>k. key[p] \in Tickets /\ pc[p] \in TicketSteps
  BY TicketStepKey
<1>e. /\ \A state : run' = WithState(k, state) =>
           /\ RowIs(k, run[k].status, state, run[k].link)
           /\ \A j \in Tickets \ {k} : run'[j] = run[j]
      /\ run' = Finished(k, "failed") =>
           /\ RowIs(k, "failed", run[k].state, FALSE)
           /\ \A j \in Tickets \ {k} : run'[j] = run[j]
      /\ run' = Finished(k, "pr_opened") =>
           /\ RowIs(k, "pr_opened", run[k].state, TRUE)
           /\ \A j \in Tickets \ {k} : run'[j] = run[j]
      /\ run' = run => RowKept(k)
  BY <1>k, TableEffects
\* A step that goes on to another one and leaves the tables alone but for run.
<1>g. ASSUME NEW step \in TicketSteps, Goto(p, step), UNCHANGED <<pull, crashes>>,
             \A j \in Tickets \ {key[p]} :
                 run'[j] = run[j] /\ jira'[j] = jira[j] /\ worktree'[j] = worktree[j]
      PROVE  Frame(p) /\ pc'[p] = step
  BY <1>g, <1>k, Control DEF Frame
<1>l. ASSUME NEW raised \in BOOLEAN, Leave(p, raised), UNCHANGED <<pull, crashes>>,
             pc[p] \in {"start", "triaged", "finally"},
             \A j \in Tickets \ {key[p]} :
                 run'[j] = run[j] /\ jira'[j] = jira[j] /\ worktree'[j] = worktree[j]
      PROVE  Frame(p) /\ Left(p)
  BY <1>l, <1>k, Control DEF Frame
<1>1. CASE StartRun(p)
  <2>1. Claim(k) =>
          /\ run'[k].status = "running" /\ run'[k].state = run[k].state
          /\ run'[k].link = run[k].link
          /\ run'[k].attempt = Incremented(run[k].attempt)
          /\ \A j \in Tickets \ {k} : run'[j] = run[j]
    BY <1>k, TableEffects
  <2>2. pc[p] = "start" /\ UNCHANGED <<jira, worktree, pull, crashes>>
    BY <1>1 DEF StartRun, world
  <2>3. CASE Claim(k) /\ Goto(p, "triaged")
    BY <1>g, <2>1, <2>2, <2>3, StepNames DEF Outcome
  <2>4. CASE MayRaise("db") /\ (Claim(k) \/ UNCHANGED rows) /\ Leave(p, TRUE)
    <3>1. /\ run'[k].state = run[k].state /\ run'[k].link = run[k].link
          /\ run'[k].status \in {"running", run[k].status}
          /\ \A j \in Tickets \ {k} : run'[j] = run[j]
      BY <2>1, <2>4 DEF rows
    <3> QED BY <1>l, <2>2, <2>4, <3>1 DEF Outcome
  <2> QED BY <1>1, <2>3, <2>4 DEF StartRun
<1>2. CASE AdvanceTriaged(p)
  <2>1. pc[p] = "triaged" /\ UNCHANGED <<jira, worktree, pull, crashes>>
    BY <1>2 DEF AdvanceTriaged, world
  <2>2. CASE run' = WithState(k, "TRIAGED") /\ Goto(p, "inProgress")
    BY <1>e, <1>g, <2>1, <2>2, StepNames DEF Outcome
  <2>3. CASE MayRaise("db") /\ run' \in {run, WithState(k, "TRIAGED")} /\ Leave(p, TRUE)
    BY <1>e, <1>l, <2>1, <2>3 DEF Outcome
  <2> QED BY <1>2, <2>2, <2>3 DEF AdvanceTriaged
<1>3. CASE TransitionInProgress(p)
  BY <1>3, <1>k, MoveTicketEffect, StepNames DEF TransitionInProgress, Outcome
<1>4. CASE AdvancePlanned(p)
  BY <1>4, <1>k, <1>e, WriteRowEffect, StepNames DEF AdvancePlanned, Outcome, Sets
<1>5. CASE CreateWorktree(p)
  <2>1. /\ pc[p] = "worktree" /\ UNCHANGED <<run, jira, pull, crashes>>
        /\ \/ worktree' = [worktree EXCEPT ![k] = p] /\ Goto(p, "implementing")
           \/ /\ MayRaise("git")
              /\ worktree' \in {worktree, [worktree EXCEPT ![k] = Missing]}
              /\ Goto(p, "exceptRow")
    BY <1>5 DEF CreateWorktree, rows
  <2>2. worktree' = [worktree EXCEPT ![k] = p] => worktree'[k] = p
    BY <1>k DEF TypeInv, TypeOK
  <2>3. \A j \in Tickets \ {k} : worktree'[j] = worktree[j]
    BY <2>1, <1>k DEF TypeInv, TypeOK
  <2> QED BY <1>e, <1>g, <2>1, <2>2, <2>3, StepNames DEF Outcome
<1>6. CASE AdvanceImplementing(p)
  BY <1>6, <1>k, <1>e, WriteRowEffect, StepNames DEF AdvanceImplementing, Outcome, Sets
<1>7. CASE AgentEnds(p)
  BY <1>7, <1>e, <1>g, StepNames DEF AgentEnds, Outcome, rows, world
<1>8. CASE AdvanceDebugging(p)
  BY <1>8, <1>k, <1>e, WriteRowEffect, StepNames DEF AdvanceDebugging, Outcome, Sets
<1>9. CASE FindPr(p)
  <2>1. UNCHANGED <<run, jira, worktree, pull, crashes>> /\ pc[p] = "findPr"
    BY <1>9 DEF FindPr, rows, world
  <2> QED BY <1>9, <1>e, <1>g, <2>1, StepNames DEF FindPr, Outcome
<1>10. CASE FinishFailed(p)
  <2>1. /\ pc[p] = "failRow" /\ UNCHANGED crashes
        /\ WriteRow(p, Finished(k, "failed"), "failState", {})
    BY <1>10 DEF FinishFailed
  <2>2. Frame(p) /\ Writes(p, "failed", run[k].state, FALSE, "failState", {})
    BY <1>k, <1>e, <2>1, WriteRowEffect, StepNames
  <2> QED BY <2>1, <2>2 DEF Outcome
<1>11. CASE AdvanceFailed(p)
  <2>1. /\ pc[p] = "failState" /\ UNCHANGED crashes
        /\ WriteRow(p, WithState(k, "FAILED"), "failJira", {"jira"})
    BY <1>11 DEF AdvanceFailed
  <2>2. Frame(p) /\ Writes(p, run[k].status, "FAILED", run[k].link, "failJira", {"jira"})
    BY <1>k, <1>e, <2>1, WriteRowEffect, StepNames
  <2> QED BY <2>1, <2>2 DEF Outcome, Sets
<1>12. CASE ReturnToDo(p)
  BY <1>12, <1>k, MoveTicketEffect, StepNames DEF ReturnToDo, Outcome
<1>13. CASE AdvanceReviewing(p)
  BY <1>13, <1>k, <1>e, WriteRowEffect, StepNames DEF AdvanceReviewing, Outcome, Sets
<1>14. CASE RecordProvenance(p)
  <2>1. UNCHANGED <<run, jira, worktree, pull, crashes>> /\ pc[p] = "provenance"
    BY <1>14 DEF RecordProvenance, rows, world
  <2>2. Goto(p, "inReview") \/ (Faults # {} /\ Goto(p, "exceptRow"))
    BY <1>14 DEF RecordProvenance, MayRaise
  <2> QED BY <1>e, <1>g, <2>1, <2>2, StepNames DEF Outcome
<1>15. CASE TransitionInReview(p)
  BY <1>15, <1>k, MoveTicketEffect, StepNames DEF TransitionInReview, Outcome
<1>16. CASE FinishPrOpened(p)
  <2>1. /\ pc[p] = "shipRow" /\ UNCHANGED crashes
        /\ WriteRow(p, Finished(k, "pr_opened"), "shipState", {})
    BY <1>16 DEF FinishPrOpened
  <2>2. Frame(p) /\ Writes(p, "pr_opened", run[k].state, TRUE, "shipState", {})
    BY <1>k, <1>e, <2>1, WriteRowEffect, StepNames
  <2> QED BY <2>1, <2>2 DEF Outcome
<1>17. CASE AdvanceShipped(p)
  BY <1>17, <1>k, <1>e, WriteRowEffect, StepNames DEF AdvanceShipped, Outcome, Sets
<1>18. CASE ExceptFinish(p)
  <2>1. UNCHANGED <<jira, worktree, pull, crashes>> /\ pc[p] = "exceptRow"
    BY <1>18 DEF ExceptFinish, world
  <2> QED BY <1>18, <1>e, <1>g, <2>1, StepNames DEF ExceptFinish, Outcome
<1>19. CASE ExceptAdvance(p)
  <2>1. UNCHANGED <<jira, worktree, pull, crashes>> /\ pc[p] = "exceptState"
    BY <1>19 DEF ExceptAdvance, world
  <2> QED BY <1>19, <1>e, <1>g, <2>1, StepNames DEF ExceptAdvance, Outcome
<1>20. CASE ExceptReturn(p)
  BY <1>20, <1>k, MoveTicketEffect, StepNames DEF ExceptReturn, Outcome
<1>21. CASE RemoveWorktree(p)
  <2>1. UNCHANGED <<run, jira, pull, crashes>> /\ pc[p] = "finally" /\ Leave(p, FALSE)
    BY <1>21 DEF RemoveWorktree, rows
  <2>2. \A j \in Tickets \ {k} : worktree'[j] = worktree[j]
    BY <1>21, <1>k DEF RemoveWorktree, TypeInv, TypeOK
  <2> QED BY <1>e, <1>l, <2>1, <2>2 DEF Outcome
<1> QED
  BY <1>1, <1>2, <1>3, <1>4, <1>5, <1>6, <1>7, <1>8, <1>9, <1>10, <1>11, <1>12,
     <1>13, <1>14, <1>15, <1>16, <1>17, <1>18, <1>19, <1>20, <1>21
  DEF ProcessTicket

(***************************************************************************)
(* What the poll does outside process_ticket, and what happens around it   *)
(* when there are no /trigger requests.                                    *)
(***************************************************************************)
PollOutcome ==
    /\ UNCHANGED <<run, newer, jira, pull, worktree, crashes>>
    /\ \A q \in Workers \ {Poller} : pc'[q] = pc[q] /\ key'[q] = key[q]
    /\ \/ /\ pc[Poller] = "idle" /\ pc'[Poller] = "resume"
          /\ key'[Poller] \in Tickets /\ IsActive(key'[Poller])
          /\ resuming' /\ UNCHANGED queue
       \/ /\ pc[Poller] = "idle" /\ pc'[Poller] = "find"
          /\ UNCHANGED <<key, resuming, queue>>
       \/ /\ pc[Poller] = "resume" /\ pc'[Poller] = "start"
          /\ UNCHANGED <<key, resuming, queue>>
       \/ pc[Poller] = "resume" /\ Left(Poller)
       \/ /\ pc[Poller] = "find" /\ pc'[Poller] = "filter"
          /\ UNCHANGED <<key, resuming>>
       \/ /\ pc[Poller] = "filter" /\ pc'[Poller] = "batch"
          /\ queue' \subseteq {k \in queue : ShouldAttempt(k)} /\ UNCHANGED <<key, resuming>>
       \/ /\ pc[Poller] = "batch" /\ pc'[Poller] = "start"
          /\ key'[Poller] \in queue /\ queue' = queue \ {key'[Poller]} /\ UNCHANGED resuming
       \/ /\ pc[Poller] \in {"find", "filter", "batch"} /\ pc'[Poller] = "idle"
          /\ queue' = {} /\ UNCHANGED <<key, resuming>>

LEMMA PollStepEffect == TypeInv /\ PollStep => PollOutcome
<1> SUFFICES ASSUME TypeInv, PollStep
             PROVE  PollOutcome
  OBVIOUS
<1> USE DEF At, TypeInv, TypeOK
<1>w. Poller \in Workers
  BY DEF Workers
<1>1. CASE PollBegins
  <2>1. UNCHANGED <<run, newer, jira, pull, worktree, crashes>> /\ pc[Poller] = "idle"
    BY <1>1 DEF PollBegins, rows, world
  <2>2. CASE \E k \in Tickets :
               /\ IsActiveRun(k)
               /\ key' = [key EXCEPT ![Poller] = k]
               /\ pc' = [pc EXCEPT ![Poller] = "resume"]
               /\ resuming' = TRUE
               /\ UNCHANGED queue
    BY <1>w, <2>1, <2>2 DEF PollOutcome, IsActiveRun
  <2>3. CASE Goto(Poller, "find")
    BY <1>w, <2>1, <2>3 DEF PollOutcome, Goto, poll
  <2> QED BY <1>1, <2>2, <2>3 DEF PollBegins
<1>2. CASE PollResumes
  <2>1. UNCHANGED <<run, newer, jira, pull, worktree, crashes>> /\ pc[Poller] = "resume"
    BY <1>2 DEF PollResumes, rows, world
  <2>2. CASE Goto(Poller, "start")
    BY <1>w, <2>1, <2>2 DEF PollOutcome, Goto, poll
  <2>3. CASE Leave(Poller, TRUE)
    BY <1>w, <2>1, <2>3, Control DEF PollOutcome
  <2> QED BY <1>2, <2>2, <2>3 DEF PollResumes
<1>e. ASSUME PollEnds, UNCHANGED <<run, newer, jira, pull, worktree, crashes>>,
             pc[Poller] \in {"find", "filter", "batch"}
      PROVE  PollOutcome
  BY <1>e, <1>w DEF PollEnds, PollOutcome
<1>3. CASE FindSprintCandidates
  <2>1. UNCHANGED <<run, newer, jira, pull, worktree, crashes>> /\ pc[Poller] = "find"
    BY <1>3 DEF FindSprintCandidates, rows, world
  <2>2. CASE /\ queue' = Oldest(PageSize, Listed) \ doubted
             /\ pc' = [pc EXCEPT ![Poller] = "filter"]
             /\ UNCHANGED <<key, resuming>>
    BY <1>w, <2>1, <2>2 DEF PollOutcome
  <2> QED BY <1>3, <1>e, <2>1, <2>2 DEF FindSprintCandidates
<1>4. CASE FilterBatch
  <2>1. UNCHANGED <<run, newer, jira, pull, worktree, crashes>> /\ pc[Poller] = "filter"
    BY <1>4 DEF FilterBatch, rows, world
  <2>2. CASE /\ queue' = Oldest(BatchSize, {k \in queue : ShouldAttempt(k)})
             /\ pc' = [pc EXCEPT ![Poller] = "batch"]
             /\ UNCHANGED <<key, resuming>>
    BY <1>w, <2>1, <2>2 DEF PollOutcome, Oldest
  <2> QED BY <1>4, <1>e, <2>1, <2>2 DEF FilterBatch
<1>5. CASE NextInBatch
  <2>1. UNCHANGED <<run, newer, jira, pull, worktree, crashes>> /\ pc[Poller] = "batch"
    BY <1>5 DEF NextInBatch, rows, world
  <2>2. CASE \E k \in Oldest(1, queue) :
               Take(k) /\ queue' = queue \ {k} /\ UNCHANGED resuming
    BY <1>w, <2>1, <2>2 DEF PollOutcome, Take, Oldest
  <2> QED BY <1>5, <1>e, <2>1, <2>2 DEF NextInBatch
<1> QED BY <1>1, <1>2, <1>3, <1>4, <1>5 DEF PollStep

\* A coding agent or a human acts: rows, directories and control stay as they are.
Around ==
    /\ UNCHANGED <<run, newer, worktree, pc, key, resuming, queue, crashes>>
    /\ \/ \E p \in Workers : /\ pc[p] = "agent" /\ UNCHANGED jira
                             /\ pull' = [pull EXCEPT ![key[p]] = "open"]
       \/ \E k \in Tickets : /\ pull[k] = "open"
                             /\ pull' = [pull EXCEPT ![k] = "merged"]
                             /\ jira' = [jira EXCEPT ![k] = "review"]
       \/ \E k \in Tickets, column \in {"todo", "review"} :
            UNCHANGED pull /\ jira' = [jira EXCEPT ![k] = column]
       \/ UNCHANGED <<pull, jira>>

LEMMA NextCases ==
    ASSUME [Next]_vars
    PROVE  \/ \E p \in Workers : ProcessTicket(p)
           \/ PollStep
           \/ \E p \in Triggers : TriggerTicket(p)
           \/ Crash
           \/ Around
<1>1. ASSUME NEW p \in Workers, AgentOpensPr(p)
      PROVE  Around
  BY <1>1 DEF AgentOpensPr, At, Around, rows, poll
<1>2. ASSUME NEW k \in Tickets, HumanMerges(k)
      PROVE  Around
  BY <1>2 DEF HumanMerges, Around, rows, poll
<1>3. ASSUME NEW k \in Tickets, HumanMoves(k) \/ TriageChanges(k)
      PROVE  Around
  BY <1>3 DEF HumanMoves, TriageChanges, Edit, Around, rows, poll
<1>4. UNCHANGED vars => Around
  BY DEF vars, Around
<1> QED BY <1>1, <1>2, <1>3, <1>4 DEF Next
-----------------------------------------------------------------------------
(***************************************************************************)
(* The inductive invariants of the poll alone.                             *)
(***************************************************************************)
\* Where the worker is says which directory, status and state its ticket has.
WorktreeIsOwn ==
    pc[Poller] \in {"implementing", "agent"} => worktree[key[Poller]] = Poller

RunningSteps == TicketSteps \ ({"start", "failState", "failJira", "shipState", "finally"}
                               \cup ExceptSteps)

StatusFollowsStep == pc[Poller] \in RunningSteps => run[key[Poller]].status = "running"

StateFollowsStep ==
    LET s == pc[Poller]
        state == run[key[Poller]].state
    IN  /\ s \in {"inProgress", "planned"} => state = "TRIAGED"
        /\ s \in {"worktree", "implementing"} => state = "PLANNED"
        /\ s \in {"agent", "debugging"} => state = "IMPLEMENTING"
        /\ s \in {"findPr", "failRow", "failState", "reviewing"} => state = "DEBUGGING"
        /\ s \in {"provenance", "inReview", "shipRow", "shipState"} => state = "REVIEWING"
        /\ s = "failJira" => state = "FAILED"
        /\ s \in ExceptSteps => state \in ActiveStates \cup {"FAILED"}

\* The rows of the batch that is still to come were checked and have not
\* changed since: the poll alone writes them, one ticket at a time.
TurnIsChecked ==
    pc[Poller] = "start" /\ ~ resuming => ShouldAttempt(key[Poller])

BatchIsChecked ==
    /\ pc[Poller] \in {"idle", "resume"} => queue = {}
    /\ pc[Poller] = "resume" => resuming
    /\ ~ resuming /\ pc[Poller] \in {"batch"} \cup TicketSteps => \A k \in queue : ShouldAttempt(k)
    /\ pc[Poller] \in TicketSteps => key[Poller] \notin queue
    /\ resuming => queue = {} /\ pc[Poller] \in TicketSteps \cup {"resume"}
    /\ TurnIsChecked

Outside == pc[Poller] \notin TicketSteps \cup {"resume"}

PollInv ==
    /\ TypeInv
    /\ WorktreeIsOwn
    /\ StatusFollowsStep
    /\ StateFollowsStep
    /\ BatchIsChecked
    /\ Outside => key[Poller] = NoTicket

\* With a database that answers and a process that lives.
Untouched == <<"absent", "NULL", FALSE>>
Failure == <<"failed", "FAILED", FALSE>>
Shipment == <<"pr_opened", "SHIPPED", TRUE>>

StoryFollowsStep ==
    LET s == pc[Poller]
        r == run[key[Poller]]
    IN  /\ s = "resume" => Story(r) = Shipment
        /\ s = "start" => Story(r) \in {Untouched, Failure, Shipment}
        /\ s = "start" /\ resuming => Story(r) = Shipment
        /\ s \in {"failState", "failJira", "exceptState", "exceptJira"} =>
             r.status = "failed" /\ ~ r.link
        /\ s = "exceptRow" => r.status \in {"running", "failed"}
        /\ s = "exceptJira" => r.state = "FAILED"
        /\ s = "shipState" => r.status = "pr_opened" /\ r.link
        /\ s = "finally" => Story(r) \in {Failure, Shipment}

SettledInv == PollInv /\ RestingRunsAgree /\ StoryFollowsStep

\* A run on its way to being written off has no open pull request.
PrDecides == pc[Poller] = "failRow" => pull[key[Poller]] # "open"

\* With a board that answers, for any number of requests: who moved the ticket
\* is still short of moving it on.
BoardSteps == {"planned", "worktree", "implementing", "agent", "debugging", "findPr",
               "failRow", "failState", "failJira", "reviewing", "provenance", "inReview",
               "exceptRow", "exceptState", "exceptJira"}

BoardInv ==
    \A k \in Tickets : jira[k] = "progress" =>
        \E p \in Workers : key[p] = k /\ pc[p] \in BoardSteps

LEMMA PollInvTicket ==
    ASSUME Triggers = {}, PollInv, TypeInv', ProcessTicket(Poller)
    PROVE  PollInv'
<1>w. Workers = {Poller} /\ Poller \in Workers
  BY DEF Workers
<1>t. TypeInv /\ Frame(Poller) /\ Outcome(Poller) /\ key[Poller] \in Tickets
  BY <1>w, TicketStepEffect, TicketStepKey DEF PollInv
<1> DEFINE k == key[Poller]
<1>s. /\ pc[Poller] \in TicketSteps
      /\ \/ pc'[Poller] \in TicketSteps /\ key'[Poller] = k
         \/ key'[Poller] = NoTicket /\ pc'[Poller] \in {"idle", "find", "batch"}
  BY <1>t DEF Frame, Left
<1>1. WorktreeIsOwn'
  <2>1. pc'[Poller] = "implementing" => pc[Poller] = "worktree" /\ worktree'[k] = Poller
    BY <1>t, <1>s, StepNames DEF Outcome, Writes, Sets, Moves, Left
  <2>2. pc'[Poller] = "agent" => pc[Poller] = "implementing" /\ UNCHANGED worktree
    BY <1>t, <1>s, StepNames DEF Outcome, Writes, Sets, Moves, Left
  <2> QED BY <1>s, <2>1, <2>2 DEF PollInv, WorktreeIsOwn
<1>2. StatusFollowsStep'
  BY <1>t, <1>s, <1>w, StepNames
  DEF PollInv, StatusFollowsStep, RunningSteps, ExceptSteps, Outcome, Writes, Sets, Moves,
      RowKept, RowIs, Left
<1>3. StateFollowsStep'
  BY <1>t, <1>s, <1>w, StepNames
  DEF PollInv, StateFollowsStep, ActiveStates, ExceptSteps, Outcome, Writes, Sets, Moves,
      RowKept, RowIs, Left
<1>4. BatchIsChecked'
  <2>1. \A j \in queue : ShouldAttempt(j) /\ j # k => ShouldAttempt(j)'
    BY <1>t DEF ShouldAttempt, Frame, TypeInv, TypeOK
  <2>2. CASE pc'[Poller] \in TicketSteps /\ UNCHANGED <<key, resuming, queue>>
    <3>1. pc'[Poller] # "start"
      BY <1>t, <1>s, StepNames DEF Outcome, Writes, Sets, Moves, Left
    <3> QED BY <1>s, <2>1, <2>2, <3>1, StepNames DEF PollInv, BatchIsChecked, TurnIsChecked
  <2>3. CASE Left(Poller)
    BY <1>s, <2>1, <2>3, StepNames DEF PollInv, BatchIsChecked, TurnIsChecked, Left
  <2> QED BY <1>t, <2>2, <2>3 DEF Frame
<1>5. (Outside => key[Poller] = NoTicket)'
  BY <1>s, StepNames DEF Outside
<1> QED BY <1>1, <1>2, <1>3, <1>4, <1>5 DEF PollInv

LEMMA PollInvNext == ASSUME Triggers = {} PROVE PollInv /\ [Next]_vars => PollInv'
<1> SUFFICES ASSUME PollInv, [Next]_vars
             PROVE  PollInv'
  OBVIOUS
<1>w. Workers = {Poller} /\ Poller \in Workers
  BY DEF Workers
<1>t. TypeInv /\ TypeInv'
  BY NextType DEF PollInv
<1>1. CASE ProcessTicket(Poller)
  BY <1>1, <1>t, PollInvTicket
<1>2. CASE PollStep
  <2>1. PollOutcome
    BY <1>2, <1>t, PollStepEffect
  <2>2. pc[Poller] \in {"idle", "resume", "find", "filter", "batch"}
    BY <2>1 DEF PollOutcome
  <2>3. pc'[Poller] \in {"resume", "start", "idle", "find", "filter", "batch"}
    BY <2>1 DEF PollOutcome, Left
  <2>4. (WorktreeIsOwn /\ StatusFollowsStep /\ StateFollowsStep)'
    BY <2>3, StepNames DEF WorktreeIsOwn, StatusFollowsStep, StateFollowsStep,
       RunningSteps, ExceptSteps
  <2>5. BatchIsChecked'
    <3>1. \A j \in Tickets : ShouldAttempt(j)' <=> ShouldAttempt(j)
      BY <2>1 DEF PollOutcome, ShouldAttempt
    <3>2. queue \subseteq Tickets /\ queue' \subseteq Tickets
      BY <1>t DEF TypeInv, TypeOK
    <3>3. BatchIsChecked /\ (Outside => key[Poller] = NoTicket) /\ NoTicket \notin Tickets
      BY TicketsAssumption DEF PollInv
    <3>4. CASE pc[Poller] = "batch" /\ pc'[Poller] = "start"
      <4>1. /\ key'[Poller] \in queue /\ queue' = queue \ {key'[Poller]}
            /\ UNCHANGED <<run, resuming>>
        BY <2>1, <3>4 DEF PollOutcome, Left
      <4> QED BY <3>1, <3>2, <3>3, <3>4, <4>1, StepNames
              DEF BatchIsChecked, TurnIsChecked
    <3>5. CASE pc[Poller] = "resume"
      <4>1. \/ pc'[Poller] = "start" /\ UNCHANGED <<run, key, resuming, queue>>
            \/ Left(Poller)
        BY <2>1, <3>5 DEF PollOutcome
      <4> QED BY <3>1, <3>2, <3>3, <3>5, <4>1, StepNames
              DEF BatchIsChecked, TurnIsChecked, Left
    <3>6. CASE pc[Poller] # "resume" /\ pc'[Poller] # "start"
      <4>1. CASE pc'[Poller] = "batch"
        <5>1. /\ pc[Poller] = "filter" /\ UNCHANGED <<run, key, resuming>>
              /\ queue' \subseteq {j \in queue : ShouldAttempt(j)}
          BY <2>1, <3>6, <4>1 DEF PollOutcome
        <5>2. \A j \in queue' : ShouldAttempt(j)'
          BY <3>1, <3>2, <3>3, <5>1 DEF BatchIsChecked
        <5> QED BY <3>3, <4>1, <5>1, <5>2, StepNames
                DEF BatchIsChecked, TurnIsChecked
      <4>2. CASE pc'[Poller] \in {"resume", "find", "filter", "idle"}
        <5>1. /\ pc'[Poller] \in {"idle", "resume"} => queue' = {}
              /\ resuming' <=> pc'[Poller] = "resume"
          BY <2>1, <2>2, <3>3, <3>6, <4>2, StepNames DEF PollOutcome, BatchIsChecked
        <5> QED BY <4>2, <5>1, StepNames DEF BatchIsChecked, TurnIsChecked
      <4> QED BY <2>3, <3>6, <4>1, <4>2
    <3> QED BY <2>1, <3>4, <3>5, <3>6 DEF PollOutcome
  <2>6. (Outside => key[Poller] = NoTicket)'
    BY <2>1, StepNames DEF PollInv, Outside, PollOutcome, Left
  <2> QED BY <1>t, <2>4, <2>5, <2>6 DEF PollInv
<1>3. CASE Crash
  BY <1>3, <1>t, <1>w, StepNames
  DEF Crash, PollInv, WorktreeIsOwn, StatusFollowsStep, StateFollowsStep, BatchIsChecked,
      TurnIsChecked, Outside, RunningSteps, ExceptSteps
<1>4. CASE Around
  BY <1>4, <1>t
  DEF Around, PollInv, WorktreeIsOwn, StatusFollowsStep, StateFollowsStep, BatchIsChecked,
      TurnIsChecked, Outside, ShouldAttempt
<1> QED BY <1>w, <1>1, <1>2, <1>3, <1>4, NextCases

LEMMA PollInvInit == Init => PollInv
BY InitType, StepNames
DEF Init, PollInv, WorktreeIsOwn, StatusFollowsStep, StateFollowsStep, BatchIsChecked,
    TurnIsChecked, Outside, RunningSteps, ExceptSteps, Workers

LEMMA PollInvariance == ASSUME Triggers = {} PROVE Spec => []PollInv
<1> QED BY PollInvInit, PollInvNext, PTL DEF Spec

(***************************************************************************)
(* The coding agent is only ever launched in a directory that the poll has *)
(* created for this attempt and nobody removed, whatever fails and however *)
(* often the process dies and leaves old directories behind.               *)
(***************************************************************************)
THEOREM AgentRunsInOwnWorktree == ASSUME Triggers = {} PROVE Spec => []AgentOwnsWorktree
<1>1. PollInv => AgentOwnsWorktree
  BY DEF PollInv, WorktreeIsOwn, AgentOwnsWorktree, Workers
<1> QED BY <1>1, PollInvariance, PTL

LEMMA LegalStep ==
    ASSUME Triggers = {}, PollInv, [Next]_vars, NEW k \in Tickets,
           run'[k].state \notin {run[k].state, "TRIAGED"}
    PROVE  CanTransition(run[k].state, run'[k].state)
<1>w. Workers = {Poller} /\ Poller \in Workers /\ TypeInv
  BY DEF Workers, PollInv
<1>1. CASE ProcessTicket(Poller)
  <2> DEFINE s == pc[Poller]
             old == run[k].state
             new == run'[k].state
  <2>1. /\ Frame(Poller) /\ Outcome(Poller)
        /\ s \in TicketSteps
    BY <1>1, <1>w, TicketStepEffect, TicketStepKey
  <2>2. k = key[Poller]
    BY <2>1 DEF Frame
  <2>3. \/ s = "planned" /\ new = "PLANNED"
        \/ s = "implementing" /\ new = "IMPLEMENTING"
        \/ s = "debugging" /\ new = "DEBUGGING"
        \/ s = "failState" /\ new = "FAILED"
        \/ s = "reviewing" /\ new = "REVIEWING"
        \/ s = "shipState" /\ new = "SHIPPED"
        \/ s = "exceptState" /\ new = "FAILED"
    BY <2>1, <2>2, StepNames DEF Outcome, Writes, Sets, Moves, RowKept, RowIs
  <2>4. \/ old = "TRIAGED" /\ new = "PLANNED"
        \/ old = "PLANNED" /\ new = "IMPLEMENTING"
        \/ old = "IMPLEMENTING" /\ new = "DEBUGGING"
        \/ old = "DEBUGGING" /\ new \in {"FAILED", "REVIEWING"}
        \/ old = "REVIEWING" /\ new = "SHIPPED"
        \/ old \in ActiveStates /\ new = "FAILED"
    BY <2>2, <2>3 DEF PollInv, StateFollowsStep, ExceptSteps
  <2> QED BY <2>4 DEF CanTransition, Transitions, ActiveStates
<1>2. CASE PollStep
  BY <1>2, <1>w, PollStepEffect DEF PollOutcome
<1>3. CASE Crash
  BY <1>3 DEF Crash, rows
<1>4. CASE Around
  BY <1>4 DEF Around
<1> QED BY <1>w, <1>1, <1>2, <1>3, <1>4, NextCases

(***************************************************************************)
(* process_ticket, run by the poll, writes lifecycle states only along the *)
(* edges of lifecycle.py, on every path through its exception handling.    *)
(***************************************************************************)
THEOREM TransitionsAreLegal == ASSUME Triggers = {} PROVE Spec => LegalWithinAttempt
<1>1. PollInv /\ [Next]_vars
      => [\A k \in Tickets :
            run'[k].state \notin {run[k].state, "TRIAGED"}
            => CanTransition(run[k].state, run'[k].state)]_vars
  BY LegalStep
<1> QED BY <1>1, PollInvariance, PTL DEF Spec, LegalWithinAttempt
-----------------------------------------------------------------------------
LEMMA SettledTicket ==
    ASSUME Triggers = {}, "db" \notin Faults, SettledInv, PollInv', ProcessTicket(Poller)
    PROVE  SettledInv'
<1>w. Workers = {Poller} /\ Poller \in Workers /\ TypeInv /\ TypeInv' /\ ~ MayRaise("db")
  BY DEF Workers, SettledInv, PollInv, MayRaise
<1> DEFINE k == key[Poller]
           s == pc[Poller]
<1>t. /\ Frame(Poller) /\ Outcome(Poller)
      /\ s \in TicketSteps /\ k \in Tickets
  BY <1>w, TicketStepEffect, TicketStepKey
<1>i. StoryFollowsStep /\ StateFollowsStep /\ StatusFollowsStep /\ RestingRunsAgree
  BY DEF SettledInv, PollInv
<1>1. RestingRunsAgree'
  <2> SUFFICES ASSUME NEW j \in Tickets, j # key'[Poller]
               PROVE  Story(run'[j]) \in {Untouched, Failure, Shipment}
    BY <1>w DEF RestingRunsAgree, AtRest, Untouched, Failure, Shipment
  <2>1. CASE j # k
    BY <2>1, <1>w, <1>t, <1>i DEF Frame, RestingRunsAgree, AtRest, Untouched, Failure, Shipment
  <2>2. CASE j = k
    <3>1. key'[Poller] # k
      BY <2>2
    <3>2. s \in {"start", "triaged", "finally"} /\ pc'[Poller] \in {"idle", "find", "batch"}
      BY <1>t, <3>1 DEF Frame, Left
    <3>3. s = "finally" /\ RowKept(k)
      BY <1>t, <1>w, <3>2 DEF Outcome
    <3> QED BY <2>2, <3>3, <1>i DEF StoryFollowsStep, Story, RowKept, RowIs
  <2> QED BY <2>1, <2>2
<1>2. StoryFollowsStep'
  <2>1. CASE key'[Poller] = k
    <3>1. pc'[Poller] \notin {"start", "resume"}
      BY <1>t, <1>w, StepNames DEF Outcome, Writes, Sets, Moves, Left
    <3>2. pc'[Poller] \in {"failState", "failJira", "exceptState", "exceptJira"} =>
            run'[k].status = "failed" /\ ~ run'[k].link
      BY <1>t, <1>w, <1>i, StepNames
      DEF Outcome, Writes, Sets, Moves, RowKept, RowIs, Left, StoryFollowsStep
    <3>3. pc'[Poller] = "exceptJira" => run'[k].state = "FAILED"
      BY <1>t, <1>w, <1>i, StepNames
      DEF Outcome, Writes, Sets, Moves, RowKept, RowIs, Left
    <3>4. pc'[Poller] = "shipState" => run'[k].status = "pr_opened" /\ run'[k].link
      BY <1>t, <1>w, <1>i, StepNames
      DEF Outcome, Writes, Sets, Moves, RowKept, RowIs, Left
    <3>5. pc'[Poller] = "finally" =>
            \/ run'[k].status = "failed" /\ run'[k].state = "FAILED" /\ ~ run'[k].link
            \/ run'[k].status = "pr_opened" /\ run'[k].state = "SHIPPED" /\ run'[k].link
      BY <1>t, <1>w, <1>i, StepNames
      DEF Outcome, Writes, Sets, Moves, RowKept, RowIs, Left, StoryFollowsStep,
          StateFollowsStep
    <3>6. run'[k].link \in BOOLEAN
      BY <1>w, <1>t DEF TypeInv, TypeOK, Row
    <3>7. pc'[Poller] = "exceptRow" => run'[k].status \in {"running", "failed"}
      BY <1>t, <1>w, <1>i, StepNames
      DEF Outcome, Writes, Sets, Moves, RowKept, RowIs, Left, StoryFollowsStep,
          StatusFollowsStep, RunningSteps, ExceptSteps, MayFail
    <3> QED BY <2>1, <3>1, <3>2, <3>3, <3>4, <3>5, <3>6, <3>7
            DEF StoryFollowsStep, Story, Failure, Shipment
  <2>2. CASE key'[Poller] # k
    <3>1. pc'[Poller] \in {"idle", "find", "batch"}
      BY <1>t, <2>2 DEF Frame, Left
    <3> QED BY <3>1 DEF StoryFollowsStep
  <2> QED BY <2>1, <2>2
<1> QED BY <1>1, <1>2 DEF SettledInv

LEMMA SettledNext ==
    ASSUME Triggers = {}, "db" \notin Faults, MaxCrashes = 0
    PROVE  SettledInv /\ [Next]_vars => SettledInv'
<1> SUFFICES ASSUME SettledInv, [Next]_vars
             PROVE  SettledInv'
  OBVIOUS
<1>w. Workers = {Poller} /\ Poller \in Workers
  BY DEF Workers
<1>t. PollInv /\ PollInv' /\ TypeInv /\ TypeInv' /\ RestingRunsAgree /\ StoryFollowsStep
  BY PollInvNext DEF SettledInv, PollInv
<1>1. CASE ProcessTicket(Poller)
  BY <1>1, <1>t, SettledTicket
<1>2. CASE PollStep
  <2>1. PollOutcome
    BY <1>2, <1>t, PollStepEffect
  <2>2. \A j \in Tickets : j # key[Poller] =>
          Story(run[j]) \in {Untouched, Failure, Shipment}
    BY <1>t, <1>w DEF RestingRunsAgree, AtRest, Untouched, Failure, Shipment
  <2>3. pc[Poller] \in {"idle", "resume", "find", "filter", "batch"}
    BY <2>1 DEF PollOutcome
  <2>4. \A j \in Tickets : Story(run[j]) \in {Untouched, Failure, Shipment}
    <3>1. CASE pc[Poller] = "resume"
      BY <2>2, <3>1, <1>t DEF StoryFollowsStep
    <3>2. CASE pc[Poller] # "resume"
      BY <2>2, <2>3, <3>2, <1>t, StepNames, TicketsAssumption DEF PollInv, Outside
    <3> QED BY <3>1, <3>2
  <2>5. run' = run
    BY <2>1 DEF PollOutcome
  <2>6. RestingRunsAgree'
    BY <2>4, <2>5 DEF RestingRunsAgree, AtRest, Untouched, Failure, Shipment
  <2>7. pc'[Poller] = "resume" => Story(run'[key'[Poller]]) = Shipment
    <3>1. ASSUME pc'[Poller] = "resume"
          PROVE  /\ key'[Poller] \in Tickets /\ run[key'[Poller]].state \in ActiveStates
      BY <2>1, <2>3, <3>1 DEF PollOutcome, IsActive, Left
    <3> QED BY <2>4, <2>5, <3>1 DEF Story, Untouched, Failure, Shipment, ActiveStates
  <2>8. pc'[Poller] = "start" =>
          /\ Story(run'[key'[Poller]]) \in {Untouched, Failure, Shipment}
          /\ resuming' => Story(run'[key'[Poller]]) = Shipment
    <3> SUFFICES ASSUME pc'[Poller] = "start"
                 PROVE  /\ Story(run[key'[Poller]]) \in {Untouched, Failure, Shipment}
                        /\ resuming' => Story(run[key'[Poller]]) = Shipment
      BY <2>5
    <3>1. CASE pc[Poller] = "resume"
      BY <2>1, <3>1, <1>t DEF PollOutcome, Left, StoryFollowsStep
    <3>2. CASE pc[Poller] = "batch"
      <4>1. key'[Poller] \in Tickets /\ ~ resuming'
        BY <2>1, <3>2, <1>t, StepNames DEF PollOutcome, Left, PollInv, BatchIsChecked, TypeInv,
           TypeOK
      <4> QED BY <2>4, <4>1
    <3> QED BY <2>1, <3>1, <3>2 DEF PollOutcome, Left
  <2>9. pc'[Poller] \in {"resume", "start", "idle", "find", "filter", "batch"}
    BY <2>1 DEF PollOutcome, Left
  <2> QED BY <1>t, <2>6, <2>7, <2>8, <2>9 DEF SettledInv, StoryFollowsStep
<1>3. CASE Crash
  BY <1>3, <1>t DEF Crash, TypeInv, TypeOK
<1>4. CASE Around
  <2>1. UNCHANGED <<run, pc, key, resuming>>
    BY <1>4 DEF Around
  <2>2. RestingRunsAgree' /\ StoryFollowsStep'
    BY <1>t, <2>1 DEF StoryFollowsStep, RestingRunsAgree, AtRest, Story
  <2> QED BY <1>t, <2>2 DEF SettledInv
<1> QED BY <1>w, <1>1, <1>2, <1>3, <1>4, NextCases

LEMMA SettledInvariance ==
    ASSUME Triggers = {}, "db" \notin Faults, MaxCrashes = 0
    PROVE  Spec => []SettledInv
<1>1. Init => SettledInv
  <2> SUFFICES ASSUME Init
               PROVE  SettledInv
    OBVIOUS
  <2>1. pc[Poller] = "idle"
    BY DEF Init, Workers
  <2>2. RestingRunsAgree
    BY DEF Init, RestingRunsAgree, Story
  <2>3. StoryFollowsStep
    BY <2>1 DEF StoryFollowsStep
  <2> QED BY <2>2, <2>3, PollInvInit DEF SettledInv
<1> QED BY <1>1, SettledNext, PTL DEF Spec

(***************************************************************************)
(* With a database that answers and a process that lives, the three        *)
(* columns of a run agree once the poll is done with it: every way out of  *)
(* process_ticket, by whichever external call raises, writes all three.    *)
(***************************************************************************)
THEOREM ColumnsAgreeAtRest ==
    ASSUME Triggers = {}, "db" \notin Faults, MaxCrashes = 0
    PROVE  Spec => []RestingRunsAgree
<1>1. SettledInv => RestingRunsAgree
  BY DEF SettledInv
<1> QED BY <1>1, SettledInvariance, PTL

LEMMA FinalStep ==
    ASSUME Triggers = {}, "db" \notin Faults, SettledInv, [Next]_vars, NEW k \in Tickets,
           run[k].status = "failed", run[k].attempt >= MaxAttempts
    PROVE  run'[k].status # "running"
<1>w. Workers = {Poller} /\ Poller \in Workers /\ TypeInv
  BY DEF Workers, SettledInv, PollInv
<1>1. CASE ProcessTicket(Poller)
  <2> DEFINE s == pc[Poller]
  <2>1. Frame(Poller) /\ Outcome(Poller) /\ s \in TicketSteps
    BY <1>1, <1>w, TicketStepEffect, TicketStepKey
  <2>2. CASE k # key[Poller]
    BY <2>1, <2>2 DEF Frame
  <2>3. CASE k = key[Poller] /\ s = "start"
    <3>1. CASE resuming
      BY <2>3, <3>1 DEF SettledInv, StoryFollowsStep, Story, Shipment
    <3>2. CASE ~ resuming
      <4>1. ShouldAttempt(k)
        BY <2>3, <3>2 DEF SettledInv, PollInv, BatchIsChecked, TurnIsChecked
      <4>2. run[k].attempt \in Nat
        BY <1>w, LimitsAssumption DEF TypeInv, TypeOK, Row
      <4>3. ~ (run[k].attempt < MaxAttempts)
        BY <4>2, LimitsAssumption
      <4> QED BY <4>1, <4>3 DEF ShouldAttempt
    <3> QED BY <3>1, <3>2
  <2>4. CASE k = key[Poller] /\ s # "start"
    BY <2>1, <2>4, StepNames DEF Outcome, Writes, Sets, Moves, RowKept, RowIs
  <2> QED BY <2>2, <2>3, <2>4
<1>2. CASE PollStep
  BY <1>2, <1>w, PollStepEffect DEF PollOutcome
<1>3. CASE Crash
  BY <1>3 DEF Crash, rows
<1>4. CASE Around
  BY <1>4 DEF Around
<1> QED BY <1>w, <1>1, <1>2, <1>3, <1>4, NextCases

(***************************************************************************)
(* Under the same conditions a run that failed on its last attempt is not  *)
(* claimed again: should_attempt refuses it as a candidate, and its state  *)
(* FAILED keeps it from being resumed.                                     *)
(***************************************************************************)
THEOREM LastFailureIsFinal ==
    ASSUME Triggers = {}, "db" \notin Faults, MaxCrashes = 0
    PROVE  Spec => FailedRunIsFinal
<1>1. SettledInv /\ [Next]_vars
      => [\A k \in Tickets :
            run[k].status = "failed" /\ run[k].attempt >= MaxAttempts
            => run'[k].status # "running"]_vars
  BY FinalStep
<1> QED BY <1>1, SettledInvariance, PTL DEF Spec, FailedRunIsFinal
-----------------------------------------------------------------------------
\* A ticket is written off by the PR check only where find_open_pr found nothing,
\* and no pull request is opened between that answer and the write.
PrInv == PollInv /\ PrDecides

LEMMA PrNext ==
    ASSUME Triggers = {}
    PROVE  PrInv /\ [Next]_vars => PrInv'
<1> SUFFICES ASSUME PrInv, [Next]_vars
             PROVE  PrDecides'
  BY PollInvNext DEF PrInv
<1>w. Workers = {Poller} /\ Poller \in Workers /\ TypeInv /\ PrDecides
  BY DEF Workers, PrInv, PollInv
<1>1. CASE ProcessTicket(Poller)
  <2>1. /\ Frame(Poller) /\ Outcome(Poller)
        /\ pc[Poller] \in TicketSteps /\ UNCHANGED pull
    BY <1>1, <1>w, TicketStepEffect, TicketStepKey DEF Frame
  <2>2. pc'[Poller] = "failRow" => /\ pc[Poller] = "findPr" /\ key' = key
                                   /\ pull[key[Poller]] # "open"
    BY <2>1, StepNames DEF Frame, Outcome, Writes, Sets, Moves, Left
  <2> QED BY <2>1, <2>2 DEF PrDecides
<1>2. CASE PollStep
  <2>1. PollOutcome
    BY <1>2, <1>w, PollStepEffect
  <2>2. pc'[Poller] \in {"resume", "start", "idle", "find", "filter", "batch"}
    BY <2>1 DEF PollOutcome, Left
  <2> QED BY <2>2 DEF PrDecides
<1>3. CASE Crash
  BY <1>3, <1>w DEF Crash, PrDecides
<1>4. CASE Around
  <2>1. UNCHANGED <<pc, key>> /\ pull \in [Tickets -> {"none", "open", "merged"}]
    BY <1>4, <1>w DEF Around, TypeInv, TypeOK
  <2>2. pc[Poller] = "failRow" => key[Poller] \in Tickets
    BY <1>w, StepNames DEF TypeInv, KeyOK
  <2>3. CASE pc[Poller] = "agent"
    BY <2>1, <2>3 DEF PrDecides
  <2>4. CASE pc[Poller] # "agent"
    <3>1. UNCHANGED pull \/ \E k \in Tickets : pull' = [pull EXCEPT ![k] = "merged"]
      BY <1>4, <1>w, <2>4 DEF Around
    <3> QED BY <1>w, <2>1, <2>2, <3>1 DEF PrDecides
  <2> QED BY <2>3, <2>4
<1> QED BY <1>w, <1>1, <1>2, <1>3, <1>4, NextCases

LEMMA PrStep ==
    ASSUME Triggers = {}, PrInv, [Next]_vars, NEW k \in Tickets,
           run[k].status # "failed", run'[k].status = "failed", pull[k] = "open"
    PROVE  key[Poller] = k /\ pc[Poller] = "exceptRow"
<1>w. Workers = {Poller} /\ Poller \in Workers /\ TypeInv /\ PrDecides
  BY DEF Workers, PrInv, PollInv
<1>1. CASE ProcessTicket(Poller)
  <2>1. Frame(Poller) /\ Outcome(Poller) /\ pc[Poller] \in TicketSteps
    BY <1>1, <1>w, TicketStepEffect, TicketStepKey
  <2>2. k = key[Poller]
    BY <2>1 DEF Frame
  <2>3. pc[Poller] # "start"
    BY <2>1, <2>2 DEF Outcome
  <2>4. pc[Poller] \in {"failRow", "exceptRow"}
    BY <2>1, <2>2, <2>3, StepNames DEF Outcome, Writes, Sets, Moves, RowKept, RowIs
  <2> QED BY <1>w, <2>2, <2>4 DEF PrDecides
<1>2. CASE PollStep
  BY <1>2, <1>w, PollStepEffect DEF PollOutcome
<1>3. CASE Crash
  BY <1>3 DEF Crash, rows
<1>4. CASE Around
  BY <1>4 DEF Around
<1> QED BY <1>w, <1>1, <1>2, <1>3, <1>4, NextCases

(***************************************************************************)
(* While the service polls, only the except block writes off a run whose   *)
(* pull request is open, never the PR check, whichever services fail and   *)
(* however often the process dies between the opening of a pull request    *)
(* and the check.                                                          *)
(***************************************************************************)
THEOREM OpenPrIsNotAbandoned ==
    ASSUME Triggers = {}
    PROVE  Spec => NoOpenPrIsAbandoned
<1>1. Init => PrInv
  BY PollInvInit DEF Init, PrInv, PrDecides, Workers
<1>2. PrInv /\ [Next]_vars
      => [\A k \in Tickets :
            /\ run[k].status # "failed" /\ run'[k].status = "failed"
            /\ pull[k] = "open"
            => \E p \in Workers : key[p] = k /\ pc[p] = "exceptRow"]_vars
  BY PrStep DEF Workers
<1> QED BY <1>1, <1>2, PrNext, PTL DEF Spec, NoOpenPrIsAbandoned
-----------------------------------------------------------------------------
LEMMA BoardNext ==
    ASSUME "jira" \notin Faults, MaxCrashes = 0
    PROVE  TypeInv /\ BoardInv /\ [Next]_vars => BoardInv'
<1> SUFFICES ASSUME TypeInv, BoardInv, [Next]_vars, NEW k \in Tickets, jira'[k] = "progress"
             PROVE  \E q \in Workers : key'[q] = k /\ pc'[q] \in BoardSteps
  BY DEF BoardInv
<1>j. ~ MayRaise("jira")
  BY DEF MayRaise
<1>1. CASE \E p \in Workers : ProcessTicket(p)
  <2>0. PICK p \in Workers : ProcessTicket(p)
    BY <1>1
  <2>1. Frame(p) /\ Outcome(p) /\ pc[p] \in TicketSteps /\ key[p] \in Tickets
    BY <2>0, TicketStepEffect, TicketStepKey
  <2>2. CASE jira[k] = "progress"
    <3>1. PICK q \in Workers : key[q] = k /\ pc[q] \in BoardSteps
      BY <2>2 DEF BoardInv
    <3>2. CASE q # p
      BY <2>1, <3>1, <3>2 DEF Frame
    <3>3. CASE q = p
      <4>1. pc[p] \notin {"failJira", "inReview", "exceptJira"}
        BY <1>j, <2>1, <3>1, <3>3 DEF Outcome, Moves
      <4>2. pc'[p] \in BoardSteps
        BY <2>1, <3>1, <3>3, <4>1 DEF Outcome, Writes, Sets, BoardSteps
      <4>3. key'[p] = k
        BY <2>1, <3>1, <3>3, <4>2 DEF Frame, BoardSteps
      <4> QED BY <4>2, <4>3
    <3> QED BY <3>2, <3>3
  <2>3. CASE jira[k] # "progress"
    <3>1. key[p] = k
      BY <2>1, <2>3 DEF Frame
    <3>2. pc[p] = "inProgress" /\ pc'[p] = "planned"
      BY <1>j, <2>1, <2>3, <3>1, StepNames DEF Outcome, Writes, Sets, Moves
    <3>3. key'[p] = k
      BY <2>1, <3>1, <3>2 DEF Frame
    <3> QED BY <3>2, <3>3 DEF BoardSteps
  <2> QED BY <2>2, <2>3
<1>2. CASE PollStep
  <2>1. PollOutcome
    BY <1>2, PollStepEffect
  <2>2. PICK q \in Workers : key[q] = k /\ pc[q] \in BoardSteps
    BY <2>1 DEF PollOutcome, BoardInv
  <2>3. q # Poller
    BY <2>1, <2>2 DEF PollOutcome, BoardSteps
  <2> QED BY <2>1, <2>2, <2>3 DEF PollOutcome
<1>3. CASE \E p \in Triggers : TriggerTicket(p)
  <2>0. PICK p \in Triggers : TriggerTicket(p)
    BY <1>3
  <2>1. /\ pc[p] = "idle" /\ jira' = jira
        /\ \A q \in Workers \ {p} : pc'[q] = pc[q] /\ key'[q] = key[q]
    BY <2>0 DEF TriggerTicket, At, world, TypeInv, TypeOK
  <2>2. PICK q \in Workers : key[q] = k /\ pc[q] \in BoardSteps
    BY <2>1 DEF BoardInv
  <2> QED BY <2>1, <2>2 DEF BoardSteps
<1>4. CASE Crash
  BY <1>4 DEF Crash, TypeInv, TypeOK
<1>5. CASE Around
  <2>1. UNCHANGED <<pc, key>>
    BY <1>5 DEF Around
  <2>2. jira[k] = "progress"
    BY <1>5 DEF Around, TypeInv, TypeOK
  <2> QED BY <2>1, <2>2 DEF BoardInv
<1> QED BY <1>1, <1>2, <1>3, <1>4, <1>5, NextCases

(***************************************************************************)
(* A ticket that is In Progress on the board has a worker on it, for any   *)
(* number of /trigger requests beside the poll and any interleaving of     *)
(* them, whatever fails but the board itself.                              *)
(***************************************************************************)
THEOREM BoardIsHonest ==
    ASSUME "jira" \notin Faults, MaxCrashes = 0
    PROVE  Spec => []InProgressIsBeingWorked
<1>1. Init => BoardInv
  BY DEF Init, BoardInv
<1>2. BoardInv => InProgressIsBeingWorked
  BY DEF BoardInv, InProgressIsBeingWorked, AtRest
<1> QED BY <1>1, <1>2, BoardNext, TypeCorrect, InitType, NextType, PTL DEF Spec
-----------------------------------------------------------------------------
(***************************************************************************)
(* The refinement of RunLedger.                                            *)
(***************************************************************************)
phases == [k \in Tickets |-> Phase(k)]
attempted == [k \in Tickets |-> run[k].attempt]
proposals == {k \in Tickets : pull[k] # "none"}

PhaseOf(status) == CASE status = "absent"    -> "unclaimed"
                     [] status = "running"   -> "working"
                     [] status = "pr_opened" -> "shipped"
                     [] status = "failed"    -> "failed"

LEMMA LedgerVariables ==
    /\ Ledger!ledger = <<phases, attempted, proposals>>
    /\ phases = [k \in Tickets |-> PhaseOf(run[k].status)]
    /\ phases' = [k \in Tickets |-> PhaseOf(run'[k].status)]
    /\ \A k \in Tickets : phases[k] = PhaseOf(run[k].status) /\ attempted[k] = run[k].attempt
<1>1. /\ phases = [k \in Tickets |-> PhaseOf(run[k].status)]
      /\ phases' = [k \in Tickets |-> PhaseOf(run'[k].status)]
  BY DEF phases, Phase, PhaseOf
<1>2. Ledger!ledger = <<phases, attempted, proposals>>
  BY DEF Ledger!ledger, phases, attempted, proposals
<1>3. \A k \in Tickets : attempted[k] = run[k].attempt
  BY DEF attempted
<1> QED BY <1>1, <1>2, <1>3

\* A row whose status and attempts stay the same is the same to the ledger.
LEMMA LedgerKept ==
    ASSUME UNCHANGED pull,
           \A k \in Tickets : run'[k].status = run[k].status /\ run'[k].attempt = run[k].attempt
    PROVE  UNCHANGED Ledger!ledger
<1>1. phases' = phases
  BY LedgerVariables
<1>2. attempted' = attempted
  BY DEF attempted
<1>3. proposals' = proposals
  BY DEF proposals
<1> QED BY <1>1, <1>2, <1>3, LedgerVariables DEF Ledger!ledger, phases, attempted, proposals

\* A row that changes alone.
LEMMA LedgerRow ==
    ASSUME UNCHANGED pull, NEW k \in Tickets,
           \A j \in Tickets \ {k} : run'[j] = run[j]
    PROVE  /\ phases' = [phases EXCEPT ![k] = PhaseOf(run'[k].status)]
           /\ attempted' = [attempted EXCEPT ![k] = run'[k].attempt]
           /\ proposals' = proposals
<1>1. phases' = [phases EXCEPT ![k] = PhaseOf(run'[k].status)]
  BY LedgerVariables
<1> QED BY <1>1 DEF attempted, proposals

LEMMA LedgerTicket ==
    ASSUME Triggers = {}, "db" \notin Faults, SettledInv, NoPhantomShipment, TypeInv',
           ProcessTicket(Poller)
    PROVE  [Ledger!Next]_(Ledger!ledger)
<1>w. Workers = {Poller} /\ Poller \in Workers /\ TypeInv /\ ~ MayRaise("db")
  BY DEF Workers, SettledInv, PollInv, MayRaise
<1> DEFINE s == pc[Poller]
<1>t. /\ Frame(Poller) /\ Outcome(Poller)
      /\ s \in TicketSteps /\ key[Poller] \in Tickets
  BY <1>w, TicketStepEffect, TicketStepKey
<1>k. PICK k \in Tickets : k = key[Poller]
  BY <1>t
<1>f. UNCHANGED pull /\ \A j \in Tickets \ {k} : run'[j] = run[j]
  BY <1>k, <1>t, <1>k DEF Frame
<1>r. /\ phases' = [phases EXCEPT ![k] = PhaseOf(run'[k].status)]
      /\ attempted' = [attempted EXCEPT ![k] = run'[k].attempt]
      /\ proposals' = proposals
  BY <1>f, LedgerRow
<1>v. phases[k] = PhaseOf(run[k].status) /\ attempted[k] = run[k].attempt
  BY LedgerVariables
<1>i. StoryFollowsStep /\ StateFollowsStep /\ StatusFollowsStep /\ RestingRunsAgree
  BY DEF SettledInv, PollInv
<1>1. CASE run'[k].status = run[k].status /\ run'[k].attempt = run[k].attempt
  BY <1>1, <1>f, LedgerKept
<1>2. CASE s = "start"
  <2>1. /\ run'[k].status = "running"
        /\ run'[k].attempt = Incremented(run[k].attempt)
    BY <1>k, <1>t, <1>w, <1>2 DEF Outcome
  <2>2. \A j \in Tickets : phases[j] # "working"
    <3>1. \A j \in Tickets : Story(run[j]) \in {Untouched, Failure, Shipment}
      BY <1>i, <1>w, <1>2
      DEF RestingRunsAgree, AtRest, StoryFollowsStep, Untouched, Failure, Shipment
    <3>2. \A j \in Tickets : run[j].status \in {"absent", "failed", "pr_opened"}
      BY <3>1 DEF Story, Untouched, Failure, Shipment
    <3> QED BY <3>2 DEF phases, Phase
  <2>3. phases[k] = "failed" => attempted[k] < MaxAttempts
    <3>1. CASE resuming
      BY <1>k, <1>2, <1>i, <1>v, <3>1 DEF StoryFollowsStep, Story, Shipment, PhaseOf
    <3>2. CASE ~ resuming
      <4>1. ShouldAttempt(k)
        BY <1>k, <1>2, <3>2 DEF SettledInv, PollInv, BatchIsChecked, TurnIsChecked
      <4> QED BY <4>1, <1>v DEF ShouldAttempt, PhaseOf
    <3> QED BY <3>1, <3>2
  <2>4. phases' = [phases EXCEPT ![k] = "working"]
    BY <1>r, <2>1 DEF PhaseOf
  <2>5. attempted' = [attempted EXCEPT ![k] = IF @ < AttemptCap THEN @ + 1 ELSE @]
    BY <1>r, <1>v, <2>1 DEF Incremented
  <2>6. Ledger!Claim(k)
    BY <1>r, <2>2, <2>3, <2>4, <2>5 DEF Ledger!Claim, phases, attempted, proposals
  <2> QED BY <2>6 DEF Ledger!Next
<1>3. CASE s # "start" /\ ~ (run'[k].status = run[k].status /\ run'[k].attempt = run[k].attempt)
  <2>1. run'[k].attempt = run[k].attempt
    BY <1>k, <1>t, <1>w, <1>3, StepNames DEF Outcome, Writes, Sets, Moves, RowKept, RowIs
  <2>2. \/ s \in {"failRow", "exceptRow"} /\ run'[k].status = "failed"
        \/ s = "shipRow" /\ run'[k].status = "pr_opened"
    BY <1>k, <1>t, <1>w, <1>3, <2>1, StepNames DEF Outcome, Writes, Sets, Moves, RowKept, RowIs
  <2>3. run[k].status = "running"
    BY <1>k, <1>3, <1>i, <2>1, <2>2, StepNames
    DEF StoryFollowsStep, StatusFollowsStep, RunningSteps, ExceptSteps
  <2>4. phases[k] = "working" /\ attempted' = attempted
    BY <1>r, <1>v, <2>1, <2>3 DEF PhaseOf, attempted
  <2>5. CASE run'[k].status = "failed"
    <3>1. phases' = [phases EXCEPT ![k] = "failed"]
      BY <1>r, <2>5 DEF PhaseOf
    <3>2. Ledger!Fail(k)
      BY <1>r, <2>4, <3>1 DEF Ledger!Fail, phases, attempted, proposals
    <3> QED BY <3>2 DEF Ledger!Next
  <2>6. CASE s = "shipRow" /\ run'[k].status = "pr_opened"
    <3>1. phases' = [phases EXCEPT ![k] = "shipped"]
      BY <1>r, <2>6 DEF PhaseOf
    <3>2. k \in proposals
      BY <1>k, <1>t, <1>i, <2>6 DEF StateFollowsStep, NoPhantomShipment, proposals
    <3>3. Ledger!Ship(k)
      BY <1>r, <2>4, <3>1, <3>2 DEF Ledger!Ship, phases, attempted, proposals
    <3> QED BY <3>3 DEF Ledger!Next
  <2> QED BY <2>2, <2>5, <2>6
<1> QED BY <1>1, <1>2, <1>3

LEMMA LedgerStep ==
    ASSUME Triggers = {}, "db" \notin Faults, MaxCrashes = 0,
           SettledInv, NoPhantomShipment, [Next]_vars
    PROVE  [Ledger!Next]_(Ledger!ledger)
<1>w. Workers = {Poller} /\ Poller \in Workers /\ TypeInv /\ TypeInv'
  BY NextType DEF Workers, SettledInv, PollInv
<1>1. CASE ProcessTicket(Poller)
  BY <1>1, <1>w, LedgerTicket
<1>2. CASE PollStep
  <2>1. UNCHANGED <<run, pull>>
    BY <1>2, <1>w, PollStepEffect DEF PollOutcome
  <2> QED BY <2>1, LedgerKept
<1>3. CASE Crash
  BY <1>3, <1>w DEF Crash, TypeInv, TypeOK
<1>4. CASE Around
  <2>1. UNCHANGED run /\ pull \in [Tickets -> {"none", "open", "merged"}]
    BY <1>4, <1>w DEF Around, TypeInv, TypeOK
  <2>2. phases' = phases /\ attempted' = attempted
    BY <2>1, LedgerVariables DEF attempted
  <2>3. CASE pc[Poller] = "agent" /\ pull' = [pull EXCEPT ![key[Poller]] = "open"]
    <3>0. key[Poller] \in Tickets /\ run[key[Poller]].status = "running"
      BY <1>w, <2>3, StepNames
      DEF SettledInv, PollInv, StatusFollowsStep, RunningSteps, ExceptSteps, TypeInv, KeyOK
    <3>1. PICK k \in Tickets : k = key[Poller]
      BY <3>0
    <3>2. phases[k] = "working"
      BY <3>0, <3>1 DEF phases, Phase
    <3>3. proposals' = proposals \cup {k}
      BY <2>1, <2>3, <3>1 DEF proposals
    <3>4. Ledger!Propose(k)
      BY <2>2, <3>2, <3>3 DEF Ledger!Propose, phases, attempted, proposals
    <3> QED BY <3>4 DEF Ledger!Next
  <2>4. CASE \E k \in Tickets : pull[k] = "open" /\ pull' = [pull EXCEPT ![k] = "merged"]
    <3>1. proposals' = proposals
      BY <2>1, <2>4 DEF proposals
    <3> QED BY <2>2, <3>1 DEF Ledger!ledger, phases, attempted, proposals
  <2>5. CASE UNCHANGED pull
    BY <2>1, <2>5, LedgerKept
  <2> QED BY <1>4, <1>w, <2>3, <2>4, <2>5 DEF Around
<1> QED BY <1>w, <1>1, <1>2, <1>3, <1>4, NextCases

(***************************************************************************)
(* The poll alone, with a database that answers and a process that lives,  *)
(* implements the ledger of runs: tickets are claimed one at a time and    *)
(* within their attempts, shipped only on a pull request, and written off  *)
(* only while they are being worked on.                                    *)
(***************************************************************************)
THEOREM PollImplementsLedger ==
    ASSUME Triggers = {}, "db" \notin Faults, MaxCrashes = 0
    PROVE  Spec => LedgerSpec
<1>1. Init => Ledger!Init
  <2> SUFFICES ASSUME Init
               PROVE  Ledger!Init
    OBVIOUS
  <2>1. /\ phases = [k \in Tickets |-> "unclaimed"]
        /\ attempted = [k \in Tickets |-> 0]
        /\ proposals = {}
    BY DEF Init, phases, Phase, attempted, proposals
  <2> QED BY <2>1 DEF Ledger!Init, phases, attempted, proposals
<1>2. SettledInv /\ NoPhantomShipment /\ [Next]_vars => [Ledger!Next]_(Ledger!ledger)
  BY LedgerStep
<1> QED
  BY <1>1, <1>2, SettledInvariance, ShipmentIsReal, PTL DEF Spec, LedgerSpec, Ledger!Spec
=============================================================================
