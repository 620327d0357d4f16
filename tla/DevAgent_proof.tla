--------------------------- MODULE DevAgent_proof ---------------------------
(***************************************************************************)
(* Theorems about DevAgent, for every value of its constants.              *)
(***************************************************************************)
EXTENDS DevAgent, TLAPS

\* A worker inside process_ticket, or about to resume one, has a ticket.
KeyOK == \A p \in Workers : pc[p] \in TicketSteps \cup {"resume"} => key[p] \in Tickets

TypeInv == TypeOK /\ KeyOK

AllSteps == {"idle"} \cup PollSteps \cup TicketSteps

(***************************************************************************)
(* The helpers of the row table return well-formed tables.                 *)
(***************************************************************************)
LEMMA RowsType ==
    ASSUME TypeOK, NEW k \in Tickets, NEW state \in AllStates,
           NEW status \in {"pr_opened", "failed"}
    PROVE  /\ WithState(k, state) \in [Tickets -> Row]
           /\ Finished(k, status) \in [Tickets -> Row]
<1>1. run[k] \in Row
  BY DEF TypeOK
<1>2. [run[k] EXCEPT !.state = state] \in Row
  BY <1>1 DEF Row
<1>3. (status = "pr_opened") \in BOOLEAN
  OBVIOUS
<1>4. [run[k] EXCEPT !.status = status, !.link = (status = "pr_opened")] \in Row
  BY <1>1, <1>3 DEF Row
<1> QED
  BY <1>2, <1>4 DEF TypeOK, WithState, Finished

LEMMA ClaimType ==
    ASSUME TypeOK, NEW k \in Tickets, Claim(k)
    PROVE  /\ run' \in [Tickets -> Row]
           /\ newer' \subseteq Tickets \X Tickets
<1> DEFINE next == Incremented(run[k].attempt)
<1>0. /\ run[k] \in Row
      /\ next \in 0 .. AttemptCap
  BY LimitsAssumption DEF TypeOK, Row, Incremented
<1>4. run' = [run EXCEPT ![k] =
                [run[k] EXCEPT !.status = "running", !.attempt = next]]
  BY DEF Claim
<1> HIDE DEF next
<1>3. [run[k] EXCEPT !.status = "running", !.attempt = next] \in Row
  BY <1>0 DEF Row
<1>1. run' \in [Tickets -> Row]
  BY <1>3, <1>4 DEF TypeOK
<1>2. newer' \subseteq Tickets \X Tickets
  BY DEF TypeOK, Claim
<1> QED BY <1>1, <1>2

(***************************************************************************)
(* Moving on to a step of process_ticket, and leaving process_ticket,      *)
(* keep the control variables well formed.                                 *)
(***************************************************************************)
ControlOK ==
    /\ pc \in [Workers -> AllSteps]
    /\ key \in [Workers -> Tickets \cup {NoTicket}]
    /\ resuming \in BOOLEAN
    /\ queue \subseteq Tickets
    /\ KeyOK

LEMMA GotoType ==
    ASSUME ControlOK, NEW p \in Workers, NEW step \in AllSteps, Goto(p, step),
           step \in TicketSteps \cup {"resume"} => key[p] \in Tickets
    PROVE  ControlOK'
BY DEF ControlOK, KeyOK, Goto, poll

LEMMA LeaveType ==
    ASSUME ControlOK, NEW p \in Workers, NEW raised \in BOOLEAN, Leave(p, raised)
    PROVE  ControlOK'
<1> USE DEF ControlOK, KeyOK, Leave, poll, AllSteps, PollSteps, TicketSteps, EarlySteps,
            WorkSteps, FailSteps, ReviewSteps, ShipSteps, ExceptSteps
<1>1. CASE p = Poller
  <2>1. key' \in [Workers -> Tickets \cup {NoTicket}]
    OBVIOUS
  <2>2. pc' \in [Workers -> AllSteps]
    BY <1>1
  <2>3. resuming' \in BOOLEAN /\ queue' \subseteq Tickets
    BY <1>1
  <2>4. KeyOK'
    BY <1>1
  <2> QED BY <2>1, <2>2, <2>3, <2>4
<1>2. CASE p # Poller
  BY <1>2
<1> QED BY <1>1, <1>2

RowsOK == run \in [Tickets -> Row] /\ newer \subseteq Tickets \X Tickets

WorldOK ==
    /\ jira \in [Tickets -> {"todo", "progress", "review"}]
    /\ pull \in [Tickets -> {"none", "open", "merged"}]
    /\ worktree \in [Tickets -> Workers \cup {Missing, Orphan}]

CoreOK == RowsOK /\ WorldOK /\ ControlOK /\ crashes \in 0 .. MaxCrashes

TriageOK ==
    /\ labelled \subseteq Tickets
    /\ doubted \subseteq Tickets
    /\ edits \in 0 .. MaxEdits
    /\ late \in [Tickets -> 0 .. 2]

LEMMA TypeParts ==
    /\ TypeInv <=> CoreOK /\ TriageOK
    /\ CoreOK <=> RowsOK /\ WorldOK /\ ControlOK /\ crashes \in 0 .. MaxCrashes
BY DEF TypeInv, TypeOK, CoreOK, TriageOK, RowsOK, WorldOK, ControlOK, AllSteps

LEMMA StepNames ==
    /\ TicketSteps \subseteq AllSteps
    /\ {"triaged", "inProgress", "planned", "worktree", "implementing", "agent",
        "debugging", "findPr", "failRow", "failState", "failJira", "reviewing",
        "provenance", "inReview", "shipRow", "shipState", "exceptRow",
        "exceptState", "exceptJira", "finally", "start"} = TicketSteps
    /\ "resume" \notin TicketSteps /\ "idle" \notin TicketSteps
    /\ {"idle", "resume", "find", "filter", "batch"} = AllSteps \ TicketSteps
BY DEF AllSteps, PollSteps, TicketSteps, EarlySteps, WorkSteps, FailSteps,
       ReviewSteps, ShipSteps, ExceptSteps

(***************************************************************************)
(* The two shared forms of a step, a database write and a board            *)
(* transition, preserve the type invariant.                                *)
(***************************************************************************)
LEMMA WriteRowType ==
    ASSUME TypeInv, NEW p \in Workers, key[p] \in Tickets,
           NEW newRun \in [Tickets -> Row], NEW next \in TicketSteps,
           NEW before \in SUBSET Services,
           UNCHANGED crashes, WriteRow(p, newRun, next, before)
    PROVE  CoreOK'
<1>1. \E step \in AllSteps : Goto(p, step)
  BY StepNames DEF WriteRow
<1>2. ControlOK'
  BY <1>1, TypeParts, GotoType
<1>3. RowsOK' /\ WorldOK'
  BY TypeParts DEF WriteRow, RowsOK, WorldOK, world
<1> QED BY <1>2, <1>3, TypeParts DEF CoreOK

LEMMA MoveTicketType ==
    ASSUME TypeInv, NEW p \in Workers, key[p] \in Tickets,
           NEW status \in {"todo", "progress", "review"},
           NEW next \in TicketSteps, NEW onRaise \in TicketSteps,
           UNCHANGED crashes, MoveTicket(p, status, next, onRaise)
    PROVE  CoreOK'
<1>1. \E step \in AllSteps : Goto(p, step)
  BY StepNames DEF MoveTicket
<1>2. ControlOK'
  BY <1>1, TypeParts, GotoType
<1>3. RowsOK' /\ WorldOK'
  BY TypeParts DEF MoveTicket, RowsOK, WorldOK, rows
<1> QED BY <1>2, <1>3, TypeParts DEF CoreOK

(***************************************************************************)
(* Every step of process_ticket preserves the type invariant.              *)
(***************************************************************************)
LEMMA ProcessTicketType ==
    ASSUME TypeInv, NEW p \in Workers, ProcessTicket(p)
    PROVE  CoreOK'
<1> USE DEF At
<1> DEFINE k == key[p]
<1>t. {"TRIAGED", "PLANNED", "IMPLEMENTING", "DEBUGGING", "REVIEWING", "SHIPPED",
       "FAILED"} \subseteq AllStates
  BY DEF AllStates, ActiveStates, TerminalStates
<1>k. k \in Tickets
  BY StepNames DEF TypeInv, KeyOK, ProcessTicket, StartRun, AdvanceTriaged,
     TransitionInProgress, AdvancePlanned, CreateWorktree, AdvanceImplementing,
     AgentEnds, AdvanceDebugging, FindPr, FinishFailed, AdvanceFailed, ReturnToDo,
     AdvanceReviewing, RecordProvenance, TransitionInReview, FinishPrOpened,
     AdvanceShipped, ExceptFinish, ExceptAdvance, ExceptReturn, RemoveWorktree
<1>r. /\ \A st \in AllStates : WithState(k, st) \in [Tickets -> Row]
      /\ \A st \in {"pr_opened", "failed"} : Finished(k, st) \in [Tickets -> Row]
  <2>1. ASSUME NEW st \in AllStates, NEW result \in {"pr_opened", "failed"}
        PROVE  /\ WithState(k, st) \in [Tickets -> Row]
               /\ Finished(k, result) \in [Tickets -> Row]
    BY <1>k, RowsType DEF TypeInv
  <2> QED BY <1>t, <2>1
<1> HIDE DEF k
<1>c. ASSUME NEW step \in TicketSteps, Goto(p, step)
      PROVE  ControlOK'
  BY <1>c, <1>k, TypeParts, GotoType, StepNames DEF k
<1>l. ASSUME NEW raised \in BOOLEAN, Leave(p, raised)
      PROVE  ControlOK'
  BY <1>l, TypeParts, LeaveType
<1>q. ASSUME ControlOK', RowsOK', WorldOK', UNCHANGED crashes
      PROVE  CoreOK'
  BY <1>q, TypeParts DEF CoreOK
<1>1. CASE StartRun(p)
  <2>1. Claim(k) \/ UNCHANGED rows
    BY <1>1 DEF StartRun, k
  <2>2. RowsOK'
    BY <2>1, <1>k, ClaimType, TypeParts DEF TypeInv, RowsOK, rows
  <2>3. ControlOK'
    BY <1>1, <1>c, <1>l, StepNames DEF StartRun
  <2>4. WorldOK'
    BY <1>1, TypeParts DEF StartRun, WorldOK, world
  <2> QED BY <1>1, <1>q, <2>2, <2>3, <2>4 DEF StartRun
<1>2. CASE AdvanceTriaged(p)
  <2>1. run' \in {run, WithState(k, "TRIAGED")}
    BY <1>2 DEF AdvanceTriaged, k
  <2>2. RowsOK'
    BY <1>2, <1>r, <1>t, <2>1, TypeParts DEF RowsOK, AdvanceTriaged
  <2>3. ControlOK'
    BY <1>2, <1>c, <1>l, StepNames DEF AdvanceTriaged
  <2>4. WorldOK'
    BY <1>2, TypeParts DEF AdvanceTriaged, WorldOK, world
  <2> QED BY <1>2, <1>q, <2>2, <2>3, <2>4 DEF AdvanceTriaged
<1>3. CASE AdvancePlanned(p)
  BY <1>3, <1>k, <1>r, <1>t, StepNames, WriteRowType DEF AdvancePlanned, k, Services
<1>4. CASE AdvanceImplementing(p)
  BY <1>4, <1>k, <1>r, <1>t, StepNames, WriteRowType DEF AdvanceImplementing, k, Services
<1>5. CASE AdvanceDebugging(p)
  BY <1>5, <1>k, <1>r, <1>t, StepNames, WriteRowType DEF AdvanceDebugging, k, Services
<1>6. CASE FinishFailed(p)
  BY <1>6, <1>k, <1>r, <1>t, StepNames, WriteRowType DEF FinishFailed, k, Services
<1>7. CASE AdvanceFailed(p)
  BY <1>7, <1>k, <1>r, <1>t, StepNames, WriteRowType DEF AdvanceFailed, k, Services
<1>8. CASE AdvanceReviewing(p)
  BY <1>8, <1>k, <1>r, <1>t, StepNames, WriteRowType DEF AdvanceReviewing, k, Services
<1>9. CASE FinishPrOpened(p)
  BY <1>9, <1>k, <1>r, <1>t, StepNames, WriteRowType DEF FinishPrOpened, k, Services
<1>10. CASE AdvanceShipped(p)
  BY <1>10, <1>k, <1>r, <1>t, StepNames, WriteRowType DEF AdvanceShipped, k, Services
<1>11. CASE TransitionInProgress(p)
  BY <1>11, <1>k, StepNames, MoveTicketType DEF TransitionInProgress, k
<1>12. CASE ReturnToDo(p)
  BY <1>12, <1>k, StepNames, MoveTicketType DEF ReturnToDo, k
<1>13. CASE TransitionInReview(p)
  BY <1>13, <1>k, StepNames, MoveTicketType DEF TransitionInReview, k
<1>14. CASE ExceptReturn(p)
  BY <1>14, <1>k, StepNames, MoveTicketType DEF ExceptReturn, k
<1>15. CASE CreateWorktree(p)
  <2>1. ControlOK'
    BY <1>15, <1>c, StepNames DEF CreateWorktree
  <2>2. WorldOK'
    BY <1>15, <1>k, TypeParts DEF CreateWorktree, WorldOK, k
  <2>3. RowsOK'
    BY <1>15, TypeParts DEF CreateWorktree, RowsOK, rows
  <2> QED BY <1>15, <1>q, <2>1, <2>2, <2>3 DEF CreateWorktree
<1>16. CASE AgentEnds(p)
  <2>1. ControlOK'
    BY <1>16, <1>c, StepNames DEF AgentEnds
  <2>2. RowsOK' /\ WorldOK'
    BY <1>16, TypeParts DEF AgentEnds, RowsOK, WorldOK, rows, world
  <2> QED BY <1>16, <1>q, <2>1, <2>2 DEF AgentEnds
<1>17. CASE FindPr(p)
  <2>1. ControlOK'
    BY <1>17, <1>c, StepNames DEF FindPr
  <2>2. RowsOK' /\ WorldOK'
    BY <1>17, TypeParts DEF FindPr, RowsOK, WorldOK, rows, world
  <2> QED BY <1>17, <1>q, <2>1, <2>2 DEF FindPr
<1>18. CASE RecordProvenance(p)
  <2>1. ControlOK'
    BY <1>18, <1>c, StepNames DEF RecordProvenance
  <2>2. RowsOK' /\ WorldOK'
    BY <1>18, TypeParts DEF RecordProvenance, RowsOK, WorldOK, rows, world
  <2> QED BY <1>18, <1>q, <2>1, <2>2 DEF RecordProvenance
<1>19. CASE ExceptFinish(p)
  <2>1. ControlOK'
    BY <1>19, <1>c, StepNames DEF ExceptFinish
  <2>2. RowsOK'
    BY <1>19, <1>r, <1>t, TypeParts DEF ExceptFinish, RowsOK, k
  <2>3. WorldOK'
    BY <1>19, TypeParts DEF ExceptFinish, WorldOK, world
  <2> QED BY <1>19, <1>q, <2>1, <2>2, <2>3 DEF ExceptFinish
<1>20. CASE ExceptAdvance(p)
  <2>1. ControlOK'
    BY <1>20, <1>c, StepNames DEF ExceptAdvance
  <2>2. RowsOK'
    BY <1>20, <1>r, <1>t, TypeParts DEF ExceptAdvance, RowsOK, k
  <2>3. WorldOK'
    BY <1>20, TypeParts DEF ExceptAdvance, WorldOK, world
  <2> QED BY <1>20, <1>q, <2>1, <2>2, <2>3 DEF ExceptAdvance
<1>21. CASE RemoveWorktree(p)
  <2>1. ControlOK'
    BY <1>21, <1>l DEF RemoveWorktree
  <2>2. WorldOK'
    BY <1>21, TypeParts DEF RemoveWorktree, WorldOK
  <2>3. RowsOK'
    BY <1>21, TypeParts DEF RemoveWorktree, RowsOK, rows
  <2> QED BY <1>21, <1>q, <2>1, <2>2, <2>3 DEF RemoveWorktree
<1> QED
  BY <1>1, <1>2, <1>3, <1>4, <1>5, <1>6, <1>7, <1>8, <1>9, <1>10, <1>11, <1>12, <1>13,
     <1>14, <1>15, <1>16, <1>17, <1>18, <1>19, <1>20, <1>21
  DEF ProcessTicket

(***************************************************************************)
(* So do the steps of the poll, of the trigger endpoint and of the         *)
(* environment.                                                            *)
(***************************************************************************)
LEMMA NextCore == TypeInv /\ [Next]_vars => CoreOK'
<1> SUFFICES ASSUME TypeInv, [Next]_vars
             PROVE  CoreOK'
  OBVIOUS
<1>q. ASSUME ControlOK', RowsOK', WorldOK', crashes' \in 0 .. MaxCrashes
      PROVE  CoreOK'
  BY <1>q DEF CoreOK
<1>w. Poller \in Workers
  BY DEF Workers
<1>u. UNCHANGED <<rows, world, crashes>> => RowsOK' /\ WorldOK' /\ crashes' \in 0 .. MaxCrashes
  BY TypeParts DEF RowsOK, WorldOK, rows, world
<1>c. ASSUME NEW step \in AllSteps, Goto(Poller, step), step \notin TicketSteps \cup {"resume"}
      PROVE  ControlOK'
  BY <1>c, <1>w, TypeParts, GotoType
<1>1. CASE \E p \in Workers : ProcessTicket(p)
  BY <1>1, ProcessTicketType
<1>2. CASE \E p \in Workers : AgentOpensPr(p)
  <2>0. RowsOK /\ WorldOK /\ ControlOK /\ crashes \in 0 .. MaxCrashes
    BY TypeParts
  <2>1. RowsOK' /\ ControlOK' /\ crashes' \in 0 .. MaxCrashes
    BY <1>2, <2>0 DEF AgentOpensPr, At, RowsOK, ControlOK, KeyOK, rows, poll
  <2>2. WorldOK'
    BY <1>2, <2>0 DEF AgentOpensPr, WorldOK
  <2> QED BY <1>q, <2>1, <2>2
<1>3. CASE PollBegins
  <2>1. CASE \E k \in Tickets : /\ key' = [key EXCEPT ![Poller] = k]
                                /\ pc' = [pc EXCEPT ![Poller] = "resume"]
                                /\ resuming' = TRUE
                                /\ UNCHANGED queue
    <3>1. ControlOK'
      BY <2>1, <1>w, TypeParts, StepNames DEF ControlOK, KeyOK
    <3> QED BY <1>3, <1>q, <1>u, <3>1 DEF PollBegins, At
  <2>2. CASE Goto(Poller, "find")
    BY <1>3, <1>q, <1>u, <1>c, <2>2, StepNames DEF PollBegins, At
  <2> QED BY <1>3, <2>1, <2>2 DEF PollBegins
<1>4. CASE PollResumes
  <2>1. key[Poller] \in Tickets
    BY <1>4, <1>w DEF PollResumes, At, TypeInv, KeyOK
  <2>2. ControlOK'
    BY <1>4, <1>w, <2>1, TypeParts, GotoType, LeaveType, StepNames DEF PollResumes
  <2> QED BY <1>4, <1>q, <1>u, <2>2 DEF PollResumes, At
<1>p. ASSUME PollEnds PROVE ControlOK'
  BY <1>p, <1>w, TypeParts, StepNames DEF PollEnds, ControlOK, KeyOK
<1>5. CASE FindSprintCandidates
  <2>1. CASE /\ queue' = Oldest(PageSize, Listed) \ doubted
             /\ pc' = [pc EXCEPT ![Poller] = "filter"]
             /\ UNCHANGED <<key, resuming>>
    <3>0. queue' \subseteq Tickets
      BY <2>1, TypeParts DEF Oldest, Listed, TriageOK
    <3>1. ControlOK'
      BY <2>1, <3>0, <1>w, TypeParts, StepNames DEF ControlOK, KeyOK
    <3> QED BY <1>5, <1>q, <1>u, <3>1 DEF FindSprintCandidates, At
  <2> QED BY <1>5, <1>q, <1>u, <1>p, <2>1 DEF FindSprintCandidates, At
<1>6. CASE FilterBatch
  <2>1. CASE /\ queue' = Oldest(BatchSize, {k \in queue : ShouldAttempt(k)})
             /\ pc' = [pc EXCEPT ![Poller] = "batch"]
             /\ UNCHANGED <<key, resuming>>
    <3>0. queue' \subseteq Tickets
      BY <2>1, TypeParts DEF Oldest, ControlOK
    <3>1. ControlOK'
      BY <2>1, <3>0, <1>w, TypeParts, StepNames DEF ControlOK, KeyOK
    <3> QED BY <1>6, <1>q, <1>u, <3>1 DEF FilterBatch, At
  <2> QED BY <1>6, <1>q, <1>u, <1>p, <2>1 DEF FilterBatch, At
<1>7. CASE NextInBatch
  <2>1. CASE \E k \in Oldest(1, queue) : /\ Take(k)
                                         /\ queue' = queue \ {k}
                                         /\ UNCHANGED resuming
    <3>0. \E k \in queue : /\ key' = [key EXCEPT ![Poller] = k]
                           /\ pc' = [pc EXCEPT ![Poller] = "start"]
                           /\ queue' = queue \ {k}
                           /\ UNCHANGED resuming
      BY <2>1 DEF Oldest, Take
    <3>1. ControlOK'
      BY <3>0, <1>w, TypeParts, StepNames DEF ControlOK, KeyOK
    <3> QED BY <1>7, <1>q, <1>u, <3>1 DEF NextInBatch, At
  <2> QED BY <1>7, <1>q, <1>u, <1>p, <2>1 DEF NextInBatch, At
<1>8. CASE \E p \in Triggers : TriggerTicket(p)
  <2>1. ControlOK'
    BY <1>8, TypeParts, StepNames DEF TriggerTicket, Workers, ControlOK, KeyOK, poll
  <2> QED BY <1>8, <1>q, <1>u, <2>1 DEF TriggerTicket, At
<1>9. CASE Crash
  <2>1. ControlOK'
    BY <1>9, StepNames DEF Crash, ControlOK, KeyOK
  <2>2. RowsOK' /\ WorldOK'
    BY <1>9, TypeParts DEF Crash, RowsOK, WorldOK, rows
  <2>3. crashes' \in 0 .. MaxCrashes
    BY <1>9, TypeParts, LimitsAssumption DEF Crash
  <2> QED BY <1>q, <2>1, <2>2, <2>3
<1>10. CASE \E k \in Tickets : HumanMerges(k) \/ HumanMoves(k) \/ TriageChanges(k)
  <2>1. RowsOK' /\ WorldOK' /\ ControlOK' /\ crashes' \in 0 .. MaxCrashes
    BY <1>10, TypeParts DEF HumanMerges, HumanMoves, TriageChanges, Edit, RowsOK, WorldOK, ControlOK,
       KeyOK, rows, poll
  <2> QED BY <1>q, <2>1
<1>11. CASE UNCHANGED vars
  BY <1>11, TypeParts DEF vars, CoreOK, RowsOK, WorldOK, ControlOK, KeyOK
<1> QED
  BY <1>1, <1>2, <1>3, <1>4, <1>5, <1>6, <1>7, <1>8, <1>9, <1>10, <1>11
  DEF Next, PollStep

(***************************************************************************)
(* What triage reads, and the stale uses of it, by the step that changes   *)
(* them: only people, a new confidence and the turn of a ticket do.        *)
(***************************************************************************)
LEMMA TicketStepTriage ==
    ASSUME NEW p \in Workers, ProcessTicket(p)
    PROVE  UNCHANGED triage
BY DEF At, ProcessTicket, StartRun, AdvanceTriaged, TransitionInProgress, AdvancePlanned,
   CreateWorktree, AdvanceImplementing, AgentEnds, AdvanceDebugging, FindPr, FinishFailed,
   AdvanceFailed, ReturnToDo, AdvanceReviewing, RecordProvenance, TransitionInReview,
   FinishPrOpened, AdvanceShipped, ExceptFinish, ExceptAdvance, ExceptReturn, RemoveWorktree

Taken(k) ==
    /\ UNCHANGED triage
    /\ k \in queue /\ queue' = queue \ {k}
    /\ late' = IF k \in HeldBack THEN [late EXCEPT ![k] = IF @ < 2 THEN @ + 1 ELSE @]
                                ELSE late

Edited(k) == (HumanMoves(k) \/ TriageChanges(k)) /\ UNCHANGED queue

LEMMA TriageCases ==
    ASSUME [Next]_vars
    PROVE  \/ UNCHANGED <<triage, late>>
           \/ \E k \in queue : Taken(k)
           \/ \E k \in Tickets : Edited(k)
<1>1. CASE \E p \in Workers : (ProcessTicket(p) \/ AgentOpensPr(p)) /\ UNCHANGED late
  BY <1>1, TicketStepTriage DEF AgentOpensPr, At
<1>2. CASE (PollBegins \/ PollResumes \/ FindSprintCandidates \/ FilterBatch) /\ UNCHANGED late
  BY <1>2 DEF PollBegins, PollResumes, FindSprintCandidates, FilterBatch, At
<1>3. CASE NextInBatch
  BY <1>3 DEF NextInBatch, At, Take, Taken, Oldest
<1>4. CASE \E p \in Triggers : TriggerTicket(p) /\ UNCHANGED late
  BY <1>4 DEF TriggerTicket, At
<1>5. CASE Crash
  BY <1>5 DEF Crash
<1>6. CASE \E k \in Tickets : HumanMerges(k) \/ HumanMoves(k) \/ TriageChanges(k)
  BY <1>6 DEF HumanMerges, HumanMoves, TriageChanges, Edit, Edited, poll
<1>7. CASE UNCHANGED vars
  BY <1>7 DEF vars, triage
<1> QED BY <1>1, <1>2, <1>3, <1>4, <1>5, <1>6, <1>7 DEF Next, PollStep

LEMMA TriageType == TypeInv /\ [Next]_vars => TriageOK'
<1> SUFFICES ASSUME TypeInv, [Next]_vars
             PROVE  TriageOK'
  OBVIOUS
<1>t. TriageOK
  BY TypeParts
<1>1. CASE UNCHANGED <<triage, late>>
  BY <1>1, <1>t DEF TriageOK, triage
<1>2. CASE \E k \in queue : Taken(k)
  <2>1. queue \subseteq Tickets
    BY DEF TypeInv, TypeOK
  <2> QED BY <1>2, <1>t, <2>1 DEF TriageOK, triage, Taken
<1>3. CASE \E k \in Tickets : Edited(k)
  <2>1. PICK k \in Tickets : HumanMoves(k) \/ TriageChanges(k)
    BY <1>3 DEF Edited
  <2>2. edits' \in 0 .. MaxEdits
    BY <2>1, <1>t, LimitsAssumption DEF HumanMoves, TriageChanges, Edit, TriageOK
  <2>3. labelled' \subseteq Tickets /\ doubted' \subseteq Tickets
    BY <2>1, <1>t DEF HumanMoves, TriageChanges, TriageOK
  <2>4. late' \in [Tickets -> 0 .. 2]
    BY <2>1, <1>t DEF HumanMoves, TriageChanges, TriageOK
  <2> QED BY <2>2, <2>3, <2>4 DEF TriageOK
<1> QED BY <1>1, <1>2, <1>3, TriageCases

LEMMA NextType == TypeInv /\ [Next]_vars => TypeInv'
<1> SUFFICES ASSUME TypeInv, [Next]_vars
             PROVE  TypeInv'
  OBVIOUS
<1>1. CoreOK' /\ TriageOK'
  BY NextCore, TriageType
<1> QED BY <1>1 DEF TypeInv, TypeOK, CoreOK, TriageOK, RowsOK, WorldOK, ControlOK, AllSteps

LEMMA InitType == Init => TypeInv
<1> SUFFICES ASSUME Init PROVE TypeInv
  OBVIOUS
<1>1. [status |-> "absent", state |-> "NULL", attempt |-> 0, link |-> FALSE] \in Row
  BY LimitsAssumption DEF Row
<1>2. RowsOK
  BY <1>1 DEF Init, RowsOK
<1>3. WorldOK
  BY DEF Init, WorldOK
<1>4. ControlOK
  BY StepNames DEF Init, ControlOK, KeyOK
<1>5. crashes \in 0 .. MaxCrashes
  BY LimitsAssumption DEF Init
<1>6. TriageOK
  BY LimitsAssumption DEF Init, TriageOK
<1> QED BY <1>2, <1>3, <1>4, <1>5, <1>6, TypeParts

(***************************************************************************)
(* Type correctness: whatever the constants, rows, board, pull requests,   *)
(* worktrees and workers keep the values that their columns can hold.      *)
(***************************************************************************)
THEOREM TypeCorrect == Spec => []TypeOK
<1>1. TypeInv => TypeOK
  BY DEF TypeInv
<1> QED
  BY <1>1, InitType, NextType, PTL DEF Spec

-----------------------------------------------------------------------------
(***************************************************************************)
(* No phantom shipment.  A pull request, once opened, is never "none"      *)
(* again; a worker past find_open_pr has seen one.  Those two facts carry  *)
(* the invariant over any interleaving, failure or crash.                  *)
(***************************************************************************)
PastPrCheck == ReviewSteps \cup ShipSteps

ReviewersSawPr == \A p \in Workers : pc[p] \in PastPrCheck => pull[key[p]] # "none"

ShipInv == TypeInv /\ NoPhantomShipment /\ ReviewersSawPr

\* What a step must not do: lose a pull request, record a shipment of a
\* ticket without one, or move a worker past the check without one.
ShipSafe(p) ==
    /\ \A k \in Tickets : pull[k] # "none" => pull'[k] # "none"
    /\ \A k \in Tickets :
         \/ run'[k].status = "pr_opened"
         \/ run'[k].state \in {"REVIEWING", "SHIPPED"}
         => \/ run[k].status = "pr_opened"
            \/ run[k].state \in {"REVIEWING", "SHIPPED"}
            \/ pull[k] # "none"
    /\ \A q \in Workers \ {p} : pc'[q] \in PastPrCheck => pc[q] = pc'[q] /\ key'[q] = key[q]
    /\ pc'[p] \in PastPrCheck => pull[key'[p]] # "none"

LEMMA ShipSafePreserves ==
    ASSUME ShipInv, TypeInv', NEW p \in Workers, ShipSafe(p)
    PROVE  ShipInv'
<1>1. NoPhantomShipment'
  BY DEF ShipInv, NoPhantomShipment, ShipSafe
<1>2. ReviewersSawPr'
  <2> SUFFICES ASSUME NEW q \in Workers, pc'[q] \in PastPrCheck
               PROVE  pull'[key'[q]] # "none"
    BY DEF ReviewersSawPr
  <2>1. key'[q] \in Tickets
    BY DEF TypeInv, KeyOK, PastPrCheck, TicketSteps
  <2>2. pull[key'[q]] # "none"
    BY DEF ShipInv, ReviewersSawPr, ShipSafe
  <2> QED BY <2>1, <2>2 DEF ShipSafe
<1> QED BY <1>1, <1>2 DEF ShipInv
LEMMA RowEffects ==
    ASSUME TypeInv, NEW k \in Tickets, NEW j \in Tickets, NEW state, NEW status
    PROVE  /\ WithState(k, state)[j].status = run[j].status
           /\ WithState(k, state)[j].state = IF j = k THEN state ELSE run[j].state
           /\ Finished(k, status)[j].status = IF j = k THEN status ELSE run[j].status
           /\ Finished(k, status)[j].state = run[j].state
<1>1. run[k] \in Row /\ run[j] \in Row
  BY DEF TypeInv, TypeOK
<1> QED BY <1>1 DEF TypeInv, TypeOK, Row, WithState, Finished

LEMMA ControlEffects ==
    ASSUME TypeInv, NEW p \in Workers
    PROVE  /\ \A step : Goto(p, step) =>
                /\ pc'[p] = step /\ key' = key
                /\ \A q \in Workers \ {p} : pc'[q] = pc[q]
           /\ \A raised : Leave(p, raised) =>
                /\ pc'[p] \in {"idle", "find", "batch"}
                /\ \A q \in Workers \ {p} : pc'[q] = pc[q] /\ key'[q] = key[q]
BY DEF TypeInv, TypeOK, Goto, Leave

\* Table updates that record no new shipment.
LEMMA TableSafe ==
    ASSUME TypeInv, NEW k \in Tickets
    PROVE  \A j \in Tickets :
             /\ \A st \in AllStates \ {"REVIEWING", "SHIPPED"} :
                  WithState(k, st)[j].state \in {"REVIEWING", "SHIPPED"}
                  => run[j].state \in {"REVIEWING", "SHIPPED"}
             /\ \A st \in {"REVIEWING", "SHIPPED"} :
                  WithState(k, st)[j].state \in {"REVIEWING", "SHIPPED"}
                  => j = k \/ run[j].state \in {"REVIEWING", "SHIPPED"}
             /\ \A st : WithState(k, st)[j].status = run[j].status
             /\ Finished(k, "failed")[j].status = "pr_opened" => run[j].status = "pr_opened"
             /\ Finished(k, "pr_opened")[j].status = "pr_opened"
                => j = k \/ run[j].status = "pr_opened"
             /\ \A st : Finished(k, st)[j].state = run[j].state
BY RowEffects

LEMMA ProcessTicketSafe ==
    ASSUME ShipInv, NEW p \in Workers, ProcessTicket(p)
    PROVE  ShipSafe(p)
<1> USE DEF At
<1> DEFINE k == key[p]
           Shown(table, j) == \/ table[j].status = "pr_opened"
                              \/ table[j].state \in {"REVIEWING", "SHIPPED"}
<1>t. {"TRIAGED", "PLANNED", "IMPLEMENTING", "DEBUGGING", "FAILED"}
      \subseteq AllStates \ {"REVIEWING", "SHIPPED"}
  BY DEF AllStates, ActiveStates, TerminalStates
<1>i. TypeInv /\ ReviewersSawPr
  BY DEF ShipInv
<1>k. k \in Tickets
  BY <1>i, StepNames DEF TypeInv, KeyOK, ProcessTicket, StartRun, AdvanceTriaged,
     TransitionInProgress, AdvancePlanned, CreateWorktree, AdvanceImplementing,
     AgentEnds, AdvanceDebugging, FindPr, FinishFailed, AdvanceFailed, ReturnToDo,
     AdvanceReviewing, RecordProvenance, TransitionInReview, FinishPrOpened,
     AdvanceShipped, ExceptFinish, ExceptAdvance, ExceptReturn, RemoveWorktree
<1>p. PastPrCheck = {"reviewing", "provenance", "inReview", "shipRow", "shipState"}
  BY DEF PastPrCheck, ReviewSteps, ShipSteps
<1>g. ASSUME NEW step, Goto(p, step), step \in PastPrCheck => pull[k] # "none"
      PROVE  /\ \A q \in Workers \ {p} :
                  pc'[q] \in PastPrCheck => pc[q] = pc'[q] /\ key'[q] = key[q]
             /\ pc'[p] \in PastPrCheck => pull[key'[p]] # "none"
  BY <1>g, <1>i, ControlEffects
<1>l. ASSUME NEW raised, Leave(p, raised)
      PROVE  /\ \A q \in Workers \ {p} :
                  pc'[q] \in PastPrCheck => pc[q] = pc'[q] /\ key'[q] = key[q]
             /\ pc'[p] \in PastPrCheck => pull[key'[p]] # "none"
  BY <1>l, <1>i, <1>p, ControlEffects
\* Steps of the first kind leave the pull requests alone and show no new row.
<1>s. ASSUME UNCHANGED pull,
             \A j \in Tickets : Shown(run', j) => Shown(run, j) \/ pull[j] # "none",
             \/ \E step : Goto(p, step) /\ (step \in PastPrCheck => pull[k] # "none")
             \/ \E raised : Leave(p, raised)
      PROVE  ShipSafe(p)
  BY <1>s, <1>g, <1>l DEF ShipSafe
<1>f. \A st \in AllStates \ {"REVIEWING", "SHIPPED"}, j \in Tickets :
        Shown(WithState(k, st), j) => Shown(run, j)
  BY <1>i, <1>k, TableSafe
<1>h. \A j \in Tickets : Shown(Finished(k, "failed"), j) => Shown(run, j)
  BY <1>i, <1>k, TableSafe
<1>m. ASSUME pull[k] # "none", NEW st \in {"REVIEWING", "SHIPPED"}
      PROVE  \A j \in Tickets :
               /\ Shown(WithState(k, st), j) => Shown(run, j) \/ pull[j] # "none"
               /\ Shown(Finished(k, "pr_opened"), j) => Shown(run, j) \/ pull[j] # "none"
  BY <1>m, <1>i, <1>k, TableSafe
<1>1. CASE StartRun(p)
  <2>1. \A j \in Tickets : Shown(run', j) => Shown(run, j)
    <3>1. CASE UNCHANGED run
      BY <3>1
    <3>2. CASE Claim(k)
      <4>1. \A j \in Tickets : run[j] \in Row
        BY <1>i DEF TypeInv, TypeOK
      <4>2. \A j \in Tickets : /\ run'[j].state = run[j].state
                              /\ run'[j].status \in {run[j].status, "running"}
        BY <1>i, <1>k, <3>2, <4>1 DEF Claim, TypeInv, TypeOK, Row
      <4> QED BY <4>2
    <3> QED BY <1>1, <3>1, <3>2 DEF StartRun, rows
  <2>2. UNCHANGED pull
    BY <1>1 DEF StartRun, world
  <2>3. CASE Goto(p, "triaged")
    BY <1>s, <1>p, <2>1, <2>2, <2>3
  <2>4. CASE Leave(p, TRUE)
    BY <1>s, <2>1, <2>2, <2>4
  <2> QED BY <1>1, <2>3, <2>4 DEF StartRun
<1>2. CASE AdvanceTriaged(p)
  <2>1. run' \in {run, WithState(k, "TRIAGED")} /\ UNCHANGED pull
    BY <1>2 DEF AdvanceTriaged, world
  <2>2. \A j \in Tickets : Shown(run', j) => Shown(run, j)
    BY <2>1, <1>f, <1>t
  <2>3. CASE Goto(p, "inProgress")
    BY <1>s, <1>p, <2>1, <2>2, <2>3
  <2>4. CASE Leave(p, TRUE)
    BY <1>s, <2>1, <2>2, <2>4
  <2> QED BY <1>2, <2>3, <2>4 DEF AdvanceTriaged
<1>3. CASE AdvancePlanned(p)
  <2>1. run' \in {run, WithState(k, "PLANNED")} /\ UNCHANGED pull
    BY <1>3 DEF AdvancePlanned, WriteRow, world
  <2>2. \A j \in Tickets : Shown(run', j) => Shown(run, j)
    BY <2>1, <1>f, <1>t
  <2> QED BY <1>3, <1>s, <1>p, <2>1, <2>2 DEF AdvancePlanned, WriteRow
<1>4. CASE AdvanceImplementing(p)
  <2>1. run' \in {run, WithState(k, "IMPLEMENTING")} /\ UNCHANGED pull
    BY <1>4 DEF AdvanceImplementing, WriteRow, world
  <2>2. \A j \in Tickets : Shown(run', j) => Shown(run, j)
    BY <2>1, <1>f, <1>t
  <2> QED BY <1>4, <1>s, <1>p, <2>1, <2>2 DEF AdvanceImplementing, WriteRow
<1>5. CASE AdvanceDebugging(p)
  <2>1. run' \in {run, WithState(k, "DEBUGGING")} /\ UNCHANGED pull
    BY <1>5 DEF AdvanceDebugging, WriteRow, world
  <2>2. \A j \in Tickets : Shown(run', j) => Shown(run, j)
    BY <2>1, <1>f, <1>t
  <2> QED BY <1>5, <1>s, <1>p, <2>1, <2>2 DEF AdvanceDebugging, WriteRow
<1>6. CASE FinishFailed(p)
  <2>1. run' \in {run, Finished(k, "failed")} /\ UNCHANGED pull
    BY <1>6 DEF FinishFailed, WriteRow, world
  <2>2. \A j \in Tickets : Shown(run', j) => Shown(run, j)
    BY <2>1, <1>h, <1>t
  <2> QED BY <1>6, <1>s, <1>p, <2>1, <2>2 DEF FinishFailed, WriteRow
<1>7. CASE AdvanceFailed(p)
  <2>1. run' \in {run, WithState(k, "FAILED")} /\ UNCHANGED pull
    BY <1>7 DEF AdvanceFailed, WriteRow, world
  <2>2. \A j \in Tickets : Shown(run', j) => Shown(run, j)
    BY <2>1, <1>f, <1>t
  <2> QED BY <1>7, <1>s, <1>p, <2>1, <2>2 DEF AdvanceFailed, WriteRow
<1>8. CASE AdvanceReviewing(p)
  <2>1. run' \in {run, WithState(k, "REVIEWING")} /\ UNCHANGED pull
    BY <1>8 DEF AdvanceReviewing, WriteRow, world
  <2>2. pull[k] # "none"
    BY <1>8, <1>i, <1>p DEF AdvanceReviewing, ReviewersSawPr
  <2>3. \A j \in Tickets : Shown(run', j) => Shown(run, j) \/ pull[j] # "none"
    BY <2>1, <2>2, <1>m
  <2> QED BY <1>8, <1>s, <1>p, <2>1, <2>2, <2>3 DEF AdvanceReviewing, WriteRow
<1>9. CASE FinishPrOpened(p)
  <2>1. run' \in {run, Finished(k, "pr_opened")} /\ UNCHANGED pull
    BY <1>9 DEF FinishPrOpened, WriteRow, world
  <2>2. pull[k] # "none"
    BY <1>9, <1>i, <1>p DEF FinishPrOpened, ReviewersSawPr
  <2>3. \A j \in Tickets : Shown(run', j) => Shown(run, j) \/ pull[j] # "none"
    BY <2>1, <2>2, <1>m
  <2> QED BY <1>9, <1>s, <1>p, <2>1, <2>2, <2>3 DEF FinishPrOpened, WriteRow
<1>10. CASE AdvanceShipped(p)
  <2>1. run' \in {run, WithState(k, "SHIPPED")} /\ UNCHANGED pull
    BY <1>10 DEF AdvanceShipped, WriteRow, world
  <2>2. pull[k] # "none"
    BY <1>10, <1>i, <1>p DEF AdvanceShipped, ReviewersSawPr
  <2>3. \A j \in Tickets : Shown(run', j) => Shown(run, j) \/ pull[j] # "none"
    BY <2>1, <2>2, <1>m
  <2> QED BY <1>10, <1>s, <1>p, <2>1, <2>2, <2>3 DEF AdvanceShipped, WriteRow
<1>11. CASE TransitionInProgress(p)
  <2>1. UNCHANGED <<run, pull>>
    BY <1>11 DEF TransitionInProgress, MoveTicket, rows
  <2> QED BY <1>11, <1>s, <1>p, <2>1 DEF TransitionInProgress, MoveTicket
<1>12. CASE CreateWorktree(p)
  <2>1. UNCHANGED <<run, pull>>
    BY <1>12 DEF CreateWorktree, rows
  <2> QED BY <1>12, <1>s, <1>p, <2>1 DEF CreateWorktree
<1>13. CASE AgentEnds(p)
  <2>1. UNCHANGED <<run, pull>>
    BY <1>13 DEF AgentEnds, rows, world
  <2> QED BY <1>13, <1>s, <1>p, <2>1 DEF AgentEnds
<1>14. CASE FindPr(p)
  <2>1. UNCHANGED <<run, pull>>
    BY <1>14 DEF FindPr, rows, world
  <2> QED BY <1>14, <1>s, <1>p, <2>1 DEF FindPr
<1>15. CASE ReturnToDo(p)
  <2>1. UNCHANGED <<run, pull>>
    BY <1>15 DEF ReturnToDo, MoveTicket, rows
  <2> QED BY <1>15, <1>s, <1>p, <2>1 DEF ReturnToDo, MoveTicket
<1>16. CASE ExceptReturn(p)
  <2>1. UNCHANGED <<run, pull>>
    BY <1>16 DEF ExceptReturn, MoveTicket, rows
  <2> QED BY <1>16, <1>s, <1>p, <2>1 DEF ExceptReturn, MoveTicket
<1>17. CASE RemoveWorktree(p)
  <2>1. UNCHANGED <<run, pull>>
    BY <1>17 DEF RemoveWorktree, rows
  <2> QED BY <1>17, <1>s, <1>p, <2>1 DEF RemoveWorktree
<1>18. CASE RecordProvenance(p)
  <2>1. UNCHANGED <<run, pull>>
    BY <1>18 DEF RecordProvenance, rows, world
  <2>2. pull[k] # "none"
    BY <1>18, <1>i, <1>p DEF RecordProvenance, ReviewersSawPr
  <2> QED BY <1>18, <1>s, <1>p, <2>1, <2>2 DEF RecordProvenance
<1>19. CASE TransitionInReview(p)
  <2>1. UNCHANGED <<run, pull>>
    BY <1>19 DEF TransitionInReview, MoveTicket, rows
  <2>2. pull[k] # "none"
    BY <1>19, <1>i, <1>p DEF TransitionInReview, ReviewersSawPr
  <2> QED BY <1>19, <1>s, <1>p, <2>1, <2>2 DEF TransitionInReview, MoveTicket
<1>20. CASE ExceptFinish(p)
  <2>1. run' \in {run, Finished(k, "failed")} /\ UNCHANGED pull
    BY <1>20 DEF ExceptFinish, world
  <2>2. \A j \in Tickets : Shown(run', j) => Shown(run, j)
    BY <2>1, <1>h, <1>t
  <2> QED BY <1>20, <1>s, <1>p, <2>1, <2>2 DEF ExceptFinish
<1>21. CASE ExceptAdvance(p)
  <2>1. run' \in {run, WithState(k, "FAILED")} /\ UNCHANGED pull
    BY <1>21 DEF ExceptAdvance, world
  <2>2. \A j \in Tickets : Shown(run', j) => Shown(run, j)
    BY <2>1, <1>f, <1>t
  <2> QED BY <1>21, <1>s, <1>p, <2>1, <2>2 DEF ExceptAdvance
<1> QED
  BY <1>1, <1>2, <1>3, <1>4, <1>5, <1>6, <1>7, <1>8, <1>9, <1>10, <1>11, <1>12,
     <1>13, <1>14, <1>15, <1>16, <1>17, <1>18, <1>19, <1>20, <1>21
  DEF ProcessTicket
LEMMA ShipInvStep == ShipInv /\ [Next]_vars => ShipInv'
<1> SUFFICES ASSUME ShipInv, [Next]_vars
             PROVE  ShipInv'
  OBVIOUS
<1>i. TypeInv /\ NoPhantomShipment /\ ReviewersSawPr
  BY DEF ShipInv
<1>t. TypeInv'
  BY <1>i, NextType
<1>p. PastPrCheck = {"reviewing", "provenance", "inReview", "shipRow", "shipState"}
  BY DEF PastPrCheck, ReviewSteps, ShipSteps
<1>w. Poller \in Workers
  BY DEF Workers
\* Steps that keep the rows and the pull requests and bring no worker past the check.
<1>s. ASSUME UNCHANGED <<run, pull>>,
             \A q \in Workers : pc'[q] \in PastPrCheck => pc'[q] = pc[q] /\ key'[q] = key[q]
      PROVE  ShipInv'
  BY <1>s, <1>i, <1>t DEF ShipInv, NoPhantomShipment, ReviewersSawPr
\* Steps that keep the rows and the control and never take a pull request away.
<1>u. ASSUME UNCHANGED <<run, pc, key>>,
             \A k \in Tickets : pull[k] # "none" => pull'[k] # "none"
      PROVE  ShipInv'
  <2>1. \A q \in Workers : pc[q] \in PastPrCheck => key[q] \in Tickets
    BY <1>i DEF TypeInv, KeyOK, PastPrCheck, TicketSteps
  <2> QED BY <1>u, <1>i, <1>t, <2>1 DEF ShipInv, NoPhantomShipment, ReviewersSawPr
<1>1. CASE \E p \in Workers : ProcessTicket(p)
  BY <1>1, <1>t, ProcessTicketSafe, ShipSafePreserves
<1>2. CASE \E p \in Workers : AgentOpensPr(p)
  <2>1. \A k \in Tickets : pull[k] # "none" => pull'[k] # "none"
    BY <1>2, <1>i DEF AgentOpensPr, TypeInv, TypeOK
  <2> QED BY <1>2, <1>u, <2>1 DEF AgentOpensPr, rows
<1>3. CASE PollStep
  <2>1. UNCHANGED <<run, pull>>
    BY <1>3 DEF PollStep, PollBegins, PollResumes, FindSprintCandidates, FilterBatch,
       NextInBatch, Take, rows, world
  <2>2. \/ \E step \in {"resume", "find", "start", "filter", "batch", "idle"} :
             pc' = [pc EXCEPT ![Poller] = step]
        \/ \E raised : Leave(Poller, raised)
    BY <1>3 DEF PollStep, PollBegins, PollResumes, FindSprintCandidates, FilterBatch,
       NextInBatch, Take, PollEnds, Goto
  <2>3. \A q \in Workers \ {Poller} : key'[q] = key[q]
    BY <1>3, <1>i DEF PollStep, PollBegins, PollResumes, FindSprintCandidates,
       FilterBatch, NextInBatch, Take, PollEnds, Goto, Leave, TypeInv, TypeOK
  <2>4. \A q \in Workers : pc'[q] \in PastPrCheck => q # Poller /\ pc'[q] = pc[q]
    BY <1>i, <1>p, <1>w, <2>2, ControlEffects DEF TypeInv, TypeOK
  <2> QED BY <1>s, <2>1, <2>3, <2>4
<1>4. CASE \E p \in Triggers : TriggerTicket(p)
  BY <1>4, <1>i, <1>s, <1>p DEF TriggerTicket, rows, world, Workers, TypeInv, TypeOK
<1>5. CASE Crash
  BY <1>5, <1>s, <1>p DEF Crash, rows
<1>6. CASE \E k \in Tickets : HumanMerges(k) \/ HumanMoves(k) \/ TriageChanges(k)
  <2>1. \A j \in Tickets : pull[j] # "none" => pull'[j] # "none"
    BY <1>6, <1>i DEF HumanMerges, HumanMoves, TriageChanges, Edit, TypeInv, TypeOK
  <2> QED BY <1>6, <1>u, <2>1 DEF HumanMerges, HumanMoves, TriageChanges, Edit, rows
<1>7. CASE UNCHANGED vars
  BY <1>7, <1>u DEF vars
<1> QED
  BY <1>1, <1>2, <1>3, <1>4, <1>5, <1>6, <1>7 DEF Next

(***************************************************************************)
(* No run is recorded as under review or shipped without a pull request,   *)
(* for any number of tickets and concurrent requests, whatever services    *)
(* fail and however often the process dies.                                *)
(***************************************************************************)
THEOREM ShipmentIsReal == Spec => []NoPhantomShipment
<1>1. Init => ShipInv
  <2> SUFFICES ASSUME Init PROVE ShipInv
    OBVIOUS
  <2>1. TypeInv
    BY InitType
  <2>2. NoPhantomShipment
    BY DEF Init, NoPhantomShipment
  <2>3. ReviewersSawPr
    BY DEF Init, ReviewersSawPr, PastPrCheck, ReviewSteps, ShipSteps
  <2> QED BY <2>1, <2>2, <2>3 DEF ShipInv
<1>2. ShipInv => NoPhantomShipment
  BY DEF ShipInv
<1> QED
  BY <1>1, <1>2, ShipInvStep, PTL DEF Spec
-----------------------------------------------------------------------------
(***************************************************************************)
(* How stale the answers of triage may get.  A ticket of the batch that is *)
(* held back by now has not been taken since: the batch was read when it   *)
(* was not held back, and a ticket leaves the batch when it is taken.      *)
(***************************************************************************)
LateInv ==
    /\ TypeInv
    /\ \A k \in Tickets :
         /\ late[k] <= 1
         /\ k \notin HeldBack \/ k \in queue => late[k] = 0

\* The candidates are read as a whole; every other step only takes some away.
LEMMA QueueShrinks ==
    ASSUME TypeInv, [Next]_vars
    PROVE  queue' \subseteq queue \/ (queue' \cap HeldBack = {} /\ UNCHANGED <<triage, late>>)
<1>1. CASE \E p \in Workers : ProcessTicket(p)
  <2>1. \A p \in Workers : /\ \A step : Goto(p, step) => queue' = queue
                           /\ \A raised : Leave(p, raised) => queue' \subseteq queue
    BY DEF Goto, Leave, poll
  <2> QED BY <1>1, <2>1
    DEF ProcessTicket, WriteRow, MoveTicket, StartRun, AdvanceTriaged, TransitionInProgress,
        AdvancePlanned, CreateWorktree, AdvanceImplementing, AgentEnds, AdvanceDebugging,
        FindPr, FinishFailed, AdvanceFailed, ReturnToDo, AdvanceReviewing, RecordProvenance,
        TransitionInReview, FinishPrOpened, AdvanceShipped, ExceptFinish, ExceptAdvance,
        ExceptReturn, RemoveWorktree
<1>2. CASE PollStep
  <2>1. CASE PollBegins
    BY <2>1 DEF PollBegins, Goto, poll
  <2>2. CASE PollResumes
    BY <2>2 DEF PollResumes, Goto, Leave, poll
  <2>3. CASE FindSprintCandidates /\ UNCHANGED late
    <3>1. UNCHANGED triage
      BY <2>3 DEF FindSprintCandidates, At
    <3>2. queue' = {} \/ queue' = Oldest(PageSize, Listed) \ doubted
      BY <2>3 DEF FindSprintCandidates, PollEnds
    <3> QED BY <2>3, <3>1, <3>2 DEF Oldest, Listed, HeldBack
  <2>4. CASE FilterBatch
    BY <2>4 DEF FilterBatch, PollEnds, Oldest
  <2>5. CASE NextInBatch
    BY <2>5 DEF NextInBatch, PollEnds
  <2> QED BY <1>2, <2>1, <2>2, <2>3, <2>4, <2>5 DEF PollStep
<1>3. CASE ~ \E p \in Workers : ProcessTicket(p)
  <2>1. CASE PollStep
    BY <1>2, <2>1
  <2> QED BY <1>3, <2>1
    DEF Next, AgentOpensPr, TriggerTicket, Crash, HumanMerges, HumanMoves, TriageChanges,
        Edit, poll, vars
<1> QED BY <1>1, <1>3

LEMMA LateStep == LateInv /\ [Next]_vars => LateInv'
<1> SUFFICES ASSUME LateInv, [Next]_vars, NEW k \in Tickets
             PROVE  /\ late'[k] <= 1
                    /\ k \notin HeldBack' \/ k \in queue' => late'[k] = 0
  BY NextType DEF LateInv
<1>t. TypeInv /\ late \in [Tickets -> 0 .. 2] /\ queue \subseteq Tickets
  BY DEF LateInv, TypeInv, TypeOK
<1>i. late[k] <= 1 /\ (k \notin HeldBack \/ k \in queue => late[k] = 0)
  BY DEF LateInv
<1>1. CASE UNCHANGED <<triage, late>>
  <2>1. HeldBack' = HeldBack /\ late' = late
    BY <1>1 DEF HeldBack, triage
  <2>2. k \in queue' => k \in queue \/ k \notin HeldBack
    BY <1>t, QueueShrinks
  <2> QED BY <1>i, <2>1, <2>2
<1>2. CASE \E j \in queue : Taken(j)
  <2>1. PICK j \in queue : Taken(j)
    BY <1>2
  <2>2. HeldBack' = HeldBack /\ queue' = queue \ {j}
    BY <2>1 DEF Taken, HeldBack, triage
  <2>3. late[j] = 0
    BY <1>t DEF LateInv
  <2>4. late'[k] = IF k = j /\ k \in HeldBack THEN 1 ELSE late[k]
    BY <1>t, <2>1, <2>3 DEF Taken
  <2> QED BY <1>i, <2>2, <2>4
<1>3. CASE \E j \in Tickets : Edited(j)
  <2>1. PICK j \in Tickets : HumanMoves(j) \/ TriageChanges(j)
    BY <1>3 DEF Edited
  <2>2. queue' = queue
    BY <1>3 DEF Edited
  <2>3. CASE HumanMoves(j)
    <3>1. HeldBack' = HeldBack /\ late' = late
      BY <2>3 DEF HumanMoves, HeldBack
    <3> QED BY <1>i, <2>2, <3>1
  <2>4. CASE TriageChanges(j)
    <3>1. late'[k] = IF k = j /\ j \notin HeldBack' THEN 0 ELSE late[k]
      BY <1>t, <2>4 DEF TriageChanges
    <3>2. k # j => (k \in HeldBack' <=> k \in HeldBack)
      BY <2>4 DEF TriageChanges, HeldBack
    <3> QED BY <1>i, <2>2, <3>1, <3>2
  <2> QED BY <2>1, <2>3, <2>4
<1> QED BY <1>1, <1>2, <1>3, TriageCases

(***************************************************************************)
(* A ticket that people hold back, or whose confidence drops, while it     *)
(* waits in a batch is taken once more at most, for any number of tickets, *)
(* changes of mind, concurrent requests, failing services and crashes.     *)
(***************************************************************************)
THEOREM StaleBatchIsUsedOnce == Spec => []HeldBackIsTakenOnce
<1>1. Init => LateInv
  BY InitType DEF Init, LateInv
<1>2. LateInv => HeldBackIsTakenOnce
  BY DEF LateInv, HeldBackIsTakenOnce
<1> QED BY <1>1, <1>2, LateStep, PTL DEF Spec
=============================================================================
