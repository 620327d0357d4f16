------------------------------ MODULE DevAgent ------------------------------
(***************************************************************************)
(* The dev agent (src/dev_agent): a scheduler job polls Jira, and POST     *)
(* /trigger requests bypass it; both run process_ticket, which drives one  *)
(* ticket through the database row of its run, the Jira board, a git       *)
(* worktree and a coding agent that may open a pull request.  Every await  *)
(* of process_ticket that changes or reads shared state is a step of its   *)
(* own, so workers interleave there; any of them may raise, and the whole  *)
(* process may die between any two of them.                                *)
(***************************************************************************)
EXTENDS Naturals, FiniteSets, Lifecycle

CONSTANTS
    Tickets,      \* the issues of the sprint, numbered in the order of creation
    Poller,       \* the scheduler's poll job (APScheduler runs one at a time)
    Triggers,     \* the POST /trigger requests that may be in flight at once
    NoTicket,     \* a worker that is not on a ticket
    Missing,      \* no worktree directory
    Orphan,       \* a worktree directory whose worker died in a crash
    MaxAttempts,  \* DEV_AGENT_MAX_ATTEMPTS
    BatchSize,    \* DEV_AGENT_BATCH_SIZE
    PageSize,     \* max_results of search_issues: one page, no second one is read
    Faults,       \* the services whose calls may raise
    AttemptCap,   \* bound: attempt_count saturates here
    MaxCrashes,   \* bound: how often the process may die
    MaxEdits      \* bound: how often people (or a new confidence) change what triage reads

Services == {"jira", "db", "git", "github"}
Workers == {Poller} \cup Triggers

ASSUME TicketsAssumption ==
    /\ IsFiniteSet(Tickets)
    /\ Tickets \subseteq Nat
    /\ NoTicket \notin Tickets

ASSUME WorkersAssumption ==
    /\ Poller \notin Triggers
    /\ Missing # Orphan
    /\ Missing \notin Workers
    /\ Orphan \notin Workers

ASSUME LimitsAssumption ==
    /\ MaxAttempts \in Nat
    /\ BatchSize \in Nat \ {0}
    /\ PageSize \in Nat \ {0}
    /\ MaxEdits \in Nat
    /\ AttemptCap \in Nat
    /\ AttemptCap > MaxAttempts
    /\ MaxCrashes \in Nat
    /\ Faults \subseteq Services

VARIABLES
    run,       \* dev_agent_runs: one row per ticket
    newer,     \* <<a, b>>: the row of a has a later started_at than that of b
    jira,      \* its column on the board; "review" stands for all the later ones
    pull,      \* the pull request on the branch agent/<ticket>
    worktree,  \* the directory WORK_ROOT/<ticket>: who created it
    pc,        \* the next step of each worker
    key,       \* the ticket each worker is on
    resuming,  \* the poll is inside its resume block
    queue,     \* the poll's candidates, then the rest of its batch
    crashes,   \* so far
    labelled,  \* the tickets that carry dev-agent and no skip label
    doubted,   \* those whose action item is below the confidence threshold
    edits,     \* changes of the board, the labels and the confidence so far
    late       \* history: how often a batch took each ticket since it was held back

rows == <<run, newer>>
world == <<jira, pull, worktree>>
poll == <<resuming, queue>>
triage == <<labelled, doubted, edits>>
vars == <<run, newer, jira, pull, worktree, pc, key, resuming, queue, crashes,
          labelled, doubted, edits, late>>

Row == [status : {"absent", "running", "pr_opened", "failed"},
        state : AllStates \cup {"NULL"},
        attempt : 0 .. AttemptCap,
        link : BOOLEAN]              \* pr_url is not NULL

PollSteps == {"resume", "find", "filter", "batch"}
EarlySteps == {"start", "triaged", "inProgress"}
WorkSteps == {"planned", "worktree", "implementing", "agent", "debugging", "findPr"}
FailSteps == {"failRow", "failState", "failJira"}
ReviewSteps == {"reviewing", "provenance", "inReview"}
ShipSteps == {"shipRow", "shipState"}
ExceptSteps == {"exceptRow", "exceptState", "exceptJira"}
TicketSteps == EarlySteps \cup WorkSteps \cup FailSteps \cup ReviewSteps
               \cup ShipSteps \cup ExceptSteps \cup {"finally"}

TypeOK ==
    /\ run \in [Tickets -> Row]
    /\ newer \subseteq Tickets \X Tickets
    /\ jira \in [Tickets -> {"todo", "progress", "review"}]
    /\ pull \in [Tickets -> {"none", "open", "merged"}]
    /\ worktree \in [Tickets -> Workers \cup {Missing, Orphan}]
    /\ pc \in [Workers -> {"idle"} \cup PollSteps \cup TicketSteps]
    /\ key \in [Workers -> Tickets \cup {NoTicket}]
    /\ resuming \in BOOLEAN
    /\ queue \subseteq Tickets
    /\ crashes \in 0 .. MaxCrashes
    /\ labelled \subseteq Tickets
    /\ doubted \subseteq Tickets
    /\ edits \in 0 .. MaxEdits
    /\ late \in [Tickets -> 0 .. 2]

Init ==
    /\ run = [k \in Tickets |->
                [status |-> "absent", state |-> "NULL", attempt |-> 0, link |-> FALSE]]
    /\ newer = {}
    /\ jira = [k \in Tickets |-> "todo"]
    /\ pull = [k \in Tickets |-> "none"]
    /\ worktree = [k \in Tickets |-> Missing]
    /\ pc = [p \in Workers |-> "idle"]
    /\ key = [p \in Workers |-> NoTicket]
    /\ resuming = FALSE
    /\ queue = {}
    /\ crashes = 0
    /\ labelled = Tickets
    /\ doubted = {}
    /\ edits = 0
    /\ late = [k \in Tickets |-> 0]

-----------------------------------------------------------------------------
(* The dev_agent_runs table (db.py).                                       *)

Incremented(count) == IF count < AttemptCap THEN count + 1 ELSE count

\* start_run: the upsert that claims a ticket.  It keeps state and pr_url.
Claim(k) ==
    /\ run' = [run EXCEPT ![k] =
                 [@ EXCEPT !.status = "running",
                           !.attempt = Incremented(run[k].attempt)]]
    /\ newer' = {e \in newer : e[1] # k /\ e[2] # k}
                \cup {<<k, j>> : j \in {i \in Tickets \ {k} : run[i].status # "absent"}}

\* finish_run: the outcome of the attempt; without a pr_url the link is cleared.
Finished(k, status) ==
    [run EXCEPT ![k] = [@ EXCEPT !.status = status, !.link = (status = "pr_opened")]]

\* set_state, as _advance_state calls it: an illegal edge is logged and written.
WithState(k, state) == [run EXCEPT ![k] = [@ EXCEPT !.state = state]]

\* get_active_run: the non-terminal row that was started last.
IsActive(k) == run[k].state \in ActiveStates

IsActiveRun(k) ==
    /\ IsActive(k)
    /\ \A j \in Tickets \ {k} : IsActive(j) => <<k, j>> \in newer

\* Seeded bugs: no limit on attempts, and a limit that is off by one.
ShouldAttemptForever(k) == run[k].status \in {"absent", "failed"}

ShouldAttemptOneMore(k) ==
    \/ run[k].status = "absent"
    \/ run[k].status = "failed" /\ run[k].attempt <= MaxAttempts

ShouldAttempt(k) ==
    \/ run[k].status = "absent"
    \/ run[k].status = "failed" /\ run[k].attempt < MaxAttempts

-----------------------------------------------------------------------------
(* Control flow of process_ticket.                                         *)

At(p, step) == pc[p] = step /\ UNCHANGED <<crashes, triage>>
Goto(p, step) == pc' = [pc EXCEPT ![p] = step] /\ UNCHANGED <<key, poll>>
MayRaise(service) == service \in Faults

\* process_ticket is left, by a return or by an exception.  The poll's resume
\* block swallows an exception; elsewhere in the poll it ends the poll.
Leave(p, raised) ==
    /\ key' = [key EXCEPT ![p] = NoTicket]
    /\ IF p = Poller
       THEN /\ pc' = [pc EXCEPT ![p] = IF resuming THEN "find"
                                       ELSE IF raised THEN "idle" ELSE "batch"]
            /\ resuming' = FALSE
            /\ queue' = IF raised THEN {} ELSE queue
       ELSE /\ pc' = [pc EXCEPT ![p] = "idle"]
            /\ UNCHANGED poll

\* A database write inside the try block.  The calls that come before it in
\* the same step raise as the services in `before` do; a write that raises may
\* have been committed or not.
WriteRow(p, newRun, next, before) ==
    /\ \/ run' = newRun /\ Goto(p, next)
       \/ /\ \E s \in before \cup {"db"} : MayRaise(s)
          /\ UNCHANGED run
          /\ Goto(p, "exceptRow")
       \/ MayRaise("db") /\ run' = newRun /\ Goto(p, "exceptRow")
    /\ UNCHANGED <<newer, world>>

\* transition_issue: False when the board offers no such transition, which
\* no caller acts on; a POST that raises may have moved the ticket or not.
MoveTicket(p, status, next, onRaise) ==
    LET moved == [jira EXCEPT ![key[p]] = status]
    IN  /\ \/ jira' = moved /\ Goto(p, next)
           \/ MayRaise("jira") /\ UNCHANGED jira /\ Goto(p, next)
           \/ MayRaise("jira") /\ jira' \in {jira, moved} /\ Goto(p, onRaise)
        /\ UNCHANGED <<rows, pull, worktree>>

-----------------------------------------------------------------------------
(* The steps of process_ticket, in the order of the code.                  *)

\* start_run and the TRIAGED write come before the try block, so an exception
\* there leaves process_ticket at once, with the row as it then is.
StartRun(p) ==
    /\ At(p, "start")
    /\ \/ Claim(key[p]) /\ Goto(p, "triaged")
       \/ /\ MayRaise("db")
          /\ Claim(key[p]) \/ UNCHANGED rows
          /\ Leave(p, TRUE)
    /\ UNCHANGED world

AdvanceTriaged(p) ==
    /\ At(p, "triaged")
    /\ \/ run' = WithState(key[p], "TRIAGED") /\ Goto(p, "inProgress")
       \/ /\ MayRaise("db")
          /\ run' \in {run, WithState(key[p], "TRIAGED")}
          /\ Leave(p, TRUE)
    /\ UNCHANGED <<newer, world>>

TransitionInProgress(p) ==
    /\ At(p, "inProgress")
    /\ MoveTicket(p, "progress", "planned", "exceptRow")

AdvancePlanned(p) ==      \* after add_comment and get_issue_detail
    /\ At(p, "planned")
    /\ WriteRow(p, WithState(key[p], "PLANNED"), "worktree", {"jira"})

\* Seeded bug: a directory that is already there is taken over as it is.
CreateWorktreeUnlessThere(p) ==
    /\ At(p, "worktree")
    /\ IF worktree[key[p]] = Missing
       THEN worktree' = [worktree EXCEPT ![key[p]] = p]
       ELSE UNCHANGED worktree
    /\ Goto(p, "implementing")
    /\ UNCHANGED <<rows, jira, pull>>

\* create_worktree removes what is at the ticket's path, whoever created it,
\* and adds a new worktree there; it may raise before or after the removal.
CreateWorktree(p) ==
    /\ At(p, "worktree")
    /\ \/ worktree' = [worktree EXCEPT ![key[p]] = p] /\ Goto(p, "implementing")
       \/ /\ MayRaise("git")
          /\ worktree' \in {worktree, [worktree EXCEPT ![key[p]] = Missing]}
          /\ Goto(p, "exceptRow")
    /\ UNCHANGED <<rows, jira, pull>>

AdvanceImplementing(p) ==
    /\ At(p, "implementing")
    /\ WriteRow(p, WithState(key[p], "IMPLEMENTING"), "agent", {})

\* While run_claude_code waits, the coding agent may push its branch and open
\* a pull request; whether it reports success has no further effect.
AgentOpensPr(p) ==
    /\ At(p, "agent")
    /\ worktree[key[p]] # Missing
    /\ pull[key[p]] # "open"
    /\ pull' = [pull EXCEPT ![key[p]] = "open"]
    /\ UNCHANGED <<rows, jira, worktree, pc, key, poll>>

AgentEnds(p) ==           \* exit, error or timeout: run_claude_code never raises
    /\ At(p, "agent")
    /\ Goto(p, "debugging")
    /\ UNCHANGED <<rows, world>>

\* Seeded bug: the DEBUGGING checkpoint is forgotten.
SkipDebugging(p) ==
    /\ At(p, "debugging")
    /\ Goto(p, "findPr")
    /\ UNCHANGED <<rows, world>>

AdvanceDebugging(p) ==
    /\ At(p, "debugging")
    /\ WriteRow(p, WithState(key[p], "DEBUGGING"), "findPr", {})

\* Seeded bugs: the agent's report decides, for a success and for a failure.
FindPrTrustingSuccess(p) ==
    /\ At(p, "findPr")
    /\ \/ Goto(p, "reviewing")
       \/ pull[key[p]] # "open" /\ Goto(p, "failRow")
    /\ UNCHANGED <<rows, world>>

FindPrTrustingFailure(p) ==
    /\ At(p, "findPr")
    /\ \/ pull[key[p]] = "open" /\ Goto(p, "reviewing")
       \/ Goto(p, "failRow")
    /\ UNCHANGED <<rows, world>>

\* find_open_pr gates the outcome, not the agent's own report.
FindPr(p) ==
    /\ At(p, "findPr")
    /\ \/ pull[key[p]] = "open" /\ Goto(p, "reviewing")
       \/ pull[key[p]] # "open" /\ Goto(p, "failRow")
       \/ MayRaise("github") /\ Goto(p, "exceptRow")
    /\ UNCHANGED <<rows, world>>

\* Seeded bug: the outcome of a run without a pull request is not recorded.
FinishForgotten(p) ==
    /\ At(p, "failRow")
    /\ Goto(p, "failState")
    /\ UNCHANGED <<rows, world>>

FinishFailed(p) ==
    /\ At(p, "failRow")
    /\ WriteRow(p, Finished(key[p], "failed"), "failState", {})

\* Seeded bugs: the state is not written, and the status is written for it.
FailedForgotten(p) ==
    /\ At(p, "failState")
    /\ Goto(p, "failJira")
    /\ UNCHANGED <<rows, world>>

FailedMisspelt(p) ==
    /\ At(p, "failState")
    /\ WriteRow(p, WithState(key[p], "failed"), "failJira", {"jira"})

AdvanceFailed(p) ==       \* after add_comment
    /\ At(p, "failState")
    /\ WriteRow(p, WithState(key[p], "FAILED"), "failJira", {"jira"})

ReturnToDo(p) ==
    /\ At(p, "failJira")
    /\ MoveTicket(p, "todo", "finally", "exceptRow")

AdvanceReviewing(p) ==
    /\ At(p, "reviewing")
    /\ WriteRow(p, WithState(key[p], "REVIEWING"), "provenance", {})

\* The self-check and the graph write are non-fatal; get_run and the Jira
\* comment around them are not.
RecordProvenance(p) ==
    /\ At(p, "provenance")
    /\ \/ Goto(p, "inReview")
       \/ (MayRaise("db") \/ MayRaise("jira")) /\ Goto(p, "exceptRow")
    /\ UNCHANGED <<rows, world>>

TransitionInReview(p) ==
    /\ At(p, "inReview")
    /\ MoveTicket(p, "review", "shipRow", "exceptRow")

FinishPrOpened(p) ==
    /\ At(p, "shipRow")
    /\ WriteRow(p, Finished(key[p], "pr_opened"), "shipState", {})

AdvanceShipped(p) ==
    /\ At(p, "shipState")
    /\ WriteRow(p, WithState(key[p], "SHIPPED"), "finally", {})

\* The except block: three writes, each of which swallows its own failure.
ExceptFinish(p) ==
    /\ At(p, "exceptRow")
    /\ \/ run' = Finished(key[p], "failed")
       \/ MayRaise("db") /\ UNCHANGED run
    /\ Goto(p, "exceptState")
    /\ UNCHANGED <<newer, world>>

\* Seeded bugs: the except block leaves the state, or the board, as it is.
ExceptWithoutState(p) ==
    /\ At(p, "exceptState")
    /\ Goto(p, "exceptJira")
    /\ UNCHANGED <<rows, world>>

ExceptWithoutReturn(p) ==
    /\ At(p, "exceptJira")
    /\ Goto(p, "finally")
    /\ UNCHANGED <<rows, world>>

ExceptAdvance(p) ==
    /\ At(p, "exceptState")
    /\ \/ run' = WithState(key[p], "FAILED")
       \/ MayRaise("db") /\ UNCHANGED run
    /\ Goto(p, "exceptJira")
    /\ UNCHANGED <<newer, world>>

ExceptReturn(p) ==
    /\ At(p, "exceptJira")
    /\ MoveTicket(p, "todo", "finally", "finally")

\* finally: remove_worktree removes the directory, whoever created it.
RemoveWorktree(p) ==
    /\ At(p, "finally")
    /\ \/ worktree' = [worktree EXCEPT ![key[p]] = Missing]
       \/ MayRaise("git") /\ UNCHANGED worktree
    /\ Leave(p, FALSE)
    /\ UNCHANGED <<rows, jira, pull>>

ProcessTicket(p) ==
    \/ StartRun(p) \/ AdvanceTriaged(p) \/ TransitionInProgress(p)
    \/ AdvancePlanned(p) \/ CreateWorktree(p) \/ AdvanceImplementing(p)
    \/ AgentEnds(p) \/ AdvanceDebugging(p) \/ FindPr(p)
    \/ FinishFailed(p) \/ AdvanceFailed(p) \/ ReturnToDo(p)
    \/ AdvanceReviewing(p) \/ RecordProvenance(p) \/ TransitionInReview(p)
    \/ FinishPrOpened(p) \/ AdvanceShipped(p)
    \/ ExceptFinish(p) \/ ExceptAdvance(p) \/ ExceptReturn(p)
    \/ RemoveWorktree(p)

-----------------------------------------------------------------------------
(* poll_and_process and the trigger endpoint.  A poll whose preflight or   *)
(* clone fails changes nothing and is left out.                            *)

PollBegins ==
    /\ At(Poller, "idle")
    /\ \/ \E k \in Tickets :
            /\ IsActiveRun(k)
            /\ key' = [key EXCEPT ![Poller] = k]
            /\ pc' = [pc EXCEPT ![Poller] = "resume"]
            /\ resuming' = TRUE
            /\ UNCHANGED queue
       \/ /\ \A k \in Tickets : ~ IsActive(k)
          /\ Goto(Poller, "find")
    /\ UNCHANGED <<rows, world>>

\* Seeded bug: should_attempt is asked on the resume path too.
PollResumesIfEligible ==
    /\ At(Poller, "resume")
    /\ IF ShouldAttempt(key[Poller]) THEN Goto(Poller, "start") ELSE Leave(Poller, FALSE)
    /\ UNCHANGED <<rows, world>>

PollResumes ==            \* get_issue_detail, then process_ticket
    /\ At(Poller, "resume")
    /\ \/ Goto(Poller, "start")
       \/ MayRaise("jira") /\ Leave(Poller, TRUE)
    /\ UNCHANGED <<rows, world>>

PollEnds ==
    /\ pc' = [pc EXCEPT ![Poller] = "idle"]
    /\ queue' = {}
    /\ UNCHANGED <<key, resuming>>

\* ORDER BY created ASC: the first n of a set of tickets.
Oldest(n, S) == {k \in S : Cardinality({j \in S : j < k}) < n}

\* What the JQL of build_sprint_jql matches; the confidence is not a part of it.
Listed == {k \in labelled : jira[k] = "todo"}

HeldBack == (Tickets \ labelled) \cup doubted

\* The low-confidence tickets are taken out of the page that was read.
FindSprintCandidates ==
    /\ At(Poller, "find")
    /\ \/ /\ queue' = Oldest(PageSize, Listed) \ doubted
          /\ pc' = [pc EXCEPT ![Poller] = "filter"]
          /\ UNCHANGED <<key, resuming>>
       \/ MayRaise("jira") /\ PollEnds
    /\ UNCHANGED <<rows, world>>

\* should_attempt is asked once for every candidate, before any of them runs.
FilterBatch ==
    /\ At(Poller, "filter")
    /\ \/ /\ queue' = Oldest(BatchSize, {k \in queue : ShouldAttempt(k)})
          /\ pc' = [pc EXCEPT ![Poller] = "batch"]
          /\ UNCHANGED <<key, resuming>>
       \/ MayRaise("db") /\ PollEnds
    /\ UNCHANGED <<rows, world>>

\* One more use of what triage answered; only the use of a stale answer counts.
Take(k) ==
    /\ key' = [key EXCEPT ![Poller] = k]
    /\ pc' = [pc EXCEPT ![Poller] = "start"]
    /\ late' = IF k \in HeldBack THEN [late EXCEPT ![k] = IF @ < 2 THEN @ + 1 ELSE @]
                                ELSE late

\* Seeded bug: the batch is not consumed.
NextInBatchAgain ==
    /\ At(Poller, "batch")
    /\ \/ \E k \in Oldest(1, queue) : Take(k) /\ UNCHANGED poll
       \/ queue = {} /\ PollEnds /\ UNCHANGED late
    /\ UNCHANGED <<rows, world>>

NextInBatch ==            \* neither Jira nor the row is asked again
    /\ At(Poller, "batch")
    /\ \/ \E k \in Oldest(1, queue) :
            /\ Take(k)
            /\ queue' = queue \ {k}
            /\ UNCHANGED resuming
       \/ queue = {} /\ PollEnds /\ UNCHANGED late
    /\ UNCHANGED <<rows, world>>

\* POST /trigger asks no should_attempt and does not look for other workers.
TriggerTicket(p) ==
    /\ At(p, "idle")
    /\ \E k \in Tickets :
         /\ key' = [key EXCEPT ![p] = k]
         /\ pc' = [pc EXCEPT ![p] = "start"]
    /\ UNCHANGED <<rows, world, poll>>

-----------------------------------------------------------------------------
(* The environment.                                                        *)

\* The process dies: rows, board, pull requests and directories remain.
Crash ==
    /\ crashes < MaxCrashes
    /\ crashes' = crashes + 1
    /\ pc' = [p \in Workers |-> "idle"]
    /\ key' = [p \in Workers |-> NoTicket]
    /\ resuming' = FALSE
    /\ queue' = {}
    /\ worktree' = [k \in Tickets |-> IF worktree[k] = Missing THEN Missing ELSE Orphan]
    /\ UNCHANGED <<rows, jira, pull, triage, late>>

HumanMerges(k) ==
    /\ pull[k] = "open"
    /\ pull' = [pull EXCEPT ![k] = "merged"]
    /\ jira' = [jira EXCEPT ![k] = "review"]
    /\ UNCHANGED <<rows, worktree, pc, key, poll, crashes, triage, late>>

Edit ==
    /\ edits < MaxEdits
    /\ edits' = edits + 1
    /\ UNCHANGED <<rows, pull, worktree, pc, key, poll, crashes>>

\* A ticket may be moved at any time, also while the agent is at work on it.
\* One that a person takes over counts as "review": the code only asks for To Do.
HumanMoves(k) ==
    /\ Edit
    /\ \E column \in {"todo", "review"} \ {jira[k]} :
         jira' = [jira EXCEPT ![k] = column]
    /\ UNCHANGED <<labelled, doubted, late>>

\* The labels change, or the ingestion writes another confidence.
TriageChanges(k) ==
    /\ Edit
    /\ \/ labelled' \in {labelled \ {k}, labelled \cup {k}} \ {labelled}
          /\ UNCHANGED doubted
       \/ doubted' \in {doubted \ {k}, doubted \cup {k}} \ {doubted}
          /\ UNCHANGED labelled
    /\ late' = [late EXCEPT ![k] = IF k \in HeldBack' THEN @ ELSE 0]
    /\ UNCHANGED jira

PollStep ==
    \/ (PollBegins \/ PollResumes \/ FindSprintCandidates \/ FilterBatch) /\ UNCHANGED late
    \/ NextInBatch

Next ==
    \/ \E p \in Workers : (ProcessTicket(p) \/ AgentOpensPr(p)) /\ UNCHANGED late
    \/ PollStep
    \/ \E p \in Triggers : TriggerTicket(p) /\ UNCHANGED late
    \/ Crash
    \/ \E k \in Tickets : HumanMerges(k) \/ HumanMoves(k) \/ TriageChanges(k)

Spec == Init /\ [][Next]_vars

\* Jira answers the two calls of the poll itself sooner or later.
DetailRead == PollResumes /\ pc'[Poller] = "start" /\ UNCHANGED late
CandidatesRead == FindSprintCandidates /\ pc'[Poller] = "filter" /\ UNCHANGED late

\* The event loop runs every coroutine that can run, and the scheduler fires
\* the poll again and again.  The coding agent ends because it is timed out.
\* Jira does not fail one of the poll's two reads every time it is tried.
\* Nothing obliges the agent to open a pull request, a human to act, a request
\* to arrive or the process to die.
FairSpec ==
    /\ Spec
    /\ \A p \in Workers : WF_vars(ProcessTicket(p) /\ UNCHANGED late)
    /\ WF_vars(PollStep)
    /\ SF_vars(DetailRead)
    /\ SF_vars(CandidatesRead)
-----------------------------------------------------------------------------
(* Properties.                                                             *)

AtRest(k) == \A p \in Workers : key[p] # k

(***************************************************************************)
(* A run is only ever recorded as under review or shipped, in its row or   *)
(* in its lifecycle state, when a pull request was really opened for the   *)
(* ticket: find_open_pr gates the outcome whatever the coding agent says,  *)
(* however workers interleave, fail and crash.                             *)
(***************************************************************************)
NoPhantomShipment ==
    \A k \in Tickets :
        \/ run[k].status = "pr_opened"
        \/ run[k].state \in {"REVIEWING", "SHIPPED"}
        => pull[k] # "none"

(***************************************************************************)
(* Without /trigger requests, the worktree the coding agent is launched in *)
(* is one this very worker has created and nobody has removed since, even  *)
(* when a crash left an old directory at the same path.                    *)
(***************************************************************************)
AgentOwnsWorktree ==
    \A p \in Workers : pc[p] \in {"implementing", "agent"} => worktree[key[p]] = p

(***************************************************************************)
(* Triage and should_attempt are asked once for a whole batch, whose later *)
(* tickets run minutes afterwards.  A ticket that people have held back in *)
(* the meantime (label, skip label) or that has lost its confidence may    *)
(* therefore still be worked on, but no more than once: the next poll asks *)
(* again and a batch is used up, whatever fails, crashes or is triggered.  *)
(***************************************************************************)
HeldBackIsTakenOnce == \A k \in Tickets : late[k] <= 1

(***************************************************************************)
(* Without /trigger requests, process_ticket writes lifecycle states only  *)
(* along edges of the table, whatever raises or crashes on the way, but    *)
(* for the TRIAGED that starts an attempt.                                 *)
(***************************************************************************)
LegalWithinAttempt ==
    [][\A k \in Tickets :
         run'[k].state \notin {run[k].state, "TRIAGED"}
         => CanTransition(run[k].state, run'[k].state)]_vars

(***************************************************************************)
(* A run that failed on its last attempt is never claimed again by the     *)
(* poll, neither as a candidate nor as a run to resume.                    *)
(***************************************************************************)
FailedRunIsFinal ==
    [][\A k \in Tickets :
         run[k].status = "failed" /\ run[k].attempt >= MaxAttempts
         => run'[k].status # "running"]_vars

(***************************************************************************)
(* Once no worker is on a ticket, the three columns that process_ticket    *)
(* writes one after the other (status, state, pr_url) tell the same story. *)
(***************************************************************************)
Story(r) == <<r.status, r.state, r.link>>

RestingRunsAgree ==
    \A k \in Tickets :
        AtRest(k) => Story(run[k]) \in {<<"absent", "NULL", FALSE>>,
                                       <<"failed", "FAILED", FALSE>>,
                                       <<"pr_opened", "SHIPPED", TRUE>>}

(***************************************************************************)
(* A ticket that is In Progress on the board has a worker on it: no way    *)
(* out of process_ticket, and no interleaving of several, leaves it there. *)
(***************************************************************************)
InProgressIsBeingWorked ==
    \A k \in Tickets : jira[k] = "progress" => ~ AtRest(k)

(***************************************************************************)
(* Without /trigger requests, a run whose pull request is open is written  *)
(* off as failed by the except block only, when a call has raised: the PR  *)
(* check never does it, also for an attempt resumed after a crash that     *)
(* struck when the pull request had already been opened.                   *)
(***************************************************************************)
NoOpenPrIsAbandoned ==
    [][\A k \in Tickets :
         /\ run[k].status # "failed" /\ run'[k].status = "failed"
         /\ pull[k] = "open"
         => \E p \in Workers : key[p] = k /\ pc[p] = "exceptRow"]_vars

(***************************************************************************)
(* Every ticket that triage should offer is attempted sooner or later,     *)
(* however many others fail, ship and are resumed before it.  Only one     *)
(* page of the sprint is read, the oldest first, and exhausted, shipped or *)
(* doubted tickets that stay in To Do keep their places on it: a ticket    *)
(* with a pageful of those ahead of it is excepted, because the code never *)
(* gets to see it.                                                         *)
(***************************************************************************)
Wanted(k) == k \in Listed \ doubted

Buried(k) ==
    Cardinality({j \in Listed : j < k /\ (j \in doubted \/ ~ ShouldAttempt(j))}) >= PageSize

TicketsAreAttempted ==
    \A k \in Tickets :
        run[k].status = "absent" /\ Wanted(k)
        ~> run[k].status # "absent" \/ ~ Wanted(k) \/ Buried(k)

(***************************************************************************)
(* A run whose worker died in the middle, with a non-terminal state in its *)
(* row, is picked up again, when no /trigger request interferes - unless   *)
(* another ticket has shipped since it was started.  That happens when the *)
(* resume block fails (it swallows a Jira error) and the batch goes on:    *)
(* get_active_run then finds the shipped run, which is newer, for ever.    *)
(***************************************************************************)
Displaced(k) ==
    \E j \in Tickets \ {k} : run[j].state = "SHIPPED" /\ <<j, k>> \in newer

CrashedRunIsResumed ==
    \A k \in Tickets :
        run[k].status = "running" /\ IsActive(k) /\ AtRest(k)
        ~> ~ AtRest(k) \/ Displaced(k)
=============================================================================
