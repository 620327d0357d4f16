# Formal models of the meeting-memory pipeline and its dev agent

The repository runs two Python services around a Jira board:

* `transform_service/` (FastAPI + APScheduler) turns staged e-mails, calendar
  events and Meet transcripts into a Memgraph knowledge graph, opens Jira issues
  for the action items it extracts, syncs the issues' status back, drafts answers
  to non-engineering tickets and keeps several "memory layers" in the graph.
* `dev_agent/` (FastAPI + APScheduler) picks engineering tickets from the active
  sprint, runs a coding agent on each of them in a git worktree, and moves the
  ticket to review when GitHub confirms that a pull request exists.

Both are single asyncio processes: code runs without interruption between two
`await`s, and everything else (scheduler jobs, webhook background tasks, HTTP
requests) may run at an `await`. They share no locks beyond a semaphore and no
transactions beyond one SQL statement or one Memgraph transaction, so what can
go wrong is what other coroutines, failing calls and restarts do between two
awaits. That is what the models are made of: **one action per await that reads
or changes shared state**.

This directory holds TLA+ modules, the TLC configurations that check them, and
theorems proved with TLAPS. `PROJECT.json` lists the runs, the seeded bugs that
show each property can fail, the source lines every definition models, the
hazards of the code, and the findings.

## Inventory

| Component | State | Operations | Hard behaviour | What makes it correct |
|---|---|---|---|---|
| Orchestrator (`dev_agent/orchestrator.py`, `db.py`) | `dev_agent_runs`: `status`, `state`, `attempt_count`, `pr_url`, `started_at` | poll (resume, triage, batch), `process_ticket`, `POST /trigger` | crash between writes, failing calls, poll beside trigger, retries, stale triage, one page of candidates | a shipped run has a PR; bounded attempts; columns agree; runs end; crashed runs come back |
| Lifecycle (`lifecycle.py`) | table of legal edges | `can_transition`, `advance` | illegal edges are logged and written | only legal edges within an attempt |
| Worktrees, coding agent, PR check (`git_ops.py`, `claude_runner.py`, `github_client.py`) | `WORK_ROOT/<ticket>`, branch `agent/<ticket>` | create, remove, run, find PR | stale directory, timeout, success without PR and PR without success | the agent runs in its own worktree; GitHub decides |
| Guardrails (`guardrails.py`), access control (`access_control.py`) | none | pure gates | no service imports them; tests do | not modelled |
| Ingestion (`graph_builder.py`, `db.py`) | staging rows with `processed_flag`, graph nodes | scheduler pass, webhook pass, per-item pipeline | overlapping passes without a claim, failure or crash before `mark_processed` | an item ends processed; nothing is lost; re-runs do not undo newer facts |
| Jira push (`jira_pusher.py`, `dedup.py`) | `ActionItem.jira_key`, `jira_status` | confidence gate, duplicate search, create, write key | non-idempotent POST under retry, read-then-create race | one issue per action item, none lost, none below the threshold |
| Jira sync (`jira_agent.py`) | staged issue rows, `ActionItem.jira_status` and `done` | read rows, write status, mark | row replaced under the pass, overlapping passes, key not yet written | the status drifts only for a known cause; every row is read back |
| Action agent (`action_agent.py`) | marker comments, ticket status | batch, guard, draft, post, transition | concurrent callers, lost answers, tickets that can never be worked | drafts bounded; review implies a draft; tickets are worked; the counters add up |
| Meet ingest (`meet_ingest.py`) | Pub/Sub subscription, transcript rows | pull, decode, fetch, stage, acknowledge | ack after insert, leases, redelivery, undecodable events | nothing acknowledged and lost; nothing ingested twice; undecodable events go |
| Webhook and provenance (`github_webhook.py`, `memgraph_client.py`) | `Ticket`, `PullRequest`, `AgentRun`, `Blocker`, `Commit` nodes | merge, push, provenance of a run, blocker, migration | reordered and lost deliveries, background task after the 200 | the parts fit together; a merge is recorded |
| Memory layers (`episodic`, `semantic`, `procedural`, `vector`) | facts, preferences, KNOWS weights, chain, causes, procedures, embeddings | ten calls per meeting, nightly consolidation and discovery, backfill | re-processing, first exception skips the rest, nightly jobs between two steps | counters are explained by statements and passes; beliefs are earned; a clean pass leaves a complete memory |
| Person resolution (`person_resolver.py`) | roster file, `Person` nodes with `tracked`, reviews | address, roster and name tiers; upsert; ranking | reads before the transaction, roster replaced | nobody dropped; no node for an alias; only who opted in is ranked |
| Pure helpers (`classifier`, `meeting_type_router`, `meeting_quality`, `utils`) | none | functions | `with_retry` | `with_retry` inside its callers |
| Retrieval, digest, graph algorithms, dashboards, scripts, prompts | read-only, one-shot or external | - | - | not modelled |

## Plan

The model is as wide as it is meant to be; what is left is proofs.

1. `DevAgent` (this is where a mistake ships or loses work): model, runs,
   abstract ledger, two theorems. **Done.**
2. `Ingestion`, the pipeline of a staged row through graph and Jira with
   overlapping passes: model, runs, three theorems. **Done.**
3. `ActionAgent` and `MeetIngest` with its abstract `TranscriptInbox`. **Done.**
4. `TicketGraph`: the status sync, the webhook and the dev agent's provenance,
   which meet in the nodes of one ticket, in one module. **Done.**
5. `Memory`: the layers under re-processing and the nightly jobs. **Done.**
6. `People`: resolution, upsert and opt-in. **Done.**
7. Proofs about `MeetIngest` (its safety invariant and the safety half of the
   refinement) and about `ActionAgent` (all its invariants). **Done.**
8. Proofs about `TicketGraph` (all its invariants). **Done.**
9. Proofs about the rest of `DevAgent` with the safety refinement of `RunLedger`,
   about `GraphIsCurrent` (`Ingestion`), and about all invariants of `People` and
   of `Memory`. **Done.**
10. Left: the theorems about the poll assume no `/trigger`; which of them hold beside
    triggers on other tickets is not worked out.

Every invariant that a run checks is now a theorem, and so are the action
properties and the safety halves of the two refinements; "What is proved, and
what is not" at the end sums it up.

No module meant for proof uses a RECURSIVE operator.

| Module | Extends or instantiates | Checked by |
|---|---|---|
| `DevAgentLedger` | `DevAgent` (`Lifecycle`), instance of `RunLedger` | `MCDevAgent` |
| `Ingestion` | - | `MCIngestion` |
| `ActionAgent` | - | `MCActionAgent` |
| `MeetIngest` | instance of `TranscriptInbox` | `MCMeetIngest` |
| `TicketGraph` | - | `MCTicketGraph` |
| `Memory` | - | `MCMemory` |
| `People` | - | `MCPeople` |

Beside each of them, and named after it, is the module of its proofs (`*_proof`).

Three modules share actions of the code at their borders, and each takes the
other side as an environment: `Ingestion` lets people and the read-back set the
status of an issue (`StatusReadBack`), which `TicketGraph` details; `MeetIngest`
ends with the staged row and may or may not see it processed, which is left to
`Ingestion` (`RowsAreProcessed`, with its exceptions); `Memory` takes a meeting through
the step that `Ingestion` calls `memory`. In
`TicketGraph`, the dev agent's provenance may be recorded at any time after its
pull request is there, which covers every schedule of `DevAgent`.

## The dev agent

### Modules

| Module | What it is |
|---|---|
| `Lifecycle` | the states and edges of `lifecycle.py` |
| `DevAgent` | the orchestrator: state, steps, properties |
| `RunLedger` | what the runs table promises its readers, in four actions |
| `DevAgentLedger` | the refinement mapping from `DevAgent` to `RunLedger` |
| `MCDevAgent` | values for the constants TLC needs as definitions |
| `DevAgent_proof` | types and shipments, for any number of workers |
| `DevAgentPoll_proof` | the poll alone, the board, the refinement of `RunLedger` |

### State and actions

`run[k]` is the row of ticket `k` (`status`, `state`, `attempt_count`, and
whether `pr_url` is set), `newer` the order of the rows' `started_at`, which is
all that `get_active_run`'s `ORDER BY ... LIMIT 1` can tell. `jira`, `pull` and
`worktree` are the outside world: the column of the ticket on the board, the
pull request on the branch `agent/<ticket>`, and which worker created the
directory at the ticket's path. `labelled` and `doubted` are what else triage reads:
which tickets carry the labels that `build_sprint_jql` asks for, and which have an
action item below the confidence threshold. The rest is the control state of the
workers: the poll (APScheduler never runs two of them) and one worker per concurrent
`POST /trigger`.

Tickets are numbered in the order of their creation, which is the order of the query.
`FindSprintCandidates` reads one page of what the JQL matches (`PageSize`, 50 in
the code), the oldest first, and takes the doubted ones out of it; `FilterBatch` asks
`should_attempt` for all of them and keeps the oldest `BatchSize`; `NextInBatch` takes
one after another and asks nobody again. Between these people may move a ticket,
relabel it or change its confidence (`HumanMoves`, `TriageChanges`), also
while the agent works on it. `late` is a history variable: how often a batch has
taken each ticket since triage would have held it back.

`process_ticket` is one action per await that matters, in the order of the
code, from `StartRun` to `RemoveWorktree`; `WriteRow` and `MoveTicket` hold what
the steps have in common. A call may raise before or after its effect (a
response can be lost), and the raise goes where the code sends it: before the
`try` it leaves `process_ticket`, inside it goes to the `except` block, whose
three writes each swallow their own failure. Outside a resume an exception also
ends the poll (`Leave`). `Crash` forgets all control state and keeps rows,
board, pull requests and directories. The coding agent, which opens the pull
request, and the people at the board are actions without fairness.

Not distinguished or left out: a graceful shutdown is a crash; a poll whose
preflight or clone fails changes nothing, and is a stuttering step; session
memory, self-check, blockers and provenance writes are best effort and do not
touch this state; comments are calls that may raise.

### Runs

All bounds are constants of the configurations: `MaxCrashes` counts crashes,
and `attempt_count` saturates at `AttemptCap`, one above `MaxAttempts`, because
the code only compares it with `MaxAttempts`. `MaxEdits` counts what people
change of the board, the labels and the confidences.

| Run | Instance | Shows |
|---|---|---|
| `poll_all_faults` | one ticket, all services failing, 2 crashes, an edit, 2 attempts | `TypeOK`, `NoPhantomShipment`, `AgentOwnsWorktree`, `LegalWithinAttempt` |
| `poll_external_faults` | two tickets, Jira, git and GitHub failing, 2 attempts | `RestingRunsAgree`, `FailedRunIsFinal`, the refinement `LedgerSpec` and `LedgerRunsEnd` |
| `poll_and_trigger` | poll and one trigger on the same ticket; Postgres, git, GitHub failing; an edit | `InProgressIsBeingWorked`, `HeldBackIsTakenOnce` |
| `poll_crashes` | two tickets, a page and a batch of one, Jira failing, 2 crashes | `NoOpenPrIsAbandoned`, `TicketsAreAttempted`, `CrashedRunIsResumed` |

One ticket is enough where workers meet only on a ticket's own row, branch and
directory; two are used where they compete (`get_active_run`, the page, the batch). A
page of one for two tickets makes its limit bite as fifty does for a sprint
of more.
Two crashes allow a crash of the recovery itself. The properties are stated
where they hold: the bounds on faults are part of the claim. With a trigger
beside the poll most of the agreement properties fail, since nothing keeps two
workers off one ticket.

Fairness (`FairSpec`): weak fairness of each worker's `ProcessTicket` (the event
loop runs every coroutine that can run; the coding agent is killed at its
timeout, so `AgentEnds` is included) and of `PollStep` (the scheduler fires
again and again). Strong fairness of the poll's own two reads of Jira
(`DetailRead`, `CandidatesRead`): in the runs with a failing Jira these calls may
raise any number of times, but not each time they are made for ever. No fairness for
the agent opening a pull request, for people, requests or crashes. Deadlock is checked
everywhere.

### What the model does not promise

The properties above are stated where they hold. Where the code's documents
promise more, the model has behaviours that break the promise:

* A SHIPPED run counts as active, and nothing ever writes CLOSED, so the next
  poll resumes it (`lifecycle.py:3-4`: "instead of ... double-shipping").
* A crash between `start_run` and the first state write leaves a running row
  that neither the resume nor `should_attempt` accepts (`orchestrator.py:340-345`).
  `CrashedRunIsResumed` is therefore about runs that `get_active_run` can find.
* The resume block swallows an exception, of `get_issue_detail` for one
  (`orchestrator.py:353-356`), and the batch goes on. If another ticket then ships, its
  SHIPPED row is the newest active one and is resumed for ever, and the crashed run
  never is. `CrashedRunIsResumed` excepts a run that is `Displaced` in this way.
* Any error after the PR check sends a run that has an open pull request to the
  `except` block, which fails it and drops the link (`orchestrator.py:188-192,292`).
  `NoOpenPrIsAbandoned` says that nothing else writes such a run off.
* The search for candidates reads one page of 50 issues, the oldest first
  (`jira_client.py:61,139-140`). Tickets that have used up their attempts go back to To Do
  and keep their places on it, so that a younger one behind 50 of them is never seen.
  `TicketsAreAttempted` excepts a ticket while it is `Buried`.
* A ticket that is relabelled, moved or doubted after triage is worked on all the same
  when its turn in the batch comes. `HeldBackIsTakenOnce` bounds this to one attempt.
* A transition back to To Do that fails is swallowed, and the ticket stays In Progress
  for good (`orchestrator.py:306-309`). `InProgressIsBeingWorked` is
  therefore checked with Jira answering.
* The poll cannot tell a crashed run from one that a `/trigger` is working on, and
  resumes that too (`orchestrator.py:340-342`).

### Proofs

`DevAgent_proof` proves for every set of tickets and triggers, every limit, every
set of failing services and any number of crashes, from the named assumptions of
`DevAgent` only:

* `TypeCorrect`: `Spec => []TypeOK`. The inductive invariant adds that a worker
  that is inside `process_ticket` (or about to resume) is on some ticket, without
  which `run[key[p]]` need not be a row.
* `ShipmentIsReal`: `Spec => []NoPhantomShipment`. It is not inductive: a worker
  past `FindPr` writes REVIEWING and `pr_opened` without looking at GitHub again.
  The strengthening says that a worker on the review path is on a ticket that has
  had a pull request, and is preserved because a pull request never goes back to
  "none". The proof sorts the steps by what they do to the rows and to the
  control state rather than repeating the argument for each of them.
* `StaleBatchIsUsedOnce`: `Spec => []HeldBackIsTakenOnce`. The invariant says that of a ticket
  in the poll's list that is held back, or of one that is not held back, no taking has
  been counted: the list is read without those held back, only shrinks until it is
  read again (`QueueShrinks`), and loses a ticket when it is taken. It holds beside any
  number of triggers.

`DevAgentPoll_proof` proves the other properties, each under the assumption on the
constants under which a run checks it (`ASSUME ... PROVE`), for any tickets, limits
and numbers of attempts. The assumptions are part of what is claimed: without them
the property fails, and the section above says how.

| Theorem | States | When |
|---|---|---|
| `AgentRunsInOwnWorktree` | `AgentOwnsWorktree` | no `/trigger`; any faults and crashes |
| `TransitionsAreLegal` | `LegalWithinAttempt` | no `/trigger`; any faults and crashes |
| `ColumnsAgreeAtRest` | `RestingRunsAgree` | no `/trigger`; Postgres answers, no crash; all else may fail |
| `LastFailureIsFinal` | `FailedRunIsFinal` | the same |
| `PollImplementsLedger` | `LedgerSpec` | the same |
| `OpenPrIsNotAbandoned` | `NoOpenPrIsAbandoned` | no `/trigger`; any faults and crashes |
| `BoardIsHonest` | `InProgressIsBeingWorked` | any `/trigger`s; Jira answers, no crash; all else may fail |

`process_ticket` has two dozen steps that may each raise before or after their
effect. The proofs expand them once, into a table (`Outcome`, lemmas
`TicketStepEffect` and `PollStepEffect`): by the step a worker is at, what becomes of
its row, of the board and of the directory, and where it goes next. The invariants
are then read off the table.

* `PollInv` ties status and lifecycle state to the step (`StatusFollowsStep`,
  `StateFollowsStep`), the directory to the worker that is past `CreateWorktree`
  (`WorktreeIsOwn`), and what triage has checked to what is left of the batch
  (`BatchIsChecked`: a resume has no batch, the ticket in hand is not in the batch).
* `SettledInv` adds the three columns as one story (`StoryFollowsStep`). They are
  written one after another, so that they disagree between the writes; the
  invariant says how far they have come at each step of the two tails.
* `PrInv`: `failRow` is reached only where `find_open_pr` found nothing open, and no
  other worker's agent opens one since.
* `BoardInv`: of a ticket In Progress there is a worker that is past moving it there
  and short of moving it on. It needs no assumption on the other workers, which is
  why it holds beside triggers.

`TicketsAreAttempted`, `CrashedRunIsResumed` and `LedgerRunsEnd` are liveness and
model-checked only.

## The ingestion pipeline

### Modules

| Module | What it is |
|---|---|
| `Ingestion` | staging rows, graph and Jira, and the tasks that take a row through them; its properties |
| `MCIngestion` | values for the constants TLC needs as definitions |
| `Ingestion_proof` | theorems and proofs |

### State and actions

A row of staging is its `version` (Airbyte replaces the row of an event that
changes by a new one), its `content`, which is the set of action items it talks
about, and its `processed` flag. It is in Airbyte's table or in the manual one
(`Manual`), of which a pass reads the second only while the first has no unprocessed
row at all (`Batch`; `db.py:214-219,296-299`). The graph is `written` (the version whose
meeting was last upserted), one `node` per action item (`known`, `done`, `key`,
`status`), the nodes that have an embedding (`embedded`) and the `MENTIONED_IN`
edges that duplicates get (`mentioned`). Jira is
the number of `issues` created for each action item; an issue is its number
among these, so that a second issue is told from the first.

A *pass* is a call of `process_new_*`: the scheduler's job, or one started by a
webhook. `PassBegins` reads the batch, and from then on there is one task for
each pass and row: its next `step`, the version it has `seen`, the action items
it has `todo`, the one it is `on` and the issue it has `made`. A task's steps are
those of `process_email`, `process_calendar_event` and `process_transcript`, which
have the same shape:

| Action | Code |
|---|---|
| `Extract` | classification and extraction; a row below the threshold goes straight to its mark |
| `Upsert` | `upsert_meeting_graph`, one transaction |
| `HoldForReview`, `MergeIntoDuplicate`, `DecideToCreate` | the branches of `push_action_items`' loop |
| `CreateIssue` | `_create_jira_issue` under `with_retry` |
| `WriteKey` | `update_action_jira_key` |
| `AllPushed`, `EmbedAction`, `MemoryEnds` | the end of the push; the memory layers, of which the embeddings of action items matter here |
| `MarkProcessed` | `mark_processed` |
| `RowReplaced`, `StatusReadBack`, `Crash` | Airbyte, `jira_agent`'s write to a node, the process |

A failing call raises before or after its effect. In `push_action_items` the
`except` inside the loop logs a failure to create the issue or to write its key
and goes on with the next action item (`NextAction`); everywhere else the raise
reaches the outer `except` of the row, which ends the task and leaves the row
unprocessed (`GiveUp`).

What is abstracted, and why it may be:

* Similarity of two action items is a pair of relations, owner and threshold included:
  `Alike` compares their texts, `Near` their embeddings. As `dedup.py:31-35` has it, the
  second counts once the candidate has an embedding and the search could embed
  its own action item (`Similar`, `Vectors`), and the first until then. Embeddings are written
  after the push, so that what one search finds another may miss. The search returns
  the best match, the model any match.
* The extraction finds the same in the same text (it runs at temperature 0), so
  it is a function of the content. It may raise, and for the rows in
  `Unextractable` always does. The rows in `Skipped` are those the classifier
  puts below its threshold and those whose extraction cannot be parsed.
* The duplicate search and the link it leads to are one step: what another task
  does between them only adds nodes, and a link needs none to be absent. The
  search and the *creation* of an issue are two steps, because there it matters.
* The order of the loop over a meeting's action items is arbitrary.
* `GRAPH_SEM`, which bounds concurrent upserts, orders nothing that a step of
  its own does not, and is left out. Jira and the duplicate search are on.
* The memory layers written after the push are best effort; but for the embeddings of
  action items they touch no state of this module. The comment on a duplicate's ticket
  is best effort too.

### Runs

| Run | Instance | Shows |
|---|---|---|
| `ingest_one_pass` | one job, a row of Airbyte's table with a doubtful and a normal action item, two of the manual table (one that can never be extracted, one skipped), batches of two, all services failing (2 raises), a crash, a replaced row, people closing an issue | `TypeOK`, `GraphIsCurrent`, `RowsAreProcessed` |
| `ingest_overlapping_passes` | scheduler and webhook on the same two rows, whose action items are duplicates of each other by their texts and by their embeddings, which appear or fail to; a raise of anything but Jira, a crash | `NoActionIsLost`, `DuplicatesShareOneIssue` |

Batches of two make the query's limit bite, one row short of what
would stop the manual table; that table waits for Airbyte's row. Two passes are enough
for the properties of the second run, because they are about two tasks at a time; two
rows and action items because they are about a pair of duplicates. The bounds `MaxFaults`,
`MaxCrashes` and `MaxUpdates` are there to keep the instances finite; the
theorems below hold for any value of them.

The properties are stated where they hold. `GraphIsCurrent` needs one job at a
time: with two, the slower task writes its older version over the newer one.
`NoActionIsLost` needs Jira to answer: the code marks the row although the issue
was not created. `DuplicatesShareOneIssue` excepts action items that may be done:
they no longer count as duplicates, and a new issue is what the code wants. It is about
`Twins`, which are similar by both measures and both ways round.

Fairness: weak fairness of each pass's `PassBegins` (the scheduler fires again
and again) and of each task: the event loop runs every coroutine that can run,
the HTTP calls have timeouts, and the calls to Memgraph, Postgres and the model
are taken to return or raise, as their drivers' defaults have it. None for Airbyte,
people, failures and crashes.

### What the model does not promise

* Nothing claims a row, so a scheduler pass and a webhook pass may each create an
  issue for the same action item, as may `with_retry` after a lost answer
  (`README.md:33` of the repository: "processed_flag for exactly-once").
  `DuplicatesShareOneIssue` is about two action items, not two issues of one.
* Of two action items that are similar by their texts only, or by their embeddings only,
  both may get an issue: the search of the one is made before the embedding of the
  other is there, or the other way round.
* A row that can never be extracted stays unprocessed and is read by every pass. As many as
  the query's limit stop a table, and a single one in Airbyte's table stops the
  manual table of its kind. `RowsAreProcessed` excepts rows that are `Starved` in these ways.
* Two similar action items ingested together may each be merged into the other,
  and neither gets an issue (`dedup.py:5-6`). `NoActionIsLost` counts a merged one as
  settled by its link.

### Proofs

`Ingestion_proof` proves for all rows, passes, action items, relations and bounds,
from `SourcesAssumption` and `BoundsAssumption` only:

* `TypeCorrect`: `Spec => []TypeOK`, with the strengthening that a task that
  creates an issue is on an action item it has yet to push.
* `OneIssueForDuplicates`: `Spec => []DuplicatesShareOneIssue`. An action item is
  *claimed* from the decision to create its issue on. The invariant says that
  what is claimed, or still to be pushed, is in the graph, and that of two
  twins one at most is claimed. Only `DecideToCreate` makes a claim
  (`ClaimsAreDecided`), and it has just seen no open duplicate; as twins match whichever
  embeddings are there, none is claimed. The argument rests on the nodes being written
  before they are pushed.
* `NothingIsLost`: `Spec => []NoActionIsLost` when Jira's calls do not raise. The
  invariant says that the task of a row in its present version has, of each
  action item in it, settled it or still to push it, and comes to the mark with
  nothing left; an issue exists before its key is known, without which the
  status that people set could undo a settlement.

* `ProcessedIsCurrent`: `Spec => []GraphIsCurrent` when there is one pass per source
  (`\A p, q \in Passes : p = q`), which is the run `ingest_one_pass`; of two passes over one
  row the one with the older version may write last. The invariant `CurrentInv` says that a row in
  the hands of a task is unprocessed, so that nobody relies on the graph yet
  (`AtWorkUnprocessed`, where the single pass is needed), and that a task past its
  upsert has left the version it read (`WritesWhatItSaw`); `MarkProcessed` then marks
  only a row that has not been replaced since.

`RowsAreProcessed` is liveness and model-checked only.

## The action agent

`ActionAgent` is `process_action_items` await by await. A run (of the scheduler,
a webhook or the endpoint) is its next `step`, the tickets it has `left`, the
`attempt` of `with_retry` and its four counters; Jira is the `status` of each ticket
and how many of its comments carry the marker (`drafts`). Tickets are numbered
in the order of their creation, which is the order of the query.

| Action | Code |
|---|---|
| `Starts`, `Find` | `process_action_items`, `find_eligible_tickets`; its failure ends the run |
| `Guard` | `has_agent_draft`: a marker comment sends the ticket to the transition only |
| `Draft` | `build_context` (never raises) and `draft_deliverable` (nothing on failure) |
| `Post` | `post_draft`: the comment may be created and its answer lost |
| `Review` | `transition_to_review`, after a draft or as the repair of an earlier one |
| `TicketFails`, `NextTicket` | `failed += 1`, in the body or in the except clause; the loop |
| `Created`, `Moved`, `Crash` | the pusher, people, the process |

Every call may fail, and with `with_retry` is made again up to `MaxAttempts`
times. The run `action_agent` has two callers, three tickets of which the first has
no transition to In Review and the last never gets a draft, batches of two, two
failures, a move and a crash. Two callers are what the bound is about:
`DraftsAreBounded` allows a draft per caller and lost answer, both of which
the model shows to be needed. `TicketsAreWorked` excepts the tickets behind a batch of
stuck ones, which the code never reaches.

Fairness: the interval job starts a run whenever the last one has ended, and the
awaits of a run answer, well or badly. Nothing makes the other caller start,
people move tickets or calls fail.

`ActionAgent_proof` proves all four invariants for any callers, tickets, batch size,
attempts and bounds, from `TicketsAssumption` and `BoundsAssumption`:

* `TypeCorrect` and `EveryTicketIsCounted` (`CountsAddUp`). The counters are set to zero
  by `Starts` and `considered` by `Find`, so that the invariant has to say that a run
  has an empty list until it has found one (`BusyHasTicket`) and nothing counted
  then (`FreshCounters`). After that a run does one of three things to its own state:
  it goes on with the ticket, repeats the call, or counts the ticket and leaves it
  (`Works`); the actions are sorted into these once (`ContinuedIsWork`).
* `NoEmptyReview` (`ReviewHasDraft`): a run about to move a ticket has seen its draft or
  posted one (`MoversHaveDraft`), and comments are never deleted.
* `FewDrafts` (`DraftsAreBounded`): of a ticket, the drafts and the runs that may still post
  one are together at most the runs and the lost answers (`OwedAreBounded`). A run joins
  the latter only when it finds no draft, and leaves them by posting, unless the
  answer is lost.

`TicketsAreWorked` is model-checked only.

The model has, and no property excludes, a person's closing a ticket while a run
has it in its batch: the run moves it to In Review all the same.

## The Meet ingest

`MeetIngest` is `pull_and_stage` against Pub/Sub. An event is `unpublished`,
`waiting`, `leased` or `acked`; the job is its `step`, the events of the pull it has
`todo` and those it will acknowledge (`acks`); a transcript is `staged` when it has a
row and `ingested` when the row is processed. An event with a start time is
`Dated`: `meet_ingest.py:113` passes the time as a string to `db.py:155`, which casts its
parameter to `timestamptz`; asyncpg refuses that each time, so that its transcript is
never staged.

| Action | Code |
|---|---|
| `Pull`, `PullFails` | `POST :pull`, up to `maxMessages` events |
| `Handle` | `decode_event`, `fetch_transcript_entries`, `insert_meet_transcript` for one event: it skips (`Skips`), stages (`Stages`) or raises, which ends the pull (`FailsToStage`) |
| `Acknowledge` | `POST :acknowledge` for all; the answer is not looked at |
| `Process`, `OtherPass` | `process_new_transcripts`, after the pull and of the other job and the webhook |
| `Publish`, `Redeliver`, `Crash` | Google, Pub/Sub's leases, the process |

`TranscriptInbox` says what the job is for, without messages and leases: an
announced transcript is staged, unless the inbox is `blocked` by an event that never
can be; only staged ones are ingested, and none goes back.
`MeetIngest` is shown to implement it, fairness of the staging included, with `announced`
mapped to the transcripts of readable published events and `blocked` to a published
`Dated` one (`ImplementsInbox`). Redelivery,
expired leases, lost acknowledgements and crashes are stuttering steps of the
inbox; that a second delivery does not make an ingested row unprocessed is
where `ON CONFLICT DO NOTHING` matters.

The run `meet_ingest` has four events: of two transcripts, one that cannot be decoded, and
one that is dated and about the second transcript; pulls of two, two failing calls, a
lease that runs out during a pull and a crash. Fairness: the job pulls and the awaits
answer; every event that goes on waiting is in some pull (strong fairness of `Pull` for
it, which is Pub/Sub's part); Pub/Sub redelivers. That a staged row is ever processed is
neither assumed nor claimed: it depends on its extraction, which is what
`RowsAreProcessed` of `Ingestion` is about, with the exceptions stated there.

What the model does not promise: a dated event is redelivered for ever, and each pull that
holds it ends without an acknowledgement, so that nothing of that pull goes either. Once
one is published (`Blocked`), neither `UnreadableIsDropped` nor the inbox promises
progress; that nothing is acknowledged without being staged holds all the same. A
fetch that fails for ever would do the same and is outside the bounds.

`MeetIngest_proof` proves, for any events, transcripts and bounds, from
`MessagesAssumption` and `BoundsAssumption`:

* `TypeCorrect` and `NothingIsForgotten` (`AckedIsStaged`). The acknowledgement does
  not look at the database; the invariant says why it need not: what a pull will
  acknowledge and has no longer to handle is staged (`HandledIsStaged`), and it
  acknowledges with nothing left to handle.
* `StepsImplementInbox`, the safety half of `ImplementsInbox`: the initial state is one
  of the inbox, and every step is a step of the inbox or changes nothing of it. It
  takes from the invariant that what a pull holds has been published.

Both hold with dated events about. `UnreadableIsDropped` and the live half of the
refinement are model-checked only.

## The ticket in the graph

`TicketGraph` follows one ticket through the writers of its nodes, which do not
know of each other: the pusher and a re-processing of the meeting, the
read-back of Jira's status, the dev agent, the operator's migration and the
webhook. Each write is one transaction over the nodes of the ticket's key, the
branch `agent/<KEY>` and their pull requests, so that one ticket stands for all.
The Ticket node is `ticket`: whether there is one, and what its `summary` and `status` say,
the two properties that its writers do not agree on (`url` is written with the status).

| Action | Code |
|---|---|
| `WriteKey`, `Reprocess` | `update_action_jira_key`; `upsert_meeting_graph` and the push that follows |
| `AirbyteSync`, `ReadRow`, `WriteStatus`, `Mark`, `IssueError` | Airbyte's row and `jira_agent.py` |
| `Push`, `OpenPr`, `ClosePr`, `Changes` | GitHub and Jira |
| `RecordRun`, `RaiseBlocker` | `write_run_provenance`, which sets the summary and leaves the status; `merge_blocker` |
| `Migrate` | the Ticket nodes of `migrate_schema_v5` |
| `Deliver` | `webhook_github`: 200, then a background task |
| `HandleEvent` (`WriteCommit`, `Resolve`, `Ignore`) | `handle_event` and its two writes; the webhook passes neither summary nor url, so that `Resolve` writes a blank over them (`github_webhook.py:66-68`, `memgraph_client.py:452-453`) |
| `Drop`, `Crash` | a delivery or task that fails, the process |

An event handled twice changes nothing the second time, because the writes
merge; deliveries are a set. `causes` is history: why the action item may disagree
with Jira's row until the next read-back. `DriftHasCause` says that the list is
complete, which is a statement about what failures, crashes and replaced rows
*cannot* do: none of them is on it. `ProvenanceIsSound` says what of the Ticket does not
depend on the order of its writers: it is Done if and only if a merge has resolved it,
its text comes from a run and its blank from a merge. Which of the two the summary is,
is the last writer's.

The run `ticket_graph` checks three *scenes*, each a set of bounds that a behaviour
keeps to: two overlapping read-backs with three upsets (status changes,
re-processing, failures, crashes); two pull requests with two commits and an
upset; one of everything with a key mentioned in a text. The product of all would
be out of TLC's reach and adds nothing: the scenes share the action item and
the Ticket node only, and the third scene has both sides of that.

Fairness: read-backs and background tasks go on, GitHub delivers. Nobody has
to change, merge, record or re-process anything.

`TicketGraph_proof` proves, for any passes and scenes, from `GraphAssumption`:

* `TypeCorrect`, which takes from the invariant below the part about the sync.
* `DriftIsExplained` (`DriftHasCause`), which looks at quiet states only and is far from
  inductive. The invariant `DriftInv` says that one version has one status and that no
  pass holds, and no write was of, a newer version than the row's (`VersionsAgree`); that a pass
  about to mark the row it has read has written that version, or there is a cause
  (`MarkIsEarned`); and that the action item agrees with the row whose version was
  written last unless there is a cause (`WrittenAgrees`). A new row is newer than
  everything a pass holds, so that a late mark cannot reach it.
* `GraphFitsTogether` (`ProvenanceIsSound`), which is inductive as it stands.

`RowsAreReadBack` and `MergesAreRecorded` are model-checked only.

What the model has and the properties leave to the code: a push handled before the provenance is
a no-op, so that the commits of a run's first push never reach the graph
(`docs/V5_UPGRADE_PLAN.md:184` has push events synced); after a second pull request on the
branch its commits hang on both; a merge handled after the provenance blanks the ticket's
summary and url, and one handled before it does not; the Blocker of a first failed run
has no Ticket to hang on;
an event lost after the 200 is lost for good; a row read back before the key was
written is marked and not read again; overlapping passes may write an older
status last; re-processing sets `done` back.

## The memory layers

`Memory` follows passes over meetings from the read of a staged row to its mark, through
the calls of the one `try` block of `graph_builder.py`. The state of a pass is its own
(`step`, the `meeting` and the `seen` row it is about, how often it has `said` the
fact), so that passes overlap over one meeting as well as over several, and rows are
staged again, perhaps with another date, at any time. A statement touches one fact, one
pair of people, one person's preference, one seeded procedure, one decision of a
meeting, so that one of each stands for all. What the language model answers is any
answer: one may name the fact up to `says` times, and a list of attendees hold one of
them up to `listed` times, since neither loop removes repeats
(`semantic_memory.py:67-94,209-224`). `After` is the order of the calls; every
`session.run` is a step, and between any two the nightly jobs, other passes, the
backfill, Airbyte and crashes may come.

| Action | Code |
|---|---|
| `ReadRow`, `Write` (`Upsert`) | the read of a staged row; `upsert_meeting_graph`: `Meeting`, `ATTENDED` by role, `Decision` |
| `ExtractionFails`, `PushFails` | what ends a pass before the layers |
| `ExtractFacts`, `CountMeetings`, `InferPreference`, `Strengthen` | `semantic_memory.py` |
| `Link`, `DetectCausality` | `episodic_memory.py`; causes are decisions or other meetings |
| `MatchProcedure` | `procedural_memory.match_to_procedure` |
| `EmbedMeeting`, `EmbedFacts` | `vector_memory.py` |
| `SkipRest`, `Mark` | the `except` that skips the rest; `mark_processed` |
| `Consolidate`; `ReadUnmatched`, `NameCluster`, `LinkCluster`, `EndOfNight` | `consolidate_semantic`; `discover_procedures` |
| `BackfillRead`, `BackfillMeeting`, `BackfillFact` | `backfill_embeddings`: it reads all texts, then embeds them one by one |
| `Restage`, `Crash` | Airbyte, the process |

A summary is named by the pass that wrote it, and an embedding by the summary it is of,
so that an embedding of an older summary can be told from that of the present one.
`clean` are the meetings whose latest write was by a pass that met no failure, and was
made while no older summary of the meeting was still to be embedded (`Held`).

The run `memory` has three meetings a day apart, bounds `MinCluster` to two in place of
five (three meetings are then enough for two procedures to compete for one), and has
seven *scenes*, each a set of bounds that a behaviour keeps to:

| Scene | Bounds |
|---|---|
| `Beliefs` | two meetings, an edit, answers that name the fact up to three times, two nights |
| `People` | four passes over three meetings, roles, an attendee listed twice, a misspelt address |
| `FollowUps` | two pollers, decisions and meetings as causes |
| `Chains` | two pollers, a meeting that is moved |
| `Embeddings` | one meeting, two pollers, an edit, a failure and the backfill |
| `Procedures` | three passes, two nights that may fail |
| `Nights` | four passes around a night |

Deadlock is not checked: when the bounds on passes and nights are used up, the instance
stops. No liveness is claimed: the layers are best effort.

`Memory_proof` proves all five invariants, for any meetings, attendees, dates, names
and scenes, from `MemoryAssumption`. How often meetings were processed is the size of a
set of passes (`PassesOver`), so that the library's facts about cardinalities apply and
nothing is proved by induction over a sum.

* `MemoryIsTyped` (`TypeOK`). A pass that has written its meeting, and the backfill, hold a
  summary by a pass over that very meeting.
* `EvidenceCountsPasses` (`EvidenceIsCounted`). A bound by the number of passes breaks as
  soon as a pass that is already counted adds its evidence; `EvidenceInv` therefore
  counts only the passes that are past the layer (`Done`), which is how far a step of the
  layer takes one more pass. A fact is compared with the set of statements that its
  passes have made (`Statements`), which is no larger than `says` for each pass.
* `NoBeliefIsUnearned` (`BeliefsAreEarned`). The model is asked for a preference after the
  edges are counted, so that the invariant speaks of passes on their way to
  `InferPreference` too. That three ATTENDED edges are three meetings, unless one has
  both roles, is an injection of edges into meetings (`EdgesAreMeetings`).
* `CleanPassLeavesMemory` (`CleanPassIsRemembered`). The property is about finished passes;
  `CleanInv` says the same of a clean pass under way from the layer on that writes it
  (`PastLink`, `PastEmbed`, `PastFacts`), and that nobody else holds a summary of its
  meeting to embed, or the backfill the same one only (`Alone`). A meeting that comes or
  moves is made a newcomer to all others, which keeps the links true under `Upsert`.
* `ProceduresAreDisjoint` (`OneInferredProcedure`). What a night has read and not yet
  linked follows no inferred procedure (`ProcedureInv`): it takes a meeting off its
  list with the edge that it writes, and only nights write these edges.

As for the dev agent, the steps are expanded once, into what those that neither read a
row nor write a meeting may do (`Rest`, `Effects`), and the invariants follow from that,
from `ReadRow` and from `Upsert`.

Where the code's documents promise more, or a reader may expect more, the model has
behaviours that break it, and the properties say how far they go:

* Confidence grows with every statement, not with every confirming meeting
  (`docs/GRAPH_MEMORY.md:13`): one answer that names a fact three times makes
  `source_count` three, and three nights then make the fact certain. The nights go
  on boosting it as long as the count stays at a multiple of three. `BeliefsAreEarned`
  is about statements for that reason.
* The weight of a KNOWS edge grows by more than one when the text lists somebody twice.
* A slower pass, or a backfill that has read the older summary, writes the older embedding
  over the newer one, and nothing looks for that later. `CleanPassIsRemembered` excepts a
  pass that writes its meeting while such a write is still to come.
* A failed embedding leaves that of an older summary, which the backfill does not see.
* A meeting whose layers failed is marked as processed and stays incomplete, and a
  crash or an edit counts its evidence again (`EvidenceIsCounted` bounds by how much).
* `strengthen_relationships` and `link_temporal_chain` match the address as the text
  spells it, and pass over people stored under the normalized one (`misspelt`); a meeting
  that is moved keeps the link of its old date (`moved`).
* A second role makes a second ATTENDED edge and counts as a meeting.
* A second pass may find a second cause ("capped at 1 per meeting"), and a
  meeting's own decision may be its cause.
* A meeting may follow an inferred procedure and a known one that was matched while
  the night was at work; `OneInferredProcedure` is about inferred ones.

## The people

`People` is the resolution of attendees and the transaction that writes them.
`LoadRoster` reads the roster file, `KnowPeople` the known people and resolves every
attendee by both, `Write` is the transaction (`Merge`, and the reviews), and `WriteFails`
ends a pass at either of the last two; between them other passes write and the operator
installs another roster (`EditRoster`). `Norm` stands for `normalize_email`, and
`Likeness` for the similarity of two names: tables, of which the instance gives
two pairs of names that are alike. `Resolve` has the tiers of `resolve()` in their
order, and returns a set because Memgraph's order of the known people is
anyone's guess. What a pass takes to its `Write` is the roster it has read and a partial
function from the attendees' places in the list to their resolutions; `MergePeople` folds
the `MERGE` statements of the loop into their result: a node for each address, named by
the last attendee who resolves to it (`LastOf`), with an opt-in that stays.

Two history variables say what an answer is to be judged by: `madeUnder` is the roster
that the pass had read which made each node, and `used` the rosters of the passes that
wrote each meeting. `EveryAttendeeIsKept` holds each attendee of a meeting to what they
may be under each of these rosters (`MayBe`), or to a review. `OneNodePerPerson` says that
the roster of its making lists no node as an alias. It cannot say that of the roster in
force: an alias that only a later roster lists may be a node, of a meeting
written before that roster was installed, or after it by a pass that had read the
earlier one, and no later write merges the two nodes.

The run `people_two_pollers` has two passes over three meetings (an address with a tag, an
alias, names without an address that are like somebody's or nobody's), an empty
roster that is replaced by one that lists one person with her alias and opt-in, and
five upserts, enough for a node to be made, found by its name and written again.
Deadlock is not checked, as the upserts run out.

`People_proof` proves the three invariants of the run, for any passes, meetings,
attendees, rosters and likeness of names, from `PeopleAssumption`: `PeopleAreTyped`
(`TypeOK`), `NobodyIsDropped` (`EveryAttendeeIsKept`) and `AliasesAreNoNodes`
(`OneNodePerPerson`). None of them follows from what a write sees: it writes answers that
were drawn from a roster and from people that may have changed since. The invariant
`PendingIsSound` says what each pending answer is worth under the roster it was drawn
from (`SoundBy`), in terms that nobody takes back: the pass keeps that roster (`Reads`,
`Answers`), a node stays, and a name that a node has had stays among its names. That a
name is like nobody's of a roster if the roster has no match for it (`NoneIsAlike`), and that an
address has a last attendee who resolves to it, need a greatest element of a finite set of
numbers, which is taken from the library's theorem that `<` is well-founded
(`LeastNatural`, `GreatestIndex`, `FirstOfTheGreatest`).

`people_finding_opt_in` is a violation. The fuzzy match with a known person
(`person_resolver.py:144`) returns the `tracked` of the loop variable, that is of the *last*
person of the list, and not of the one matched. The node of somebody who is on no
roster gets it, `memgraph_client.py:141` never takes it back, and
`get_influential_nodes` ranks them, where its docstring says "an untracked individual is
never surfaced in a leaderboard by default".

Also so, and not excluded: an opt-out in the roster never reaches the graph;
`get_bridge_nodes` and `get_node_insights` do not look at `tracked`; a review stays
pending when the attendee is resolved later.

## Not modelled

* *Guardrail gates and access control*: pure functions that no service imports.
* *Retrieval and digest* (`memory_retrieval.py`, `digest.py`): read-only queries that
  assemble text. Reading them beside `Memory` shows that `_assemble_context` looks
  for `(Person)-[:HAS_FACT]`, while `extract_facts` hangs facts on meetings, so that
  its list of facts is always empty; and that the cap of 20 nodes is looked at
  before each entity only.
* *Graph algorithms*: Memgraph's built-in PageRank and community detection. The
  models take what they compute as arbitrary.
* *Scores* (`classifier.py`, `meeting_quality.py`, `meeting_type_router.py`): arithmetic on
  text; what they decide is an input of `Ingestion`.
* *Extraction prompts and JSON validation*: their outcomes are inputs of `Ingestion`.
* *Session memory, self-check and backends* of the dev agent: best effort.
* *Floating point*: confidences are counted in tenths, and the decay of
  `relevance_weight` and the embeddings' arithmetic are left out.
* *Operator scripts, demo assets, dashboard.*

## What is proved, and what is not

`PROJECT.json` lists the theorems. Together they state every invariant that a run
checks, the action properties of `DevAgent`, and that the steps of `DevAgent` and of
`MeetIngest` are steps of `RunLedger` and of `TranscriptInbox`. Each rests on the named
assumptions about the constants, which TLC evaluates in the runs, and on the
`ASSUME` of the theorem where it has one. The inductive invariants were checked by TLC
on the instances of the runs before they were proved.

Not proved, and checked by TLC on the instances only:

* Liveness: `LedgerRunsEnd`, `TicketsAreAttempted`, `CrashedRunIsResumed`,
  `RowsAreProcessed`, `TicketsAreWorked`, `UnreadableIsDropped`, the fairness of
  `ImplementsInbox`, `RowsAreReadBack`, `MergesAreRecorded`. TLAPS reasons about
  neither `ENABLED` nor weak fairness.
* The finding of `people_finding_opt_in`, which is a counterexample.

The library's induction theorems take an operator as a parameter, which the installed
provers cannot instantiate. No definition that is proved about is recursive, therefore:
sizes are cardinalities of sets, and the last of several writes is the one at the
greatest index.
