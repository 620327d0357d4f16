---------------------------- MODULE TicketGraph ----------------------------
(***************************************************************************)
(* What the graph knows of one ticket that the dev agent works on, and who *)
(* writes it: the pusher and a re-processing of the meeting, the read-back *)
(* of Jira's status (jira_agent.py over Airbyte's raw_jira_issues), the    *)
(* dev agent's provenance (write_run_provenance) and the GitHub webhook    *)
(* (github_webhook.py), all through memgraph_client.py.  Each write is one *)
(* transaction over the nodes of the ticket's key, its branch agent/<KEY>  *)
(* and their pull requests, so that one ticket stands for all; the writers *)
(* do not know of each other, and their order is anyone's guess.           *)
(***************************************************************************)
EXTENDS Naturals, FiniteSets

CONSTANTS
    Passes,       \* the callers of process_jira_issues that may overlap
    Reported,     \* whether the meeting reports the action item as done
    Scenes        \* the bounds to check, a behaviour each keeping to one of them:
                  \*   passes    those that run; without one the row stays away
                  \*   prs       pull requests of the branch
                  \*   pushes    commits
                  \*   upsets    status changes in Jira, meetings processed again,
                  \*             failing calls and deliveries, and crashes together
                  \*   mentioned whether a meeting's text mentions the ticket's key

ASSUME GraphAssumption ==
    /\ IsFiniteSet(Passes)
    /\ Reported \in BOOLEAN
    /\ \A s \in Scenes :
         /\ s.passes \subseteq Passes
         /\ {s.prs, s.pushes, s.upsets} \subseteq Nat
         /\ s.mentioned \in BOOLEAN

Statuses == {"To Do", "In Review", "Done"}

\* What is known to make a node disagree with Jira until the next read-back:
\* one that found no node, one written over by an older one, a re-processing,
\* a merge while the issue is open.
Causes == {"unmatched", "stale", "reprocessed", "merged"}

VARIABLES
    scene,      \* the bounds of this behaviour
    jira,       \* [version, status] of the issue in Jira
    row,        \* [version, status, processed]: Airbyte's row of the issue
    read,       \* [version, status] that a pass has read
    step,       \* of each pass
    opened,     \* how many pull requests the branch has had
    open,       \* the one that is open (0: none)
    merged,     \* those that were merged
    pushes,     \* how many commits were pushed
    owner,      \* the pull request a commit belongs to (0: none yet)
    hooks,      \* webhook events that GitHub has not delivered yet
    tasks,      \* events answered with 200 whose background task is pending
    lost,       \* events that will never be written
    action,     \* [keyed, status, done] of the ActionItem
    ticket,     \* [node, summary, status]: whether there is a Ticket node, and
                \* what its properties say; its url is written with its status
    blocker,    \* the Blocker of a failed run: none, loose, or RAISES_BLOCKER
    ticketed,   \* TICKETED_AS: the action item leads to the ticket
    runs,       \* AgentRun nodes, by the pull request they PRODUCED
    prNodes,    \* PullRequest nodes
    branched,   \* those that carry the branch
    resolvedBy, \* RESOLVED_BY: from the ticket to these pull requests
    contains,   \* CONTAINS: <<pull request, commit>>
    written,    \* the newest version of the issue written to the action item
    causes,     \* why the action item may disagree with the row
    upsets      \* so far

Prs == UNION {1 .. s.prs : s \in Scenes}
Commits == UNION {1 .. s.pushes : s \in Scenes}

\* A webhook event: a push of one commit, or a pull request that is closed.
Event == [kind : {"push"}, of : Commits] \cup [kind : {"closed"}, of : Prs]

github == <<opened, open, merged, pushes, owner>>
queue == <<hooks, tasks, lost>>
sync == <<row, read, step>>
prov == <<ticket, blocker, ticketed, runs, prNodes, branched, resolvedBy, contains>>
item == <<action, written, causes>>
vars == <<scene, jira, sync, github, queue, prov, item, upsets>>

TypeOK ==
    /\ scene \in Scenes
    /\ jira \in [version : Nat, status : Statuses]
    /\ row \in [version : Nat, status : Statuses, processed : BOOLEAN]
    /\ read \in [Passes -> [version : Nat, status : Statuses]]
    /\ step \in [Passes -> {"idle", "write", "mark"}]
    /\ opened \in 0 .. scene.prs /\ open \in 0 .. opened /\ merged \subseteq 1 .. opened
    /\ pushes \in 0 .. scene.pushes /\ owner \in [Commits -> 0 .. opened]
    /\ hooks \cup tasks \cup lost \subseteq Event
    /\ action \in [keyed : BOOLEAN, done : BOOLEAN,
                   status : Statuses \cup {"none", "Open", "needs_review"}]
    /\ ticket \in [node : BOOLEAN, summary : {"none", "blank", "text"},
                   status : {"none", "Done"}]
    /\ ticketed \in BOOLEAN
    /\ blocker \in {"none", "loose", "raised"}
    /\ runs \cup prNodes \cup branched \cup resolvedBy \subseteq 1 .. opened
    /\ contains \subseteq Prs \X Commits
    /\ written \in Nat /\ causes \subseteq Causes
    /\ upsets \in 0 .. scene.upsets

Nothing == [version |-> 0, status |-> "To Do"]

Init ==
    /\ scene \in Scenes
    /\ jira = [version |-> 1, status |-> "To Do"]
    /\ row = [version |-> 0, status |-> "To Do", processed |-> TRUE]
    /\ read = [p \in Passes |-> Nothing]
    /\ step = [p \in Passes |-> "idle"]
    /\ opened = 0 /\ open = 0 /\ merged = {}
    /\ pushes = 0 /\ owner = [c \in Commits |-> 0]
    /\ hooks = {} /\ tasks = {} /\ lost = {}
    /\ action = [keyed |-> FALSE, status |-> "none", done |-> Reported]
    /\ ticket = [node |-> FALSE, summary |-> "none", status |-> "none"]
    /\ blocker = "none" /\ ticketed = FALSE
    /\ runs = {} /\ prNodes = {} /\ branched = {}
    /\ resolvedBy = {} /\ contains = {}
    /\ written = 0 /\ causes = {}
    /\ upsets = 0

Upset == upsets < scene.upsets /\ upsets' = upsets + 1

-----------------------------------------------------------------------------
(* The action item: the pusher, and the meeting processed again.           *)

\* Seeded bug: the key is recorded under a status that no other writer knows.
WriteKeyMisspelt ==
    /\ action.status = "none"
    /\ action' = [action EXCEPT !.keyed = TRUE, !.status = "open"]
    /\ UNCHANGED <<scene, jira, sync, github, queue, prov, written, causes, upsets>>

\* update_action_jira_key: the last step of push_action_items for it.
WriteKey ==
    /\ action.status = "none"
    /\ action' = [action EXCEPT !.keyed = TRUE, !.status = "Open"]
    /\ UNCHANGED <<scene, jira, sync, github, queue, prov, written, causes, upsets>>

\* upsert_meeting_graph sets what the text says; the pusher that follows holds
\* the action item for review, or replaces its key, or leaves it alone.
Reprocess ==
    /\ action.status /= "none"
    /\ Upset
    /\ action' \in {[action EXCEPT !.done = Reported],
                    [action EXCEPT !.done = Reported, !.status = "needs_review"],
                    [keyed |-> FALSE, status |-> "Open", done |-> Reported]}
    /\ causes' = causes \cup {"reprocessed"}
    /\ UNCHANGED <<scene, jira, sync, github, queue, prov, written>>

-----------------------------------------------------------------------------
(* The status: Jira, Airbyte's table and process_jira_issues.              *)

\* People, the dev agent and the action agent move the issue.
Changes ==
    /\ Upset
    /\ \E s \in Statuses \ {jira.status} :
         jira' = [version |-> jira.version + 1, status |-> s]
    /\ UNCHANGED <<scene, sync, github, queue, prov, item>>

\* Airbyte's append-dedup sync replaces the row by the issue's newest version.
AirbyteSync ==
    /\ scene.passes /= {}
    /\ row.version < jira.version
    /\ row' = [version |-> jira.version, status |-> jira.status, processed |-> FALSE]
    /\ UNCHANGED <<scene, jira, read, step, github, queue, prov, item, upsets>>

Done(p) ==
    /\ step' = [step EXCEPT ![p] = "idle"]
    /\ read' = [read EXCEPT ![p] = Nothing]

\* get_unprocessed_jira_issues.
ReadRow(p) ==
    /\ p \in scene.passes
    /\ step[p] = "idle"
    /\ ~ row.processed
    /\ read' = [read EXCEPT ![p] = [version |-> row.version, status |-> row.status]]
    /\ step' = [step EXCEPT ![p] = "write"]
    /\ UNCHANGED <<scene, jira, row, github, queue, prov, item, upsets>>

\* update_action_jira_status: MATCH by the key; done follows the status.
WriteStatus(p) ==
    /\ step[p] = "write"
    /\ \/ /\ action.keyed
          /\ action' = [action EXCEPT !.status = read[p].status,
                                      !.done = read[p].status = "Done"]
          /\ written' = IF read[p].version < written THEN written ELSE read[p].version
          /\ causes' = IF read[p].version < written THEN causes \cup {"stale"}
                       ELSE IF read[p].version = row.version THEN {}
                       ELSE causes
       \/ /\ ~ action.keyed
          /\ causes' = causes \cup {"unmatched"}
          /\ UNCHANGED <<action, written>>
    /\ step' = [step EXCEPT ![p] = "mark"]
    /\ UNCHANGED <<scene, jira, row, read, github, queue, prov, upsets>>

\* Seeded bug: the row is marked by the issue's id, whatever it holds by now.
MarkByIssue(p) ==
    /\ step[p] = "mark"
    /\ row' = [row EXCEPT !.processed = TRUE]
    /\ Done(p)
    /\ UNCHANGED <<scene, jira, github, queue, prov, item, upsets>>

\* Seeded bug: the row is looked up by the issue's id in Jira, and not found.
MarkNothing(p) ==
    /\ step[p] = "mark"
    /\ Done(p)
    /\ UNCHANGED <<scene, jira, row, github, queue, prov, item, upsets>>

\* mark_processed, by the id of the raw row that was read.
Mark(p) ==
    /\ step[p] = "mark"
    /\ row' = [row EXCEPT !.processed = @ \/ row.version = read[p].version]
    /\ Done(p)
    /\ UNCHANGED <<scene, jira, github, queue, prov, item, upsets>>

\* Either call raises: the loop logs it and the row is read again.
IssueError(p) ==
    /\ step[p] /= "idle"
    /\ Upset
    /\ Done(p)
    /\ UNCHANGED <<scene, jira, row, github, queue, prov, item>>

-----------------------------------------------------------------------------
(* The dev agent and GitHub.                                               *)

Push ==
    /\ pushes < scene.pushes
    /\ pushes' = pushes + 1
    /\ owner' = [owner EXCEPT ![pushes + 1] = open]
    /\ hooks' = hooks \cup {[kind |-> "push", of |-> pushes + 1]}
    /\ UNCHANGED <<scene, jira, sync, opened, open, merged, tasks, lost, prov, item, upsets>>

\* One open pull request per branch; it takes the branch's commits.
OpenPr ==
    /\ open = 0 /\ opened < scene.prs
    /\ \E c \in 1 .. pushes : owner[c] = 0
    /\ opened' = opened + 1
    /\ open' = opened + 1
    /\ owner' = [c \in Commits |-> IF c <= pushes /\ owner[c] = 0 THEN opened + 1
                                                                ELSE owner[c]]
    /\ UNCHANGED <<scene, jira, sync, merged, pushes, queue, prov, item, upsets>>

\* A person merges the pull request, or closes it without merging.
ClosePr ==
    /\ open /= 0
    /\ merged' \in {merged, merged \cup {open}}
    /\ open' = 0
    /\ hooks' = hooks \cup {[kind |-> "closed", of |-> open]}
    /\ UNCHANGED <<scene, jira, sync, opened, pushes, owner, tasks, lost, prov, item, upsets>>

\* Seeded bug: the status is set with the other properties of the Ticket.
RecordRunAnew(pr) ==
    /\ pr \in 1 .. opened
    /\ runs' = runs \cup {pr}
    /\ prNodes' = prNodes \cup {pr}
    /\ branched' = branched \cup {pr}
    /\ ticket' = [node |-> TRUE, summary |-> "text", status |-> "none"]
    /\ ticketed' = (ticketed \/ action.keyed)
    /\ UNCHANGED <<scene, jira, sync, github, queue, blocker, resolvedBy, contains, item, upsets>>

\* write_run_provenance, once the run has found its pull request and checked it:
\* by then the pull request may have been closed.  It sets the summary and leaves
\* the status of a ticket resolved before.  A failure is not retried.
RecordRun(pr) ==
    /\ pr \in 1 .. opened
    /\ runs' = runs \cup {pr}
    /\ prNodes' = prNodes \cup {pr}
    /\ branched' = branched \cup {pr}
    /\ ticket' = [ticket EXCEPT !.node = TRUE, !.summary = "text"]
    /\ ticketed' = (ticketed \/ action.keyed)
    /\ UNCHANGED <<scene, jira, sync, github, queue, blocker, resolvedBy, contains, item, upsets>>

\* merge_blocker, for a run that failed: the edge only if there is a Ticket.
RaiseBlocker ==
    /\ blocker /= "raised"
    /\ blocker' = IF ticket.node THEN "raised" ELSE "loose"
    /\ UNCHANGED <<scene, jira, sync, github, queue, ticket, ticketed, runs, prNodes,
                   branched, resolvedBy, contains, item, upsets>>

\* migrate_schema_v5, run by an operator: a Ticket for every key in a text.
Migrate ==
    /\ scene.mentioned
    /\ ticket' = [ticket EXCEPT !.node = TRUE]
    /\ UNCHANGED <<scene, jira, sync, github, queue, blocker, ticketed, runs, prNodes,
                   branched, resolvedBy, contains, item, upsets>>

-----------------------------------------------------------------------------
(* The webhook: github_webhook.py.                                         *)

\* webhook_github answers 200 and leaves the write to a background task.
Deliver(e) ==
    /\ e \in hooks
    /\ hooks' = hooks \ {e}
    /\ tasks' = tasks \cup {e}
    /\ UNCHANGED <<scene, jira, sync, github, lost, prov, item, upsets>>

\* The service is down, or the write raises three times: GitHub sends nothing
\* twice of its own accord, and has had its 200 in the second case.
Drop(e) ==
    /\ e \in hooks \cup tasks
    /\ Upset
    /\ hooks' = hooks \ {e}
    /\ tasks' = tasks \ {e}
    /\ lost' = lost \cup {e}
    /\ UNCHANGED <<scene, jira, sync, github, prov, item>>

\* write_commits_and_files: every pull request node with the branch gets the
\* commit; without such a node the MATCH yields no rows and nothing is written.
WriteCommit(e) ==
    /\ e.kind = "push"
    /\ contains' = contains \cup (branched \X {e.of})
    /\ UNCHANGED <<ticket, ticketed, prNodes, branched, resolvedBy, action, causes>>

\* The webhook knows the key and passes neither summary nor url, so that the
\* defaults of merge_ticket_resolved_by_pr replace what is there.
Resolved == [node |-> TRUE, summary |-> "blank", status |-> "Done"]

\* Seeded bug: the pull request is matched instead of merged.
ResolveKnown(e) ==
    /\ e.kind = "closed" /\ e.of \in merged
    /\ ticket' = Resolved
    /\ resolvedBy' = resolvedBy \cup ({e.of} \cap prNodes)
    /\ UNCHANGED <<ticketed, prNodes, branched, contains, action, causes>>

\* merge_ticket_resolved_by_pr: the nodes are merged by id, so that it may come
\* before the provenance, and the action item with the key is marked as done.
Resolve(e) ==
    /\ e.kind = "closed" /\ e.of \in merged
    /\ ticket' = Resolved
    /\ prNodes' = prNodes \cup {e.of}
    /\ resolvedBy' = resolvedBy \cup {e.of}
    /\ IF action.keyed
       THEN /\ action' = [action EXCEPT !.status = "Done", !.done = TRUE]
            /\ causes' = IF row.status = "Done" THEN causes ELSE causes \cup {"merged"}
       ELSE UNCHANGED <<action, causes>>
    /\ UNCHANGED <<ticketed, branched, contains>>

\* Every other event, a close without a merge among them, is ignored.
Ignore(e) ==
    /\ e.kind = "closed" /\ e.of \notin merged
    /\ UNCHANGED <<ticket, ticketed, prNodes, branched, resolvedBy, contains,
                   action, causes>>

\* handle_event, in the background task; tasks run in any order.
HandleEvent(e) ==
    /\ e \in tasks
    /\ WriteCommit(e) \/ Resolve(e) \/ Ignore(e)
    /\ tasks' = tasks \ {e}
    /\ UNCHANGED <<scene, jira, sync, github, hooks, lost, blocker, runs, written, upsets>>

-----------------------------------------------------------------------------
\* Passes and background tasks die with the service.
Crash ==
    /\ tasks /= {} \/ \E p \in Passes : step[p] /= "idle"
    /\ Upset
    /\ step' = [p \in Passes |-> "idle"]
    /\ read' = [p \in Passes |-> Nothing]
    /\ tasks' = {}
    /\ lost' = lost \cup tasks
    /\ UNCHANGED <<scene, jira, row, github, hooks, prov, item>>

ReadBack(p) == ReadRow(p) \/ WriteStatus(p) \/ Mark(p)

Next ==
    \/ WriteKey \/ Reprocess \/ Changes \/ AirbyteSync
    \/ \E p \in Passes : ReadBack(p) \/ IssueError(p)
    \/ Push \/ OpenPr \/ ClosePr \/ RaiseBlocker \/ Migrate
    \/ \E pr \in Prs : RecordRun(pr)
    \/ \E e \in Event : Deliver(e) \/ Drop(e) \/ HandleEvent(e)
    \/ Crash

Spec == Init /\ [][Next]_vars

(***************************************************************************)
(* Fairness: the interval job reads the table back and its calls answer;   *)
(* GitHub delivers, and a background task that was queued runs.  Nobody    *)
(* has to change, merge, record or re-process anything.                    *)
(***************************************************************************)
FairSpec ==
    /\ Spec
    /\ \A p \in Passes : WF_vars(ReadBack(p))
    /\ \A e \in Event : WF_vars(Deliver(e)) /\ WF_vars(HandleEvent(e))

-----------------------------------------------------------------------------
(* Properties.                                                             *)

(***************************************************************************)
(* However the webhook's writes and the dev agent's interleave, the parts  *)
(* of the graph fit together: a ticket is resolved only by pull requests   *)
(* that were merged, every recorded run leads to its pull request, with    *)
(* the branch that later pushes are matched by, and to a Ticket node, and  *)
(* every edge of the ticket has its Ticket node.  The node says Done if    *)
(* and only if such an edge is there, whichever of write_run_provenance    *)
(* and merge_ticket_resolved_by_pr came last.  Its summary is the one      *)
(* property that depends on their order: the last writer's text, or the    *)
(* blank that the webhook writes over it.                                  *)
(***************************************************************************)
ProvenanceIsSound ==
    /\ resolvedBy \subseteq merged
    /\ runs \subseteq prNodes \cap branched
    /\ (runs \cup resolvedBy /= {} \/ ticketed \/ blocker = "raised") => ticket.node
    /\ ticket.status = "Done" <=> resolvedBy /= {}
    /\ ticket.summary = "text" => runs /= {}
    /\ ticket.summary = "blank" => resolvedBy /= {}

Quiet ==
    /\ row.processed
    /\ \A p \in Passes : step[p] = "idle"

(***************************************************************************)
(* The status in the graph differs from the row that Airbyte last brought  *)
(* only for a known cause: the row was read back before the key was        *)
(* written, an overlapping pass wrote an older status last, the meeting    *)
(* was processed again, or a merge came in while the issue was not done.   *)
(* No failed call, crash or replaced row is among them.                    *)
(***************************************************************************)
DriftHasCause ==
    Quiet /\ row.version > 0 /\ action.keyed /\ causes = {} =>
        /\ action.status = row.status
        /\ action.done = (row.status = "Done")

(***************************************************************************)
(* No row waits for ever: whatever fails or is replaced under its hands,   *)
(* process_jira_issues marks a row in the end, and by DriftHasCause not    *)
(* before the status it holds has been written.                            *)
(***************************************************************************)
RowsAreReadBack == ~ row.processed ~> row.processed

Recorded(pr) ==
    pr \in resolvedBy \/ [kind |-> "closed", of |-> pr] \in lost

(***************************************************************************)
(* A merge whose event is not lost resolves the ticket in the graph, be it *)
(* handled before or after the provenance of the run that opened it.       *)
(***************************************************************************)
MergesAreRecorded == []<>(\A pr \in merged : Recorded(pr))

=============================================================================
