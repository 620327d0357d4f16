----------------------------- MODULE Ingestion -----------------------------
(***************************************************************************)
(* The ingestion pipeline of the transform service: graph_builder.py, with *)
(* jira_pusher.py, over the staging rows (db.py), the Memgraph graph       *)
(* (memgraph_client.py) and Jira.  A pass reads the unprocessed rows and   *)
(* runs one coroutine per row; the scheduler and every webhook start       *)
(* passes of their own, so one row may be in the hands of several tasks.   *)
(* Each await that changes shared state is a step; any of them may raise,  *)
(* and the process may die between two of them.                            *)
(***************************************************************************)
EXTENDS Naturals, FiniteSets

CONSTANTS
    Items,         \* the staged sources of one kind, numbered in the order they are read
    Manual,        \* those in the manual table; the others are in Airbyte's
    Passes,        \* passes that may overlap: the scheduler's, the webhooks'
    Actions,       \* the action items (one per ActionItem id)
    NoAction,      \* a task that is not creating an issue
    Found,         \* the action items the extraction finds in each source
    Skipped,       \* sources below the classifier's threshold, or unparsable
    Unextractable, \* sources whose extraction always raises
    Doubtful,      \* action items below JIRA_CONFIDENCE_THRESHOLD
    Ticked,        \* action items that the meeting reports as done
    Closable,      \* action items whose issues people may close
    Alike,         \* <<a, b>>: of one owner, and a's text is similar to b's
    Near,          \* <<a, b>>: of one owner, and a's embedding is close to b's
    Limit,         \* LIMIT of the query for unprocessed rows
    Faults,        \* the services whose calls may raise
    MaxFaults,     \* bound: how many calls may raise
    MaxCrashes,    \* bound: how often the process may die
    MaxUpdates     \* bound: how often Airbyte may replace a row

Services == {"llm", "graph", "jira", "db"}
Tasks == Passes \X Items
Raw(t) == t[2]     \* the staging row that a task works on

ASSUME SourcesAssumption ==
    /\ Items \subseteq Nat \ {0}
    /\ IsFiniteSet(Items)
    /\ Manual \subseteq Items
    /\ NoAction \notin Actions
    /\ Found \in [Items -> SUBSET Actions]
    /\ Skipped \subseteq Items
    /\ Unextractable \subseteq Items \ Skipped
    /\ Doubtful \cup Ticked \cup Closable \subseteq Actions
    /\ Alike \cup Near \subseteq Actions \X Actions

ASSUME BoundsAssumption ==
    /\ Limit \in Nat \ {0}
    /\ Faults \subseteq Services
    /\ MaxFaults \in Nat
    /\ MaxCrashes \in Nat
    /\ MaxUpdates \in Nat

VARIABLES
    version,    \* of the content of each staging row
    content,    \* the action items that content talks about
    processed,  \* the processed flag of each row
    written,    \* the version whose meeting was last written (0: none)
    node,       \* the ActionItem node of each action item
    embedded,   \* the action items whose node has an embedding
    mentioned,  \* <<b, i>>: the MENTIONED_IN edge from b to the meeting of i
    issues,     \* how many Jira issues were created for each action item
    step,       \* the next step of each task
    seen,       \* the version of the row that the task has read
    todo,       \* the action items the task has yet to push
    on,         \* the action item whose issue the task is creating
    made,       \* the issue it has created
    faults,     \* calls that raised so far
    crashes     \* so far

staging == <<version, content, processed>>
graph == <<written, node, embedded, mentioned>>
control == <<step, seen, todo, on, made>>
budget == <<faults, crashes>>
vars == <<version, content, processed, written, node, embedded, mentioned, issues,
          step, seen, todo, on, made, faults, crashes>>

\* An issue of an action item is its number among those created for it.
Node == [known : BOOLEAN, done : BOOLEAN, key : Nat,
         status : {"none", "Open", "needs_review", "Done"}]

TypeOK ==
    /\ version \in [Items -> Nat]
    /\ content \in [Items -> SUBSET Actions]
    /\ processed \in [Items -> BOOLEAN]
    /\ written \in [Items -> Nat]
    /\ node \in [Actions -> Node]
    /\ embedded \subseteq Actions
    /\ mentioned \subseteq Actions \X Items
    /\ issues \in [Actions -> Nat]
    /\ step \in [Tasks -> {"idle", "extract", "upsert", "push", "create", "key", "memory",
                          "mark"}]
    /\ seen \in [Tasks -> Nat]
    /\ todo \in [Tasks -> SUBSET Actions]
    /\ on \in [Tasks -> Actions \cup {NoAction}]
    /\ made \in [Tasks -> Nat]
    /\ faults \in 0 .. MaxFaults
    /\ crashes \in 0 .. MaxCrashes

Init ==
    /\ version = [i \in Items |-> 1]
    /\ content = Found
    /\ processed = [i \in Items |-> FALSE]
    /\ written = [i \in Items |-> 0]
    /\ node = [a \in Actions |->
                 [known |-> FALSE, done |-> FALSE, key |-> 0, status |-> "none"]]
    /\ embedded = {}
    /\ mentioned = {}
    /\ issues = [a \in Actions |-> 0]
    /\ step = [t \in Tasks |-> "idle"]
    /\ seen = [t \in Tasks |-> 0]
    /\ todo = [t \in Tasks |-> {}]
    /\ on = [t \in Tasks |-> NoAction]
    /\ made = [t \in Tasks |-> 0]
    /\ faults = 0
    /\ crashes = 0

-----------------------------------------------------------------------------
(* Tasks and passes.                                                       *)

At(t, s) == step[t] = s /\ UNCHANGED <<seen, crashes>>
Goto(t, s) == step' = [step EXCEPT ![t] = s] /\ UNCHANGED <<todo, on, made>>
Succeeds == UNCHANGED faults

Raises(service) ==
    /\ service \in Faults
    /\ faults < MaxFaults
    /\ faults' = faults + 1

\* The outer except of process_*: the task ends, its row stays unprocessed.
GiveUp(t) ==
    /\ step' = [step EXCEPT ![t] = "idle"]
    /\ todo' = [todo EXCEPT ![t] = {}]
    /\ on' = [on EXCEPT ![t] = NoAction]
    /\ made' = [made EXCEPT ![t] = 0]

Unprocessed == {i \in Items : ~ processed[i]}
Oldest(rows) == {i \in rows : Cardinality({j \in rows : j < i}) < Limit}

\* Seeded bug: Airbyte's table is read as soon as it exists, though exhausted.
BatchOfTable ==
    Oldest(IF Manual # Items THEN Unprocessed \ Manual ELSE Unprocessed)

\* The manual table is read only while Airbyte's has no unprocessed row at all.
Batch ==
    Oldest(IF Unprocessed \ Manual # {} THEN Unprocessed \ Manual ELSE Unprocessed)

\* process_new_*: a job's next pass begins when the last one has been gathered.
PassBegins(p) ==
    /\ \A i \in Items : step[<<p, i>>] = "idle"
    /\ LET read == {t \in Tasks : t[1] = p /\ Raw(t) \in Batch}
       IN  /\ step' = [t \in Tasks |-> IF t \in read THEN "extract" ELSE step[t]]
           /\ seen' = [t \in Tasks |-> IF t \in read THEN version[Raw(t)] ELSE seen[t]]
           /\ todo' = [t \in Tasks |-> IF t \in read THEN content[Raw(t)] ELSE todo[t]]
    /\ UNCHANGED <<staging, graph, issues, on, made, budget>>

-----------------------------------------------------------------------------
(* process_email, process_calendar_event, process_transcript.              *)

\* classify and extract_meeting.  Extraction runs at temperature 0, so that it
\* finds the same in the same text; with_retry makes one raise of several.
Extract(t) ==
    /\ At(t, "extract")
    /\ \/ Raw(t) \in Skipped /\ Goto(t, "mark") /\ Succeeds
       \/ Raw(t) \in Items \ (Skipped \cup Unextractable) /\ Goto(t, "upsert") /\ Succeeds
       \/ Raw(t) \in Unextractable /\ GiveUp(t) /\ Succeeds
       \/ Raw(t) \notin Skipped /\ Raises("llm") /\ GiveUp(t)
    /\ UNCHANGED <<staging, graph, issues>>

WriteMeeting(t) ==
    /\ written' = [written EXCEPT ![Raw(t)] = seen[t]]
    /\ node' = [a \in Actions |-> IF a \in todo[t]
                                  THEN [node[a] EXCEPT !.known = TRUE, !.done = a \in Ticked]
                                  ELSE node[a]]

\* Seeded bug: the row is marked before its action items are pushed.
UpsertAndMark(t) ==
    /\ At(t, "upsert")
    /\ WriteMeeting(t)
    /\ Goto(t, "push")
    /\ processed' = [processed EXCEPT ![Raw(t)] = TRUE]
    /\ Succeeds
    /\ UNCHANGED <<version, content, embedded, mentioned, issues>>

\* upsert_meeting_graph: one transaction; it may commit and raise all the same.
Upsert(t) ==
    /\ At(t, "upsert")
    /\ \/ WriteMeeting(t) /\ Goto(t, "push") /\ Succeeds
       \/ WriteMeeting(t) /\ Raises("graph") /\ GiveUp(t)
       \/ UNCHANGED <<written, node>> /\ Raises("graph") /\ GiveUp(t)
    /\ UNCHANGED <<staging, embedded, mentioned, issues>>

-----------------------------------------------------------------------------
(* push_action_items: its loop over the meeting's action items.            *)

Pushed(t, a) == todo' = [todo EXCEPT ![t] = @ \ {a}]

\* Seeded bug: a status that no reader of the graph knows.
HoldMisspelt(t) ==
    /\ At(t, "push")
    /\ \E a \in todo[t] \cap Doubtful :
         /\ node' = [node EXCEPT ![a] = [@ EXCEPT !.status = "review"]]
         /\ Pushed(t, a)
    /\ Succeeds
    /\ UNCHANGED <<staging, written, embedded, mentioned, issues, step, on, made>>

\* mark_action_needs_review: a doubtful action item gets no issue.
HoldForReview(t) ==
    /\ At(t, "push")
    /\ \E a \in todo[t] \cap Doubtful :
         LET held == [node EXCEPT ![a] = [@ EXCEPT !.status = "needs_review"]]
         IN  \/ node' = held /\ Pushed(t, a) /\ Succeeds /\ UNCHANGED <<step, on, made>>
             \/ node' \in {node, held} /\ Raises("graph") /\ GiveUp(t)
    /\ UNCHANGED <<staging, written, embedded, mentioned, issues>>

\* get_open_actions_for_owner, then best_match above the threshold.  Embeddings
\* are compared when both are there, and texts otherwise: the search embeds its own
\* action item, and embed_text does not raise when the model fails.
IsOpen(b) == node[b].known /\ ~ node[b].done
Vectors == {TRUE, "llm" \notin Faults}
Similar(a, b, vector) == <<a, b>> \in IF vector /\ b \in embedded THEN Near ELSE Alike

\* Seeded bug: an action item without an issue is no duplicate.
DuplicatesWithIssue(a, vector) ==
    {b \in Actions \ {a} : Similar(a, b, vector) /\ IsOpen(b) /\ node[b].key # 0}

Duplicates(a, vector) == {b \in Actions \ {a} : Similar(a, b, vector) /\ IsOpen(b)}

\* _find_duplicate: the duplicate is linked to this meeting and no issue created.
\* The comment on the duplicate's ticket is best effort.
MergeIntoDuplicate(t) ==
    /\ At(t, "push")
    /\ \E a \in todo[t] \ Doubtful :
         \E b \in UNION {Duplicates(a, vector) : vector \in Vectors} :
           LET linked == mentioned \cup {<<b, Raw(t)>>}
           IN  \/ mentioned' = linked /\ Pushed(t, a) /\ Succeeds /\ UNCHANGED <<step, on, made>>
               \/ mentioned' \in {mentioned, linked} /\ Raises("graph") /\ GiveUp(t)
    /\ UNCHANGED <<staging, written, node, embedded, issues>>

\* No duplicate: the decision is made here and acted on after an await.
DecideToCreate(t) ==
    /\ At(t, "push")
    /\ \E a \in todo[t] \ Doubtful :
         /\ \E vector \in Vectors : Duplicates(a, vector) = {}
         /\ \/ /\ step' = [step EXCEPT ![t] = "create"]
               /\ on' = [on EXCEPT ![t] = a]
               /\ UNCHANGED <<todo, made>>
               /\ Succeeds
            \/ Raises("graph") /\ GiveUp(t)
    /\ UNCHANGED <<staging, graph, issues>>

\* The except of the loop: the failure is logged and the loop goes on.
NextAction(t) ==
    /\ Pushed(t, on[t])
    /\ step' = [step EXCEPT ![t] = "push"]
    /\ on' = [on EXCEPT ![t] = NoAction]
    /\ made' = [made EXCEPT ![t] = 0]

\* _create_jira_issue: a POST under with_retry.  An attempt whose answer is lost
\* has created an issue, and the next attempt creates another.
CreateIssue(t) ==
    /\ At(t, "create")
    /\ LET create(n) == issues' = [issues EXCEPT ![on[t]] = @ + n]
           keep == /\ step' = [step EXCEPT ![t] = "key"]
                   /\ made' = [made EXCEPT ![t] = issues'[on[t]]]
                   /\ UNCHANGED <<todo, on>>
       IN  \/ create(1) /\ keep /\ Succeeds
           \/ create(2) /\ keep /\ Raises("jira")
           \/ create(1) /\ NextAction(t) /\ Raises("jira")
           \/ UNCHANGED issues /\ NextAction(t) /\ Raises("jira")
    /\ UNCHANGED <<staging, graph>>

\* update_action_jira_key.
WriteKey(t) ==
    /\ At(t, "key")
    /\ \/ /\ node' = [node EXCEPT ![on[t]] = [@ EXCEPT !.key = made[t], !.status = "Open"]]
          /\ Succeeds \/ Raises("graph")
       \/ UNCHANGED node /\ Raises("graph")
    /\ NextAction(t)
    /\ UNCHANGED <<staging, written, embedded, mentioned, issues>>

AllPushed(t) ==
    /\ At(t, "push")
    /\ todo[t] = {}
    /\ Goto(t, "memory")
    /\ Succeeds
    /\ UNCHANGED <<staging, graph, issues>>

\* The memory layers are best effort and write other nodes, until the action items
\* that the meeting FOLLOWS_UP and that lack an embedding get theirs, one by one.
Unembedded(i) == {a \in Found[i] : node[a].known} \ embedded

EmbedAction(t) ==
    /\ At(t, "memory")
    /\ \E a \in Unembedded(Raw(t)) : embedded' = embedded \cup {a}
    /\ Succeeds
    /\ UNCHANGED <<staging, written, node, mentioned, issues, step, todo, on, made>>

MemoryEnds(t) ==
    /\ At(t, "memory")
    /\ Unembedded(Raw(t)) = {} \/ Faults \cap {"llm", "graph"} # {}
    /\ Goto(t, "mark")
    /\ Succeeds
    /\ UNCHANGED <<staging, graph, issues>>

\* Seeded bug: the row is found by its source, not by the row that was read.
MarkBySource(t) ==
    /\ At(t, "mark")
    /\ processed' = [processed EXCEPT ![Raw(t)] = TRUE]
    /\ GiveUp(t)
    /\ Succeeds
    /\ UNCHANGED <<version, content, graph, issues>>

\* mark_processed, by the id of the raw row: it misses a row that was replaced.
MarkProcessed(t) ==
    /\ At(t, "mark")
    /\ \/ /\ processed' = [processed EXCEPT ![Raw(t)] = @ \/ seen[t] = version[Raw(t)]]
          /\ Succeeds \/ Raises("db")
       \/ UNCHANGED processed /\ Raises("db")
    /\ GiveUp(t)
    /\ UNCHANGED <<version, content, graph, issues>>

TaskStep(t) ==
    \/ Extract(t) \/ Upsert(t)
    \/ HoldForReview(t) \/ MergeIntoDuplicate(t) \/ DecideToCreate(t)
    \/ CreateIssue(t) \/ WriteKey(t) \/ AllPushed(t)
    \/ EmbedAction(t) \/ MemoryEnds(t) \/ MarkProcessed(t)

-----------------------------------------------------------------------------
(* The rest of the world.                                                  *)

\* Airbyte replaces the row of an updated event by a new, unprocessed one.
RowReplaced(i) ==
    /\ i \notin Manual
    /\ version[i] <= MaxUpdates
    /\ version' = [version EXCEPT ![i] = @ + 1]
    /\ \E found \in SUBSET Found[i] : content' = [content EXCEPT ![i] = found]
    /\ processed' = [processed EXCEPT ![i] = FALSE]
    /\ UNCHANGED <<graph, issues, control, budget>>

\* People close the issue of an action item; jira_agent reads its status back.
StatusReadBack(a) ==
    /\ a \in Closable
    /\ node[a].key # 0
    /\ node' = [node EXCEPT ![a] = [@ EXCEPT !.status = "Done", !.done = TRUE]]
    /\ UNCHANGED <<staging, written, embedded, mentioned, issues, control, budget>>

Crash ==
    /\ crashes < MaxCrashes
    /\ crashes' = crashes + 1
    /\ step' = [t \in Tasks |-> "idle"]
    /\ todo' = [t \in Tasks |-> {}]
    /\ on' = [t \in Tasks |-> NoAction]
    /\ made' = [t \in Tasks |-> 0]
    /\ UNCHANGED <<staging, graph, issues, seen, faults>>

Next ==
    \/ \E p \in Passes : PassBegins(p)
    \/ \E t \in Tasks : TaskStep(t)
    \/ \E i \in Items : RowReplaced(i)
    \/ \E a \in Actions : StatusReadBack(a)
    \/ Crash

Spec == Init /\ [][Next]_vars

\* The scheduler starts its passes again and again, and the event loop runs
\* every task.  Nothing obliges a webhook, Airbyte or a person to act.
FairSpec ==
    /\ Spec
    /\ \A p \in Passes : WF_vars(PassBegins(p))
    /\ \A t \in Tasks : WF_vars(TaskStep(t))

-----------------------------------------------------------------------------
(* Properties.                                                             *)

Quiet(i) == \A t \in Tasks : Raw(t) = i => step[t] = "idle"

(***************************************************************************)
(* When one job at a time works on a source, a row that is marked as       *)
(* processed has been written to the graph in its latest version, although *)
(* it may be replaced, and calls may fail, while a task works on it.       *)
(***************************************************************************)
GraphIsCurrent ==
    \A i \in Items \ Skipped : processed[i] /\ Quiet(i) => written[i] = version[i]

(***************************************************************************)
(* Every staged row is processed in the end, whatever fails on the way,    *)
(* unless rows that can never be extracted stand before it: as many as the *)
(* query's limit in its own table, or, for a row of the manual table, a    *)
(* single one in Airbyte's, since the fallback is for an exhausted table.  *)
(***************************************************************************)
InTheWay(i) == IF i \in Manual THEN Unextractable \cap Manual ELSE Unextractable \ Manual
Starved(i) ==
    \/ Cardinality(InTheWay(i)) >= Limit
    \/ i \in Manual /\ Unextractable \ Manual # {}

RowsAreProcessed ==
    \A i \in Items \ Unextractable :
        ~ Starved(i) => (~ processed[i] ~> processed[i])

(***************************************************************************)
(* Once a row is processed, each of its action items has an issue, waits   *)
(* for review, or was recognised as a duplicate that was linked to the     *)
(* meeting: a crash or a failing graph or database never loses one.        *)
(***************************************************************************)
NoActionIsLost ==
    \A i \in Items \ Skipped :
        processed[i] =>
          \A a \in content[i] :
            \/ issues[a] > 0
            \/ node[a].status = "needs_review"
            \/ \E b \in Actions \ {a} : <<a, b>> \in Alike \cup Near /\ <<b, i>> \in mentioned

(***************************************************************************)
(* Two action items that are duplicates of each other, by their texts and  *)
(* by their embeddings, never both get an issue, however their tasks       *)
(* interleave, fail and are repeated, and whether or not the embeddings    *)
(* are there: a task writes its node before it looks for others.  Two that *)
(* match by one measure only may both get one, because embeddings appear   *)
(* after the push; so may those that are done and no longer count.         *)
(***************************************************************************)
NeverDone == Actions \ (Ticked \cup Closable)
Twins(a, b) == a # b /\ {<<a, b>>, <<b, a>>} \subseteq Alike \cap Near

DuplicatesShareOneIssue ==
    \A a, b \in NeverDone : Twins(a, b) => issues[a] = 0 \/ issues[b] = 0
=============================================================================
