------------------------------- MODULE Memory -------------------------------
(***************************************************************************)
(* The memory layers of meeting-memory: what graph_builder.py does with a  *)
(* meeting after its graph write and its tickets (semantic_memory.py,      *)
(* episodic_memory.py, procedural_memory.py and vector_memory.py in one    *)
(* try block, whose first exception skips the rest and still marks the row *)
(* processed).  Passes overlap, over one meeting too: the scheduler's job  *)
(* and the webhook's task may read one row, and Airbyte may stage it again *)
(* at any time.  The nightly jobs of main.py and the backfill run between  *)
(* any two steps.  Every session.run is one atomic write.                  *)
(*                                                                         *)
(* A statement touches one fact, one pair of people, one person's          *)
(* preference, one known procedure, one decision of a meeting: one of each *)
(* stands for all.  What the language model answers is any answer, with    *)
(* its repetitions.  Confidences are in tenths.  A row too weak to be      *)
(* extracted reaches no layer (Ingestion).                                 *)
(***************************************************************************)
EXTENDS Naturals, FiniteSets

CONSTANTS
    Meetings,     \* the meetings, by the id their source gives them
    NoMeeting,    \* of a pass that has not begun
    Attendees,    \* the people of each
    FirstDate,    \* the date each is first reported with
    Pair,         \* the pair of people whose KNOWS edge is followed
    Person,       \* the person whose preference is followed
    Names,        \* names inferred_{cid}_{idx} that discover_procedures gives
    MinCluster,   \* meetings that make a procedure (5 in the code)
    MaxPasses,    \* bound: passes over meetings, all together
    Scenes        \* further bounds, a behaviour each keeping to one scene:
                  \*   rows    the meetings that are reported
                  \*   passes  passes over them, at most MaxPasses
                  \*   pollers how many passes run at once
                  \*   nights  how often the nightly jobs run
                  \*   faults  calls that fail, and crashes
                  \*   edits   rows staged again, with the same date or one of
                  \*   dates   those a meeting may be moved to
                  \*   says    how often one answer may name the fact
                  \*   listed  how often one meeting may list an attendee
                  \*   topics  what the model may find in a meeting: "fact",
                  \*           "preference", "role", "decision", "cause" and
                  \*           "procedure", whether it embeds a text: "embedding",
                  \*           and whether someone runs the "backfill"
                  \*   misspelt  meetings whose text spells an address otherwise

Topics == {"fact", "preference", "role", "decision", "cause", "procedure",
           "embedding", "backfill"}

ASSUME MemoryAssumption ==
    /\ IsFiniteSet(Meetings) /\ NoMeeting \notin Meetings /\ Names # {}
    /\ FirstDate \in [Meetings -> Nat \ {0}]
    /\ MinCluster \in Nat \ {0} /\ MaxPasses \in Nat
    /\ \A s \in Scenes :
         /\ {s.pollers, s.nights, s.faults, s.edits} \subseteq Nat
         /\ s.passes \in 0 .. MaxPasses
         /\ {s.says, s.listed} \subseteq Nat \ {0}
         /\ s.dates \subseteq Nat \ {0}
         /\ s.topics \subseteq Topics
         /\ s.rows \cup s.misspelt \subseteq Meetings

Certain == 10     \* confidence 1.0
Enough == 3       \* meetings before a preference is inferred
Roles == {"contributor", "organizer"}
Passes == 1 .. MaxPasses

\* The order of the calls; "mark" is db.mark_processed.
After ==
    [facts |-> "prefs", prefs |-> "bonds", prefer |-> "bonds", bonds |-> "link",
     link |-> "cause", cause |-> "match", match |-> "embed",
     embed |-> "embed_facts", embed_facts |-> "mark"]

Steps == {"waiting", "read"} \cup DOMAIN After \cup {"mark", "done"}
ToEmbed == DOMAIN After \ {"embed_facts"}     \* an embedding still to be written

VARIABLES
    scene,      \* the bounds of this behaviour
    row,        \* of each meeting [edition, date, staged] in the source's table
    step,       \* of each pass, which are numbered in the order of their reads
    meeting,    \* that each is over
    seen,       \* [edition, date] of the row that each has read
    said,       \* how often each has stated the fact
    clean,      \* meetings last written by a pass that met no failure, while no
                \* older summary was still about to be embedded
    summary,    \* the pass that wrote each Meeting.summary (0: no node)
    date,       \* Meeting.date (0: no node)
    moved,      \* meetings whose date has changed since they were first written
    attended,   \* the roles of Person's ATTENDED edges to each meeting
    decided,    \* meetings with a Decision node
    chain,      \* PRECEDED_BY: <<meeting, prior>>
    newcomers,  \* what entered the graph, or moved, since each was last linked
    causes,     \* CAUSED_BY: <<meeting, <<label, meeting>>>>
    fact,       \* [count, conf, of, embedded]: a Fact and its HAS_FACT edges
    prefers,    \* confidence of the preference (0: none)
    knows,      \* weight of the KNOWS edge
    known,      \* [count, of]: a seeded Procedure and its FOLLOWS_PROCEDURE edges
    inferred,   \* of each name [made, of]: the inferred procedures
    embedding,  \* the pass whose summary each embedding is of (0: none)
    backfill,   \* the pass whose summary the backfill holds of each (0: none)
    night,      \* discover_procedures: [step, unmatched, name, cluster, used]
    nights, faults, edits   \* so far

tasks == <<step, meeting, seen, said>>
nodes == <<summary, date, moved, attended, decided>>
edges == <<chain, newcomers, causes>>
beliefs == <<fact, prefers, knows>>
procedures == <<known, inferred>>
vectors == <<embedding, backfill>>
bounds == <<nights, faults, edits>>
vars == <<scene, row, tasks, clean, nodes, edges, beliefs, procedures, vectors, night,
          bounds>>

Present == {m \in Meetings : date[m] # 0}
Active == {n \in Passes : step[n] \notin {"waiting", "done"}}
PassesOver(ms) == {n \in Passes : meeting[n] \in ms}
Shares(m, k) == Attendees[m] \cap Attendees[k] # {}
Causes == {"meeting", "decision"} \X Present
Least(a, b) == IF a < b THEN a ELSE b
Asleep == [step |-> "idle", unmatched |-> {}, name |-> {}, cluster |-> {}, used |-> {}]

TypeOK ==
    /\ scene \in Scenes
    /\ \A m \in Meetings :
         row[m].edition \in 1 .. edits + 1 /\ row[m].date # 0 /\ row[m].staged \in BOOLEAN
    /\ step \in [Passes -> Steps]
    /\ \A n \in Passes :
         /\ IF step[n] = "waiting" THEN meeting[n] = NoMeeting ELSE meeting[n] \in Meetings
         /\ step[n] \in DOMAIN After => meeting[n] \in Present
         /\ said[n] \in 0 .. scene.says
    /\ clean \cup moved \cup decided \subseteq Present
    /\ \A m \in Meetings :
         IF m \in Present THEN summary[m] \in PassesOver({m}) ELSE summary[m] = 0
    /\ attended \in [Meetings -> SUBSET Roles]
    /\ chain \subseteq Present \X Present /\ causes \subseteq Present \X Causes
    /\ newcomers \in [Meetings -> SUBSET Present]
    /\ fact.count \in Nat /\ fact.conf \in 0 .. Certain
    /\ fact.of \subseteq Present /\ fact.embedded \in BOOLEAN
    /\ (fact.count = 0) = (fact.conf = 0)
    /\ prefers \in {0} \cup 5 .. Certain
    /\ knows \in Nat
    /\ known.count \in Nat /\ known.of \subseteq Present
    /\ \A x \in Names :
         inferred[x].of \subseteq Present /\ (inferred[x].made \/ inferred[x].of = {})
    /\ \A m \in Meetings : {embedding[m], backfill[m]} \subseteq {0} \cup PassesOver({m})
    /\ night.step \in {"idle", "name", "write"}
    /\ night.cluster \subseteq night.unmatched
    /\ night.unmatched \subseteq Present
    /\ <<nights, faults, edits>> \in
         (0 .. scene.nights) \X (0 .. scene.faults) \X (0 .. scene.edits)

Init ==
    /\ scene \in Scenes
    /\ row = [m \in Meetings |->
                [edition |-> 1, date |-> FirstDate[m], staged |-> m \in scene.rows]]
    /\ step = [n \in Passes |-> "waiting"]
    /\ meeting = [n \in Passes |-> NoMeeting]
    /\ seen = [n \in Passes |-> [edition |-> 0, date |-> 0]]
    /\ said = [n \in Passes |-> 0]
    /\ clean = {} /\ moved = {} /\ decided = {}
    /\ summary = [m \in Meetings |-> 0]
    /\ date = [m \in Meetings |-> 0]
    /\ attended = [m \in Meetings |-> {}]
    /\ chain = {} /\ causes = {}
    /\ newcomers = [m \in Meetings |-> {}]
    /\ fact = [count |-> 0, conf |-> 0, of |-> {}, embedded |-> FALSE]
    /\ prefers = 0 /\ knows = 0
    /\ known = [count |-> 0, of |-> {}]
    /\ inferred = [x \in Names |-> [made |-> FALSE, of |-> {}]]
    /\ embedding = [m \in Meetings |-> 0]
    /\ backfill = [m \in Meetings |-> 0]
    /\ night = Asleep
    /\ nights = 0 /\ faults = 0 /\ edits = 0

Tells(topic) == topic \in scene.topics
Fails == faults < scene.faults /\ faults' = faults + 1
Works == UNCHANGED faults
GivesNone == IF Tells("embedding") THEN Fails ELSE Works

At(n, s) == step[n] = s
Goto(n, s) == step' = [step EXCEPT ![n] = s]
Advance(n) == Goto(n, After[step[n]])
Reading == UNCHANGED <<scene, row, meeting, seen>>

\* A pass over m that has still to write its embedding, or a backfill, holds an
\* older summary than the one written now.
Held(m) == backfill[m] # 0 \/ \E n \in PassesOver({m}) : step[n] \in ToEmbed

\* A failure of the pass whose summary the graph has.
Spoils(n) == clean' = {m \in clean : summary[m] # n}
-----------------------------------------------------------------------------
(***************************************************************************)
(* A pass over one meeting.                                                *)
(***************************************************************************)
\* get_unprocessed_emails and its siblings: a task of its own for each row.
ReadRow(n, m) ==
    /\ n <= scene.passes /\ At(n, "waiting")
    /\ \A k \in 1 .. n - 1 : ~At(k, "waiting")
    /\ Cardinality(Active) < scene.pollers
    /\ row[m].staged
    /\ Goto(n, "read")
    /\ meeting' = [meeting EXCEPT ![n] = m]
    /\ seen' = [seen EXCEPT ![n] = [edition |-> row[m].edition, date |-> row[m].date]]
    /\ UNCHANGED <<scene, row, said, clean, nodes, edges, beliefs, procedures, vectors,
                   night, bounds>>

\* upsert_meeting_graph, one transaction: the role that the model gives the person
\* (an ATTENDED edge is merged by its role: another role adds an edge), and
\* whether it finds a decision, whose node outlives later passes.
Upsert(n, role, decides) ==
    LET m == meeting[n]
        d == seen[n].date
    IN  /\ At(n, "read") /\ Goto(n, "facts")
        /\ clean' = IF Held(m) THEN clean \ {m} ELSE clean \cup {m}
        /\ summary' = [summary EXCEPT ![m] = n]
        /\ date' = [date EXCEPT ![m] = d]
        /\ moved' = IF date[m] \in {0, d} THEN moved ELSE moved \cup {m}
        /\ attended' =
             IF Person \in Attendees[m] THEN [attended EXCEPT ![m] = @ \cup {role}]
             ELSE attended
        /\ decided' = IF decides THEN decided \cup {m} ELSE decided
        /\ newcomers' =
             IF date[m] = d THEN newcomers
             ELSE [k \in Meetings |-> newcomers[k] \cup {m}]
        /\ Reading
        /\ UNCHANGED <<said, chain, causes, beliefs, procedures, vectors, night, bounds>>

Write(n) ==
    \E role \in IF Tells("role") THEN Roles ELSE {"contributor"},
       decides \in IF Tells("decision") THEN BOOLEAN ELSE {FALSE} :
        Upsert(n, role, decides)

\* The extraction finds nothing, which marks the row, or it or the write raises.
ExtractionFails(n) ==
    /\ At(n, "read") /\ Fails
    /\ \E s \in {"mark", "done"} : Goto(n, s)
    /\ Reading
    /\ UNCHANGED <<said, clean, nodes, edges, beliefs, procedures, vectors, night,
                   nights, edits>>

\* push_action_items raises before the layers begin: the row is not marked.
PushFails(n) ==
    /\ At(n, "facts") /\ said[n] = 0
    /\ Goto(n, "done") /\ Fails /\ Spoils(n) /\ Reading
    /\ UNCHANGED <<said, nodes, edges, beliefs, procedures, vectors, night, nights, edits>>

\* Seeded bug: a statement whose answer is lost is sent once more.
StateFactTwice(m) ==
    [fact EXCEPT
        !.count = @ + 2,
        !.conf = IF fact.count = 0 THEN 4 ELSE Least(Certain, @ + 2),
        !.of = @ \cup {m}]

\* Seeded bug: ON CREATE does not set the confidence.
StateFactBare(m) ==
    [fact EXCEPT
        !.count = @ + 1,
        !.conf = IF fact.count = 0 THEN 0 ELSE Least(Certain, @ + 1),
        !.of = @ \cup {m}]

\* The MERGE of extract_facts: the fact and its edge to the meeting in one
\* statement.
StateFact(m) ==
    [fact EXCEPT
        !.count = @ + 1,
        !.conf = IF fact.count = 0 THEN 3 ELSE Least(Certain, @ + 1),
        !.of = @ \cup {m}]

\* extract_facts: one statement for every entry of the answer, which may name the
\* fact again; a failure of the call or of a write is logged and passed over.
ExtractFacts(n) ==
    /\ At(n, "facts") /\ Reading
    /\ \/ /\ Tells("fact") /\ said[n] < scene.says
          /\ said' = [said EXCEPT ![n] = @ + 1]
          /\ fact' = StateFact(meeting[n])
          /\ UNCHANGED step
       \/ Advance(n) /\ UNCHANGED <<said, fact>>
    /\ UNCHANGED <<clean, nodes, edges, prefers, knows, procedures, vectors, night, bounds>>

AttendedEdges == {e \in Meetings \X Roles : e[2] \in attended[e[1]]}

\* infer_preferences reads how many meetings the person attended: it counts the
\* ATTENDED edges, and asks the model when there are enough.
CountMeetings(n) ==
    /\ At(n, "prefs") /\ Reading
    /\ Goto(n, IF /\ Person \in Attendees[meeting[n]] /\ Tells("preference")
                  /\ Cardinality(AttendedEdges) >= Enough
               THEN "prefer" ELSE "bonds")
    /\ UNCHANGED <<said, clean, nodes, edges, beliefs, procedures, vectors, night, bounds>>

\* The model infers the preference, maybe more than once in an answer, or another
\* one, or fails; so may the write.
InferPreference(n) ==
    /\ At(n, "prefer") /\ Reading
    /\ \/ /\ prefers' = IF prefers = 0 THEN 5 ELSE Least(Certain, prefers + 1)
          /\ UNCHANGED step
       \/ Advance(n) /\ UNCHANGED prefers
    /\ UNCHANGED <<said, clean, nodes, edges, fact, knows, procedures, vectors, night,
                   bounds>>

\* strengthen_relationships matches people by the address in the text, which the
\* graph knows only in its normalized form.  It unwinds the list of attendees
\* twice, so that one listed twice is counted twice.
Strengthen(n) ==
    /\ At(n, "bonds") /\ Advance(n) /\ Reading
    /\ IF Pair \subseteq Attendees[meeting[n]] /\ meeting[n] \notin scene.misspelt
       THEN \E i, j \in 1 .. scene.listed : knows' = knows + i * j
       ELSE UNCHANGED knows
    /\ UNCHANGED <<said, clean, nodes, edges, fact, prefers, procedures, vectors, night,
                   bounds>>

\* Seeded bug: ORDER BY prior.date without DESC.
LeastRecent(ms) == {k \in ms : \A j \in ms : date[k] <= date[j]}

\* The earlier meetings that link_temporal_chain chooses from, given the date that
\* the pass has read, and its choice.
Earlier(m, d) == {k \in Present \ {m} : Shares(m, k) /\ date[k] < d}
MostRecent(ms) == {k \in ms : \A j \in ms : date[j] <= date[k]}

Link(n) ==
    LET m == meeting[n]
        found == IF m \in scene.misspelt THEN {} ELSE Earlier(m, seen[n].date)
    IN  /\ At(n, "link") /\ Advance(n) /\ Reading
        /\ \/ found = {} /\ UNCHANGED chain
           \/ \E k \in MostRecent(found) : chain' = chain \cup {<<m, k>>}
        /\ newcomers' = [newcomers EXCEPT ![m] = {}]
        /\ UNCHANGED <<said, clean, nodes, causes, beliefs, procedures, vectors, night,
                       bounds>>

\* detect_causality: at most one cause, any decision whose text fits, one of the
\* meeting's own too, and failing that any other meeting whose title does.
DetectCausality(n) ==
    LET m == meeting[n]
    IN  /\ At(n, "cause") /\ Advance(n) /\ Reading
        /\ \/ UNCHANGED causes
           \/ /\ Tells("cause")
              /\ \E c \in ({"decision"} \X decided) \cup ({"meeting"} \X (Present \ {m})) :
                   causes' = causes \cup {<<m, c>>}
        /\ UNCHANGED <<said, clean, nodes, chain, newcomers, beliefs, procedures, vectors,
                       night, bounds>>

\* match_to_procedure: the edge is merged, the counter grows every time; a failed
\* write is passed over.
MatchProcedure(n) ==
    /\ At(n, "match") /\ Advance(n) /\ Reading
    /\ \/ /\ Tells("procedure")
          /\ known' = [count |-> known.count + 1, of |-> known.of \cup {meeting[n]}]
       \/ UNCHANGED known
    /\ UNCHANGED <<said, clean, nodes, edges, beliefs, inferred, vectors, night, bounds>>

\* embed_meeting writes over whatever embedding there is, be it of a later summary;
\* without an answer of the embedding model that one stays.
EmbedMeeting(n) ==
    /\ At(n, "embed") /\ Advance(n) /\ Reading
    /\ \/ /\ Tells("embedding")
          /\ embedding' = [embedding EXCEPT ![meeting[n]] = n]
          /\ Works /\ UNCHANGED clean
       \/ UNCHANGED embedding /\ GivesNone /\ Spoils(n)
    /\ UNCHANGED <<said, nodes, edges, beliefs, procedures, backfill, night, nights, edits>>

\* embed_facts_for_meeting takes the facts that have no embedding.
EmbedFacts(n) ==
    /\ At(n, "embed_facts") /\ Advance(n) /\ Reading
    /\ \/ (meeting[n] \notin fact.of \/ fact.embedded) /\ UNCHANGED <<fact, clean, faults>>
       \/ /\ meeting[n] \in fact.of /\ ~fact.embedded
          /\ \/ /\ Tells("embedding")
                /\ fact' = [fact EXCEPT !.embedded = TRUE]
                /\ Works /\ UNCHANGED clean
             \/ UNCHANGED fact /\ GivesNone /\ Spoils(n)
    /\ UNCHANGED <<said, nodes, edges, prefers, knows, procedures, vectors, night, nights,
                   edits>>

\* A call outside the layers' own try blocks raises: the rest is skipped.
SkipRest(n) ==
    /\ step[n] \in DOMAIN After \ {"facts", "match"}
    /\ Goto(n, "mark") /\ Fails /\ Spoils(n) /\ Reading
    /\ UNCHANGED <<said, nodes, edges, beliefs, procedures, vectors, night, nights, edits>>

\* mark_processed, of the row as it was read, or its failure, which leaves the row
\* for the next poll.
Mark(n) ==
    /\ At(n, "mark") /\ Goto(n, "done")
    /\ \/ /\ row' = [row EXCEPT ![meeting[n]].staged =
                        @ /\ row[meeting[n]].edition # seen[n].edition]
          /\ Works
       \/ UNCHANGED row /\ Fails
    /\ UNCHANGED <<scene, meeting, seen, said, clean, nodes, edges, beliefs, procedures,
                   vectors, night, nights, edits>>
-----------------------------------------------------------------------------
(***************************************************************************)
(* The sources and the process.                                            *)
(***************************************************************************)
\* Airbyte stages the row again: the meeting was edited, perhaps moved.
Restage(m) ==
    /\ edits < scene.edits /\ edits' = edits + 1
    /\ m \in scene.rows
    /\ \E d \in {row[m].date} \cup scene.dates :
         row' = [row EXCEPT ![m] = [edition |-> @.edition + 1, date |-> d, staged |-> TRUE]]
    /\ UNCHANGED <<scene, tasks, clean, nodes, edges, beliefs, procedures, vectors, night,
                   nights, faults>>

\* The service stops: passes and the nightly job with it; rows stay staged.
Crash ==
    /\ Active # {} \/ night # Asleep
    /\ Fails
    /\ step' = [n \in Passes |-> IF n \in Active THEN "done" ELSE step[n]]
    /\ clean' = {m \in clean : summary[m] \notin Active}
    /\ night' = Asleep
    /\ Reading
    /\ UNCHANGED <<said, nodes, edges, beliefs, procedures, vectors, nights, edits>>
-----------------------------------------------------------------------------
(***************************************************************************)
(* The nightly jobs, which APScheduler never runs twice at once, and the   *)
(* backfill, which is run by hand, once at a time.                         *)
(***************************************************************************)
\* Seeded bug: every fact is boosted.
Boosted(f) == f.count > 0

Confirmed(f) == f.count % Enough = 0

\* consolidate_semantic: facts whose source_count is a multiple of three.
Consolidate ==
    /\ nights < scene.nights /\ nights' = nights + 1
    /\ fact.count > 0 /\ Confirmed(fact) /\ fact.conf < Certain
    /\ fact' = [fact EXCEPT !.conf = Least(Certain, @ + 2)]
    /\ UNCHANGED <<scene, row, tasks, clean, nodes, edges, prefers, knows, procedures,
                   vectors, night, faults, edits>>

\* Seeded bug: only the seeded procedures count as a match.
UnmatchedByKnown == Present \ known.of

Unmatched == Present \ (known.of \cup UNION {inferred[x].of : x \in Names})

\* discover_procedures reads the meetings that follow no procedure.
ReadUnmatched ==
    /\ night.step = "idle"
    /\ nights < scene.nights /\ nights' = nights + 1
    /\ Cardinality(Unmatched) >= MinCluster
    /\ night' = [Asleep EXCEPT !.step = "name", !.unmatched = Unmatched]
    /\ UNCHANGED <<scene, row, tasks, clean, nodes, edges, beliefs, procedures, vectors,
                   faults, edits>>

\* A cluster of those it has read and not yet used: the procedure of that name is
\* made, or is there from an earlier night, communities being numbered anew.
NameCluster ==
    /\ night.step = "name"
    /\ \E c \in SUBSET night.unmatched, x \in Names \ night.used :
         /\ Cardinality(c) >= MinCluster
         /\ inferred' = [inferred EXCEPT ![x].made = TRUE]
         /\ night' = [night EXCEPT !.step = "write", !.name = {x}, !.cluster = c,
                                   !.used = @ \cup {x}]
    /\ UNCHANGED <<scene, row, tasks, clean, nodes, edges, beliefs, known, vectors, bounds>>

\* One edge after another; a failure gives this cluster up.
LinkCluster ==
    /\ night.step = "write"
    /\ \/ /\ night.cluster # {}
          /\ \E m \in night.cluster, x \in night.name :
               /\ inferred' = [inferred EXCEPT ![x].of = @ \cup {m}]
               /\ night' = [night EXCEPT !.cluster = @ \ {m}, !.unmatched = @ \ {m}]
          /\ Works
       \/ /\ night.cluster = {}
          /\ night' = [night EXCEPT !.step = "name", !.name = {}]
          /\ UNCHANGED <<inferred, faults>>
       \/ /\ night.cluster # {}
          /\ night' = [night EXCEPT !.step = "name", !.name = {}, !.cluster = {},
                                    !.unmatched = @ \ night.cluster]
          /\ Fails /\ UNCHANGED inferred
    /\ UNCHANGED <<scene, row, tasks, clean, nodes, edges, beliefs, known, vectors, nights,
                   edits>>

EndOfNight ==
    /\ night.step = "name" /\ night' = Asleep
    /\ UNCHANGED <<scene, row, tasks, clean, nodes, edges, beliefs, procedures, vectors,
                   bounds>>

\* backfill_embeddings reads the summaries of all meetings without an embedding.
BackfillRead ==
    /\ Tells("backfill") /\ \A m \in Meetings : backfill[m] = 0
    /\ \E m \in Present : embedding[m] = 0
    /\ backfill' = [m \in Meetings |-> IF embedding[m] = 0 THEN summary[m] ELSE 0]
    /\ UNCHANGED <<scene, row, tasks, clean, nodes, edges, beliefs, procedures, embedding,
                   night, bounds>>

\* It embeds them one after another, or goes on without an answer.
BackfillMeeting(m) ==
    /\ backfill[m] # 0 /\ backfill' = [backfill EXCEPT ![m] = 0]
    /\ \/ embedding' = [embedding EXCEPT ![m] = backfill[m]]
       \/ UNCHANGED embedding
    /\ UNCHANGED <<scene, row, tasks, clean, nodes, edges, beliefs, procedures, night,
                   bounds>>

\* And facts, whose texts never change: when one was read makes no difference.
BackfillFact ==
    /\ Tells("backfill") /\ fact.count > 0 /\ ~fact.embedded
    /\ fact' = [fact EXCEPT !.embedded = TRUE]
    /\ UNCHANGED <<scene, row, tasks, clean, nodes, edges, prefers, knows, procedures,
                   vectors, night, bounds>>
-----------------------------------------------------------------------------
Pass(n) ==
    \/ Write(n) \/ ExtractionFails(n) \/ PushFails(n) \/ ExtractFacts(n)
    \/ CountMeetings(n) \/ InferPreference(n) \/ Strengthen(n) \/ Link(n)
    \/ DetectCausality(n) \/ MatchProcedure(n) \/ EmbedMeeting(n) \/ EmbedFacts(n)
    \/ SkipRest(n) \/ Mark(n)

Nightly == Consolidate \/ ReadUnmatched \/ NameCluster \/ LinkCluster \/ EndOfNight
Backfill == BackfillRead \/ (\E m \in Meetings : BackfillMeeting(m)) \/ BackfillFact

Next ==
    \/ \E n \in Passes : Pass(n) \/ \E m \in Meetings : ReadRow(n, m)
    \/ \E m \in Meetings : Restage(m)
    \/ Nightly \/ Backfill \/ Crash

Spec == Init /\ [][Next]_vars
-----------------------------------------------------------------------------
PairMeetings == {m \in Meetings : Pair \subseteq Attendees[m]}

(***************************************************************************)
(* Evidence is explained by the passes over the meetings that it is linked *)
(* to, however these overlap, crash and are repeated.  A fact counts every *)
(* statement, of which an answer holds at most scene.says: it is counted   *)
(* at least once for each meeting that has it, and no more than so often   *)
(* per pass over them.  A known procedure counts at most one per pass.     *)
(* The weight of a KNOWS edge is at most what the passes over the pair's   *)
(* meetings add, which is one unless an attendee is listed repeatedly; and *)
(* a meeting has no more causes than there were passes over it.            *)
(***************************************************************************)
EvidenceIsCounted ==
    /\ Cardinality(fact.of) <= fact.count
    /\ fact.count <= Cardinality(PassesOver(fact.of)) * scene.says
    /\ Cardinality(known.of) <= known.count
    /\ known.count <= Cardinality(PassesOver(known.of))
    /\ knows <= Cardinality(PassesOver(PairMeetings)) * (scene.listed * scene.listed)
    /\ \A m \in Meetings :
         Cardinality({p \in causes : p[1] = m}) <= Cardinality(PassesOver({m}))

(***************************************************************************)
(* What is believed was earned.  A fact gains a tenth per statement and    *)
(* two per night in which their number was a multiple of three: none is    *)
(* certain, or ahead of its statements, before it was stated three times.  *)
(* These need not be three passes: source_count grows with every entry of  *)
(* an answer, so that one that repeats itself can make a fact certain.  A  *)
(* preference is inferred of someone with three ATTENDED edges             *)
(* (infer_preferences: at least three meetings), which are three meetings  *)
(* unless a meeting was given two roles.                                   *)
(***************************************************************************)
BeliefsAreEarned ==
    /\ fact.conf = Certain => fact.count >= Enough
    /\ fact.conf > fact.count + 2 => fact.count >= Enough
    /\ fact.conf <= fact.count + 2 + 2 * nights
    /\ fact.count > 0 => fact.conf >= Least(Certain, fact.count + 2)
    /\ prefers > 0 =>
         \/ Cardinality({m \in Meetings : attended[m] # {}}) >= Enough
         \/ \E m \in Meetings : attended[m] = Roles

\* The link to the nearest earlier meeting that shares an attendee, but for those
\* that came or moved after it was made.
Linked(m) ==
    \/ m \in scene.misspelt \/ m \in moved
    \/ \A k \in Earlier(m, date[m]) \ newcomers[m] :
         \E j \in Present : <<m, j>> \in chain /\ (j \in moved \/ date[k] <= date[j])

(***************************************************************************)
(* A pass without a failure that wrote its meeting when no older summary   *)
(* was still to be embedded, by another pass or a backfill, leaves a       *)
(* complete memory once it is over: the meeting's embedding is that of its *)
(* present summary, what it states is embedded, and it is linked to the    *)
(* nearest earlier one that shares an attendee, whatever other meetings    *)
(* come, whatever rows are edited, whichever pass reads it next.  Not      *)
(* linked as docs/GRAPH_MEMORY.md:21 has it are a meeting whose text       *)
(* spells an address otherwise than the graph, which finds nothing, and    *)
(* one whose date has changed, which keeps the links of its old date.      *)
(***************************************************************************)
CleanPassIsRemembered ==
    \A m \in clean : At(summary[m], "done") =>
        /\ embedding[m] = summary[m]
        /\ m \in fact.of => fact.embedded
        /\ Linked(m)

(***************************************************************************)
(* A meeting follows at most one inferred procedure, however many nights   *)
(* discover_procedures runs, whatever names it gives again, and wherever a *)
(* night is cut short.  (It may follow a known one besides, matched while  *)
(* the night was at work.)                                                 *)
(***************************************************************************)
OneInferredProcedure ==
    \A m \in Meetings : Cardinality({x \in Names : m \in inferred[x].of}) <= 1
=============================================================================
