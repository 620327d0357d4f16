------------------------------- MODULE People -------------------------------
(***************************************************************************)
(* Who attended a meeting: the resolution of the attendees the language    *)
(* model extracts to Person nodes (person_resolver.py, called by           *)
(* upsert_meeting_graph of memgraph_client.py), and the ranking that only  *)
(* shows people who opted in (get_influential_nodes).  The roster, then    *)
(* the people already in the graph, then the write transaction: between    *)
(* the three, other passes write and an operator may replace the roster.   *)
(*                                                                         *)
(* A raw address is normalized to a canonical one by Norm, and Likeness is *)
(* SequenceMatcher's ratio of two names, in hundredths.                    *)
(***************************************************************************)
EXTENDS Naturals, Sequences, Functions

CONSTANTS
    Passes,        \* pollers that may write a meeting at the same time
    Meetings,
    Attendees,     \* of each meeting, a sequence of [name, address]
    NoAddress,     \* an attendee whose address the model did not find
    Canonical,     \* normalized addresses
    Norm,          \* normalize_email
    Likeness,      \* of every two names, up to 100
    Rosters,       \* the contents of PERSON_ROSTER_PATH, one after another:
                   \* sequences of [name, mail, aliases, tracked]
    MaxUpserts     \* how often meetings are written, all together

Threshold == 85    \* FUZZY_THRESHOLD

Ids(e) == {e.mail} \cup e.aliases
Names == {a.name : a \in UNION {Range(Attendees[m]) : m \in Meetings}}
         \cup {e.name : e \in UNION {Range(r) : r \in Range(Rosters)}}
Addresses == {a.address : a \in UNION {Range(Attendees[m]) : m \in Meetings}}
Entry == [name : Names, mail : Canonical, aliases : SUBSET Canonical, tracked : BOOLEAN]

ASSUME PeopleAssumption ==
    /\ Norm \in [Addresses \ {NoAddress} -> Canonical]
    /\ \A m \in Meetings : Attendees[m] \in Seq([name : Names, address : Addresses])
    /\ Likeness \in [Names -> [Names -> 0 .. 100]]
    /\ Rosters # << >> /\ Rosters \in Seq(Seq(Entry))
    /\ \A r \in Range(Rosters) : \A i, j \in DOMAIN r :   \* nobody is listed twice
         i # j => Ids(r[i]) \cap Ids(r[j]) = {}
    /\ MaxUpserts \in Nat

VARIABLES
    version,    \* the roster in force, an index into Rosters
    step,       \* of each pass: idle, the roster read, or the attendees resolved
    pending,    \* of each pass [meeting, roster, resolved, reviews], not yet written
    people,     \* Person nodes: the name and the opt-in of each address
    names,      \* every name a node has had
    attended,   \* ATTENDED: <<address, meeting>>
    reviews,    \* pending PersonReview nodes: <<meeting, name>>
    madeUnder,  \* of each node the roster of the pass that made it (0: no node)
    used,       \* of each meeting the rosters of the passes that wrote it
    optedIn,    \* addresses that some roster read by a pass has tracked
    upserts     \* so far

graph == <<people, names, attended, reviews>>
history == <<madeUnder, used>>
vars == <<version, step, pending, graph, history, optedIn, upserts>>

Person == [name : Names, tracked : BOOLEAN]
Resolution == [mail : Canonical, name : Names, tracked : BOOLEAN]
Nothing == [meeting |-> {}, roster |-> 0, resolved |-> <<>>, reviews |-> {}]

TypeOK ==
    /\ version \in 1 .. Len(Rosters)
    /\ step \in [Passes -> {"idle", "read", "write"}]
    /\ \A p \in Passes :
         /\ pending[p].meeting \subseteq Meetings
         /\ pending[p].roster \in 0 .. version
         /\ Range(pending[p].resolved) \subseteq Resolution
         /\ pending[p].reviews \subseteq Names
         /\ step[p] = "idle" => pending[p] = Nothing
    /\ \A x \in DOMAIN people : people[x] \in Person
    /\ names \in [Canonical -> SUBSET Names]
    /\ attended \subseteq (DOMAIN people) \X Meetings
    /\ reviews \subseteq Meetings \X Names
    /\ madeUnder \in [Canonical -> 0 .. version]
    /\ DOMAIN people = {x \in Canonical : madeUnder[x] # 0}
    /\ used \in [Meetings -> SUBSET (1 .. version)]
    /\ optedIn \subseteq Canonical
    /\ upserts \in 0 .. MaxUpserts

Init ==
    /\ version = 1
    /\ step = [p \in Passes |-> "idle"]
    /\ pending = [p \in Passes |-> Nothing]
    /\ people = << >>
    /\ names = [x \in Canonical |-> {}]
    /\ attended = {} /\ reviews = {} /\ optedIn = {}
    /\ madeUnder = [x \in Canonical |-> 0]
    /\ used = [m \in Meetings |-> {}]
    /\ upserts = 0
-----------------------------------------------------------------------------
(***************************************************************************)
(* One attendee.                                                           *)
(***************************************************************************)
\* Seeded bug: the aliases of the roster are not indexed.
PrimaryOnly(roster, mail) == {e \in Range(roster) : mail = e.mail}

\* match_email: the entry that lists the address, if any.
MatchEmail(roster, mail) == {e \in Range(roster) : mail \in Ids(e)}

\* match_name: the first of the entries whose name is most alike.
MatchName(roster, name) ==
    {roster[i] : i \in {i \in DOMAIN roster :
        /\ Likeness[name][roster[i].name] >= Threshold
        /\ \A j \in DOMAIN roster :
             \/ Likeness[name][roster[j].name] < Likeness[name][roster[i].name]
             \/ Likeness[name][roster[j].name] = Likeness[name][roster[i].name] /\ j >= i}}

\* The known people most alike, of whom the first in the list is taken.
MostAlike(known, name) ==
    {x \in DOMAIN known :
        /\ Likeness[name][known[x].name] >= Threshold
        /\ \A y \in DOMAIN known :
             Likeness[name][known[y].name] <= Likeness[name][known[x].name]}

FromEntry(e) == [mail |-> e.mail, name |-> e.name, tracked |-> e.tracked]

\* resolve(), as the set of its possible results: none is a review.  last is the
\* last person of the list, whose opt-in the result of the fuzzy match carries,
\* being what the loop variable is left at.
Resolve(a, roster, known, last) ==
    IF a.address # NoAddress THEN
        LET mail == Norm[a.address]
            entries == MatchEmail(roster, mail)
        IN  IF entries # {} THEN {FromEntry(e) : e \in entries}
            ELSE {[mail |-> mail, name |-> a.name, tracked |-> FALSE]}
    ELSE IF MatchName(roster, a.name) # {} THEN {FromEntry(e) : e \in MatchName(roster, a.name)}
    ELSE {[mail |-> x, name |-> known[x].name, tracked |-> known[last].tracked] :
             x \in {x \in MostAlike(known, a.name) : x # last \/ MostAlike(known, a.name) = {x}}}

\* resolve_attendees: one of the results of each attendee who has one, by the
\* attendee's place in the list; the others are held for review.
ResolveAttendees(as, roster, known, last) ==
    LET Results(i) == Resolve(as[i], roster, known, last)
        found == {i \in DOMAIN as : Results(i) # {}}
    IN  {[resolved |-> f, reviews |-> {as[i].name : i \in DOMAIN as \ found}] :
         f \in {f \in [found -> UNION {Results(i) : i \in found}] :
                    \A i \in found : f[i] \in Results(i)}}
-----------------------------------------------------------------------------
(***************************************************************************)
(* upsert_meeting_graph.                                                   *)
(***************************************************************************)
\* load_roster: the file is read afresh for every meeting.
LoadRoster(p, m) ==
    /\ step[p] = "idle" /\ step' = [step EXCEPT ![p] = "read"]
    /\ upserts < MaxUpserts /\ upserts' = upserts + 1
    /\ pending' = [pending EXCEPT ![p] = [Nothing EXCEPT !.meeting = {m}, !.roster = version]]
    /\ optedIn' = optedIn \cup {e.mail : e \in {e \in Range(Rosters[version]) : e.tracked}}
    /\ UNCHANGED <<version, graph, history>>

\* get_known_people, whose order is Memgraph's, and the resolution.
KnowPeople(p) ==
    /\ step[p] = "read" /\ step' = [step EXCEPT ![p] = "write"]
    /\ \E m \in pending[p].meeting,
          last \in IF people = << >> THEN {NoAddress} ELSE DOMAIN people :
         \E r \in ResolveAttendees(Attendees[m], Rosters[pending[p].roster], people, last) :
            pending' = [pending EXCEPT ![p] = [@ EXCEPT !.resolved = r.resolved,
                                                        !.reviews = r.reviews]]
    /\ UNCHANGED <<version, graph, history, optedIn, upserts>>

Mails(rs) == {rs[i].mail : i \in DOMAIN rs}
LastOf(rs, x) ==
    CHOOSE i \in DOMAIN rs :
        rs[i].mail = x /\ \A j \in DOMAIN rs : rs[j].mail = x => j <= i

\* Seeded bug: who has not opted in is not stored rather than not shown.
MergeTracked(nodes, rs) ==
    LET optIns == {rs[i].mail : i \in {i \in DOMAIN rs : rs[i].tracked}}
    IN  [x \in DOMAIN nodes \cup optIns |->
            IF x \in optIns THEN [name |-> rs[LastOf(rs, x)].name, tracked |-> TRUE]
            ELSE nodes[x]]

\* MERGE (p:Person {email}) for one resolution after another: the last sets the
\* name of a node, and its opt-in is kept.
MergePeople(nodes, rs) ==
    [x \in DOMAIN nodes \cup Mails(rs) |->
        IF x \notin Mails(rs) THEN nodes[x]
        ELSE [name    |-> rs[LastOf(rs, x)].name,
              tracked |-> \/ \E i \in DOMAIN rs : rs[i].mail = x /\ rs[i].tracked
                          \/ x \in DOMAIN nodes /\ nodes[x].tracked]]

\* The transaction writes the people in the order of the attendees.
Merge(p) ==
    LET w == pending[p]
    IN  /\ step[p] = "write" /\ step' = [step EXCEPT ![p] = "idle"]
        /\ people' = MergePeople(people, w.resolved)
        /\ names' = [x \in Canonical |-> names[x] \cup
                        {r.name : r \in {r \in Range(w.resolved) : r.mail = x}}]
        /\ attended' = attended \cup
             {<<r.mail, m>> : r \in Range(w.resolved), m \in w.meeting}
        /\ madeUnder' = [x \in Canonical |->
                            IF x \in Mails(w.resolved) \ DOMAIN people THEN w.roster
                            ELSE madeUnder[x]]
        /\ used' = [m \in Meetings |->
                       IF m \in w.meeting THEN used[m] \cup {w.roster} ELSE used[m]]
        /\ pending' = [pending EXCEPT ![p] = Nothing]
        /\ UNCHANGED <<version, optedIn, upserts>>

\* Seeded bug: those held for review are left out.
WriteResolved(p) == Merge(p) /\ UNCHANGED reviews

\* Then the reviews.
Write(p) == Merge(p) /\ reviews' = reviews \cup (pending[p].meeting \X pending[p].reviews)

\* The reading of the people or the transaction fails, and with_retry starts over
\* or gives up.
WriteFails(p) ==
    /\ step[p] # "idle"
    /\ step' = [step EXCEPT ![p] = "idle"]
    /\ pending' = [pending EXCEPT ![p] = Nothing]
    /\ UNCHANGED <<version, graph, history, optedIn, upserts>>

\* The operator installs the next roster.
EditRoster ==
    /\ version < Len(Rosters) /\ version' = version + 1
    /\ UNCHANGED <<step, pending, graph, history, optedIn, upserts>>

Pass(p) == (\E m \in Meetings : LoadRoster(p, m)) \/ KnowPeople(p) \/ Write(p) \/ WriteFails(p)

Next == (\E p \in Passes : Pass(p)) \/ EditRoster

Spec == Init /\ [][Next]_vars
-----------------------------------------------------------------------------
\* get_influential_nodes for label Person, with scores for all.
Leaderboard == {x \in DOMAIN people : people[x].tracked}

\* Whom an attendee may be taken for under a roster: the person who lists the
\* address, the address itself if nobody does, or somebody who is listed under, or
\* has had, a name that is alike enough.
MayBe(a, x, roster) ==
    IF a.address # NoAddress
    THEN LET mail == Norm[a.address]
         IN  IF \E e \in Range(roster) : mail \in Ids(e)
             THEN \E e \in Range(roster) : x = e.mail /\ mail \in Ids(e)
             ELSE x = mail
    ELSE \/ \E e \in Range(roster) : x = e.mail /\ Likeness[a.name][e.name] >= Threshold
         \/ /\ \A e \in Range(roster) : Likeness[a.name][e.name] < Threshold
            /\ \E n \in names[x] : Likeness[a.name][n] >= Threshold

(***************************************************************************)
(* No attendee of a meeting in the graph is dropped or taken for somebody  *)
(* else: by the roster of every pass that wrote the meeting, each attends  *)
(* as somebody they may be, or is held for review, whatever other passes   *)
(* wrote and whichever roster was installed between the reads and the      *)
(* write ("unresolved held for review, never silently dropped").           *)
(***************************************************************************)
EveryAttendeeIsKept ==
    \A m \in Meetings : \A v \in used[m], i \in DOMAIN Attendees[m] :
        \/ <<m, Attendees[m][i].name>> \in reviews
        \/ \E x \in Canonical : <<x, m>> \in attended /\ MayBe(Attendees[m][i], x, Rosters[v])

\* The roster lists the address as somebody's primary one or not at all.
Primary(x, roster) == \A e \in Range(roster) : x \in Ids(e) => x = e.mail

(***************************************************************************)
(* A person has one node: the roster that the pass had read which made the *)
(* node of an address lists it as a primary address or not at all (the     *)
(* duplicate-Person bug that person_resolver.py says it fixes).  So with   *)
(* one roster no alias ever is a node.  An alias that only a later roster  *)
(* lists may be one: of a meeting written before that roster was           *)
(* installed, and also after, by a pass that had read the one before.      *)
(***************************************************************************)
OneNodePerPerson == \A x \in DOMAIN people : Primary(x, Rosters[madeUnder[x]])

(***************************************************************************)
(* Only somebody a roster has opted in is ranked (get_influential_nodes:   *)
(* "an untracked individual is never surfaced in a leaderboard by          *)
(* default").                                                              *)
(***************************************************************************)
OnlyOptedInAreRanked == Leaderboard \subseteq optedIn
=============================================================================
