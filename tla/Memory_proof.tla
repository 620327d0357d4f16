---------------------------- MODULE Memory_proof ----------------------------
(***************************************************************************)
(* Proofs about Memory, for any meetings, attendees, dates and scenes: the *)
(* type invariant, that evidence is explained by the passes, that beliefs  *)
(* are earned, that a clean pass leaves a complete memory, and that a      *)
(* meeting follows at most one inferred procedure.                         *)
(*                                                                         *)
(* None of them is inductive as it stands.  A counter is compared with the *)
(* passes that have come past its layer, and a fact's with the statements  *)
(* that the passes have made; a preference is about to be inferred between *)
(* the count of the meetings and the model's answer; what a clean pass     *)
(* leaves is true of a pass under way from the layer on that writes it, as *)
(* long as no other pass over its meeting, nor a backfill, holds an older  *)
(* summary; and the meetings that discover_procedures has read stay        *)
(* without an inferred procedure until it has linked them.                 *)
(***************************************************************************)
EXTENDS Memory, FiniteSetTheorems, TLAPS

\* The steps of a pass after each layer.
PastFacts == {"mark", "done"}
PastEmbed == {"embed_facts"} \cup PastFacts
PastMatch == {"embed"} \cup PastEmbed
PastCause == {"match"} \cup PastMatch
PastLink == {"cause"} \cup PastCause
PastBonds == {"link"} \cup PastLink

\* The passes over ms that have come to one of the steps.
Done(ms, steps) == {n \in PassesOver(ms) : step[n] \in steps}

\* The type invariant by parts, with the types of functions and records; and that
\* a summary is that of a pass over its meeting, which saw the date it has.
TasksTyped ==
    /\ scene \in Scenes
    /\ row \in [Meetings -> [edition : Nat, date : Nat \ {0}, staged : BOOLEAN]]
    /\ \A m \in Meetings : row[m].edition >= 1 /\ row[m].edition <= edits + 1
    /\ step \in [Passes -> Steps]
    /\ meeting \in [Passes -> Meetings \cup {NoMeeting}]
    /\ seen \in [Passes -> [edition : Nat, date : Nat]]
    /\ said \in [Passes -> Nat]
    /\ \A n \in Passes :
         /\ said[n] <= scene.says
         /\ step[n] = "waiting" => meeting[n] = NoMeeting
         /\ step[n] # "waiting" => meeting[n] \in Meetings /\ seen[n].date # 0

NodesTyped ==
    /\ date \in [Meetings -> Nat]
    /\ summary \in [Meetings -> {0} \cup Passes]
    /\ clean \subseteq Present /\ moved \subseteq Present /\ decided \subseteq Present
    /\ attended \in [Meetings -> SUBSET Roles]
    /\ \A n \in Passes : step[n] \in DOMAIN After => date[meeting[n]] # 0
    /\ \A m \in Meetings :
         /\ date[m] = 0 => summary[m] = 0
         /\ date[m] # 0 => /\ summary[m] \in Passes /\ meeting[summary[m]] = m
                           /\ seen[summary[m]].date = date[m]
                           /\ step[summary[m]] \notin {"waiting", "read"}

EdgesTyped ==
    /\ chain \subseteq Present \X Present /\ causes \subseteq Present \X Causes
    /\ newcomers \in [Meetings -> SUBSET Present]

BeliefsTyped ==
    /\ fact \in [count : Nat, conf : 0 .. Certain, of : SUBSET Present, embedded : BOOLEAN]
    /\ (fact.count = 0) = (fact.conf = 0)
    /\ prefers \in {0} \cup 5 .. Certain
    /\ knows \in Nat

ProceduresTyped ==
    /\ known \in [count : Nat, of : SUBSET Present]
    /\ inferred \in [Names -> [made : BOOLEAN, of : SUBSET Present]]
    /\ \A x \in Names : inferred[x].made \/ inferred[x].of = {}
    /\ night \in [step : {"idle", "name", "write"}, unmatched : SUBSET Present,
                  name : SUBSET Names, cluster : SUBSET Present, used : SUBSET Names]
    /\ night.cluster \subseteq night.unmatched
    /\ \A x, y \in night.name : x = y /\ inferred[x].made

VectorsTyped ==
    /\ embedding \in [Meetings -> {0} \cup Passes] /\ backfill \in [Meetings -> {0} \cup Passes]
    /\ \A m \in Meetings :
         /\ embedding[m] # 0 => meeting[embedding[m]] = m
         /\ backfill[m] # 0 => meeting[backfill[m]] = m

BoundsTyped ==
    <<nights, faults, edits>> \in (0 .. scene.nights) \X (0 .. scene.faults) \X (0 .. scene.edits)

TypeInv ==
    /\ TasksTyped /\ NodesTyped /\ EdgesTyped /\ BeliefsTyped /\ ProceduresTyped
    /\ VectorsTyped /\ BoundsTyped

\* The statements that were made of the fact, by the pass that made each.
Statements == {e \in Passes \X (1 .. scene.says) : e[2] <= said[e[1]]}

FactCounted ==
    /\ Cardinality(fact.of) <= fact.count /\ fact.count <= Cardinality(Statements)
    /\ \A n \in Passes : said[n] # 0 => meeting[n] \in fact.of

KnownCounted ==
    /\ Cardinality(known.of) <= known.count
    /\ known.count <= Cardinality(Done(known.of, PastMatch))

KnowsCounted ==
    knows <= Cardinality(Done(PairMeetings, PastBonds)) * (scene.listed * scene.listed)

CausesOf(m) == {p \in causes : p[1] = m}
CausesCounted ==
    \A m \in Meetings : Cardinality(CausesOf(m)) <= Cardinality(Done({m}, PastCause))

EvidenceInv == FactCounted /\ KnownCounted /\ KnowsCounted /\ CausesCounted

HasMet ==
    \/ Cardinality({m \in Meetings : attended[m] # {}}) >= Enough
    \/ \E m \in Meetings : attended[m] = Roles

FactEarned ==
    /\ fact.conf = Certain => fact.count >= Enough
    /\ fact.conf > fact.count + 2 => fact.count >= Enough
    /\ fact.conf <= fact.count + 2 + 2 * nights
    /\ fact.count > 0 => fact.conf >= Least(Certain, fact.count + 2)
PreferenceEarned == prefers > 0 \/ (\E n \in Passes : At(n, "prefer")) => HasMet

BeliefInv == FactEarned /\ PreferenceEarned

\* Nobody holds an older summary than the one that the graph has.
Alone(m) ==
    /\ \A n \in Passes : meeting[n] = m /\ step[n] \in ToEmbed => n = summary[m]
    /\ backfill[m] \in {0, summary[m]}

AloneInv == \A m \in clean : Alone(m)
LinkedInv == \A m \in clean : step[summary[m]] \in PastLink => Linked(m)
EmbeddedInv ==
    \A m \in clean :
        /\ step[summary[m]] \in PastEmbed => embedding[m] = summary[m]
        /\ step[summary[m]] \in PastFacts /\ m \in fact.of => fact.embedded

CleanInv == AloneInv /\ LinkedInv /\ EmbeddedInv

ProcedureInv ==
    /\ \A x, y \in Names : x # y => inferred[x].of \cap inferred[y].of = {}
    /\ \A x \in Names : night.unmatched \cap inferred[x].of = {}
-----------------------------------------------------------------------------
(***************************************************************************)
(* The bounds of a behaviour, and sizes.                                   *)
(***************************************************************************)
LEMMA SceneFacts ==
    ASSUME scene \in Scenes
    PROVE  /\ scene.nights \in Nat /\ scene.faults \in Nat /\ scene.edits \in Nat
           /\ scene.passes \in Nat /\ scene.pollers \in Nat
           /\ scene.says \in Nat \ {0} /\ scene.listed \in Nat \ {0}
           /\ scene.rows \subseteq Meetings /\ scene.dates \subseteq Nat \ {0}
<1>1. /\ {scene.pollers, scene.nights, scene.faults, scene.edits} \subseteq Nat
      /\ scene.passes \in 0 .. MaxPasses /\ MaxPasses \in Nat
      /\ {scene.says, scene.listed} \subseteq Nat \ {0}
      /\ scene.dates \subseteq Nat \ {0}
      /\ scene.rows \cup scene.misspelt \subseteq Meetings
  BY MemoryAssumption
<1> QED
  BY <1>1

LEMMA MeetingsAreFinite ==
    ASSUME NEW S, S \subseteq Meetings
    PROVE  IsFiniteSet(S) /\ Cardinality(S) \in Nat
BY MemoryAssumption, FS_Subset, FS_CardinalityType

LEMMA PassesAreFinite ==
    ASSUME NEW S, S \subseteq Passes
    PROVE  IsFiniteSet(S) /\ Cardinality(S) \in Nat
<1>1. IsFiniteSet(1 .. MaxPasses)
  BY MemoryAssumption, FS_Interval
<1> QED
  BY <1>1, FS_Subset, FS_CardinalityType DEF Passes

LEMMA DoneIsPasses ==
    ASSUME NEW ms, NEW steps
    PROVE  /\ Done(ms, steps) \subseteq PassesOver(ms) /\ PassesOver(ms) \subseteq Passes
           /\ Cardinality(Done(ms, steps)) \in Nat /\ Cardinality(PassesOver(ms)) \in Nat
           /\ Cardinality(Done(ms, steps)) <= Cardinality(PassesOver(ms))
<1>1. Done(ms, steps) \subseteq PassesOver(ms) /\ PassesOver(ms) \subseteq Passes
  BY DEF Done, PassesOver
<1>2. Cardinality(Done(ms, steps)) <= Cardinality(PassesOver(ms))
  BY <1>1, PassesAreFinite, FS_Subset
<1> QED
  BY <1>1, <1>2, PassesAreFinite

\* A set of passes that grows, by at least one other.
LEMMA MorePasses ==
    ASSUME NEW S, NEW T, S \subseteq T, T \subseteq Passes
    PROVE  /\ Cardinality(S) \in Nat /\ Cardinality(T) \in Nat
           /\ Cardinality(S) <= Cardinality(T)
           /\ \A x \in T : x \notin S => Cardinality(S) + 1 <= Cardinality(T)
<1>1. S \subseteq Passes
  OBVIOUS
<1>2. Cardinality(S) \in Nat /\ Cardinality(T) \in Nat /\ Cardinality(S) <= Cardinality(T)
  BY <1>1, PassesAreFinite, FS_Subset
<1>3. ASSUME NEW x \in T, x \notin S
      PROVE  Cardinality(S) + 1 <= Cardinality(T)
  <2>1. S \subseteq T \ {x} /\ T \ {x} \subseteq Passes
    BY <1>3
  <2>2. Cardinality(S) <= Cardinality(T \ {x}) /\ Cardinality(T \ {x}) \in Nat
    BY <2>1, PassesAreFinite, FS_Subset
  <2>3. Cardinality(T \ {x}) = Cardinality(T) - 1
    BY PassesAreFinite, FS_RemoveElement
  <2> QED BY <1>2, <2>2, <2>3
<1> QED
  BY <1>2, <1>3

\* A set that grows by one element.
LEMMA OneMore ==
    ASSUME NEW S, IsFiniteSet(S), NEW x
    PROVE  /\ IsFiniteSet(S \cup {x})
           /\ Cardinality(S) \in Nat /\ Cardinality(S \cup {x}) \in Nat
           /\ Cardinality(S \cup {x}) <= Cardinality(S) + 1
           /\ x \notin S => Cardinality(S \cup {x}) = Cardinality(S) + 1
<1>1. Cardinality(S) \in Nat
  BY FS_CardinalityType
<1>2. IsFiniteSet(S \cup {x})
      /\ Cardinality(S \cup {x}) = IF x \in S THEN Cardinality(S) ELSE Cardinality(S) + 1
  BY FS_AddElement
<1>3. Cardinality(S \cup {x}) \in Nat
  BY <1>2, FS_CardinalityType
<1> QED
  BY <1>1, <1>2, <1>3
-----------------------------------------------------------------------------
(***************************************************************************)
(* Types: of the initial states, and of a pass that reads its row and      *)
(* writes its meeting.                                                     *)
(***************************************************************************)
LEMMA TypeInvType == TypeInv => TypeOK
<1> SUFFICES ASSUME TypeInv
             PROVE  TypeOK
  OBVIOUS
<1> USE DEF TypeInv
<1>0. scene.says \in Nat /\ edits \in Nat
  BY SceneFacts DEF TasksTyped, BoundsTyped
<1>1. /\ scene \in Scenes /\ step \in [Passes -> Steps]
      /\ \A m \in Meetings :
           row[m].edition \in 1 .. edits + 1 /\ row[m].date # 0 /\ row[m].staged \in BOOLEAN
  BY <1>0 DEF TasksTyped
<1>2. \A n \in Passes :
        /\ IF step[n] = "waiting" THEN meeting[n] = NoMeeting ELSE meeting[n] \in Meetings
        /\ step[n] \in DOMAIN After => meeting[n] \in Present
        /\ said[n] \in 0 .. scene.says
  <2> SUFFICES ASSUME NEW n \in Passes
               PROVE  /\ IF step[n] = "waiting" THEN meeting[n] = NoMeeting
                         ELSE meeting[n] \in Meetings
                      /\ step[n] \in DOMAIN After => meeting[n] \in Present
                      /\ said[n] \in 0 .. scene.says
    OBVIOUS
  <2>1. said[n] \in 0 .. scene.says
    BY <1>0 DEF TasksTyped
  <2>2. step[n] \in DOMAIN After => meeting[n] \in Present
    BY DEF TasksTyped, NodesTyped, Present, After
  <2> QED BY <2>1, <2>2 DEF TasksTyped
<1>3. /\ clean \cup moved \cup decided \subseteq Present
      /\ attended \in [Meetings -> SUBSET Roles]
      /\ \A m \in Meetings :
           IF m \in Present THEN summary[m] \in PassesOver({m}) ELSE summary[m] = 0
  BY DEF NodesTyped, Present, PassesOver
<1>4. \A m \in Meetings : {embedding[m], backfill[m]} \subseteq {0} \cup PassesOver({m})
  BY DEF VectorsTyped, PassesOver
<1> QED
  BY <1>1, <1>2, <1>3, <1>4
     DEF TypeOK, EdgesTyped, BeliefsTyped, ProceduresTyped, BoundsTyped

LEMMA InitType == Init => TypeInv
<1> SUFFICES ASSUME Init
             PROVE  TypeInv
  OBVIOUS
<1> USE DEF Init
<1>0. /\ scene.nights \in Nat /\ scene.faults \in Nat /\ scene.edits \in Nat
      /\ scene.says \in Nat /\ MaxPasses \in Nat
  BY SceneFacts, MemoryAssumption
<1>1. TasksTyped
  <2>1. row \in [Meetings -> [edition : Nat, date : Nat \ {0}, staged : BOOLEAN]]
    BY MemoryAssumption
  <2>2. step \in [Passes -> Steps]
    BY DEF Steps
  <2>3. \A n \in Passes : said[n] <= scene.says /\ step[n] = "waiting" /\ meeting[n] = NoMeeting
    BY <1>0
  <2> QED BY <1>0, <2>1, <2>2, <2>3 DEF TasksTyped
<1>2. NodesTyped
  BY DEF NodesTyped, After
<1>3. EdgesTyped
  BY DEF EdgesTyped
<1>4. BeliefsTyped
  BY DEF BeliefsTyped, Certain
<1>5. ProceduresTyped
  BY DEF ProceduresTyped, Asleep
<1>6. VectorsTyped /\ BoundsTyped
  BY <1>0 DEF VectorsTyped, BoundsTyped
<1> QED
  BY <1>1, <1>2, <1>3, <1>4, <1>5, <1>6 DEF TypeInv

LEMMA ReadType ==
    ASSUME TypeInv, NEW n \in Passes, NEW m \in Meetings, ReadRow(n, m)
    PROVE  TypeInv'
<1> USE DEF TypeInv
<1>1. /\ step[n] = "waiting" /\ step' = [step EXCEPT ![n] = "read"]
      /\ meeting' = [meeting EXCEPT ![n] = m]
      /\ seen' = [seen EXCEPT ![n] = [edition |-> row[m].edition, date |-> row[m].date]]
      /\ UNCHANGED <<scene, row, said, clean, nodes, edges, beliefs, procedures, vectors,
                     night, bounds>>
  BY DEF ReadRow, At, Goto
<1>2. row[m].edition \in Nat /\ row[m].date \in Nat /\ row[m].date # 0
  BY DEF TasksTyped
<1>3. TasksTyped'
  <2>1. /\ step' \in [Passes -> Steps] /\ meeting' \in [Passes -> Meetings \cup {NoMeeting}]
        /\ seen' \in [Passes -> [edition : Nat, date : Nat]]
    BY <1>1, <1>2 DEF TasksTyped, Steps
  <2>2. \A k \in Passes : /\ step'[k] = IF k = n THEN "read" ELSE step[k]
                          /\ meeting'[k] = IF k = n THEN m ELSE meeting[k]
                          /\ seen'[k].date = IF k = n THEN row[m].date ELSE seen[k].date
    BY <1>1 DEF TasksTyped
  <2> QED BY <1>1, <1>2, <2>1, <2>2 DEF TasksTyped, bounds
<1>4. UNCHANGED <<date, summary, clean, moved, attended, decided, Present, Causes>>
  BY <1>1 DEF nodes, Present, Causes
<1>5. NodesTyped'
  <2>1. \A k \in Passes : /\ step'[k] \in DOMAIN After => k # n
                          /\ step[k] # "waiting" => k # n
                          /\ k # n => UNCHANGED <<step[k], meeting[k], seen[k]>>
    BY <1>1 DEF TasksTyped, After
  <2>2. \A k \in Passes : step'[k] \in DOMAIN After => date'[meeting'[k]] # 0
    BY <1>4, <2>1 DEF NodesTyped
  <2>3. \A k \in Meetings :
          /\ date[k] = 0 => summary[k] = 0
          /\ date[k] # 0 => /\ summary[k] \in Passes /\ meeting'[summary[k]] = k
                            /\ seen'[summary[k]].date = date[k]
                            /\ step'[summary[k]] \notin {"waiting", "read"}
    BY <2>1 DEF NodesTyped
  <2> QED BY <1>4, <2>2, <2>3 DEF NodesTyped
<1>6. EdgesTyped' /\ BeliefsTyped' /\ ProceduresTyped' /\ BoundsTyped'
  BY <1>1, <1>4 DEF EdgesTyped, BeliefsTyped, ProceduresTyped, BoundsTyped, edges, beliefs,
                    procedures, bounds
<1>7. VectorsTyped'
  <2>1. \A k \in Passes : k # n => meeting'[k] = meeting[k]
    BY <1>1 DEF TasksTyped
  <2>2. \A k \in Meetings : embedding[k] # n /\ backfill[k] # n
    <3>1. meeting[n] = NoMeeting /\ NoMeeting \notin Meetings /\ n # 0
      BY <1>1, MemoryAssumption DEF TasksTyped, Passes
    <3> QED BY <3>1 DEF VectorsTyped
  <2> QED BY <1>1, <2>1, <2>2 DEF VectorsTyped, vectors
<1> QED
  BY <1>3, <1>5, <1>6, <1>7

LEMMA WriteIsUpsert ==
    ASSUME NEW n \in Passes, Write(n)
    PROVE  \E role \in Roles, decides \in BOOLEAN : Upsert(n, role, decides)
<1>1. PICK role \in IF Tells("role") THEN Roles ELSE {"contributor"},
           decides \in IF Tells("decision") THEN BOOLEAN ELSE {FALSE} : Upsert(n, role, decides)
  BY DEF Write
<1>2. role \in Roles
  BY <1>1 DEF Roles
<1>3. decides \in BOOLEAN
  BY <1>1
<1> QED
  BY <1>1, <1>2, <1>3

\* What an upsert does, with the meeting and the date of the pass.
Upserts(n, m, d, role, decides) ==
    /\ m = meeting[n] /\ d = seen[n].date /\ m \in Meetings /\ d \in Nat \ {0}
    /\ step[n] = "read" /\ step' = [step EXCEPT ![n] = "facts"]
    /\ clean' = IF Held(m) THEN clean \ {m} ELSE clean \cup {m}
    /\ summary' = [summary EXCEPT ![m] = n]
    /\ date' = [date EXCEPT ![m] = d]
    /\ moved' = IF date[m] \in {0, d} THEN moved ELSE moved \cup {m}
    /\ attended' = IF Person \in Attendees[m] THEN [attended EXCEPT ![m] = @ \cup {role}]
                   ELSE attended
    /\ decided' = IF decides THEN decided \cup {m} ELSE decided
    /\ newcomers' = IF date[m] = d THEN newcomers
                    ELSE [k \in Meetings |-> newcomers[k] \cup {m}]
    /\ UNCHANGED <<scene, row, meeting, seen, said, chain, causes, fact, prefers, knows,
                   known, inferred, embedding, backfill, night, nights, faults, edits>>

LEMMA UpsertFacts ==
    ASSUME TypeInv, NEW n \in Passes, Write(n)
    PROVE  \E m \in Meetings, d \in Nat \ {0}, role \in Roles, decides \in BOOLEAN :
             Upserts(n, m, d, role, decides)
<1>1. PICK role \in Roles, decides \in BOOLEAN : Upsert(n, role, decides)
  BY WriteIsUpsert
<1>2. step[n] = "read"
  BY <1>1 DEF Upsert, At
<1>3. meeting[n] \in Meetings /\ seen[n].date \in Nat \ {0}
  BY <1>2 DEF TypeInv, TasksTyped
<1>4. Upserts(n, meeting[n], seen[n].date, role, decides)
  BY <1>1, <1>3 DEF Upsert, Upserts, At, Goto, Reading, beliefs, procedures, vectors, bounds
<1> QED
  BY <1>1, <1>3, <1>4

LEMMA WriteType ==
    ASSUME TypeInv, NEW n \in Passes, Write(n)
    PROVE  TypeInv'
<1> USE DEF TypeInv
<1>1. PICK m \in Meetings, d \in Nat \ {0}, role \in Roles, decides \in BOOLEAN :
        Upserts(n, m, d, role, decides)
  BY UpsertFacts
<1>2. TasksTyped'
  BY <1>1 DEF Upserts, TasksTyped, Steps, After
<1>3. /\ Present' = Present \cup {m} /\ Causes \subseteq Causes'
      /\ date' \in [Meetings -> Nat]
      /\ \A k \in Meetings : date'[k] = IF k = m THEN d ELSE date[k]
  <2>1. /\ date' \in [Meetings -> Nat]
        /\ \A k \in Meetings : date'[k] = IF k = m THEN d ELSE date[k]
    BY <1>1 DEF Upserts, NodesTyped
  <2>2. Present' = Present \cup {m}
    BY <2>1 DEF Present
  <2> QED BY <2>1, <2>2 DEF Causes
<1>4. NodesTyped'
  <2>1. /\ summary' \in [Meetings -> {0} \cup Passes]
        /\ \A k \in Meetings : summary'[k] = IF k = m THEN n ELSE summary[k]
    BY <1>1 DEF Upserts, NodesTyped
  <2>2. clean' \subseteq Present' /\ moved' \subseteq Present' /\ decided' \subseteq Present'
    BY <1>1, <1>3 DEF Upserts, NodesTyped
  <2>3. attended' \in [Meetings -> SUBSET Roles]
    BY <1>1 DEF Upserts, NodesTyped
  <2>4. \A k \in Passes : /\ step'[k] = IF k = n THEN "facts" ELSE step[k]
                          /\ meeting'[k] = meeting[k] /\ seen'[k] = seen[k]
    BY <1>1 DEF Upserts, TasksTyped
  <2>5. \A k \in Passes : step'[k] \in DOMAIN After => date'[meeting'[k]] # 0
    <3> SUFFICES ASSUME NEW k \in Passes, step'[k] \in DOMAIN After
                 PROVE  date'[meeting'[k]] # 0
      OBVIOUS
    <3>1. CASE k = n
      BY <1>1, <1>3, <2>4, <3>1 DEF Upserts
    <3>2. CASE k # n
      <4>1. step[k] \in DOMAIN After /\ meeting[k] \in Meetings /\ date[meeting[k]] # 0
        BY <2>4, <3>2 DEF TasksTyped, NodesTyped, After
      <4> QED BY <1>3, <2>4, <4>1
    <3> QED BY <3>1, <3>2
  <2>6. \A k \in Meetings :
          /\ date'[k] = 0 => summary'[k] = 0
          /\ date'[k] # 0 => /\ summary'[k] \in Passes /\ meeting'[summary'[k]] = k
                             /\ seen'[summary'[k]].date = date'[k]
                             /\ step'[summary'[k]] \notin {"waiting", "read"}
    <3> SUFFICES ASSUME NEW k \in Meetings
                 PROVE  /\ date'[k] = 0 => summary'[k] = 0
                        /\ date'[k] # 0 => /\ summary'[k] \in Passes /\ meeting'[summary'[k]] = k
                                           /\ seen'[summary'[k]].date = date'[k]
                                           /\ step'[summary'[k]] \notin {"waiting", "read"}
      OBVIOUS
    <3>1. CASE k = m
      BY <1>1, <1>3, <2>1, <2>4, <3>1 DEF Upserts
    <3>2. CASE k # m
      BY <1>3, <2>1, <2>4, <3>2 DEF NodesTyped
    <3> QED BY <3>1, <3>2
  <2> QED BY <1>3, <2>1, <2>2, <2>3, <2>5, <2>6 DEF NodesTyped
<1>5. EdgesTyped'
  <2>1. chain' \subseteq Present' \X Present' /\ causes' \subseteq Present' \X Causes'
    BY <1>1, <1>3 DEF EdgesTyped, Upserts
  <2>2. newcomers' \in [Meetings -> SUBSET Present']
    BY <1>1, <1>3 DEF EdgesTyped, Upserts
  <2> QED BY <2>1, <2>2 DEF EdgesTyped
<1>6. BeliefsTyped' /\ ProceduresTyped'
  BY <1>1, <1>3 DEF BeliefsTyped, ProceduresTyped, Upserts
<1>7. VectorsTyped' /\ BoundsTyped'
  BY <1>1 DEF VectorsTyped, BoundsTyped, Upserts
<1> QED
  BY <1>2, <1>4, <1>5, <1>6, <1>7
-----------------------------------------------------------------------------
(***************************************************************************)
(* What a step other than a read or a graph write may do: passes only move *)
(* onward, and each layer changes by few actions.                          *)
(***************************************************************************)
Moves(n, from, to) == step[n] = from /\ step' = [step EXCEPT ![n] = to]

Onward ==
    /\ step' \in [Passes -> Steps]
    /\ \A n \in Passes :
         /\ (step'[n] = "waiting") = (step[n] = "waiting")
         /\ step'[n] = "read" => step[n] = "read"
         /\ step'[n] \in DOMAIN After => step[n] \in DOMAIN After
         /\ step'[n] \in ToEmbed => step[n] \in ToEmbed
         /\ step[n] \in PastBonds => step'[n] \in PastBonds
         /\ step[n] \in PastCause => step'[n] \in PastCause
         /\ step[n] \in PastMatch => step'[n] \in PastMatch
         /\ step'[n] = "prefer" => step[n] = "prefer" \/ Cardinality(AttendedEdges) >= Enough

RowsChange ==
    \/ UNCHANGED <<row, edits>>
    \/ \E m \in Meetings : Restage(m)
    \/ /\ UNCHANGED edits
       /\ \E m \in Meetings, b \in BOOLEAN : row' = [row EXCEPT ![m].staged = b]

FactChanges ==
    \/ UNCHANGED <<said, fact>> /\ (nights' = nights \/ nights' = nights + 1)
    \/ \E n \in Passes : /\ step[n] = "facts" /\ said[n] < scene.says
                         /\ said' = [said EXCEPT ![n] = @ + 1]
                         /\ fact' = StateFact(meeting[n]) /\ UNCHANGED <<step, nights>>
    \/ UNCHANGED <<said, nights>> /\ fact' = [fact EXCEPT !.embedded = TRUE]
    \/ UNCHANGED said /\ Consolidate

PrefersChanges ==
    \/ UNCHANGED prefers
    \/ \E n \in Passes : /\ At(n, "prefer")
                         /\ prefers' = IF prefers = 0 THEN 5 ELSE Least(Certain, prefers + 1)

KnowsChanges ==
    \/ UNCHANGED knows
    \/ \E n \in Passes, i, j \in 1 .. scene.listed :
         /\ Moves(n, "bonds", "link") /\ Pair \subseteq Attendees[meeting[n]]
         /\ knows' = knows + i * j

KnownChanges ==
    \/ UNCHANGED known
    \/ \E n \in Passes :
         /\ Moves(n, "match", "embed")
         /\ known' = [count |-> known.count + 1, of |-> known.of \cup {meeting[n]}]

ChainChanges == UNCHANGED <<chain, newcomers>> \/ \E n \in Passes : Link(n)

CausesChange ==
    \/ UNCHANGED causes
    \/ \E n \in Passes, c \in Causes :
         Moves(n, "cause", "match") /\ causes' = causes \cup {<<meeting[n], c>>}

ProceduresChange ==
    \/ UNCHANGED <<inferred, night>>
    \/ UNCHANGED inferred /\ night' = Asleep
    \/ ReadUnmatched \/ NameCluster \/ LinkCluster

VectorsChange ==
    \/ UNCHANGED <<embedding, backfill>>
    \/ \E n \in Passes : /\ Moves(n, "embed", "embed_facts") /\ UNCHANGED backfill
                         /\ embedding' = [embedding EXCEPT ![meeting[n]] = n]
    \/ BackfillRead
    \/ \E m \in Meetings : BackfillMeeting(m)

Rest ==
    /\ UNCHANGED <<scene, meeting, seen, summary, date, moved, attended, decided>>
    /\ clean' \subseteq clean
    /\ Onward
    /\ RowsChange /\ BoundsTyped'
    /\ FactChanges /\ PrefersChanges /\ KnowsChanges /\ KnownChanges
    /\ ChainChanges /\ CausesChange /\ ProceduresChange /\ VectorsChange

LEMMA OnwardOne ==
    ASSUME step \in [Passes -> Steps], NEW n \in Passes, NEW t,
           step' = [step EXCEPT ![n] = t],
           \/ step[n] = "read" /\ t \in {"mark", "done"}
           \/ step[n] \in DOMAIN After /\ t \in {After[step[n]], "mark", "done"}
           \/ step[n] = "prefs" /\ t = "prefer" /\ Cardinality(AttendedEdges) >= Enough
           \/ step[n] = "mark" /\ t = "done"
    PROVE  Onward
<1>1. t \in Steps
  BY DEF Steps, After
<1>2. step' \in [Passes -> Steps] /\ step'[n] = t /\ \A k \in Passes : k # n => step'[k] = step[k]
  BY <1>1
<1>3. /\ t \notin {"waiting", "read"} /\ step[n] # "waiting"
      /\ t \in DOMAIN After => step[n] \in DOMAIN After
      /\ t \in ToEmbed => step[n] \in ToEmbed
      /\ t = "prefer" => Cardinality(AttendedEdges) >= Enough
  BY DEF After, ToEmbed
<1>4. /\ step[n] \in PastBonds => t \in PastBonds
      /\ step[n] \in PastCause => t \in PastCause
      /\ step[n] \in PastMatch => t \in PastMatch
  BY DEF After, PastBonds, PastLink, PastCause, PastMatch, PastEmbed, PastFacts
<1> QED
  BY <1>2, <1>3, <1>4 DEF Onward

LEMMA OnwardNone ==
    ASSUME step \in [Passes -> Steps], UNCHANGED step
    PROVE  Onward
BY DEF Onward

IsRead == \E n \in Passes, m \in Meetings : ReadRow(n, m)
IsWrite == \E n \in Passes : Write(n)

LEMMA BoundsStep ==
    ASSUME TypeInv, UNCHANGED scene,
           \/ UNCHANGED faults
           \/ Fails,
           \/ UNCHANGED nights
           \/ nights < scene.nights /\ nights' = nights + 1,
           \/ UNCHANGED edits
           \/ edits < scene.edits /\ edits' = edits + 1
    PROVE  BoundsTyped'
<1>1. /\ scene.nights \in Nat /\ scene.faults \in Nat /\ scene.edits \in Nat
      /\ nights \in 0 .. scene.nights /\ faults \in 0 .. scene.faults
      /\ edits \in 0 .. scene.edits
  BY SceneFacts DEF TypeInv, TasksTyped, BoundsTyped
<1>2. nights' \in 0 .. scene.nights /\ faults' \in 0 .. scene.faults /\ edits' \in 0 .. scene.edits
  BY <1>1 DEF Fails
<1> QED
  BY <1>2 DEF BoundsTyped

LEMMA Effects ==
    ASSUME TypeInv, [Next]_vars, ~IsRead, ~IsWrite
    PROVE  Rest
<1>0. step \in [Passes -> Steps] /\ clean \subseteq Present
  BY DEF TypeInv, TasksTyped, NodesTyped
<1> USE DEF At, Goto, Advance, Works, Reading, GivesNone, tasks, nodes, edges, beliefs,
            procedures, vectors, bounds
<1>1. ASSUME NEW n \in Passes, ExtractionFails(n)
      PROVE  Rest
  <2>1. Onward
    BY <1>0, <1>1, OnwardOne DEF ExtractionFails
  <2>2. BoundsTyped'
    BY <1>1, BoundsStep DEF ExtractionFails
  <2> QED BY <1>1, <2>1, <2>2
          DEF Rest, ExtractionFails, RowsChange, FactChanges, PrefersChanges, KnowsChanges,
              KnownChanges, ChainChanges, CausesChange, ProceduresChange, VectorsChange
<1>2. ASSUME NEW n \in Passes, PushFails(n)
      PROVE  Rest
  <2>1. Onward
    BY <1>0, <1>2, OnwardOne DEF PushFails, After
  <2>2. BoundsTyped'
    BY <1>2, BoundsStep DEF PushFails
  <2> QED BY <1>2, <2>1, <2>2
          DEF Rest, PushFails, Spoils, RowsChange, FactChanges, PrefersChanges, KnowsChanges,
              KnownChanges, ChainChanges, CausesChange, ProceduresChange, VectorsChange
<1>3. ASSUME NEW n \in Passes, ExtractFacts(n)
      PROVE  Rest
  <2>1. Onward
    BY <1>0, <1>3, OnwardOne, OnwardNone DEF ExtractFacts, After
  <2>2. BoundsTyped'
    BY <1>3, BoundsStep DEF ExtractFacts
  <2>3. FactChanges
    BY <1>3 DEF ExtractFacts, FactChanges
  <2> QED BY <1>3, <2>1, <2>2, <2>3
          DEF Rest, ExtractFacts, RowsChange, PrefersChanges, KnowsChanges,
              KnownChanges, ChainChanges, CausesChange, ProceduresChange, VectorsChange
<1>4. ASSUME NEW n \in Passes, CountMeetings(n)
      PROVE  Rest
  <2>1. Onward
    <3>1. PICK t \in {"prefer", "bonds"} :
            /\ step[n] = "prefs" /\ step' = [step EXCEPT ![n] = t]
            /\ t = "prefer" => Cardinality(AttendedEdges) >= Enough
      BY <1>4 DEF CountMeetings
    <3>2. step[n] \in DOMAIN After /\ After[step[n]] = "bonds"
      BY <3>1 DEF After
    <3> QED BY <1>0, <3>1, <3>2, OnwardOne
  <2>2. BoundsTyped'
    BY <1>4, BoundsStep DEF CountMeetings
  <2> QED BY <1>4, <2>1, <2>2
          DEF Rest, CountMeetings, RowsChange, FactChanges, PrefersChanges, KnowsChanges,
              KnownChanges, ChainChanges, CausesChange, ProceduresChange, VectorsChange
<1>5. ASSUME NEW n \in Passes, InferPreference(n)
      PROVE  Rest
  <2>1. Onward
    BY <1>0, <1>5, OnwardOne, OnwardNone DEF InferPreference, After
  <2>2. BoundsTyped'
    BY <1>5, BoundsStep DEF InferPreference
  <2>3. PrefersChanges
    BY <1>5 DEF InferPreference, PrefersChanges
  <2> QED BY <1>5, <2>1, <2>2, <2>3
          DEF Rest, InferPreference, RowsChange, FactChanges, KnowsChanges,
              KnownChanges, ChainChanges, CausesChange, ProceduresChange, VectorsChange
<1>6. ASSUME NEW n \in Passes, Strengthen(n)
      PROVE  Rest
  <2>1. Onward
    BY <1>0, <1>6, OnwardOne DEF Strengthen, After
  <2>2. BoundsTyped'
    BY <1>6, BoundsStep DEF Strengthen
  <2>3. KnowsChanges
    <3>1. Moves(n, "bonds", "link")
      BY <1>6 DEF Strengthen, Moves, After
    <3> QED BY <1>6, <3>1 DEF Strengthen, KnowsChanges
  <2> QED BY <1>6, <2>1, <2>2, <2>3
          DEF Rest, Strengthen, RowsChange, FactChanges, PrefersChanges,
              KnownChanges, ChainChanges, CausesChange, ProceduresChange, VectorsChange
<1>7. ASSUME NEW n \in Passes, Link(n)
      PROVE  Rest
  <2>1. Onward
    BY <1>0, <1>7, OnwardOne DEF Link, After
  <2>2. BoundsTyped'
    BY <1>7, BoundsStep DEF Link
  <2>3. ChainChanges
    BY <1>7 DEF ChainChanges
  <2> QED BY <1>7, <2>1, <2>2, <2>3
          DEF Rest, Link, RowsChange, FactChanges, PrefersChanges, KnowsChanges,
              KnownChanges, CausesChange, ProceduresChange, VectorsChange
<1>8. ASSUME NEW n \in Passes, DetectCausality(n)
      PROVE  Rest
  <2>1. Onward
    BY <1>0, <1>8, OnwardOne DEF DetectCausality, After
  <2>2. BoundsTyped'
    BY <1>8, BoundsStep DEF DetectCausality
  <2>3. CausesChange
    <3>1. ({"decision"} \X decided) \cup ({"meeting"} \X (Present \ {meeting[n]})) \subseteq Causes
      BY DEF TypeInv, NodesTyped, Causes
    <3>2. Moves(n, "cause", "match")
      BY <1>8 DEF DetectCausality, Moves, After
    <3> QED BY <1>8, <3>1, <3>2 DEF DetectCausality, CausesChange
  <2> QED BY <1>8, <2>1, <2>2, <2>3
          DEF Rest, DetectCausality, RowsChange, FactChanges, PrefersChanges, KnowsChanges,
              KnownChanges, ChainChanges, ProceduresChange, VectorsChange
<1>9. ASSUME NEW n \in Passes, MatchProcedure(n)
      PROVE  Rest
  <2>1. Onward
    BY <1>0, <1>9, OnwardOne DEF MatchProcedure, After
  <2>2. BoundsTyped'
    BY <1>9, BoundsStep DEF MatchProcedure
  <2>3. KnownChanges
    <3>1. Moves(n, "match", "embed")
      BY <1>9 DEF MatchProcedure, Moves, After
    <3> QED BY <1>9, <3>1 DEF MatchProcedure, KnownChanges
  <2> QED BY <1>9, <2>1, <2>2, <2>3
          DEF Rest, MatchProcedure, RowsChange, FactChanges, PrefersChanges, KnowsChanges,
              ChainChanges, CausesChange, ProceduresChange, VectorsChange
<1>10. ASSUME NEW n \in Passes, EmbedMeeting(n)
      PROVE  Rest
  <2>1. Onward
    BY <1>0, <1>10, OnwardOne DEF EmbedMeeting, After
  <2>2. BoundsTyped'
    BY <1>10, BoundsStep DEF EmbedMeeting
  <2>3. VectorsChange
    <3>1. Moves(n, "embed", "embed_facts")
      BY <1>10 DEF EmbedMeeting, Moves, After
    <3> QED BY <1>10, <3>1 DEF EmbedMeeting, VectorsChange
  <2> QED BY <1>10, <2>1, <2>2, <2>3
          DEF Rest, EmbedMeeting, Spoils, RowsChange, FactChanges, PrefersChanges, KnowsChanges,
              KnownChanges, ChainChanges, CausesChange, ProceduresChange
<1>11. ASSUME NEW n \in Passes, EmbedFacts(n)
      PROVE  Rest
  <2>1. Onward
    BY <1>0, <1>11, OnwardOne DEF EmbedFacts, After
  <2>2. BoundsTyped'
    BY <1>11, BoundsStep DEF EmbedFacts
  <2>3. FactChanges
    BY <1>11 DEF EmbedFacts, FactChanges
  <2> QED BY <1>11, <2>1, <2>2, <2>3
          DEF Rest, EmbedFacts, Spoils, RowsChange, PrefersChanges, KnowsChanges,
              KnownChanges, ChainChanges, CausesChange, ProceduresChange, VectorsChange
<1>12. ASSUME NEW n \in Passes, SkipRest(n)
      PROVE  Rest
  <2>1. Onward
    BY <1>0, <1>12, OnwardOne DEF SkipRest, After
  <2>2. BoundsTyped'
    BY <1>12, BoundsStep DEF SkipRest
  <2> QED BY <1>12, <2>1, <2>2
          DEF Rest, SkipRest, Spoils, RowsChange, FactChanges, PrefersChanges, KnowsChanges,
              KnownChanges, ChainChanges, CausesChange, ProceduresChange, VectorsChange
<1>13. ASSUME NEW n \in Passes, Mark(n)
      PROVE  Rest
  <2>1. Onward
    BY <1>0, <1>13, OnwardOne DEF Mark, After
  <2>2. BoundsTyped'
    BY <1>13, BoundsStep DEF Mark
  <2>3. RowsChange
    <3>1. CASE UNCHANGED row
      BY <1>13, <3>1 DEF Mark, RowsChange
    <3>2. CASE row' = [row EXCEPT ![meeting[n]].staged =
                         @ /\ row[meeting[n]].edition # seen[n].edition]
      <4> DEFINE b == row[meeting[n]].staged /\ row[meeting[n]].edition # seen[n].edition
      <4>1. meeting[n] \in Meetings /\ row[meeting[n]].staged \in BOOLEAN
        BY <1>13 DEF Mark, TypeInv, TasksTyped
      <4>2. row' = [row EXCEPT ![meeting[n]].staged = b] /\ b \in BOOLEAN
        BY <3>2, <4>1
      <4> HIDE DEF b
      <4> QED BY <1>13, <4>1, <4>2 DEF Mark, RowsChange
    <3> QED BY <1>13, <3>1, <3>2 DEF Mark
  <2> QED BY <1>13, <2>1, <2>2, <2>3
          DEF Rest, Mark, FactChanges, PrefersChanges, KnowsChanges,
              KnownChanges, ChainChanges, CausesChange, ProceduresChange, VectorsChange
<1>14. ASSUME NEW m \in Meetings, Restage(m)
      PROVE  Rest
  <2>1. Onward
    BY <1>0, <1>14, OnwardNone DEF Restage
  <2>2. BoundsTyped'
    BY <1>14, BoundsStep DEF Restage
  <2>3. RowsChange
    BY <1>14 DEF RowsChange
  <2> QED BY <1>14, <2>1, <2>2, <2>3
          DEF Rest, Restage, FactChanges, PrefersChanges, KnowsChanges,
              KnownChanges, ChainChanges, CausesChange, ProceduresChange, VectorsChange
<1>15. ASSUME Crash
      PROVE  Rest
  <2>1. Onward
    <3>1. step' = [n \in Passes |-> IF step[n] \notin {"waiting", "done"} THEN "done" ELSE step[n]]
      BY <1>15 DEF Crash, Active
    <3>2. step' \in [Passes -> Steps]
      BY <1>0, <3>1 DEF Steps
    <3>3. ASSUME NEW n \in Passes
          PROVE  step'[n] = step[n] \/ (step'[n] = "done" /\ step[n] # "waiting")
      BY <3>1
    <3> QED BY <3>2, <3>3 DEF Onward, After, ToEmbed, PastBonds, PastLink, PastCause, PastMatch,
                              PastEmbed, PastFacts
  <2>2. BoundsTyped'
    BY <1>15, BoundsStep DEF Crash
  <2> QED BY <1>15, <2>1, <2>2
          DEF Rest, Crash, RowsChange, FactChanges, PrefersChanges, KnowsChanges,
              KnownChanges, ChainChanges, CausesChange, ProceduresChange, VectorsChange
<1>16. ASSUME Consolidate
      PROVE  Rest
  <2>1. Onward
    BY <1>0, <1>16, OnwardNone DEF Consolidate
  <2>2. BoundsTyped'
    BY <1>16, BoundsStep DEF Consolidate
  <2>3. FactChanges
    BY <1>16 DEF FactChanges, Consolidate
  <2> QED BY <1>16, <2>1, <2>2, <2>3
          DEF Rest, Consolidate, RowsChange, PrefersChanges, KnowsChanges,
              KnownChanges, ChainChanges, CausesChange, ProceduresChange, VectorsChange
<1>17. ASSUME ReadUnmatched
      PROVE  Rest
  <2>1. Onward
    BY <1>0, <1>17, OnwardNone DEF ReadUnmatched
  <2>2. BoundsTyped'
    BY <1>17, BoundsStep DEF ReadUnmatched
  <2>3. ProceduresChange
    BY <1>17 DEF ProceduresChange
  <2> QED BY <1>17, <2>1, <2>2, <2>3
          DEF Rest, ReadUnmatched, RowsChange, FactChanges, PrefersChanges, KnowsChanges,
              KnownChanges, ChainChanges, CausesChange, VectorsChange
<1>18. ASSUME NameCluster
      PROVE  Rest
  <2>1. Onward
    BY <1>0, <1>18, OnwardNone DEF NameCluster
  <2>2. BoundsTyped'
    BY <1>18, BoundsStep DEF NameCluster
  <2>3. ProceduresChange
    BY <1>18 DEF ProceduresChange
  <2> QED BY <1>18, <2>1, <2>2, <2>3
          DEF Rest, NameCluster, RowsChange, FactChanges, PrefersChanges, KnowsChanges,
              KnownChanges, ChainChanges, CausesChange, VectorsChange
<1>19. ASSUME LinkCluster
      PROVE  Rest
  <2>1. Onward
    BY <1>0, <1>19, OnwardNone DEF LinkCluster
  <2>2. BoundsTyped'
    BY <1>19, BoundsStep DEF LinkCluster
  <2>3. ProceduresChange
    BY <1>19 DEF ProceduresChange
  <2> QED BY <1>19, <2>1, <2>2, <2>3
          DEF Rest, LinkCluster, RowsChange, FactChanges, PrefersChanges, KnowsChanges,
              KnownChanges, ChainChanges, CausesChange, VectorsChange
<1>20. ASSUME EndOfNight
      PROVE  Rest
  <2>1. Onward
    BY <1>0, <1>20, OnwardNone DEF EndOfNight
  <2>2. BoundsTyped'
    BY <1>20, BoundsStep DEF EndOfNight
  <2> QED BY <1>20, <2>1, <2>2
          DEF Rest, EndOfNight, RowsChange, FactChanges, PrefersChanges, KnowsChanges,
              KnownChanges, ChainChanges, CausesChange, ProceduresChange, VectorsChange
<1>21. ASSUME Backfill
      PROVE  Rest
  <2>0. /\ UNCHANGED <<scene, row, tasks, clean, nodes, edges, prefers, knows, procedures,
                       night, bounds>>
        /\ UNCHANGED fact \/ fact' = [fact EXCEPT !.embedded = TRUE]
    BY <1>21 DEF Backfill, BackfillRead, BackfillMeeting, BackfillFact
  <2>1. Onward
    BY <1>0, <2>0, OnwardNone
  <2>2. BoundsTyped'
    BY <2>0, BoundsStep
  <2>3. FactChanges
    BY <2>0 DEF FactChanges
  <2>4. VectorsChange
    BY <1>21 DEF Backfill, BackfillFact, VectorsChange
  <2> QED BY <2>0, <2>1, <2>2, <2>3, <2>4
          DEF Rest, RowsChange, PrefersChanges, KnowsChanges,
              KnownChanges, ChainChanges, CausesChange, ProceduresChange
<1>22. CASE UNCHANGED vars
  <2>1. Onward
    BY <1>0, <1>22, OnwardNone DEF vars
  <2>2. BoundsTyped'
    BY <1>22, BoundsStep DEF vars
  <2> QED BY <1>22, <2>1, <2>2
          DEF Rest, vars, RowsChange, FactChanges, PrefersChanges, KnowsChanges,
              KnownChanges, ChainChanges, CausesChange, ProceduresChange, VectorsChange
<1> QED
  <2> HIDE DEF At, Goto, Advance, Works, Reading, GivesNone, tasks, nodes, edges, beliefs,
               procedures, vectors, bounds
  <2> QED BY <1>1, <1>2, <1>3, <1>4, <1>5, <1>6, <1>7, <1>8, <1>9, <1>10, <1>11, <1>12, <1>13,
             <1>14, <1>15, <1>16, <1>17, <1>18, <1>19, <1>20, <1>21, <1>22
          DEF Next, Pass, Nightly, IsRead, IsWrite
-----------------------------------------------------------------------------
(***************************************************************************)
(* Types: of the steps of the table.                                       *)
(***************************************************************************)
LEMMA RestTasks ==
    ASSUME TypeInv, Rest
    PROVE  TasksTyped' /\ NodesTyped'
<1> USE DEF TypeInv
<1>0. /\ UNCHANGED <<scene, meeting, seen, summary, date, moved, attended, decided>>
      /\ clean' \subseteq clean /\ Present' = Present
  BY DEF Rest, Present
<1>1. row' \in [Meetings -> [edition : Nat, date : Nat \ {0}, staged : BOOLEAN]]
      /\ \A m \in Meetings : row'[m].edition >= 1 /\ row'[m].edition <= edits' + 1
  <2>0. /\ row \in [Meetings -> [edition : Nat, date : Nat \ {0}, staged : BOOLEAN]]
        /\ \A m \in Meetings : row[m].edition >= 1 /\ row[m].edition <= edits + 1
        /\ edits \in Nat
    BY SceneFacts DEF TasksTyped, BoundsTyped
  <2>1. CASE UNCHANGED <<row, edits>>
    BY <2>0, <2>1
  <2>2. ASSUME NEW m \in Meetings, NEW b \in BOOLEAN, UNCHANGED edits,
               row' = [row EXCEPT ![m].staged = b]
        PROVE  <1>1!1 /\ <1>1!2
    <3>1. [row[m] EXCEPT !.staged = b] \in [edition : Nat, date : Nat \ {0}, staged : BOOLEAN]
      BY <2>0
    <3>2. [row[m] EXCEPT !.staged = b].edition = row[m].edition
      BY <2>0
    <3> QED BY <2>0, <2>2, <3>1, <3>2
  <2>3. ASSUME NEW m \in Meetings, Restage(m)
        PROVE  <1>1!1 /\ <1>1!2
    <3>1. PICK d \in {row[m].date} \cup scene.dates :
            row' = [row EXCEPT ![m] = [edition |-> @.edition + 1, date |-> d, staged |-> TRUE]]
      BY <2>3 DEF Restage
    <3>2. edits' = edits + 1 /\ d \in Nat \ {0}
      BY <2>0, <2>3, <3>1, SceneFacts DEF Restage, TasksTyped
    <3> DEFINE r == [edition |-> row[m].edition + 1, date |-> d, staged |-> TRUE]
    <3>3. r \in [edition : Nat, date : Nat \ {0}, staged : BOOLEAN]
          /\ r.edition = row[m].edition + 1
      BY <2>0, <3>2
    <3>4. row' = [row EXCEPT ![m] = r]
      BY <3>1
    <3> HIDE DEF r
    <3>5. row' \in [Meetings -> [edition : Nat, date : Nat \ {0}, staged : BOOLEAN]]
      BY <2>0, <3>3, <3>4
    <3>6. \A k \in Meetings : row'[k] = IF k = m THEN r ELSE row[k]
      BY <2>0, <3>4
    <3>7. ASSUME NEW k \in Meetings
          PROVE  row'[k].edition >= 1 /\ row'[k].edition <= edits' + 1
      <4>1. row[k].edition \in Nat /\ row[m].edition \in Nat
        BY <2>0
      <4> QED BY <2>0, <3>2, <3>3, <3>6, <4>1
    <3> QED BY <3>5, <3>7
  <2> QED BY <2>1, <2>2, <2>3 DEF Rest, RowsChange
<1>2. said' \in [Passes -> Nat] /\ \A n \in Passes : said'[n] <= scene.says
  <2>1. CASE UNCHANGED said
    BY <2>1 DEF TasksTyped
  <2>2. ASSUME NEW n \in Passes, said[n] < scene.says, said' = [said EXCEPT ![n] = @ + 1]
        PROVE  said' \in [Passes -> Nat] /\ \A k \in Passes : said'[k] <= scene.says
    <3>1. said[n] + 1 <= scene.says /\ said[n] + 1 \in Nat
      BY <2>2, SceneFacts DEF TasksTyped
    <3> QED BY <2>2, <3>1 DEF TasksTyped
  <2> QED BY <2>1, <2>2 DEF Rest, FactChanges, Consolidate, tasks
<1>3. TasksTyped'
  <2>1. /\ step' \in [Passes -> Steps]
        /\ \A n \in Passes : step'[n] = "waiting" <=> step[n] = "waiting"
    BY DEF Rest, Onward
  <2> QED BY <1>0, <1>1, <1>2, <2>1 DEF TasksTyped
<1>4. NodesTyped'
  <2>1. \A n \in Passes : step'[n] \in DOMAIN After => step[n] \in DOMAIN After
    BY DEF Rest, Onward
  <2>2. \A n \in Passes : step[n] \notin {"waiting", "read"} => step'[n] \notin {"waiting", "read"}
    BY DEF Rest, Onward
  <2> QED BY <1>0, <2>1, <2>2 DEF NodesTyped
<1> QED
  BY <1>3, <1>4

LEMMA RestBeliefs ==
    ASSUME TypeInv, Rest
    PROVE  BeliefsTyped'
<1> USE DEF TypeInv
<1>0. UNCHANGED <<Present, scene>> /\ scene.listed \in Nat
  BY SceneFacts DEF Rest, Present, TasksTyped
<1>1. fact' \in [count : Nat, conf : 0 .. Certain, of : SUBSET Present, embedded : BOOLEAN]
      /\ (fact'.count = 0 <=> fact'.conf = 0)
  <2>0. /\ fact \in [count : Nat, conf : 0 .. Certain, of : SUBSET Present, embedded : BOOLEAN]
        /\ (fact.count = 0 <=> fact.conf = 0)
    BY DEF BeliefsTyped
  <2>1. CASE UNCHANGED fact
    BY <2>0, <2>1
  <2>2. ASSUME NEW n \in Passes, step[n] = "facts", fact' = StateFact(meeting[n])
        PROVE  <1>1!1 /\ <1>1!2
    <3>1. meeting[n] \in Present
      BY <2>2 DEF TasksTyped, NodesTyped, Present, After
    <3>2. fact'.count = fact.count + 1 /\ fact'.of = fact.of \cup {meeting[n]}
          /\ fact'.embedded = fact.embedded
          /\ fact'.conf = IF fact.count = 0 THEN 3 ELSE Least(Certain, fact.conf + 1)
      BY <2>0, <2>2 DEF StateFact
    <3>3. fact'.conf \in 0 .. Certain /\ fact'.count \in Nat /\ fact'.conf # 0 /\ fact'.count # 0
      BY <2>0, <3>2 DEF Certain, Least
    <3>4. fact'.of \in SUBSET Present /\ fact'.embedded \in BOOLEAN
      BY <2>0, <3>1, <3>2
    <3>5. fact' = [count |-> fact'.count, conf |-> fact'.conf, of |-> fact'.of,
                   embedded |-> fact'.embedded]
      BY <2>0, <2>2 DEF StateFact
    <3> HIDE DEF TypeInv
    <3> QED BY <3>3, <3>4, <3>5
  <2>3. CASE fact' = [fact EXCEPT !.embedded = TRUE]
    BY <2>0, <2>3
  <2>4. CASE Consolidate
    <3>1. fact' = [fact EXCEPT !.conf = Least(Certain, @ + 2)] /\ fact.count > 0
      BY <2>4 DEF Consolidate
    <3>2. Least(Certain, fact.conf + 2) \in 0 .. Certain /\ Least(Certain, fact.conf + 2) # 0
      BY <2>0 DEF Least, Certain
    <3> QED BY <2>0, <3>1, <3>2
  <2> QED BY <2>1, <2>2, <2>3, <2>4 DEF Rest, FactChanges
<1>2. prefers' \in {0} \cup 5 .. Certain
  BY DEF Rest, PrefersChanges, BeliefsTyped, Least, Certain
<1>3. knows' \in Nat
  <2>1. CASE UNCHANGED knows
    BY <2>1 DEF BeliefsTyped
  <2>2. ASSUME NEW i \in 1 .. scene.listed, NEW j \in 1 .. scene.listed, knows' = knows + i * j
        PROVE  knows' \in Nat
    <3>1. i \in Nat /\ j \in Nat /\ knows \in Nat
      BY <1>0 DEF BeliefsTyped
    <3> QED BY <2>2, <3>1
  <2> QED BY <2>1, <2>2 DEF Rest, KnowsChanges
<1> QED
  BY <1>0, <1>1, <1>2, <1>3 DEF BeliefsTyped

LEMMA RestEdges ==
    ASSUME TypeInv, Rest
    PROVE  EdgesTyped'
<1> USE DEF TypeInv
<1>0. UNCHANGED <<Present, Causes>>
  BY DEF Rest, Present, Causes
<1>1. chain' \subseteq Present \X Present /\ newcomers' \in [Meetings -> SUBSET Present]
  <2>1. CASE UNCHANGED <<chain, newcomers>>
    BY <2>1 DEF EdgesTyped
  <2>2. ASSUME NEW n \in Passes, Link(n)
        PROVE  <1>1!1 /\ <1>1!2
    <3>1. meeting[n] \in Present
      BY <2>2 DEF Link, At, TasksTyped, NodesTyped, Present, After
    <3>2. newcomers' = [newcomers EXCEPT ![meeting[n]] = {}]
      BY <2>2 DEF Link
    <3>3. chain' \subseteq chain \cup ({meeting[n]} \X Present)
      BY <2>2 DEF Link, MostRecent, Earlier
    <3> HIDE DEF Present
    <3> QED BY <3>1, <3>2, <3>3 DEF EdgesTyped
  <2> QED BY <2>1, <2>2 DEF Rest, ChainChanges
<1>2. causes' \subseteq Present \X Causes
  <2>1. CASE UNCHANGED causes
    BY <2>1 DEF EdgesTyped
  <2>2. ASSUME NEW n \in Passes, NEW c \in Causes, step[n] = "cause",
               causes' = causes \cup {<<meeting[n], c>>}
        PROVE  causes' \subseteq Present \X Causes
    <3>1. meeting[n] \in Present
      BY <2>2 DEF TasksTyped, NodesTyped, Present, After
    <3> HIDE DEF Present, Causes
    <3> QED BY <2>2, <3>1 DEF EdgesTyped
  <2> QED BY <2>1, <2>2 DEF Rest, CausesChange, Moves
<1> QED
  BY <1>0, <1>1, <1>2 DEF EdgesTyped

LEMMA RestVectors ==
    ASSUME TypeInv, Rest
    PROVE  VectorsTyped'
<1> USE DEF TypeInv
<1>0. UNCHANGED meeting /\ 0 \notin Passes
  BY DEF Rest, Passes
<1>1. CASE UNCHANGED <<embedding, backfill>>
  BY <1>0, <1>1 DEF VectorsTyped
<1>2. ASSUME NEW n \in Passes, step[n] = "embed", UNCHANGED backfill,
             embedding' = [embedding EXCEPT ![meeting[n]] = n]
      PROVE  VectorsTyped'
  <2>1. meeting[n] \in Meetings
    BY <1>2 DEF TasksTyped
  <2> QED BY <1>0, <1>2, <2>1 DEF VectorsTyped
<1>3. CASE BackfillRead
  <2>1. /\ UNCHANGED embedding
        /\ backfill' = [m \in Meetings |-> IF embedding[m] = 0 THEN summary[m] ELSE 0]
    BY <1>3 DEF BackfillRead
  <2>2. \A m \in Meetings : summary[m] # 0 => meeting[summary[m]] = m
    BY DEF NodesTyped
  <2>3. \A m \in Meetings : summary[m] \in {0} \cup Passes
    BY DEF NodesTyped
  <2> QED BY <1>0, <2>1, <2>2, <2>3 DEF VectorsTyped
<1>4. ASSUME NEW m \in Meetings, BackfillMeeting(m)
      PROVE  VectorsTyped'
  BY <1>0, <1>4 DEF BackfillMeeting, VectorsTyped
<1> QED
  BY <1>1, <1>2, <1>3, <1>4 DEF Rest, VectorsChange, Moves

LEMMA RestProcedures ==
    ASSUME TypeInv, Rest
    PROVE  ProceduresTyped'
<1> USE DEF TypeInv
<1>0. Present' = Present /\ Present \subseteq Meetings
  BY DEF Rest, Present
<1> DEFINE Nights == [step : {"idle", "name", "write"}, unmatched : SUBSET Present,
                      name : SUBSET Names, cluster : SUBSET Present, used : SUBSET Names]
<1>1. known' \in [count : Nat, of : SUBSET Present]
  <2>1. ASSUME NEW n \in Passes, step[n] = "match",
               known' = [count |-> known.count + 1, of |-> known.of \cup {meeting[n]}]
        PROVE  known' \in [count : Nat, of : SUBSET Present]
    <3>1. meeting[n] \in Present
      BY <2>1 DEF TasksTyped, NodesTyped, Present, After
    <3> HIDE DEF Present
    <3> QED BY <2>1, <3>1 DEF ProceduresTyped
  <2> QED BY <2>1 DEF Rest, KnownChanges, Moves, ProceduresTyped
<1> DEFINE P ==
      /\ inferred' \in [Names -> [made : BOOLEAN, of : SUBSET Present]]
      /\ \A x \in Names : inferred'[x].made \/ inferred'[x].of = {}
      /\ night' \in Nights /\ night'.cluster \subseteq night'.unmatched
      /\ \A x, y \in night'.name : x = y /\ inferred'[x].made
<1>2. ASSUME UNCHANGED <<inferred, night>>
      PROVE  P
  BY <1>2 DEF ProceduresTyped
<1>3. ASSUME UNCHANGED inferred, night' = Asleep
      PROVE  P
  <2>1. night' \in Nights /\ night'.cluster = {} /\ night'.name = {}
    BY <1>3 DEF Asleep
  <2> QED BY <1>3, <2>1 DEF ProceduresTyped
<1>4. ASSUME ReadUnmatched
      PROVE  P
  <2>1. UNCHANGED inferred /\ night' = [Asleep EXCEPT !.step = "name", !.unmatched = Unmatched]
    BY <1>4 DEF ReadUnmatched, procedures
  <2>2. Unmatched \subseteq Present
    BY DEF Unmatched
  <2> HIDE DEF Present
  <2>3. night' \in Nights /\ night'.cluster = {} /\ night'.name = {}
    BY <2>1, <2>2 DEF Asleep
  <2> QED BY <2>1, <2>3 DEF ProceduresTyped
<1>5. ASSUME NameCluster
      PROVE  P
  <2>1. PICK c \in SUBSET night.unmatched, x \in Names \ night.used :
          /\ inferred' = [inferred EXCEPT ![x].made = TRUE]
          /\ night' = [night EXCEPT !.step = "write", !.name = {x}, !.cluster = c,
                                    !.used = @ \cup {x}]
    BY <1>5 DEF NameCluster
  <2>2. night' \in Nights
    BY <2>1 DEF ProceduresTyped
  <2>3. night'.name = {x} /\ night'.cluster \subseteq night'.unmatched
    BY <2>1 DEF ProceduresTyped
  <2>4. inferred' \in [Names -> [made : BOOLEAN, of : SUBSET Present]]
    <3> HIDE DEF Present
    <3>1. [inferred[x] EXCEPT !.made = TRUE] \in [made : BOOLEAN, of : SUBSET Present]
      <4>1. inferred[x] \in [made : BOOLEAN, of : SUBSET Present]
        BY DEF ProceduresTyped
      <4> QED BY <4>1
    <3> QED BY <2>1, <3>1 DEF ProceduresTyped
  <2>5. inferred'[x].made /\ \A y \in Names : inferred'[y].made \/ inferred'[y].of = {}
    BY <2>1 DEF ProceduresTyped
  <2> QED BY <2>2, <2>3, <2>4, <2>5
<1>6. ASSUME LinkCluster
      PROVE  P
  <2>1. ASSUME UNCHANGED inferred,
               \/ night' = [night EXCEPT !.step = "name", !.name = {}] /\ night.cluster = {}
               \/ night' = [night EXCEPT !.step = "name", !.name = {}, !.cluster = {},
                                         !.unmatched = @ \ night.cluster]
        PROVE  P
    <3>1. night'.name = {} /\ night'.cluster = {} /\ night' \in Nights
      <4> HIDE DEF Present
      <4>1. night \in Nights /\ night.unmatched \ night.cluster \in SUBSET Present
        BY DEF ProceduresTyped
      <4>2. CASE night' = [night EXCEPT !.step = "name", !.name = {}] /\ night.cluster = {}
        BY <4>1, <4>2
      <4>3. CASE night' = [night EXCEPT !.step = "name", !.name = {}, !.cluster = {},
                                        !.unmatched = @ \ night.cluster]
        BY <4>1, <4>3
      <4> QED BY <2>1, <4>2, <4>3
    <3> QED BY <2>1, <3>1 DEF ProceduresTyped
  <2>2. ASSUME NEW m \in night.cluster, NEW x \in night.name,
               inferred' = [inferred EXCEPT ![x].of = @ \cup {m}],
               night' = [night EXCEPT !.cluster = @ \ {m}, !.unmatched = @ \ {m}]
        PROVE  P
    <3>1. x \in Names /\ m \in Present /\ inferred[x].made
      BY DEF ProceduresTyped
    <3>2. night'.name = night.name /\ night'.cluster \subseteq night'.unmatched
          /\ night' \in Nights
      BY <2>2 DEF ProceduresTyped
    <3>3. inferred' \in [Names -> [made : BOOLEAN, of : SUBSET Present]]
      BY <2>2, <3>1 DEF ProceduresTyped
    <3>4. \A y \in Names : /\ inferred'[y].made = inferred[y].made
                           /\ inferred'[y].of = {} \/ y = x \/ inferred'[y].of = inferred[y].of
      BY <2>2, <3>1 DEF ProceduresTyped
    <3> QED BY <3>1, <3>2, <3>3, <3>4 DEF ProceduresTyped
  <2> QED BY <1>6, <2>1, <2>2 DEF LinkCluster
<1> HIDE DEF P
<1>7. P
  BY <1>2, <1>3, <1>4, <1>5, <1>6 DEF Rest, ProceduresChange
<1> QED
  BY <1>0, <1>1, <1>7 DEF P, ProceduresTyped

LEMMA TypeStep ==
    ASSUME TypeInv, [Next]_vars
    PROVE  TypeInv'
<1>1. CASE IsRead
  BY <1>1, ReadType DEF IsRead
<1>2. CASE IsWrite
  BY <1>2, WriteType DEF IsWrite
<1>3. CASE ~IsRead /\ ~IsWrite
  <2>1. Rest
    BY <1>3, Effects
  <2>2. BoundsTyped'
    BY <2>1 DEF Rest
  <2> QED BY <2>1, <2>2, RestTasks, RestBeliefs, RestEdges, RestVectors, RestProcedures DEF TypeInv
<1> QED
  BY <1>1, <1>2, <1>3
-----------------------------------------------------------------------------
(***************************************************************************)
(* Evidence is explained by the passes: each counter is compared with the  *)
(* passes that have come past its layer.                                   *)
(***************************************************************************)
LEMMA StatementsAreFinite ==
    ASSUME scene \in Scenes
    PROVE  IsFiniteSet(Statements) /\ Cardinality(Statements) \in Nat
<1>1. scene.says \in Nat
  BY SceneFacts
<1>2. IsFiniteSet(1 .. scene.says) /\ IsFiniteSet(Passes)
  BY <1>1, FS_Interval, PassesAreFinite
<1>3. IsFiniteSet(Passes \X (1 .. scene.says))
  BY <1>2, FS_Product
<1>4. Statements \subseteq Passes \X (1 .. scene.says)
  BY DEF Statements
<1> QED
  BY <1>3, <1>4, FS_Subset, FS_CardinalityType

LEMMA EvidenceInit == Init => EvidenceInv
<1> SUFFICES ASSUME Init
             PROVE  EvidenceInv
  OBVIOUS
<1>0. scene \in Scenes /\ scene.listed \in Nat /\ scene.says \in Nat
  BY SceneFacts DEF Init
<1>1. /\ fact.of = {} /\ fact.count = 0 /\ known.of = {} /\ known.count = 0 /\ knows = 0
      /\ causes = {} /\ \A n \in Passes : said[n] = 0
  BY DEF Init
<1>2. Cardinality({}) = 0
  BY FS_EmptySet
<1>3. FactCounted
  <2>2. Cardinality(Statements) \in Nat
    BY <1>0, StatementsAreFinite
  <2> QED BY <1>1, <1>2, <2>2 DEF FactCounted
<1>4. KnownCounted
  BY <1>1, <1>2, DoneIsPasses DEF KnownCounted
<1>5. KnowsCounted
  <2>1. PICK d \in Nat : d = Cardinality(Done(PairMeetings, PastBonds))
    BY DoneIsPasses
  <2>2. PICK k \in Nat : k = scene.listed
    BY <1>0
  <2>3. 0 <= d * (k * k)
    OBVIOUS
  <2> QED BY <1>1, <2>1, <2>2, <2>3 DEF KnowsCounted
<1>6. CausesCounted
  <2>1. \A m \in Meetings : CausesOf(m) = {}
    BY <1>1 DEF CausesOf
  <2> QED BY <1>2, <2>1, DoneIsPasses DEF CausesCounted
<1> QED
  BY <1>3, <1>4, <1>5, <1>6 DEF EvidenceInv

\* A pass that has come past a layer stays there, and keeps its meeting.
LEMMA DoneStays ==
    ASSUME TypeInv, [Next]_vars
    PROVE  \A n \in Passes :
             /\ meeting[n] \in Meetings => meeting'[n] = meeting[n]
             /\ step[n] \in PastBonds => step'[n] \in PastBonds
             /\ step[n] \in PastCause => step'[n] \in PastCause
             /\ step[n] \in PastMatch => step'[n] \in PastMatch
<1>0. /\ step \in [Passes -> Steps] /\ meeting \in [Passes -> Meetings \cup {NoMeeting}]
      /\ NoMeeting \notin Meetings
      /\ \A n \in Passes : step[n] = "waiting" => meeting[n] = NoMeeting
  BY MemoryAssumption DEF TypeInv, TasksTyped
<1>1. ASSUME NEW n \in Passes, NEW m \in Meetings, ReadRow(n, m), NEW k \in Passes
      PROVE  /\ meeting[k] \in Meetings => meeting'[k] = meeting[k]
             /\ step'[k] = step[k] \/ step[k] = "waiting"
  BY <1>0, <1>1 DEF ReadRow, At, Goto
<1>2. ASSUME NEW n \in Passes, Write(n), NEW k \in Passes
      PROVE  /\ meeting'[k] = meeting[k]
             /\ step'[k] = step[k] \/ step[k] = "read"
  <2>1. PICK m \in Meetings, d \in Nat \ {0}, role \in Roles, decides \in BOOLEAN :
          Upserts(n, m, d, role, decides)
    BY <1>2, UpsertFacts
  <2> QED BY <1>0, <2>1 DEF Upserts
<1>3. CASE IsRead
  BY <1>1, <1>3 DEF IsRead, PastBonds, PastLink, PastCause, PastMatch, PastEmbed, PastFacts
<1>4. CASE IsWrite
  BY <1>2, <1>4 DEF IsWrite, PastBonds, PastLink, PastCause, PastMatch, PastEmbed, PastFacts
<1>5. CASE ~IsRead /\ ~IsWrite
  BY <1>5, Effects DEF Rest, Onward
<1> QED
  BY <1>3, <1>4, <1>5

LEMMA ProductGrows ==
    ASSUME NEW a \in Nat, NEW b \in Nat, NEW c \in Nat, a <= b
    PROVE  a * c <= b * c /\ c * a <= c * b
<1>1. PICK d \in Nat : b = a + d
  <2>1. b - a \in Nat /\ b = a + (b - a)
    OBVIOUS
  <2> QED BY <2>1
<1>2. b * c = a * c + d * c /\ d * c \in Nat /\ a * c \in Nat
  BY <1>1
<1>3. c * b = c * a + c * d /\ c * d \in Nat /\ c * a \in Nat
  BY <1>1
<1> QED
  BY <1>2, <1>3

LEMMA FactStep ==
    ASSUME TypeInv, FactCounted, [Next]_vars
    PROVE  FactCounted'
<1>0. /\ fact \in [count : Nat, conf : 0 .. Certain, of : SUBSET Present, embedded : BOOLEAN]
      /\ said \in [Passes -> Nat] /\ fact.of \subseteq Meetings
      /\ meeting \in [Passes -> Meetings \cup {NoMeeting}]
  BY DEF TypeInv, BeliefsTyped, TasksTyped, Present
<1>k. \A n \in Passes : meeting[n] \in Meetings => meeting'[n] = meeting[n]
  BY DoneStays
<1>1. ASSUME UNCHANGED <<scene, said, fact>>
      PROVE  FactCounted'
  <2>1. Statements' = Statements
    BY <1>1 DEF Statements
  <2> QED BY <1>0, <1>k, <1>1, <2>1 DEF FactCounted
<1>2. CASE IsRead
  BY <1>1, <1>2 DEF IsRead, ReadRow, beliefs
<1>3. CASE IsWrite
  BY <1>1, <1>3, UpsertFacts DEF IsWrite, Upserts
<1>4. CASE Rest
  <2>0. UNCHANGED scene
    BY <1>4 DEF Rest
  <2>1. ASSUME UNCHANGED said, fact'.count = fact.count, fact'.of = fact.of
        PROVE  FactCounted'
    <3>1. Statements' = Statements
      BY <2>0, <2>1 DEF Statements
    <3> QED BY <1>0, <1>k, <2>1, <3>1 DEF FactCounted
  <2>2. ASSUME NEW n \in Passes, step[n] = "facts", said[n] < scene.says,
               said' = [said EXCEPT ![n] = @ + 1], fact' = StateFact(meeting[n])
        PROVE  FactCounted'
    <3>1. /\ fact'.count = fact.count + 1 /\ fact'.of = fact.of \cup {meeting[n]}
          /\ meeting[n] \in Meetings /\ meeting'[n] = meeting[n]
      BY <1>0, <1>k, <2>2 DEF StateFact, TypeInv, TasksTyped
    <3>2. PICK s \in Nat : s = said[n]
      BY <1>0
    <3>3. \A k \in Passes : said'[k] = IF k = n THEN s + 1 ELSE said[k]
      BY <1>0, <2>2, <3>2
    <3>4. s + 1 \in 1 .. scene.says /\ ~(s + 1 <= s)
      BY <2>2, <3>2, SceneFacts DEF TypeInv, TasksTyped
    <3>5. Statements' = Statements \cup {<<n, s + 1>>} /\ <<n, s + 1>> \notin Statements
      <4>1. ASSUME NEW e \in Passes \X (1 .. scene.says)
            PROVE  e[2] <= said'[e[1]] <=> e[2] <= said[e[1]] \/ e = <<n, s + 1>>
        <5>1. e[1] \in Passes /\ e[2] \in Nat /\ e = <<e[1], e[2]>>
          OBVIOUS
        <5>2. said[n] = s /\ s \in Nat /\ said[e[1]] \in Nat
          BY <1>0, <3>2, <5>1
        <5> QED BY <3>3, <5>1, <5>2
      <4> QED BY <2>0, <3>2, <3>4, <4>1 DEF Statements
    <3>6. Cardinality(Statements') = Cardinality(Statements) + 1
          /\ Cardinality(Statements) \in Nat
      <4>1. PICK S : S = Statements
        OBVIOUS
      <4> QED BY <3>5, <4>1, StatementsAreFinite, OneMore DEF TypeInv, TasksTyped
    <3>7. Cardinality(fact'.of) <= Cardinality(fact.of) + 1
          /\ Cardinality(fact'.of) \in Nat /\ Cardinality(fact.of) \in Nat
      <4>1. PICK S : S = fact.of
        OBVIOUS
      <4>2. PICK m : m = meeting[n]
        OBVIOUS
      <4>3. IsFiniteSet(S)
        BY <1>0, <4>1, MeetingsAreFinite
      <4> QED BY <3>1, <4>1, <4>2, <4>3, OneMore
    <3>8. Cardinality(fact'.of) <= fact'.count /\ fact'.count <= Cardinality(Statements')
      BY <1>0, <3>1, <3>6, <3>7 DEF FactCounted
    <3>9. ASSUME NEW k \in Passes, said'[k] # 0
          PROVE  meeting'[k] \in fact'.of
      <4>1. CASE k = n
        BY <3>1, <4>1
      <4>2. CASE k # n
        BY <1>0, <1>k, <3>1, <3>3, <3>9, <4>2 DEF FactCounted
      <4> QED BY <4>1, <4>2
    <3> QED BY <3>8, <3>9 DEF FactCounted
  <2>3. CASE fact' = [fact EXCEPT !.embedded = TRUE] /\ UNCHANGED said
    BY <1>0, <2>1, <2>3
  <2>4. CASE Consolidate /\ UNCHANGED said
    BY <1>0, <2>1, <2>4 DEF Consolidate
  <2> QED BY <1>4, <2>1, <2>2, <2>3, <2>4 DEF Rest, FactChanges
<1> QED
  BY <1>2, <1>3, <1>4, Effects

LEMMA KnownStep ==
    ASSUME TypeInv, KnownCounted, [Next]_vars
    PROVE  KnownCounted'
<1>0. /\ known \in [count : Nat, of : SUBSET Present] /\ known.of \subseteq Meetings
      /\ known.count \in Nat
  BY DEF TypeInv, ProceduresTyped, Present
<1>1. PICK S \in SUBSET Meetings, c \in Nat : S = known.of /\ c = known.count
  BY <1>0
<1>2. PICK D : D = Done(S, PastMatch)
  OBVIOUS
<1>3. D \subseteq Passes /\ c <= Cardinality(D) /\ Cardinality(S) <= c
  BY <1>1, <1>2, DoneIsPasses DEF KnownCounted
<1>4. ASSUME NEW m \in Meetings
      PROVE  D \subseteq Done(S \cup {m}, PastMatch)' /\ D \subseteq Done(S, PastMatch)'
  BY <1>2, DoneStays DEF Done, PassesOver
<1>5. Done(S, PastMatch)' \subseteq Passes
  BY DEF Done, PassesOver
<1>6. CASE UNCHANGED known
  <2>1. PICK E : E = Done(S, PastMatch)'
    OBVIOUS
  <2>2. D \subseteq E
    BY <1>2, <2>1, DoneStays DEF Done, PassesOver
  <2>3. Cardinality(D) <= Cardinality(E) /\ Cardinality(D) \in Nat /\ Cardinality(E) \in Nat
    BY <1>5, <2>1, <2>2, MorePasses
  <2>4. Done(known.of, PastMatch)' = E
    BY <1>1, <1>6, <2>1 DEF Done, PassesOver
  <2> QED BY <1>1, <1>3, <1>6, <2>3, <2>4 DEF KnownCounted
<1>7. ASSUME NEW n \in Passes, Rest, Moves(n, "match", "embed"),
             known' = [count |-> known.count + 1, of |-> known.of \cup {meeting[n]}]
      PROVE  KnownCounted'
  <2>1. PICK m \in Meetings : m = meeting[n] /\ m = meeting'[n]
    BY <1>7, DoneStays DEF Moves, TypeInv, TasksTyped
  <2>2. known'.of = S \cup {m} /\ known'.count = c + 1
    BY <1>1, <1>7, <2>1
  <2>3. PICK E : E = Done(S \cup {m}, PastMatch)'
    OBVIOUS
  <2>4. D \subseteq E /\ E \subseteq Passes
    BY <1>4, <2>3 DEF Done, PassesOver
  <2>5. step[n] = "match" /\ step'[n] = "embed"
    BY <1>7 DEF Moves, TypeInv, TasksTyped
  <2>6. n \in E /\ n \notin D
    BY <1>2, <2>1, <2>3, <2>5 DEF Done, PassesOver, PastMatch, PastEmbed, PastFacts
  <2>7. Cardinality(D) + 1 <= Cardinality(E) /\ Cardinality(D) \in Nat /\ Cardinality(E) \in Nat
    BY <2>4, <2>6, MorePasses
  <2>8. Cardinality(S \cup {m}) <= Cardinality(S) + 1
        /\ Cardinality(S \cup {m}) \in Nat /\ Cardinality(S) \in Nat
    BY MeetingsAreFinite, OneMore
  <2>9. Done(known.of, PastMatch)' = E
    BY <2>2, <2>3 DEF Done, PassesOver
  <2> QED BY <1>3, <2>2, <2>7, <2>8, <2>9 DEF KnownCounted
<1>8. CASE IsRead
  BY <1>6, <1>8 DEF IsRead, ReadRow, procedures
<1>9. CASE IsWrite
  BY <1>6, <1>9, UpsertFacts DEF IsWrite, Upserts
<1>10. CASE Rest
  BY <1>6, <1>7, <1>10 DEF Rest, KnownChanges
<1> QED
  BY <1>8, <1>9, <1>10, Effects

LEMMA KnowsStep ==
    ASSUME TypeInv, KnowsCounted, [Next]_vars
    PROVE  KnowsCounted'
<1>0. scene.listed \in Nat /\ knows \in Nat
  BY SceneFacts DEF TypeInv, TasksTyped, BeliefsTyped
<1>1. UNCHANGED scene
  BY Effects, UpsertFacts DEF IsRead, ReadRow, IsWrite, Upserts, Rest
<1>2. PICK L \in Nat, w \in Nat : L = scene.listed /\ w = knows
  BY <1>0
<1>3. PICK D : D = Done(PairMeetings, PastBonds)
  OBVIOUS
<1>4. PICK E : E = Done(PairMeetings, PastBonds)'
  OBVIOUS
<1>5. D \subseteq E /\ E \subseteq Passes
  BY <1>3, <1>4, DoneStays DEF Done, PassesOver, PairMeetings
<1>6. PICK d \in Nat, e \in Nat : d = Cardinality(D) /\ e = Cardinality(E)
  BY <1>5, MorePasses
<1>7. d <= e /\ w <= d * (L * L)
  BY <1>2, <1>3, <1>5, <1>6, MorePasses DEF KnowsCounted
<1>8. L * L \in Nat
  OBVIOUS
<1>9. CASE UNCHANGED knows
  <2>1. d * (L * L) <= e * (L * L)
    BY <1>7, <1>8, ProductGrows
  <2>2. d * (L * L) \in Nat /\ e * (L * L) \in Nat
    BY <1>8
  <2> QED BY <1>1, <1>2, <1>4, <1>6, <1>7, <1>9, <2>1, <2>2 DEF KnowsCounted
<1>10. ASSUME NEW n \in Passes, NEW i \in 1 .. scene.listed, NEW j \in 1 .. scene.listed,
              Moves(n, "bonds", "link"), Pair \subseteq Attendees[meeting[n]],
              knows' = knows + i * j
       PROVE  KnowsCounted'
  <2>1. i \in Nat /\ j \in Nat /\ i <= L /\ j <= L
    BY <1>0, <1>2
  <2>2. i * j <= L * j /\ L * j <= L * L /\ i * j \in Nat /\ L * j \in Nat
    BY <2>1, ProductGrows
  <2>3. PICK p \in Nat, q \in Nat : p = i * j /\ q = L * L
    BY <1>8, <2>2
  <2>4. p <= q
    BY <2>2, <2>3
  <2>5. /\ step[n] = "bonds" /\ step'[n] = "link" /\ meeting[n] \in Meetings
        /\ meeting'[n] = meeting[n]
    BY <1>10, DoneStays DEF Moves, TypeInv, TasksTyped
  <2>6. n \in E /\ n \notin D
    BY <1>3, <1>4, <1>10, <2>5 DEF Done, PassesOver, PairMeetings, PastBonds, PastLink,
                                   PastCause, PastMatch, PastEmbed, PastFacts
  <2>7. d + 1 <= e
    BY <1>5, <1>6, <2>6, MorePasses
  <2>8. (d + 1) * q <= e * q
    BY <2>7, ProductGrows
  <2>9. (d + 1) * q = d * q + q /\ d * q \in Nat /\ e * q \in Nat
    OBVIOUS
  <2>10. w + p <= e * q
    BY <1>7, <2>3, <2>4, <2>8, <2>9
  <2> QED BY <1>1, <1>2, <1>4, <1>6, <1>10, <2>3, <2>10 DEF KnowsCounted
<1>11. CASE IsRead
  BY <1>9, <1>11 DEF IsRead, ReadRow, beliefs
<1>12. CASE IsWrite
  BY <1>9, <1>12, UpsertFacts DEF IsWrite, Upserts
<1>13. CASE Rest
  BY <1>9, <1>10, <1>13 DEF Rest, KnowsChanges
<1> QED
  BY <1>11, <1>12, <1>13, Effects

LEMMA CausesAreFinite ==
    ASSUME TypeInv
    PROVE  IsFiniteSet(causes)
<1>1. causes \subseteq Meetings \X ({"meeting", "decision"} \X Meetings)
  BY DEF TypeInv, EdgesTyped, Causes, Present
<1>2. IsFiniteSet({"meeting", "decision"})
  <2>1. IsFiniteSet({"meeting"})
    BY FS_Singleton
  <2>2. IsFiniteSet({"meeting"} \cup {"decision"})
    BY <2>1, OneMore
  <2>3. {"meeting"} \cup {"decision"} = {"meeting", "decision"}
    OBVIOUS
  <2> QED BY <2>2, <2>3
<1>3. IsFiniteSet({"meeting", "decision"} \X Meetings)
  BY <1>2, MeetingsAreFinite, FS_Product
<1>4. IsFiniteSet(Meetings \X ({"meeting", "decision"} \X Meetings))
  BY <1>3, MeetingsAreFinite, FS_Product
<1> QED
  BY <1>1, <1>4, FS_Subset

LEMMA CausesStep ==
    ASSUME TypeInv, CausesCounted, [Next]_vars
    PROVE  CausesCounted'
<1> SUFFICES ASSUME NEW m \in Meetings
             PROVE  Cardinality(CausesOf(m)') <= Cardinality(Done({m}, PastCause)')
  BY DEF CausesCounted
<1>1. PICK D : D = Done({m}, PastCause)
  OBVIOUS
<1>2. PICK E : E = Done({m}, PastCause)'
  OBVIOUS
<1>3. D \subseteq E /\ E \subseteq Passes
  BY <1>1, <1>2, DoneStays DEF Done, PassesOver
<1>4. PICK C : C = CausesOf(m)
  OBVIOUS
<1>5. IsFiniteSet(C) /\ Cardinality(C) \in Nat /\ Cardinality(C) <= Cardinality(D)
  <2>1. IsFiniteSet(C)
    BY <1>4, CausesAreFinite, FS_Subset DEF CausesOf
  <2> QED BY <1>1, <1>4, <2>1, FS_CardinalityType DEF CausesCounted
<1>6. Cardinality(D) <= Cardinality(E) /\ Cardinality(D) \in Nat /\ Cardinality(E) \in Nat
  BY <1>3, MorePasses
<1>7. CASE CausesOf(m)' = C
  BY <1>2, <1>5, <1>6, <1>7
<1>8. ASSUME NEW n \in Passes, NEW c \in Causes, Moves(n, "cause", "match"), meeting[n] = m,
             causes' = causes \cup {<<meeting[n], c>>}
      PROVE  Cardinality(CausesOf(m)') <= Cardinality(E)
  <2>1. PICK p : p = <<meeting[n], c>>
    OBVIOUS
  <2>2. CausesOf(m)' = C \cup {p}
    BY <1>4, <1>8, <2>1 DEF CausesOf
  <2>3. Cardinality(C \cup {p}) <= Cardinality(C) + 1 /\ Cardinality(C \cup {p}) \in Nat
    BY <1>5, OneMore
  <2>4. step[n] = "cause" /\ step'[n] = "match" /\ meeting'[n] = m
    BY <1>8, DoneStays DEF Moves, TypeInv, TasksTyped
  <2>5. n \in E /\ n \notin D
    BY <1>1, <1>2, <1>8, <2>4 DEF Done, PassesOver, PastCause, PastMatch, PastEmbed, PastFacts
  <2>6. Cardinality(D) + 1 <= Cardinality(E)
    BY <1>3, <2>5, MorePasses
  <2> QED BY <1>5, <1>6, <2>2, <2>3, <2>6
<1>9. ASSUME NEW n \in Passes, NEW c \in Causes, meeting[n] # m,
             causes' = causes \cup {<<meeting[n], c>>}
      PROVE  CausesOf(m)' = C
  BY <1>4, <1>9 DEF CausesOf
<1>10. CASE UNCHANGED causes
  BY <1>4, <1>7, <1>10 DEF CausesOf
<1>11. CASE IsRead
  BY <1>10, <1>11 DEF IsRead, ReadRow, edges
<1>12. CASE IsWrite
  BY <1>10, <1>12, UpsertFacts DEF IsWrite, Upserts
<1>13. CASE Rest
  BY <1>2, <1>7, <1>8, <1>9, <1>10, <1>13 DEF Rest, CausesChange
<1> QED
  BY <1>11, <1>12, <1>13, Effects

LEMMA EvidenceStep ==
    ASSUME TypeInv, EvidenceInv, [Next]_vars
    PROVE  EvidenceInv'
BY FactStep, KnownStep, KnowsStep, CausesStep DEF EvidenceInv

LEMMA EvidenceImplies == TypeInv /\ EvidenceInv => EvidenceIsCounted
<1> SUFFICES ASSUME TypeInv, EvidenceInv
             PROVE  EvidenceIsCounted
  OBVIOUS
<1> USE DEF EvidenceInv
<1>0. /\ scene.says \in Nat /\ scene.listed \in Nat /\ scene \in Scenes
      /\ fact.count \in Nat /\ known.count \in Nat /\ knows \in Nat
  BY SceneFacts DEF TypeInv, TasksTyped, BeliefsTyped, ProceduresTyped
<1>1. fact.count <= Cardinality(PassesOver(fact.of)) * scene.says
  <2>1. PICK P : P = PassesOver(fact.of)
    OBVIOUS
  <2>2. PICK s \in Nat : s = scene.says
    BY <1>0
  <2>3. IsFiniteSet(P) /\ IsFiniteSet(1 .. s) /\ Cardinality(1 .. s) = s /\ Cardinality(P) \in Nat
    <3>1. P \subseteq Passes
      BY <2>1 DEF PassesOver
    <3> QED BY <3>1, PassesAreFinite, FS_Interval
  <2>4. Statements \subseteq P \X (1 .. s)
    <3>1. ASSUME NEW e \in Statements
          PROVE  e \in P \X (1 .. s)
      <4>1. e \in Passes \X (1 .. s) /\ e[2] <= said[e[1]]
        BY <2>2 DEF Statements
      <4>2. said[e[1]] # 0
        BY <4>1 DEF TypeInv, TasksTyped
      <4>3. e[1] \in P
        BY <2>1, <4>1, <4>2 DEF FactCounted, PassesOver
      <4> QED BY <4>1, <4>3
    <3> QED BY <3>1
  <2>5. IsFiniteSet(P \X (1 .. s)) /\ Cardinality(P \X (1 .. s)) = Cardinality(P) * s
    BY <2>3, FS_Product
  <2>6. Cardinality(Statements) <= Cardinality(P) * s
    BY <2>4, <2>5, FS_Subset
  <2>7. fact.count <= Cardinality(Statements) /\ Cardinality(Statements) \in Nat
    BY <1>0, StatementsAreFinite DEF FactCounted
  <2>8. PICK q \in Nat : q = Cardinality(P) * s
    BY <2>3
  <2> QED BY <1>0, <2>1, <2>2, <2>6, <2>7, <2>8
<1>2. known.count <= Cardinality(PassesOver(known.of))
  BY <1>0, DoneIsPasses DEF KnownCounted
<1>3. knows <= Cardinality(PassesOver(PairMeetings)) * (scene.listed * scene.listed)
  <2>1. PICK d \in Nat, e \in Nat, L \in Nat :
          /\ d = Cardinality(Done(PairMeetings, PastBonds))
          /\ e = Cardinality(PassesOver(PairMeetings)) /\ L = scene.listed
    BY <1>0, DoneIsPasses
  <2>2. d <= e /\ knows <= d * (L * L)
    BY <2>1, DoneIsPasses DEF KnowsCounted
  <2>3. L * L \in Nat
    OBVIOUS
  <2>4. d * (L * L) <= e * (L * L)
    BY <2>2, <2>3, ProductGrows
  <2>5. d * (L * L) \in Nat /\ e * (L * L) \in Nat
    BY <2>3
  <2> QED BY <1>0, <2>1, <2>2, <2>4, <2>5
<1>4. ASSUME NEW m \in Meetings
      PROVE  Cardinality({p \in causes : p[1] = m}) <= Cardinality(PassesOver({m}))
  <2>1. IsFiniteSet(CausesOf(m))
    BY CausesAreFinite, FS_Subset DEF CausesOf
  <2>2. Cardinality(CausesOf(m)) \in Nat
    BY <2>1, FS_CardinalityType
  <2>3. Cardinality(CausesOf(m)) <= Cardinality(Done({m}, PastCause))
    BY DEF CausesCounted
  <2>4. Cardinality(CausesOf(m)) <= Cardinality(PassesOver({m}))
    BY <2>2, <2>3, DoneIsPasses
  <2> QED BY <2>4 DEF CausesOf
<1> QED
  BY <1>1, <1>2, <1>3, <1>4 DEF EvidenceIsCounted, FactCounted, KnownCounted
-----------------------------------------------------------------------------
(***************************************************************************)
(* What is believed was earned.                                            *)
(***************************************************************************)
\* Someone with three ATTENDED edges was at three meetings, or has two roles.
LEMMA EdgesAreMeetings ==
    ASSUME TypeInv, Cardinality(AttendedEdges) >= Enough
    PROVE  HasMet
<1> SUFFICES ASSUME ~ \E m \in Meetings : attended[m] = Roles
             PROVE  Cardinality({m \in Meetings : attended[m] # {}}) >= Enough
  BY DEF HasMet
<1> DEFINE M == {m \in Meetings : attended[m] # {}}
           f == [e \in AttendedEdges |-> e[1]]
<1>1. f \in [AttendedEdges -> M]
  BY DEF AttendedEdges
<1>2. ASSUME NEW a \in AttendedEdges, NEW b \in AttendedEdges, f[a] = f[b]
      PROVE  a = b
  <2>1. /\ a \in Meetings \X Roles /\ b \in Meetings \X Roles /\ a[1] = b[1]
        /\ a[2] \in attended[a[1]] /\ b[2] \in attended[a[1]]
    BY <1>2 DEF AttendedEdges
  <2>2. attended[a[1]] \subseteq Roles /\ attended[a[1]] # Roles
    BY <2>1 DEF TypeInv, NodesTyped
  <2>3. a[2] = b[2]
    BY <2>1, <2>2 DEF Roles
  <2> QED BY <2>1, <2>3
<1>3. f \in Injection(AttendedEdges, M)
  BY <1>1, <1>2 DEF Injection, IsInjective
<1>4. IsFiniteSet(M) /\ Cardinality(M) \in Nat
  BY MeetingsAreFinite
<1>5. Cardinality(AttendedEdges) <= Cardinality(M) /\ Cardinality(AttendedEdges) \in Nat
  <2> HIDE DEF M, f
  <2> QED BY <1>3, <1>4, FS_Injection, FS_CardinalityType
<1> QED
  BY <1>4, <1>5 DEF Enough

LEMMA BeliefInit == Init => BeliefInv
BY DEF Init, BeliefInv, FactEarned, PreferenceEarned, At, Certain, Enough

LEMMA FactEarnedStep ==
    ASSUME TypeInv, FactEarned, Rest
    PROVE  FactEarned'
<1>0. /\ fact \in [count : Nat, conf : 0 .. Certain, of : SUBSET Present, embedded : BOOLEAN]
      /\ (fact.count = 0) = (fact.conf = 0)
  BY DEF TypeInv, BeliefsTyped
<1>1. /\ fact.count \in Nat /\ fact.conf \in Nat /\ fact.conf <= 10 /\ nights \in Nat
      /\ fact.count = 0 <=> fact.conf = 0
  BY <1>0, SceneFacts DEF Certain, TypeInv, TasksTyped, BoundsTyped
<1>2. ASSUME fact'.count = fact.count, fact'.conf = fact.conf,
             nights' = nights \/ nights' = nights + 1
      PROVE  FactEarned'
  BY <1>1, <1>2 DEF FactEarned
<1>3. ASSUME NEW m, fact' = StateFact(m), UNCHANGED nights
      PROVE  FactEarned'
  <2>1. /\ fact'.count = fact.count + 1
        /\ fact'.conf = IF fact.count = 0 THEN 3 ELSE Least(Certain, fact.conf + 1)
    BY <1>0, <1>3 DEF StateFact
  <2> QED BY <1>1, <1>3, <2>1 DEF FactEarned, Least, Certain, Enough
<1>4. CASE Consolidate
  <2>1. fact'.count = fact.count /\ fact'.conf = Least(Certain, fact.conf + 2)
        /\ nights' = nights + 1
    BY <1>0, <1>4 DEF Consolidate
  <2>2. fact.count >= 3
    BY <1>1, <1>4 DEF Consolidate, Confirmed, Enough
  <2> QED BY <1>1, <2>1, <2>2 DEF FactEarned, Least, Certain, Enough
<1>5. CASE UNCHANGED nights /\ fact' = [fact EXCEPT !.embedded = TRUE]
  <2>1. fact'.count = fact.count /\ fact'.conf = fact.conf
    BY <1>0, <1>5
  <2> QED BY <1>2, <1>5, <2>1
<1>6. CASE UNCHANGED fact /\ (nights' = nights \/ nights' = nights + 1)
  BY <1>2, <1>6
<1> QED
  BY <1>3, <1>4, <1>5, <1>6 DEF Rest, FactChanges

LEMMA BeliefStep ==
    ASSUME TypeInv, BeliefInv, [Next]_vars
    PROVE  BeliefInv'
<1>0. step \in [Passes -> Steps] /\ attended \in [Meetings -> SUBSET Roles]
  BY DEF TypeInv, TasksTyped, NodesTyped
<1>1. CASE IsRead
  <2>1. PICK n \in Passes, m \in Meetings : ReadRow(n, m)
    BY <1>1 DEF IsRead
  <2>2. UNCHANGED <<fact, prefers, attended, nights, HasMet>>
    BY <2>1 DEF ReadRow, nodes, beliefs, bounds, HasMet
  <2>3. \A k \in Passes : step'[k] = "prefer" => step[k] = "prefer"
    BY <1>0, <2>1 DEF ReadRow, Goto
  <2> QED BY <2>2, <2>3 DEF BeliefInv, FactEarned, PreferenceEarned, At
<1>2. ASSUME NEW n \in Passes, NEW m \in Meetings, NEW d \in Nat \ {0}, NEW role \in Roles,
             NEW decides \in BOOLEAN, Upserts(n, m, d, role, decides)
      PROVE  BeliefInv'
  <2>1. FactEarned'
    BY <1>2 DEF Upserts, BeliefInv, FactEarned
  <2>2. \A k \in Meetings : attended[k] \subseteq attended'[k] /\ attended'[k] \subseteq Roles
    BY <1>0, <1>2 DEF Upserts
  <2>3. HasMet => HasMet'
    <3>1. CASE \E k \in Meetings : attended[k] = Roles
      BY <2>2, <3>1 DEF HasMet
    <3>2. CASE Cardinality({k \in Meetings : attended[k] # {}}) >= Enough
      <4>1. PICK S : S = {k \in Meetings : attended[k] # {}}
        OBVIOUS
      <4>2. PICK T : T = {k \in Meetings : attended'[k] # {}}
        OBVIOUS
      <4>3. S \subseteq T /\ T \subseteq Meetings
        BY <2>2, <4>1, <4>2
      <4>4. Cardinality(S) \in Nat /\ Cardinality(T) \in Nat /\ Cardinality(S) <= Cardinality(T)
        BY <4>3, MeetingsAreFinite, FS_Subset
      <4>5. Cardinality(T) >= Enough
        BY <3>2, <4>1, <4>4 DEF Enough
      <4> QED BY <4>2, <4>5 DEF HasMet
    <3> QED BY <3>1, <3>2 DEF HasMet
  <2>4. UNCHANGED prefers /\ \A k \in Passes : step'[k] = "prefer" => step[k] = "prefer"
    BY <1>0, <1>2 DEF Upserts
  <2>5. PreferenceEarned'
    BY <2>3, <2>4 DEF BeliefInv, PreferenceEarned, At
  <2> QED BY <2>1, <2>5 DEF BeliefInv
<1>3. CASE Rest
  <2>1. HasMet' = HasMet
    BY <1>3 DEF Rest, HasMet
  <2>2. ASSUME NEW n \in Passes, step'[n] = "prefer"
        PROVE  HasMet
    <3>1. step[n] = "prefer" \/ Cardinality(AttendedEdges) >= Enough
      BY <1>3, <2>2 DEF Rest, Onward
    <3>2. step[n] = "prefer" => HasMet
      BY DEF BeliefInv, PreferenceEarned, At
    <3> QED BY <3>1, <3>2, EdgesAreMeetings
  <2>3. prefers' > 0 => HasMet
    BY <1>3 DEF Rest, PrefersChanges, BeliefInv, PreferenceEarned
  <2>4. PreferenceEarned'
    BY <2>1, <2>2, <2>3 DEF PreferenceEarned, At
  <2> QED BY <1>3, <2>4, FactEarnedStep DEF BeliefInv
<1>4. CASE IsWrite
  BY <1>2, <1>4, UpsertFacts DEF IsWrite
<1> QED
  BY <1>1, <1>3, <1>4, Effects

LEMMA BeliefImplies == BeliefInv => BeliefsAreEarned
BY DEF BeliefInv, FactEarned, PreferenceEarned, HasMet, BeliefsAreEarned
-----------------------------------------------------------------------------
(***************************************************************************)
(* What a clean pass leaves.                                               *)
(***************************************************************************)
LEMMA CleanInit == Init => CleanInv
BY DEF Init, CleanInv, AloneInv, LinkedInv, EmbeddedInv

LEMMA CleanTypes ==
    ASSUME TypeInv, NEW m \in Meetings, m \in clean
    PROVE  /\ summary[m] \in Passes /\ meeting[summary[m]] = m /\ date[m] # 0
           /\ seen[summary[m]].date = date[m]
           /\ step[summary[m]] \in Steps /\ step[summary[m]] \notin {"waiting", "read"}
BY DEF TypeInv, NodesTyped, TasksTyped, Present

\* How the pass whose summary a clean meeting has comes past the three layers.
CleanMove(m, n) ==
    /\ step'[n] \in PastLink => step[n] \in PastLink \/ Link(n)
    /\ step'[n] \in PastEmbed => step[n] \in PastEmbed \/ embedding'[m] = n
    /\ step'[n] \in PastFacts => step[n] \in PastFacts \/ (m \in fact'.of => fact'.embedded)

LEMMA CleanEffects ==
    ASSUME TypeInv, [Next]_vars, ~IsRead, ~IsWrite, NEW m \in Meetings, m \in clean, m \in clean',
           NEW n \in Passes, n = summary[m]
    PROVE  CleanMove(m, n)
<1>0. /\ step \in [Passes -> Steps] /\ meeting[n] = m /\ step[n] \notin {"waiting", "read"}
      /\ embedding \in [Meetings -> {0} \cup Passes]
      /\ fact \in [count : Nat, conf : 0 .. Certain, of : SUBSET Present, embedded : BOOLEAN]
  BY CleanTypes DEF TypeInv, TasksTyped, VectorsTyped, BeliefsTyped
<1>s. ASSUME step'[n] = step[n]
      PROVE  CleanMove(m, n)
  BY <1>s DEF CleanMove
<1>p. ~Spoils(n)
  BY DEF Spoils
<1>o. ASSUME NEW k \in Passes, k # n, NEW t, step' = [step EXCEPT ![k] = t]
      PROVE  CleanMove(m, n)
  <2>1. step'[n] = step[n]
    BY <1>0, <1>o
  <2> QED BY <1>s, <2>1
<1> USE DEF At, Goto, Advance
<1>1. ASSUME NEW k \in Passes, ExtractionFails(k)
      PROVE  CleanMove(m, n)
  <2>1. k # n
    BY <1>0, <1>1 DEF ExtractionFails
  <2> QED BY <1>1, <1>o, <2>1 DEF ExtractionFails
<1>2. ASSUME NEW k \in Passes, PushFails(k) \/ SkipRest(k)
      PROVE  CleanMove(m, n)
  <2>1. k # n
    BY <1>2, <1>p DEF PushFails, SkipRest
  <2> QED BY <1>2, <1>o, <2>1 DEF PushFails, SkipRest
<1>3. ASSUME NEW k \in Passes,
             \/ ExtractFacts(k) \/ CountMeetings(k) \/ InferPreference(k) \/ Strengthen(k)
      PROVE  CleanMove(m, n)
  <2>1. UNCHANGED step \/ \E t \in {"prefs", "prefer", "bonds", "link"} :
                             step' = [step EXCEPT ![k] = t]
    BY <1>3 DEF ExtractFacts, CountMeetings, InferPreference, Strengthen, After
  <2>2. CASE UNCHANGED step
    BY <1>s, <2>2
  <2>3. ASSUME NEW t \in {"prefs", "prefer", "bonds", "link"}, step' = [step EXCEPT ![k] = t]
        PROVE  CleanMove(m, n)
    <3>1. CASE k = n
      BY <1>0, <2>3, <3>1 DEF CleanMove, PastLink, PastCause, PastMatch, PastEmbed, PastFacts
    <3> QED BY <1>o, <2>3, <3>1
  <2> QED BY <2>1, <2>2, <2>3
<1>4. ASSUME NEW k \in Passes, Link(k)
      PROVE  CleanMove(m, n)
  <2>1. step' = [step EXCEPT ![k] = "cause"]
    BY <1>4 DEF Link, After
  <2>2. CASE k = n
    BY <1>0, <1>4, <2>1, <2>2 DEF CleanMove, PastEmbed, PastFacts
  <2> QED BY <1>o, <2>1, <2>2
<1>5. ASSUME NEW k \in Passes, DetectCausality(k) \/ MatchProcedure(k)
      PROVE  CleanMove(m, n)
  <2>1. \E t \in {"match", "embed"} : step' = [step EXCEPT ![k] = t] /\ step[k] \in PastLink
    BY <1>5 DEF DetectCausality, MatchProcedure, After, PastLink, PastCause, PastMatch
  <2>2. CASE k = n
    BY <1>0, <2>1, <2>2 DEF CleanMove, PastEmbed, PastFacts
  <2> QED BY <1>o, <2>1, <2>2
<1>6. ASSUME NEW k \in Passes, EmbedMeeting(k)
      PROVE  CleanMove(m, n)
  <2>1. step[k] = "embed" /\ step' = [step EXCEPT ![k] = "embed_facts"]
    BY <1>6 DEF EmbedMeeting, After
  <2>2. CASE k = n
    <3>1. embedding' = [embedding EXCEPT ![m] = n]
      BY <1>0, <1>6, <1>p, <2>2 DEF EmbedMeeting
    <3> QED BY <1>0, <2>1, <2>2, <3>1
            DEF CleanMove, PastLink, PastCause, PastMatch, PastEmbed, PastFacts
  <2> QED BY <1>o, <2>1, <2>2
<1>7. ASSUME NEW k \in Passes, EmbedFacts(k)
      PROVE  CleanMove(m, n)
  <2>1. step[k] = "embed_facts" /\ step' = [step EXCEPT ![k] = "mark"]
    BY <1>7 DEF EmbedFacts, After
  <2>2. CASE k = n
    <3>1. m \in fact'.of => fact'.embedded
      BY <1>0, <1>7, <1>p, <2>2 DEF EmbedFacts
    <3> QED BY <1>0, <2>1, <2>2, <3>1
            DEF CleanMove, PastLink, PastCause, PastMatch, PastEmbed, PastFacts
  <2> QED BY <1>o, <2>1, <2>2
<1>8. ASSUME NEW k \in Passes, Mark(k)
      PROVE  CleanMove(m, n)
  <2>1. step[k] = "mark" /\ step' = [step EXCEPT ![k] = "done"]
    BY <1>8 DEF Mark
  <2>2. CASE k = n
    BY <1>0, <2>1, <2>2 DEF CleanMove, PastLink, PastCause, PastMatch, PastEmbed, PastFacts
  <2> QED BY <1>o, <2>1, <2>2
<1>9. ASSUME Crash
      PROVE  CleanMove(m, n)
  <2>1. n \notin Active
    BY <1>9 DEF Crash
  <2>2. step'[n] = step[n]
    BY <1>9, <2>1 DEF Crash
  <2> QED BY <1>s, <2>2
<1>10. ASSUME (\E k \in Meetings : Restage(k)) \/ Nightly \/ Backfill \/ UNCHANGED vars
       PROVE  CleanMove(m, n)
  <2>1. UNCHANGED step
    BY <1>10 DEF Restage, Nightly, Consolidate, ReadUnmatched, NameCluster, LinkCluster,
                 EndOfNight, Backfill, BackfillRead, BackfillMeeting, BackfillFact, tasks, vars
  <2> QED BY <1>s, <2>1
<1> QED
  <2> HIDE DEF At, Goto, Advance
  <2> QED BY <1>1, <1>2, <1>3, <1>4, <1>5, <1>6, <1>7, <1>8, <1>9, <1>10
          DEF Next, Pass, IsRead, IsWrite

LEMMA AloneRest ==
    ASSUME TypeInv, AloneInv, Rest
    PROVE  AloneInv'
<1> SUFFICES ASSUME NEW m \in Meetings, m \in clean, m \in clean'
             PROVE  Alone(m)'
  BY DEF Rest, AloneInv, TypeInv, NodesTyped, Present
<1>1. Alone(m) /\ UNCHANGED <<meeting, summary>>
  BY DEF AloneInv, Rest
<1>2. \A n \in Passes : step'[n] \in ToEmbed => step[n] \in ToEmbed
  BY DEF Rest, Onward
<1>3. backfill'[m] \in {0, summary[m]}
  <2>0. backfill \in [Meetings -> {0} \cup Passes] /\ backfill[m] \in {0, summary[m]}
    BY <1>1 DEF Alone, TypeInv, VectorsTyped
  <2>1. CASE BackfillRead
    BY <2>1 DEF BackfillRead
  <2>2. ASSUME NEW k \in Meetings, BackfillMeeting(k)
        PROVE  backfill'[m] \in {0, summary[m]}
    BY <2>0, <2>2 DEF BackfillMeeting
  <2> QED BY <2>0, <2>1, <2>2 DEF Rest, VectorsChange
<1> QED
  BY <1>1, <1>2, <1>3 DEF Alone

LEMMA EmbeddedRest ==
    ASSUME TypeInv, AloneInv, EmbeddedInv, Rest,
           \A m \in Meetings, n \in Passes :
             m \in clean /\ m \in clean' /\ n = summary[m] => CleanMove(m, n)
    PROVE  EmbeddedInv'
<1> SUFFICES ASSUME NEW m \in Meetings, m \in clean, m \in clean'
             PROVE  /\ step'[summary'[m]] \in PastEmbed => embedding'[m] = summary'[m]
                    /\ step'[summary'[m]] \in PastFacts /\ m \in fact'.of => fact'.embedded
  BY DEF Rest, EmbeddedInv, TypeInv, NodesTyped, Present
<1>1. PICK s \in Passes : s = summary[m] /\ s = summary'[m]
  BY CleanTypes DEF Rest
<1>2. Alone(m) /\ CleanMove(m, s)
  BY <1>1 DEF AloneInv
<1>3. /\ embedding \in [Meetings -> {0} \cup Passes]
      /\ fact \in [count : Nat, conf : 0 .. Certain, of : SUBSET Present, embedded : BOOLEAN]
  BY DEF TypeInv, VectorsTyped, BeliefsTyped
<1>4. embedding'[m] \in {embedding[m], s}
  <2>1. ASSUME NEW n \in Passes, step[n] = "embed",
               embedding' = [embedding EXCEPT ![meeting[n]] = n]
        PROVE  embedding'[m] \in {embedding[m], s}
    <3>1. meeting[n] = m => n = s
      BY <1>1, <1>2, <2>1 DEF Alone, ToEmbed, After
    <3> QED BY <1>3, <2>1, <3>1
  <2>2. ASSUME NEW k \in Meetings, BackfillMeeting(k)
        PROVE  embedding'[m] \in {embedding[m], s}
    BY <1>1, <1>2, <1>3, <2>2 DEF BackfillMeeting, Alone
  <2> QED BY <2>1, <2>2 DEF Rest, VectorsChange, BackfillRead, Moves
<1>5. /\ fact.embedded => fact'.embedded
      /\ step[s] \in PastFacts => (m \in fact'.of => m \in fact.of)
  <2>1. ASSUME NEW n \in Passes, step[n] = "facts", fact' = StateFact(meeting[n])
        PROVE  <1>5!1 /\ <1>5!2
    <3>1. meeting[n] = m => n = s
      BY <1>1, <1>2, <2>1 DEF Alone, ToEmbed, After
    <3>2. fact'.of = fact.of \cup {meeting[n]} /\ fact'.embedded = fact.embedded
      BY <1>3, <2>1 DEF StateFact
    <3> QED BY <2>1, <3>1, <3>2 DEF PastFacts
  <2>2. CASE fact' = [fact EXCEPT !.embedded = TRUE]
    BY <1>3, <2>2
  <2>3. CASE Consolidate
    BY <1>3, <2>3 DEF Consolidate
  <2> QED BY <2>1, <2>2, <2>3 DEF Rest, FactChanges
<1>6. /\ step[s] \in PastEmbed => embedding[m] = s
      /\ step[s] \in PastFacts /\ m \in fact.of => fact.embedded
  BY <1>1 DEF EmbeddedInv
<1>7. step'[s] \in PastEmbed => embedding'[m] = s
  BY <1>2, <1>4, <1>6 DEF CleanMove
<1>8. step'[s] \in PastFacts /\ m \in fact'.of => fact'.embedded
  BY <1>2, <1>5, <1>6 DEF CleanMove
<1> QED
  BY <1>1, <1>7, <1>8

LEMMA LinkedRest ==
    ASSUME TypeInv, AloneInv, LinkedInv, Rest,
           \A m \in Meetings, n \in Passes :
             m \in clean /\ m \in clean' /\ n = summary[m] => CleanMove(m, n)
    PROVE  LinkedInv'
<1> SUFFICES ASSUME NEW m \in Meetings, m \in clean, m \in clean',
                    step'[summary'[m]] \in PastLink
             PROVE  Linked(m)'
  BY DEF Rest, LinkedInv, TypeInv, NodesTyped, Present
<1>0. PICK s \in Passes :
        /\ s = summary[m] /\ s = summary'[m] /\ meeting[s] = m /\ seen[s].date = date[m]
  BY CleanTypes DEF Rest
<1>1. CleanMove(m, s) /\ Alone(m) /\ (step[s] \in PastLink => Linked(m))
  BY <1>0 DEF AloneInv, LinkedInv
<1>2. /\ UNCHANGED <<scene, date, moved, Present>> /\ newcomers \in [Meetings -> SUBSET Present]
      /\ Earlier(m, date[m])' = Earlier(m, date[m]) /\ step \in [Passes -> Steps]
  BY DEF Rest, Present, Earlier, Shares, TypeInv, EdgesTyped, TasksTyped
<1>3. CASE UNCHANGED <<chain, newcomers>> /\ step[s] \in PastLink
  BY <1>1, <1>2, <1>3 DEF Linked
<1>4. ASSUME NEW n \in Passes, Link(n)
      PROVE  Linked(m)'
  <2>0. /\ step[n] = "link" /\ step' = [step EXCEPT ![n] = "cause"]
        /\ newcomers' = [newcomers EXCEPT ![meeting[n]] = {}]
    BY <1>4 DEF Link, At, Advance, Goto, After
  <2>1. CASE meeting[n] = m
    <3>1. n = s
      BY <1>0, <1>1, <2>0, <2>1 DEF Alone, ToEmbed, After
    <3>2. CASE m \in scene.misspelt
      BY <1>2, <3>2 DEF Linked
    <3>3. CASE m \notin scene.misspelt
      <4>1. \/ Earlier(m, date[m]) = {}
            \/ \E k \in MostRecent(Earlier(m, date[m])) : chain' = chain \cup {<<m, k>>}
        BY <1>0, <1>4, <3>1, <3>3 DEF Link
      <4>2. CASE Earlier(m, date[m]) = {}
        BY <1>2, <4>2 DEF Linked
      <4>3. ASSUME NEW k \in MostRecent(Earlier(m, date[m])), chain' = chain \cup {<<m, k>>}
            PROVE  Linked(m)'
        <5>1. k \in Present /\ \A j \in Earlier(m, date[m]) : date[j] <= date[k]
          BY DEF MostRecent, Earlier
        <5>2. \A j \in Earlier(m, date[m])' :
                date'[j] <= date'[k] /\ <<m, k>> \in chain' /\ k \in Present'
          BY <1>2, <4>3, <5>1
        <5> QED BY <5>2 DEF Linked
      <4> QED BY <4>1, <4>2, <4>3
    <3> QED BY <3>2, <3>3
  <2>2. CASE meeting[n] # m
    <3>1. step[s] \in PastLink /\ newcomers'[m] = newcomers[m] /\ chain \subseteq chain'
      <4>1. step'[s] = step[s]
        BY <1>0, <1>2, <2>0, <2>2
      <4>2. chain \subseteq chain'
        BY <1>4 DEF Link
      <4>3. newcomers'[m] = newcomers[m]
        BY <1>2, <2>0, <2>2
      <4> QED BY <1>0, <4>1, <4>2, <4>3
    <3> QED BY <1>1, <1>2, <3>1 DEF Linked
  <2> QED BY <2>1, <2>2
<1> QED
  BY <1>0, <1>1, <1>3, <1>4 DEF CleanMove, Rest, ChainChanges

LEMMA CleanRead ==
    ASSUME TypeInv, CleanInv, NEW n \in Passes, NEW m \in Meetings, ReadRow(n, m)
    PROVE  CleanInv'
<1>0. /\ step \in [Passes -> Steps] /\ meeting \in [Passes -> Meetings \cup {NoMeeting}]
      /\ clean \subseteq Meetings
  BY DEF TypeInv, TasksTyped, NodesTyped, Present
<1>1. /\ UNCHANGED <<scene, clean, summary, date, moved, chain, newcomers, fact, embedding,
                     backfill>>
      /\ step[n] = "waiting" /\ step' = [step EXCEPT ![n] = "read"]
      /\ meeting' = [meeting EXCEPT ![n] = m]
  BY DEF ReadRow, At, Goto, nodes, edges, beliefs, vectors
<1>2. \A k \in Passes : /\ k # n => step'[k] = step[k] /\ meeting'[k] = meeting[k]
                        /\ step'[k] \in ToEmbed => k # n
  BY <1>0, <1>1 DEF ToEmbed, After
<1>3. AloneInv'
  BY <1>1, <1>2 DEF CleanInv, AloneInv, Alone
<1>4. \A k \in clean : summary[k] \in Passes /\ summary[k] # n
  BY <1>0, <1>1, CleanTypes
<1>5. EmbeddedInv'
  BY <1>1, <1>2, <1>4 DEF CleanInv, EmbeddedInv
<1>6. \A k \in clean : Linked(k)' = Linked(k)
  BY <1>1 DEF Linked, Earlier, Present, Shares
<1>7. LinkedInv'
  BY <1>1, <1>2, <1>4, <1>6 DEF CleanInv, LinkedInv
<1> QED
  BY <1>3, <1>5, <1>7 DEF CleanInv

\* A meeting that is new, or moves, is a newcomer to every other.
LEMMA LinkedWrite ==
    ASSUME TypeInv, NEW n \in Passes, NEW m \in Meetings, NEW d \in Nat \ {0},
           NEW role \in Roles, NEW decides \in BOOLEAN, Upserts(n, m, d, role, decides),
           NEW j \in Meetings, j # m, Linked(j)
    PROVE  Linked(j)'
<1>0. date \in [Meetings -> Nat] /\ newcomers \in [Meetings -> SUBSET Present]
  BY DEF TypeInv, NodesTyped, EdgesTyped
<1>1. /\ UNCHANGED <<scene, chain>>
      /\ date' = [date EXCEPT ![m] = d]
      /\ moved' = IF date[m] \in {0, d} THEN moved ELSE moved \cup {m}
      /\ newcomers' = IF date[m] = d THEN newcomers
                      ELSE [k \in Meetings |-> newcomers[k] \cup {m}]
  BY DEF Upserts
<1>2. CASE j \in scene.misspelt \/ j \in moved
  BY <1>1, <1>2 DEF Linked
<1>3. CASE j \notin scene.misspelt /\ j \notin moved
  <2> SUFFICES ASSUME NEW k \in Earlier(j, date[j])' \ newcomers'[j]
               PROVE  \E e \in Present' :
                        <<j, e>> \in chain' /\ (e \in moved' \/ date'[k] <= date'[e])
    BY DEF Linked
  <2>1. k \in Meetings /\ date'[k] # 0 /\ k # j /\ Shares(j, k) /\ date'[k] < date'[j]
    BY DEF Earlier, Present, Shares
  <2>2. date'[j] = date[j]
    BY <1>0, <1>1
  <2>3. date'[k] = date[k] /\ k \notin newcomers[j]
    <3>1. CASE k = m
      BY <1>0, <1>1, <3>1
    <3>2. CASE k # m
      BY <1>0, <1>1, <2>1, <3>2
    <3> QED BY <3>1, <3>2
  <2>4. k \in Earlier(j, date[j]) \ newcomers[j]
    BY <2>1, <2>2, <2>3 DEF Earlier, Present, Shares
  <2>5. PICK e \in Present : <<j, e>> \in chain /\ (e \in moved \/ date[k] <= date[e])
    BY <1>3, <2>4 DEF Linked
  <2>6. e \in Present'
    BY <1>0, <1>1 DEF Present
  <2>7. e \in moved' \/ date'[k] <= date'[e]
    <3>1. CASE e = m
      <4>1. date[e] # 0
        BY <2>5 DEF Present
      <4> QED BY <1>0, <1>1, <2>3, <2>5, <3>1, <4>1
    <3>2. CASE e # m
      BY <1>0, <1>1, <2>3, <2>5, <3>2 DEF Present
    <3> QED BY <3>1, <3>2
  <2> QED BY <1>1, <2>5, <2>6, <2>7
<1> QED
  BY <1>2, <1>3

LEMMA CleanWrite ==
    ASSUME TypeInv, CleanInv, NEW n \in Passes, NEW m \in Meetings, NEW d \in Nat \ {0},
           NEW role \in Roles, NEW decides \in BOOLEAN, Upserts(n, m, d, role, decides)
    PROVE  CleanInv'
<1>0. /\ step \in [Passes -> Steps] /\ clean \subseteq Meetings
      /\ summary \in [Meetings -> {0} \cup Passes]
      /\ backfill \in [Meetings -> {0} \cup Passes]
  BY DEF TypeInv, TasksTyped, NodesTyped, VectorsTyped, Present
<1>1. /\ UNCHANGED <<meeting, fact, embedding, backfill>> /\ m = meeting[n]
      /\ clean' = IF Held(m) THEN clean \ {m} ELSE clean \cup {m}
      /\ step[n] = "read" /\ step' = [step EXCEPT ![n] = "facts"]
      /\ summary' = [summary EXCEPT ![m] = n]
  BY DEF Upserts
<1>2. /\ summary'[m] = n /\ \A k \in Meetings : k # m => summary'[k] = summary[k]
      /\ step'[n] = "facts" /\ \A k \in Passes : k # n => step'[k] = step[k]
  BY <1>0, <1>1
<1>3. \A k \in clean' : k # m => /\ k \in clean /\ summary[k] \in Passes
                                 /\ step'[summary'[k]] = step[summary[k]]
  <2>1. \A k \in clean : summary[k] \in Passes /\ step[summary[k]] # "read"
    BY <1>0, CleanTypes
  <2> QED BY <1>0, <1>1, <1>2, <2>1
<1>4. AloneInv'
  <2>1. ASSUME NEW k \in clean', k # m
        PROVE  Alone(k)'
    <3>1. Alone(k) /\ summary'[k] = summary[k]
      BY <1>0, <1>2, <1>3, <2>1 DEF CleanInv, AloneInv
    <3> QED BY <1>1, <1>2, <2>1, <3>1 DEF Alone
  <2>2. ASSUME m \in clean'
        PROVE  Alone(m)'
    <3>1. ~Held(m)
      BY <1>1, <2>2
    <3>2. backfill[m] = 0 /\ \A k \in Passes : meeting[k] = m => step[k] \notin ToEmbed
      BY <3>1 DEF Held, PassesOver
    <3> QED BY <1>1, <1>2, <3>2 DEF Alone
  <2> QED BY <2>1, <2>2 DEF AloneInv
<1>5. EmbeddedInv'
  <2> SUFFICES ASSUME NEW k \in clean'
               PROVE  /\ step'[summary'[k]] \in PastEmbed => embedding'[k] = summary'[k]
                      /\ step'[summary'[k]] \in PastFacts /\ k \in fact'.of => fact'.embedded
    BY DEF EmbeddedInv
  <2>1. CASE k = m
    BY <1>2, <2>1 DEF PastEmbed, PastFacts
  <2>2. CASE k # m
    BY <1>0, <1>1, <1>2, <1>3, <2>2 DEF CleanInv, EmbeddedInv
  <2> QED BY <2>1, <2>2
<1>6. LinkedInv'
  <2> SUFFICES ASSUME NEW k \in clean', step'[summary'[k]] \in PastLink
               PROVE  Linked(k)'
    BY DEF LinkedInv
  <2>1. k # m
    BY <1>2 DEF PastLink, PastCause, PastMatch, PastEmbed, PastFacts
  <2>2. Linked(k) /\ k \in Meetings
    BY <1>0, <1>3, <2>1 DEF CleanInv, LinkedInv
  <2> QED BY <2>1, <2>2, LinkedWrite
<1> QED
  BY <1>4, <1>5, <1>6 DEF CleanInv

LEMMA CleanStep ==
    ASSUME TypeInv, CleanInv, [Next]_vars
    PROVE  CleanInv'
<1>1. CASE IsRead
  BY <1>1, CleanRead DEF IsRead
<1>2. CASE IsWrite
  BY <1>2, UpsertFacts, CleanWrite DEF IsWrite
<1>3. CASE ~IsRead /\ ~IsWrite
  <2>1. Rest
    BY <1>3, Effects
  <2>2. \A m \in Meetings, n \in Passes :
          m \in clean /\ m \in clean' /\ n = summary[m] => CleanMove(m, n)
    BY <1>3, CleanEffects
  <2> QED BY <2>1, <2>2, AloneRest, EmbeddedRest, LinkedRest DEF CleanInv
<1> QED
  BY <1>1, <1>2, <1>3

LEMMA CleanImplies == TypeInv /\ CleanInv => CleanPassIsRemembered
BY DEF TypeInv, NodesTyped, Present, CleanInv, LinkedInv, EmbeddedInv, CleanPassIsRemembered, At,
       PastLink, PastCause, PastMatch, PastEmbed, PastFacts
-----------------------------------------------------------------------------
(***************************************************************************)
(* A meeting follows at most one inferred procedure.                       *)
(***************************************************************************)
LEMMA ProcedureInit == Init => ProcedureInv
BY DEF Init, ProcedureInv, Asleep

LEMMA ProcedureStep ==
    ASSUME TypeInv, ProcedureInv, [Next]_vars
    PROVE  ProcedureInv'
<1>0. /\ inferred \in [Names -> [made : BOOLEAN, of : SUBSET Present]]
      /\ night \in [step : {"idle", "name", "write"}, unmatched : SUBSET Present,
                    name : SUBSET Names, cluster : SUBSET Present, used : SUBSET Names]
      /\ night.cluster \subseteq night.unmatched
  BY DEF TypeInv, ProceduresTyped
<1>1. CASE UNCHANGED <<inferred, night>>
  BY <1>1 DEF ProcedureInv
<1>2. CASE UNCHANGED inferred /\ night' = Asleep
  BY <1>2 DEF ProcedureInv, Asleep
<1>3. CASE ReadUnmatched
  <2>1. UNCHANGED inferred /\ night'.unmatched = Unmatched
    BY <1>3 DEF ReadUnmatched, procedures, Asleep
  <2>2. \A x \in Names : Unmatched \cap inferred[x].of = {}
    BY DEF Unmatched
  <2> QED BY <2>1, <2>2 DEF ProcedureInv
<1>4. CASE NameCluster
  <2>1. PICK c \in SUBSET night.unmatched, x \in Names \ night.used :
          /\ inferred' = [inferred EXCEPT ![x].made = TRUE]
          /\ night' = [night EXCEPT !.step = "write", !.name = {x}, !.cluster = c,
                                    !.used = @ \cup {x}]
    BY <1>4 DEF NameCluster
  <2>2. night'.unmatched = night.unmatched /\ \A y \in Names : inferred'[y].of = inferred[y].of
    BY <1>0, <2>1
  <2> QED BY <2>2 DEF ProcedureInv
<1>5. CASE LinkCluster
  <2>1. ASSUME NEW m \in night.cluster, NEW x \in night.name,
               inferred' = [inferred EXCEPT ![x].of = @ \cup {m}],
               night' = [night EXCEPT !.cluster = @ \ {m}, !.unmatched = @ \ {m}]
        PROVE  ProcedureInv'
    <3>1. /\ m \in night.unmatched /\ x \in Names
          /\ night'.unmatched = night.unmatched \ {m}
          /\ inferred'[x].of = inferred[x].of \cup {m}
          /\ \A y \in Names \ {x} : inferred'[y].of = inferred[y].of
      BY <1>0, <2>1
    <3>2. \A y \in Names : m \notin inferred[y].of
      BY <3>1 DEF ProcedureInv
    <3>3. ASSUME NEW y \in Names, NEW z \in Names, y # z
          PROVE  inferred'[y].of \cap inferred'[z].of = {}
      <4>1. inferred[y].of \cap inferred[z].of = {}
        BY <3>3 DEF ProcedureInv
      <4> QED BY <3>1, <3>2, <3>3, <4>1
    <3>4. ASSUME NEW y \in Names
          PROVE  night'.unmatched \cap inferred'[y].of = {}
      <4>1. night.unmatched \cap inferred[y].of = {}
        BY DEF ProcedureInv
      <4> QED BY <3>1, <4>1
    <3> QED BY <3>3, <3>4 DEF ProcedureInv
  <2>2. CASE UNCHANGED inferred /\ night'.unmatched \subseteq night.unmatched
    BY <2>2 DEF ProcedureInv
  <2>3. \/ \E m \in night.cluster, x \in night.name :
             /\ inferred' = [inferred EXCEPT ![x].of = @ \cup {m}]
             /\ night' = [night EXCEPT !.cluster = @ \ {m}, !.unmatched = @ \ {m}]
        \/ UNCHANGED inferred /\ night'.unmatched \subseteq night.unmatched
    <3>1. CASE UNCHANGED inferred /\ night' = [night EXCEPT !.step = "name", !.name = {}]
      BY <1>0, <3>1
    <3>2. CASE /\ UNCHANGED inferred
               /\ night' = [night EXCEPT !.step = "name", !.name = {}, !.cluster = {},
                                         !.unmatched = @ \ night.cluster]
      BY <1>0, <3>2
    <3> QED BY <1>5, <3>1, <3>2 DEF LinkCluster
  <2> QED BY <2>1, <2>2, <2>3
<1>6. CASE IsRead \/ IsWrite
  BY <1>1, <1>6, UpsertFacts DEF IsRead, ReadRow, IsWrite, Upserts, procedures
<1>7. CASE Rest
  BY <1>1, <1>2, <1>3, <1>4, <1>5, <1>7 DEF Rest, ProceduresChange
<1> QED
  BY <1>6, <1>7, Effects

LEMMA ProcedureImplies == ProcedureInv => OneInferredProcedure
<1> SUFFICES ASSUME ProcedureInv, NEW m \in Meetings
             PROVE  Cardinality({x \in Names : m \in inferred[x].of}) <= 1
  BY DEF OneInferredProcedure
<1> DEFINE S == {x \in Names : m \in inferred[x].of}
<1>1. \A x, y \in S : x = y
  BY DEF ProcedureInv
<1> HIDE DEF S
<1>2. CASE S = {}
  <2>1. Cardinality(S) = 0
    BY <1>2, FS_EmptySet
  <2> QED BY <2>1 DEF S
<1>3. ASSUME NEW x \in S
      PROVE  Cardinality(S) <= 1
  <2>1. S = {x}
    BY <1>1
  <2>2. Cardinality(S) = 1
    BY <2>1, FS_Singleton
  <2> QED BY <2>2
<1> QED
  BY <1>2, <1>3 DEF S
-----------------------------------------------------------------------------
(***************************************************************************)
(* The theorems: each invariant holds at first and with every step.        *)
(***************************************************************************)
MemoryInv == TypeInv /\ EvidenceInv /\ BeliefInv /\ CleanInv /\ ProcedureInv

LEMMA MemoryInit == Init => MemoryInv
BY InitType, EvidenceInit, BeliefInit, CleanInit, ProcedureInit DEF MemoryInv

LEMMA MemoryStep == MemoryInv /\ [Next]_vars => MemoryInv'
BY TypeStep, EvidenceStep, BeliefStep, CleanStep, ProcedureStep DEF MemoryInv

LEMMA MemoryInvariant == Spec => []MemoryInv
BY MemoryInit, MemoryStep, PTL DEF Spec

(***************************************************************************)
(* The types of the memory: whatever a fact, a procedure, a link or a      *)
(* night refers to is a meeting that is in the graph, and a summary, an    *)
(* embedding and what the backfill holds were made by a pass over their    *)
(* own meeting.                                                            *)
(***************************************************************************)
THEOREM MemoryIsTyped == Spec => []TypeOK
<1>1. MemoryInv => TypeOK
  BY TypeInvType DEF MemoryInv
<1> QED
  BY <1>1, MemoryInvariant, PTL

(***************************************************************************)
(* Whatever meetings are processed, again after an edit or a crash, and by *)
(* several passes at once: a fact counts the statements made of it, at     *)
(* least one for each meeting that has it and at most says for each pass   *)
(* over them (extract_facts); a known procedure counts at most one for     *)
(* each pass (match_to_procedure); a pair knows each other by what the     *)
(* passes over its meetings add, listed * listed each at most              *)
(* (strengthen_relationships); and a meeting has no more causes than there *)
(* were passes over it (detect_causality).                                 *)
(***************************************************************************)
THEOREM EvidenceCountsPasses == Spec => []EvidenceIsCounted
<1>1. MemoryInv => EvidenceIsCounted
  BY EvidenceImplies DEF MemoryInv
<1> QED
  BY <1>1, MemoryInvariant, PTL

(***************************************************************************)
(* However often consolidate_semantic runs: no fact is certain, nor more   *)
(* confident than its statements make it, before it was stated three       *)
(* times, which one answer that repeats itself can do; none gains more     *)
(* than two tenths a night; and no preference is inferred of someone who   *)
(* was at fewer than three meetings, unless one gave them both roles       *)
(* (infer_preferences).                                                    *)
(***************************************************************************)
THEOREM NoBeliefIsUnearned == Spec => []BeliefsAreEarned
<1>1. MemoryInv => BeliefsAreEarned
  BY BeliefImplies DEF MemoryInv
<1> QED
  BY <1>1, MemoryInvariant, PTL

(***************************************************************************)
(* Once a pass is over that met no failure, and wrote its meeting when     *)
(* neither another pass nor a backfill had an older summary to embed:      *)
(* the meeting's embedding is that of its present summary (embed_meeting); *)
(* what it states is embedded (embed_facts_for_meeting); and it is linked  *)
(* to the nearest earlier one with a common attendee                       *)
(* (link_temporal_chain), but for those that came or moved since, unless   *)
(* its text misspells an address or it was moved itself; whatever other    *)
(* passes, edits, nights and backfills do between its steps and after      *)
(* them, until another pass writes the meeting.                            *)
(***************************************************************************)
THEOREM CleanPassLeavesMemory == Spec => []CleanPassIsRemembered
<1>1. MemoryInv => CleanPassIsRemembered
  BY CleanImplies DEF MemoryInv
<1> QED
  BY <1>1, MemoryInvariant, PTL

(***************************************************************************)
(* discover_procedures links a meeting to at most one procedure, over any  *)
(* number of nights that give the same names again, cut short anywhere:    *)
(* what it has read and not yet linked follows no inferred procedure.      *)
(***************************************************************************)
THEOREM ProceduresAreDisjoint == Spec => []OneInferredProcedure
<1>1. MemoryInv => OneInferredProcedure
  BY ProcedureImplies DEF MemoryInv
<1> QED
  BY <1>1, MemoryInvariant, PTL
=============================================================================
