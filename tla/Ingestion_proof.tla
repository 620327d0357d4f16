-------------------------- MODULE Ingestion_proof --------------------------
(***************************************************************************)
(* Theorems about Ingestion, for every value of its constants.             *)
(***************************************************************************)
EXTENDS Ingestion, TLAPS

\* A task that creates an issue is on one of its action items, which it has
\* still to push.
OnOK == \A t \in Tasks : step[t] \in {"create", "key"} => on[t] \in todo[t]

TypeInv == TypeOK /\ OnOK

(***************************************************************************)
(* The helpers keep the control variables well formed.                     *)
(***************************************************************************)
ControlOK ==
    /\ step \in [Tasks -> {"idle", "extract", "upsert", "push", "create", "key", "memory",
                          "mark"}]
    /\ seen \in [Tasks -> Nat]
    /\ todo \in [Tasks -> SUBSET Actions]
    /\ on \in [Tasks -> Actions \cup {NoAction}]
    /\ made \in [Tasks -> Nat]
    /\ OnOK

LEMMA TasksAreOfItems ==
    ASSUME NEW t \in Tasks
    PROVE  Raw(t) \in Items
BY DEF Tasks, Raw

LEMMA GiveUpControl ==
    ASSUME TypeInv, NEW t \in Tasks, GiveUp(t), UNCHANGED seen
    PROVE  ControlOK'
BY DEF TypeInv, TypeOK, OnOK, ControlOK, GiveUp

LEMMA GotoControl ==
    ASSUME TypeInv, NEW t \in Tasks, NEW s \in {"upsert", "push", "memory", "mark"},
           Goto(t, s), UNCHANGED seen
    PROVE  ControlOK'
BY DEF TypeInv, TypeOK, OnOK, ControlOK, Goto

LEMMA PushedControl ==
    ASSUME TypeInv, NEW t \in Tasks, step[t] = "push", NEW a \in Actions, Pushed(t, a),
           UNCHANGED <<step, on, made, seen>>
    PROVE  ControlOK'
BY DEF TypeInv, TypeOK, OnOK, ControlOK, Pushed

LEMMA NextActionControl ==
    ASSUME TypeInv, NEW t \in Tasks, step[t] \in {"create", "key"}, NextAction(t),
           UNCHANGED seen
    PROVE  ControlOK'
<1>1. on[t] \in Actions
  BY DEF TypeInv, TypeOK, OnOK
<1> QED
  BY <1>1 DEF TypeInv, TypeOK, OnOK, ControlOK, NextAction, Pushed

LEMMA RaisesType ==
    ASSUME TypeOK, NEW service, Raises(service)
    PROVE  faults' \in 0 .. MaxFaults
BY BoundsAssumption DEF TypeOK, Raises

(***************************************************************************)
(* Nodes keep their shape under the three ways they are written.           *)
(***************************************************************************)
LEMMA WriteMeetingType ==
    ASSUME TypeOK, NEW t \in Tasks, WriteMeeting(t)
    PROVE  written' \in [Items -> Nat] /\ node' \in [Actions -> Node]
<1>2. \A a \in Actions : node[a] \in Node
  BY DEF TypeOK
<1>1. \A a \in Actions : [node[a] EXCEPT !.known = TRUE, !.done = a \in Ticked] \in Node
  <2> TAKE a \in Actions
  <2>1. (a \in Ticked) \in BOOLEAN
    OBVIOUS
  <2>2. \A d \in BOOLEAN : [node[a] EXCEPT !.known = TRUE, !.done = d] \in Node
    BY <1>2 DEF Node
  <2> QED BY <2>1, <2>2
<1>3. Raw(t) \in Items
  BY TasksAreOfItems
<1>4. seen[t] \in Nat
  BY DEF TypeOK
<1>5. written' \in [Items -> Nat]
  BY <1>3, <1>4 DEF TypeOK, WriteMeeting
<1>6. node' \in [Actions -> Node]
  BY <1>1, <1>2 DEF WriteMeeting
<1> QED BY <1>5, <1>6

LEMMA NodeUpdateType ==
    ASSUME TypeOK, NEW a \in Actions, NEW k \in Nat
    PROVE  /\ [node EXCEPT ![a] = [@ EXCEPT !.status = "needs_review"]] \in [Actions -> Node]
           /\ [node EXCEPT ![a] = [@ EXCEPT !.key = k, !.status = "Open"]] \in [Actions -> Node]
           /\ [node EXCEPT ![a] = [@ EXCEPT !.status = "Done", !.done = TRUE]]
                \in [Actions -> Node]
<1>1. node[a] \in Node
  BY DEF TypeOK
<1>2. /\ [node[a] EXCEPT !.status = "needs_review"] \in Node
      /\ [node[a] EXCEPT !.key = k, !.status = "Open"] \in Node
      /\ [node[a] EXCEPT !.status = "Done", !.done = TRUE] \in Node
  BY <1>1 DEF Node
<1> QED BY <1>2 DEF TypeOK

-----------------------------------------------------------------------------
(***************************************************************************)
(* Type correctness.  The invariant is TypeOK with OnOK, without which the *)
(* counter of the issue that a task creates need not exist.                *)
(***************************************************************************)
LEMMA TypeParts ==
    ASSUME staging' = staging \/ (/\ version' \in [Items -> Nat]
                                  /\ content' \in [Items -> SUBSET Actions]
                                  /\ processed' \in [Items -> BOOLEAN]),
           TypeOK,
           written' \in [Items -> Nat], node' \in [Actions -> Node], embedded' \subseteq Actions,
           mentioned' \subseteq Actions \X Items, issues' \in [Actions -> Nat],
           ControlOK', faults' \in 0 .. MaxFaults, crashes' \in 0 .. MaxCrashes
    PROVE  TypeInv'
BY DEF TypeInv, TypeOK, ControlOK, staging

LEMMA InitType ==
    ASSUME Init
    PROVE  TypeInv
<1>1. [known |-> FALSE, done |-> FALSE, key |-> 0, status |-> "none"] \in Node
  BY DEF Node
<1> QED
  BY <1>1, SourcesAssumption, BoundsAssumption DEF Init, TypeInv, TypeOK, OnOK

LEMMA PassBeginsType ==
    ASSUME TypeInv, NEW p \in Passes, PassBegins(p)
    PROVE  TypeInv'
<1>1. \A t \in Tasks : version[Raw(t)] \in Nat /\ content[Raw(t)] \in SUBSET Actions
  BY TasksAreOfItems DEF TypeInv, TypeOK
<1>2. ControlOK'
  BY <1>1 DEF TypeInv, TypeOK, OnOK, ControlOK, PassBegins
<1> QED
  BY <1>2, TypeParts DEF TypeInv, TypeOK, PassBegins, graph, budget

LEMMA TaskStepType ==
    ASSUME TypeInv, NEW t \in Tasks, TaskStep(t)
    PROVE  TypeInv'
<1> USE DEF TypeInv
<1>0. Raw(t) \in Items
  BY TasksAreOfItems
<1>1. ASSUME Extract(t) PROVE TypeInv'
  <2>1. ControlOK'
    BY <1>1, GiveUpControl, GotoControl DEF Extract, At
  <2>2. faults' \in 0 .. MaxFaults
    BY <1>1, RaisesType DEF Extract, Succeeds, TypeOK
  <2> QED
    BY <1>1, <2>1, <2>2, TypeParts DEF Extract, At, graph, TypeOK
<1>2. ASSUME Upsert(t) PROVE TypeInv'
  <2>1. ControlOK'
    BY <1>2, GiveUpControl, GotoControl DEF Upsert, At
  <2>2. faults' \in 0 .. MaxFaults
    BY <1>2, RaisesType DEF Upsert, Succeeds, TypeOK
  <2>3. written' \in [Items -> Nat] /\ node' \in [Actions -> Node]
    BY <1>2, WriteMeetingType DEF Upsert, TypeOK
  <2> QED
    BY <1>2, <2>1, <2>2, <2>3, TypeParts DEF Upsert, At, TypeOK
<1>3. ASSUME HoldForReview(t) PROVE TypeInv'
  <2>1. PICK a \in todo[t] \cap Doubtful :
          \/ /\ node' = [node EXCEPT ![a] = [@ EXCEPT !.status = "needs_review"]]
             /\ Pushed(t, a) /\ Succeeds /\ UNCHANGED <<step, on, made>>
          \/ /\ node' \in {node, [node EXCEPT ![a] = [@ EXCEPT !.status = "needs_review"]]}
             /\ Raises("graph") /\ GiveUp(t)
    BY <1>3 DEF HoldForReview
  <2>2. a \in Actions
    BY DEF TypeOK
  <2>3. ControlOK'
    BY <1>3, <2>1, <2>2, GiveUpControl, PushedControl DEF HoldForReview, At
  <2>4. faults' \in 0 .. MaxFaults
    BY <2>1, RaisesType DEF Succeeds, TypeOK
  <2>5. node' \in [Actions -> Node]
    <3>1. [node EXCEPT ![a] = [@ EXCEPT !.status = "needs_review"]] \in [Actions -> Node]
      BY <2>2, NodeUpdateType, 0 \in Nat
    <3> QED BY <2>1, <3>1 DEF TypeOK
  <2> QED
    BY <1>3, <2>3, <2>4, <2>5, TypeParts DEF HoldForReview, At, TypeOK
<1>4. ASSUME MergeIntoDuplicate(t) PROVE TypeInv'
  <2>1. PICK a \in todo[t] \ Doubtful, vector \in Vectors : \E b \in Duplicates(a, vector) :
          \/ /\ mentioned' = mentioned \cup {<<b, Raw(t)>>}
             /\ Pushed(t, a) /\ Succeeds /\ UNCHANGED <<step, on, made>>
          \/ /\ mentioned' \in {mentioned, mentioned \cup {<<b, Raw(t)>>}}
             /\ Raises("graph") /\ GiveUp(t)
    BY <1>4 DEF MergeIntoDuplicate
  <2>2. a \in Actions /\ Duplicates(a, vector) \subseteq Actions
    BY DEF TypeOK, Duplicates
  <2>3. ControlOK'
    BY <1>4, <2>1, <2>2, GiveUpControl, PushedControl DEF MergeIntoDuplicate, At
  <2>4. faults' \in 0 .. MaxFaults
    BY <2>1, RaisesType DEF Succeeds, TypeOK
  <2>5. mentioned' \subseteq Actions \X Items
    BY <1>0, <2>1, <2>2 DEF TypeOK
  <2> QED
    BY <1>4, <2>3, <2>4, <2>5, TypeParts DEF MergeIntoDuplicate, At, TypeOK
<1>5. ASSUME DecideToCreate(t) PROVE TypeInv'
  <2>1. ControlOK'
    <3>1. CASE GiveUp(t)
      BY <1>5, <3>1, GiveUpControl DEF DecideToCreate, At
    <3>2. CASE \E a \in todo[t] : /\ step' = [step EXCEPT ![t] = "create"]
                                  /\ on' = [on EXCEPT ![t] = a]
                                  /\ UNCHANGED <<todo, made>>
      BY <1>5, <3>2 DEF DecideToCreate, At, ControlOK, OnOK, TypeOK
    <3> QED BY <1>5, <3>1, <3>2 DEF DecideToCreate
  <2>2. faults' \in 0 .. MaxFaults
    BY <1>5, RaisesType DEF DecideToCreate, Succeeds, TypeOK
  <2> QED
    BY <1>5, <2>1, <2>2, TypeParts DEF DecideToCreate, At, graph, TypeOK
<1>6. ASSUME CreateIssue(t) PROVE TypeInv'
  <2>0. step[t] = "create" /\ on[t] \in Actions /\ on[t] \in todo[t]
    BY <1>6 DEF CreateIssue, At, OnOK, TypeOK
  <2>1. issues' \in [Actions -> Nat]
    BY <1>6, <2>0 DEF CreateIssue, TypeOK
  <2>2. faults' \in 0 .. MaxFaults
    BY <1>6, RaisesType DEF CreateIssue, Succeeds, TypeOK
  <2>3. ControlOK'
    <3>1. CASE NextAction(t)
      BY <1>6, <2>0, <3>1, NextActionControl DEF CreateIssue, At
    <3>2. CASE /\ step' = [step EXCEPT ![t] = "key"]
               /\ made' = [made EXCEPT ![t] = issues'[on[t]]]
               /\ UNCHANGED <<todo, on>>
      <4>1. issues'[on[t]] \in Nat
        BY <2>0, <2>1
      <4> QED
        BY <1>6, <2>0, <3>2, <4>1 DEF CreateIssue, At, ControlOK, OnOK, TypeOK
    <3> QED BY <1>6, <3>1, <3>2 DEF CreateIssue
  <2> QED
    BY <1>6, <2>1, <2>2, <2>3, TypeParts DEF CreateIssue, At, graph, TypeOK
<1>7. ASSUME WriteKey(t) PROVE TypeInv'
  <2>0. step[t] = "key" /\ on[t] \in Actions /\ made[t] \in Nat
    BY <1>7 DEF WriteKey, At, OnOK, TypeOK
  <2>1. ControlOK'
    BY <1>7, <2>0, NextActionControl DEF WriteKey, At
  <2>2. faults' \in 0 .. MaxFaults
    BY <1>7, RaisesType DEF WriteKey, Succeeds, TypeOK
  <2>3. node' \in [Actions -> Node]
    <3>1. [node EXCEPT ![on[t]] = [@ EXCEPT !.key = made[t], !.status = "Open"]]
            \in [Actions -> Node]
      BY <2>0, NodeUpdateType
    <3> QED BY <1>7, <3>1 DEF WriteKey, TypeOK
  <2> QED
    BY <1>7, <2>1, <2>2, <2>3, TypeParts DEF WriteKey, At, TypeOK
<1>8. ASSUME AllPushed(t) PROVE TypeInv'
  <2>1. ControlOK'
    BY <1>8, GotoControl DEF AllPushed, At
  <2> QED
    BY <1>8, <2>1, TypeParts DEF AllPushed, At, graph, Succeeds, TypeOK
<1>a. ASSUME EmbedAction(t) PROVE TypeInv'
  <2>1. ControlOK'
    BY <1>a DEF EmbedAction, At, ControlOK, OnOK, TypeOK
  <2>2. Unembedded(Raw(t)) \subseteq Actions
    BY <1>0, SourcesAssumption DEF Unembedded
  <2> QED
    BY <1>a, <2>1, <2>2, TypeParts DEF EmbedAction, At, Succeeds, TypeOK
<1>b. ASSUME MemoryEnds(t) PROVE TypeInv'
  <2>1. ControlOK'
    BY <1>b, GotoControl DEF MemoryEnds, At
  <2> QED
    BY <1>b, <2>1, TypeParts DEF MemoryEnds, At, graph, Succeeds, TypeOK
<1>9. ASSUME MarkProcessed(t) PROVE TypeInv'
  <2>1. ControlOK'
    BY <1>9, GiveUpControl DEF MarkProcessed, At
  <2>2. faults' \in 0 .. MaxFaults
    BY <1>9, RaisesType DEF MarkProcessed, Succeeds, TypeOK
  <2>3. processed' \in [Items -> BOOLEAN]
    <3>1. processed[Raw(t)] \in BOOLEAN
      BY <1>0 DEF TypeOK
    <3>2. (processed[Raw(t)] \/ seen[t] = version[Raw(t)]) \in BOOLEAN
      OBVIOUS
    <3> QED BY <1>9, <3>2 DEF MarkProcessed, TypeOK
  <2> QED
    BY <1>9, <2>1, <2>2, <2>3, TypeParts DEF MarkProcessed, At, graph, TypeOK
<1> QED
  BY <1>1, <1>2, <1>3, <1>4, <1>5, <1>6, <1>7, <1>8, <1>9, <1>a, <1>b DEF TaskStep

LEMMA WorldType ==
    ASSUME TypeInv,
           \/ \E i \in Items : RowReplaced(i)
           \/ \E a \in Actions : StatusReadBack(a)
           \/ Crash
           \/ UNCHANGED vars
    PROVE  TypeInv'
<1> USE DEF TypeInv
<1>1. ASSUME NEW i \in Items, RowReplaced(i) PROVE TypeInv'
  <2>1. \A found \in SUBSET Found[i] : found \in SUBSET Actions
    BY SourcesAssumption
  <2>2. /\ version' \in [Items -> Nat]
        /\ content' \in [Items -> SUBSET Actions]
        /\ processed' \in [Items -> BOOLEAN]
    BY <1>1, <2>1 DEF RowReplaced, TypeOK
  <2>3. ControlOK'
    BY <1>1 DEF RowReplaced, control, ControlOK, OnOK, TypeOK
  <2> QED
    BY <1>1, <2>2, <2>3, TypeParts DEF RowReplaced, graph, budget, TypeOK
<1>2. ASSUME NEW a \in Actions, StatusReadBack(a) PROVE TypeInv'
  <2>1. node' \in [Actions -> Node]
    BY <1>2, NodeUpdateType DEF StatusReadBack
  <2>2. ControlOK'
    BY <1>2 DEF StatusReadBack, control, ControlOK, OnOK, TypeOK
  <2> QED
    BY <1>2, <2>1, <2>2, TypeParts DEF StatusReadBack, budget, TypeOK
<1>3. ASSUME Crash PROVE TypeInv'
  <2>1. ControlOK'
    BY <1>3 DEF Crash, ControlOK, OnOK, TypeOK
  <2>2. crashes' \in 0 .. MaxCrashes
    BY <1>3, BoundsAssumption DEF Crash, TypeOK
  <2> QED
    BY <1>3, <2>1, <2>2, TypeParts DEF Crash, graph, TypeOK
<1>4. ASSUME UNCHANGED vars PROVE TypeInv'
  BY <1>4 DEF vars, TypeOK, OnOK
<1> QED
  BY <1>1, <1>2, <1>3, <1>4

LEMMA NextType ==
    ASSUME TypeInv, [Next]_vars
    PROVE  TypeInv'
BY PassBeginsType, TaskStepType, WorldType DEF Next

(***************************************************************************)
(* Every reachable state of the pipeline is well typed: rows, nodes, issue *)
(* counters and the tasks' own variables, whatever fails and overlaps.     *)
(***************************************************************************)
THEOREM TypeCorrect == Spec => []TypeOK
<1>1. Init => TypeInv
  BY InitType
<1>2. TypeInv /\ [Next]_vars => TypeInv'
  BY NextType
<1>3. TypeInv => TypeOK
  BY DEF TypeInv
<1> QED
  BY <1>1, <1>2, <1>3, PTL DEF Spec

-----------------------------------------------------------------------------
(***************************************************************************)
(* Duplicates share one issue.  An action item is claimed from the moment  *)
(* a task decides to create its issue.  The invariant says that a claimed  *)
(* action item, and one that a task has yet to push, is in the graph; that *)
(* one that is never ticked or closed is open there; and that of two       *)
(* duplicates one at most is claimed.  The decision sees the other's node, *)
(* if it is claimed, because nodes are written before they are pushed.     *)
(***************************************************************************)
Working == {"push", "create", "key"}

Claimed(a) ==
    \/ issues[a] > 0
    \/ \E t \in Tasks : step[t] \in {"create", "key"} /\ on[t] = a

ClaimedIsKnown == \A a \in Actions : Claimed(a) => node[a].known
WorkIsKnown ==
    \A t \in Tasks : step[t] \in Working => \A a \in todo[t] : node[a].known
NeverDoneIsOpen == \A a \in NeverDone : ~ node[a].done
OneClaim ==
    \A a, b \in NeverDone : Twins(a, b) => ~ (Claimed(a) /\ Claimed(b))

DupInv == TypeInv /\ ClaimedIsKnown /\ WorkIsKnown /\ NeverDoneIsOpen /\ OneClaim

\* No step takes a node away, or closes the node of one that is never done.
LEMMA NodesStay ==
    ASSUME TypeInv, [Next]_vars, NEW a \in Actions
    PROVE  /\ node[a].known => node'[a].known
           /\ a \in NeverDone /\ ~ node[a].done => ~ node'[a].done
<1> USE DEF TypeInv, TypeOK, Node, NeverDone
<1>1. ASSUME NEW t \in Tasks, TaskStep(t)
      PROVE  /\ node[a].known => node'[a].known
             /\ a \in NeverDone /\ ~ node[a].done => ~ node'[a].done
  <2>1. CASE Upsert(t)
    <3>1. CASE a \in todo[t] /\ WriteMeeting(t)
      <4>1. node'[a] = [node[a] EXCEPT !.known = TRUE, !.done = a \in Ticked]
        BY <3>1 DEF WriteMeeting
      <4>2. node'[a].known = TRUE /\ node'[a].done = (a \in Ticked)
        BY <4>1
      <4> QED BY <4>2
    <3>2. CASE a \notin todo[t] \/ ~ WriteMeeting(t)
      BY <2>1, <3>2 DEF Upsert, WriteMeeting
    <3> QED BY <3>1, <3>2
  <2>2. CASE HoldForReview(t)
    BY <2>2 DEF HoldForReview
  <2>3. CASE WriteKey(t)
    <3>1. CASE node'[a] = [node[a] EXCEPT !.key = made[t], !.status = "Open"]
      <4>1. node'[a].known = node[a].known /\ node'[a].done = node[a].done
        BY <3>1
      <4> QED BY <4>1
    <3>2. CASE node'[a] = node[a]
      BY <3>2
    <3> DEFINE r == [node[on[t]] EXCEPT !.key = made[t], !.status = "Open"]
    <3>3. node' = [node EXCEPT ![on[t]] = r] \/ node' = node
      BY <2>3 DEF WriteKey
    <3>4. a = on[t] => r = [node[a] EXCEPT !.key = made[t], !.status = "Open"]
      OBVIOUS
    <3> HIDE DEF r
    <3>5. node'[a] = node[a] \/ (a = on[t] /\ node'[a] = r)
      BY <3>3
    <3> QED
      BY <3>1, <3>2, <3>4, <3>5
  <2>4. CASE UNCHANGED node
    BY <2>4
  <2> QED
    BY <1>1, <2>1, <2>2, <2>3, <2>4
       DEF TaskStep, Extract, MergeIntoDuplicate, DecideToCreate, CreateIssue, AllPushed,
           EmbedAction, MemoryEnds, MarkProcessed, graph
<1>2. CASE \E b \in Actions : StatusReadBack(b)
  BY <1>2 DEF StatusReadBack
<1>3. CASE UNCHANGED node
  BY <1>3
<1> QED
  BY <1>1, <1>2, <1>3 DEF Next, PassBegins, RowReplaced, Crash, graph, vars

\* A task that works on action items was working before or has just written them.
LEMMA WorkIsWritten ==
    ASSUME TypeInv, [Next]_vars, NEW u \in Tasks, step'[u] \in Working
    PROVE  /\ todo'[u] \subseteq todo[u]
           /\ step[u] \in Working \/ \A a \in todo[u] : node'[a].known
<1> USE DEF TypeInv, TypeOK, Working
<1>1. ASSUME NEW t \in Tasks, TaskStep(t)
      PROVE  /\ todo'[u] \subseteq todo[u]
             /\ step[u] \in Working \/ \A a \in todo[u] : node'[a].known
  <2>1. CASE Extract(t)
    BY <2>1 DEF Extract, At, Goto, GiveUp
  <2>2. CASE Upsert(t)
    <3>1. CASE u = t
      BY <2>2, <3>1 DEF Upsert, WriteMeeting, At, Goto, GiveUp, Node
    <3>2. CASE u # t
      BY <2>2, <3>2 DEF Upsert, At, Goto, GiveUp
    <3> QED BY <3>1, <3>2
  <2>3. CASE HoldForReview(t) \/ MergeIntoDuplicate(t)
    BY <2>3 DEF HoldForReview, MergeIntoDuplicate, At, Pushed, GiveUp
  <2>4. CASE DecideToCreate(t)
    BY <2>4 DEF DecideToCreate, At, GiveUp
  <2>5. CASE CreateIssue(t) \/ WriteKey(t)
    BY <2>5 DEF CreateIssue, WriteKey, At, NextAction, Pushed
  <2>6. CASE AllPushed(t) \/ EmbedAction(t) \/ MemoryEnds(t) \/ MarkProcessed(t)
    BY <2>6 DEF AllPushed, EmbedAction, MemoryEnds, MarkProcessed, At, Goto, GiveUp
  <2> QED
    BY <1>1, <2>1, <2>2, <2>3, <2>4, <2>5, <2>6 DEF TaskStep
<1>2. CASE \E p \in Passes : PassBegins(p)
  BY <1>2 DEF PassBegins
<1>3. CASE Crash
  BY <1>3 DEF Crash
<1>4. CASE UNCHANGED control
  BY <1>4 DEF control
<1> QED
  BY <1>1, <1>2, <1>3, <1>4 DEF Next, RowReplaced, StatusReadBack, vars, control

\* Only a task that has looked for duplicates, and found none, makes a claim.
LEMMA ClaimsAreDecided ==
    ASSUME TypeInv, [Next]_vars
    PROVE  \/ \A y \in Actions : Claimed(y)' => Claimed(y)
           \/ \E a \in Actions :
                /\ \E vector \in Vectors : Duplicates(a, vector) = {}
                /\ \E t \in Tasks : step[t] = "push" /\ a \in todo[t]
                /\ \A y \in Actions : Claimed(y)' => Claimed(y) \/ y = a
<1> USE DEF TypeInv, TypeOK
<1>1. ASSUME NEW t \in Tasks, TaskStep(t), ~ DecideToCreate(t)
      PROVE  \A y \in Actions : Claimed(y)' => Claimed(y)
  <2>1. CASE \/ Extract(t) \/ Upsert(t) \/ AllPushed(t)
             \/ EmbedAction(t) \/ MemoryEnds(t) \/ MarkProcessed(t)
    BY <2>1 DEF Extract, Upsert, AllPushed, EmbedAction, MemoryEnds, MarkProcessed, At, Goto,
                GiveUp, Claimed
  <2>2. CASE HoldForReview(t) \/ MergeIntoDuplicate(t)
    BY <2>2 DEF HoldForReview, MergeIntoDuplicate, At, GiveUp, Claimed
  <2>3. CASE CreateIssue(t)
    <3>1. step[t] = "create" /\ on[t] \in Actions /\ Claimed(on[t])
      BY <2>3 DEF CreateIssue, At, OnOK, Claimed
    <3>2. \A y \in Actions : y # on[t] => issues'[y] = issues[y]
      BY <2>3 DEF CreateIssue
    <3>3. \A u \in Tasks : step'[u] \in {"create", "key"} =>
            step[u] \in {"create", "key"} /\ on'[u] = on[u]
      BY <2>3, <3>1 DEF CreateIssue, At, NextAction
    <3> QED BY <3>1, <3>2, <3>3 DEF Claimed
  <2>4. CASE WriteKey(t)
    BY <2>4 DEF WriteKey, At, NextAction, Claimed
  <2> QED
    BY <1>1, <2>1, <2>2, <2>3, <2>4 DEF TaskStep
<1>2. ASSUME NEW t \in Tasks, DecideToCreate(t)
      PROVE  \/ \A y \in Actions : Claimed(y)' => Claimed(y)
             \/ \E a \in Actions :
                  /\ \E vector \in Vectors : Duplicates(a, vector) = {}
                  /\ step[t] = "push" /\ a \in todo[t]
                  /\ \A y \in Actions : Claimed(y)' => Claimed(y) \/ y = a
  <2>1. CASE GiveUp(t)
    BY <1>2, <2>1 DEF DecideToCreate, GiveUp, Claimed
  <2>2. ASSUME NEW a \in todo[t],
               \E vector \in Vectors : Duplicates(a, vector) = {},
               step' = [step EXCEPT ![t] = "create"], on' = [on EXCEPT ![t] = a]
        PROVE  \A y \in Actions : Claimed(y)' => Claimed(y) \/ y = a
    BY <1>2, <2>2 DEF DecideToCreate, Claimed
  <2>3. step[t] = "push" /\ todo[t] \subseteq Actions
    BY <1>2 DEF DecideToCreate, At
  <2> QED
    BY <1>2, <2>1, <2>2, <2>3 DEF DecideToCreate
<1>3. ASSUME (\E p \in Passes : PassBegins(p)) \/ Crash
      PROVE  \A y \in Actions : Claimed(y)' => Claimed(y)
  BY <1>3 DEF PassBegins, Crash, Claimed
<1>4. ASSUME UNCHANGED <<issues, step, on>>
      PROVE  \A y \in Actions : Claimed(y)' => Claimed(y)
  BY <1>4 DEF Claimed
<1>5. \/ \E t \in Tasks : TaskStep(t)
      \/ (\E p \in Passes : PassBegins(p)) \/ Crash
      \/ UNCHANGED <<issues, step, on>>
  BY DEF Next, RowReplaced, StatusReadBack, control, vars
<1> QED
  BY <1>1, <1>2, <1>3, <1>4, <1>5

LEMMA DupInvStep ==
    ASSUME DupInv, [Next]_vars
    PROVE  DupInv'
<1>1. TypeInv /\ TypeInv'
  BY NextType DEF DupInv
<1>2. WorkIsKnown'
  BY <1>1, NodesStay, WorkIsWritten DEF DupInv, WorkIsKnown, TypeInv, TypeOK
<1>3. NeverDoneIsOpen'
  BY <1>1, NodesStay DEF DupInv, NeverDoneIsOpen, NeverDone
<1>4. CASE \A y \in Actions : Claimed(y)' => Claimed(y)
  <2>1. ClaimedIsKnown'
    BY <1>1, <1>4, NodesStay DEF DupInv, ClaimedIsKnown
  <2>2. OneClaim'
    BY <1>4 DEF DupInv, OneClaim, NeverDone
  <2> QED
    BY <1>1, <1>2, <1>3, <2>1, <2>2 DEF DupInv
<1>5. ASSUME NEW a \in Actions, NEW vector \in Vectors, Duplicates(a, vector) = {},
             \E t \in Tasks : step[t] = "push" /\ a \in todo[t],
             \A y \in Actions : Claimed(y)' => Claimed(y) \/ y = a
      PROVE  DupInv'
  <2>1. node[a].known
    BY <1>5 DEF DupInv, WorkIsKnown, Working
  <2>2. ClaimedIsKnown'
    BY <1>1, <1>5, <2>1, NodesStay DEF DupInv, ClaimedIsKnown
  <2>3. \A b \in NeverDone \ {a} : <<a, b>> \in Alike \cap Near => ~ Claimed(b)
    BY <1>5 DEF Duplicates, Similar, IsOpen, DupInv, NeverDoneIsOpen, ClaimedIsKnown, NeverDone
  <2>4. \A b \in NeverDone \ {a} : <<a, b>> \in Alike \cap Near => ~ Claimed(b)'
    BY <1>5, <2>3 DEF NeverDone
  <2>5. OneClaim'
    <3> SUFFICES ASSUME NEW b \in NeverDone, NEW c \in NeverDone, Twins(b, c)
                 PROVE  ~ (Claimed(b)' /\ Claimed(c)')
      BY DEF OneClaim, NeverDone
    <3>1. CASE b = a \/ c = a
      BY <2>4, <3>1 DEF Twins
    <3>2. CASE b # a /\ c # a
      BY <1>5, <3>2 DEF DupInv, OneClaim, NeverDone
    <3> QED BY <3>1, <3>2
  <2> QED
    BY <1>1, <1>2, <1>3, <2>2, <2>5 DEF DupInv
<1> QED
  BY <1>1, <1>4, <1>5, ClaimsAreDecided

(***************************************************************************)
(* Two action items that are duplicates of each other by their texts and   *)
(* by their embeddings, and are never done, never both get a Jira issue:   *)
(* for any sources, whichever of them have an embedding already, any       *)
(* number of passes that overlap, any calls that raise after or before     *)
(* their effect, and any number of crashes and replaced rows.              *)
(***************************************************************************)
THEOREM OneIssueForDuplicates == Spec => []DuplicatesShareOneIssue
<1>1. Init => DupInv
  <2> SUFFICES ASSUME Init PROVE DupInv
    OBVIOUS
  <2>1. TypeInv
    BY InitType
  <2>2. \A a \in Actions : ~ Claimed(a) /\ ~ node[a].done
    BY DEF Init, Claimed
  <2>3. WorkIsKnown
    BY DEF Init, WorkIsKnown, Working
  <2> QED
    BY <2>1, <2>2, <2>3 DEF DupInv, ClaimedIsKnown, NeverDoneIsOpen, OneClaim, NeverDone
<1>2. DupInv => DuplicatesShareOneIssue
  <2> SUFFICES ASSUME DupInv PROVE DuplicatesShareOneIssue
    OBVIOUS
  <2>1. \A a \in NeverDone : ~ Claimed(a) => issues[a] = 0
    BY DEF DupInv, TypeInv, TypeOK, Claimed, NeverDone
  <2> QED
    BY <2>1 DEF DupInv, OneClaim, DuplicatesShareOneIssue
<1>3. DupInv /\ [Next]_vars => DupInv'
  BY DupInvStep
<1> QED
  BY <1>1, <1>2, <1>3, PTL DEF Spec

-----------------------------------------------------------------------------
(***************************************************************************)
(* No action item is lost while Jira answers.  The invariant says that the *)
(* task of a row in its present version has, of each action item in it,    *)
(* either settled it or still to push it; that it comes to the mark with   *)
(* nothing left; and that an issue exists before its key is known.  It is  *)
(* for the version that a task's work is void once the row is replaced.    *)
(***************************************************************************)
Settled(i, a) ==
    \/ issues[a] > 0
    \/ node[a].status = "needs_review"
    \/ \E b \in Actions \ {a} : <<a, b>> \in Alike \cup Near /\ <<b, i>> \in mentioned

IssueBeforeKey ==
    /\ \A t \in Tasks : step[t] = "key" => issues[on[t]] > 0
    /\ \A a \in Actions : node[a].key # 0 => issues[a] > 0
SeenIsPast == \A t \in Tasks : seen[t] <= version[Raw(t)]
AtWork(t) == step[t] # "idle" /\ Raw(t) \notin Skipped /\ seen[t] = version[Raw(t)]
WorkSettles ==
    \A t \in Tasks : AtWork(t) =>
        \A a \in content[Raw(t)] : a \in todo[t] \/ Settled(Raw(t), a)
AfterPush == {"memory", "mark"}
MarkIsLast ==
    \A t \in Tasks : step[t] \in AfterPush /\ Raw(t) \notin Skipped => todo[t] = {}

LossInv ==
    /\ TypeInv /\ IssueBeforeKey /\ SeenIsPast
    /\ WorkSettles /\ MarkIsLast /\ NoActionIsLost

LEMMA KeyAndStatusFields ==
    ASSUME NEW n \in Node, NEW k
    PROVE  /\ [n EXCEPT !.key = k, !.status = "Open"].status = "Open"
           /\ [n EXCEPT !.key = k, !.status = "Open"].key = k
           /\ [n EXCEPT !.status = "Done", !.done = TRUE].key = n.key
           /\ [n EXCEPT !.status = "needs_review"].key = n.key
           /\ [n EXCEPT !.status = "needs_review"].status = "needs_review"
BY DEF Node

\* How a step may write the node of an action item.
LEMMA NodeChanges ==
    ASSUME TypeInv, [Next]_vars, NEW a \in Actions
    PROVE  \/ node'[a].key = node[a].key /\ node'[a].status = node[a].status
           \/ node'[a].key = node[a].key /\ node'[a].status = "needs_review"
           \/ node'[a].key = node[a].key /\ node[a].key # 0
           \/ \E t \in Tasks : step[t] = "key" /\ on[t] = a
<1> USE DEF TypeInv, TypeOK
<1>0. node[a] \in Node
  OBVIOUS
<1>1. ASSUME NEW t \in Tasks, Upsert(t)
      PROVE  node'[a].key = node[a].key /\ node'[a].status = node[a].status
  <2>1. CASE a \in todo[t] /\ WriteMeeting(t)
    <3>1. node'[a] = [node[a] EXCEPT !.known = TRUE, !.done = a \in Ticked]
      BY <2>1 DEF WriteMeeting
    <3> QED BY <1>0, <3>1 DEF Node
  <2>2. CASE a \notin todo[t] \/ ~ WriteMeeting(t)
    BY <1>1, <2>2 DEF Upsert, WriteMeeting
  <2> QED BY <2>1, <2>2
<1>2. ASSUME NEW t \in Tasks, HoldForReview(t)
      PROVE  \/ node'[a] = node[a]
             \/ node'[a] = [node[a] EXCEPT !.status = "needs_review"]
  BY <1>2 DEF HoldForReview
<1>3. ASSUME NEW t \in Tasks, WriteKey(t), ~ (step[t] = "key" /\ on[t] = a)
      PROVE  node'[a] = node[a]
  BY <1>3 DEF WriteKey, At
<1>4. ASSUME NEW b \in Actions, StatusReadBack(b)
      PROVE  \/ node'[a] = node[a]
             \/ node[a].key # 0 /\ node'[a] = [node[a] EXCEPT !.status = "Done", !.done = TRUE]
  BY <1>4 DEF StatusReadBack
<1>5. \/ \E t \in Tasks : Upsert(t) \/ HoldForReview(t) \/ WriteKey(t)
      \/ \E b \in Actions : StatusReadBack(b)
      \/ UNCHANGED node
  BY DEF Next, TaskStep, PassBegins, RowReplaced, Crash, Extract, MergeIntoDuplicate,
         DecideToCreate, CreateIssue, AllPushed, EmbedAction, MemoryEnds, MarkProcessed, graph, vars
<1> QED
  BY <1>0, <1>1, <1>2, <1>3, <1>4, <1>5, KeyAndStatusFields

\* An issue, and a link to a meeting, are never taken back.
LEMMA IssuesAndLinksStay ==
    ASSUME TypeInv, [Next]_vars
    PROVE  /\ \A a \in Actions : issues'[a] >= issues[a]
           /\ mentioned \subseteq mentioned'
<1> USE DEF TypeInv, TypeOK
<1>1. ASSUME NEW t \in Tasks, CreateIssue(t)
      PROVE  \A a \in Actions : issues'[a] >= issues[a]
  BY <1>1 DEF CreateIssue
<1>2. ASSUME NEW t \in Tasks, MergeIntoDuplicate(t)
      PROVE  mentioned \subseteq mentioned'
  BY <1>2 DEF MergeIntoDuplicate
<1>3. UNCHANGED issues \/ \E t \in Tasks : CreateIssue(t)
  BY DEF Next, TaskStep, PassBegins, RowReplaced, StatusReadBack, Crash, Extract, Upsert,
         HoldForReview, MergeIntoDuplicate, DecideToCreate, WriteKey, AllPushed,
         EmbedAction, MemoryEnds, MarkProcessed, vars
<1>4. UNCHANGED mentioned \/ \E t \in Tasks : MergeIntoDuplicate(t)
  BY DEF Next, TaskStep, PassBegins, RowReplaced, StatusReadBack, Crash, Extract, Upsert,
         HoldForReview, CreateIssue, DecideToCreate, WriteKey, AllPushed,
         EmbedAction, MemoryEnds, MarkProcessed, graph, vars
<1> QED
  BY <1>1, <1>2, <1>3, <1>4

LEMMA SettledStays ==
    ASSUME TypeInv, IssueBeforeKey, [Next]_vars,
           NEW a \in Actions, NEW i \in Items, Settled(i, a)
    PROVE  Settled(i, a)'
<1>1. issues \in [Actions -> Nat] /\ issues' \in [Actions -> Nat]
  BY NextType DEF TypeInv, TypeOK
<1>2. issues[a] > 0 => issues'[a] > 0
  BY <1>1, IssuesAndLinksStay
<1>3. node[a].status = "needs_review" => node'[a].status = "needs_review" \/ issues[a] > 0
  BY NodeChanges DEF IssueBeforeKey
<1> QED
  BY <1>2, <1>3, IssuesAndLinksStay DEF Settled

\* A row is replaced by an unprocessed one, or is marked by a task at its end
\* that has read the row as it still is.
LEMMA RowChanges ==
    ASSUME TypeInv, [Next]_vars, NEW i \in Items
    PROVE  \/ version'[i] = version[i] + 1 /\ ~ processed'[i]
           \/ /\ version'[i] = version[i] /\ content'[i] = content[i]
              /\ \/ processed'[i] = processed[i]
                 \/ \E t \in Tasks : step[t] = "mark" /\ Raw(t) = i /\ seen[t] = version[i]
<1> USE DEF TypeInv, TypeOK
<1>1. ASSUME NEW j \in Items, RowReplaced(j)
      PROVE  \/ version'[i] = version[i] + 1 /\ ~ processed'[i]
             \/ UNCHANGED <<version[i], content[i], processed[i]>>
  BY <1>1 DEF RowReplaced
<1>2. ASSUME NEW t \in Tasks, MarkProcessed(t)
      PROVE  /\ UNCHANGED <<version, content>>
             /\ \/ processed'[i] = processed[i]
                \/ step[t] = "mark" /\ Raw(t) = i /\ seen[t] = version[i]
  <2>1. processed[Raw(t)] \in BOOLEAN
    BY TasksAreOfItems
  <2>2. CASE UNCHANGED processed
    BY <1>2, <2>2 DEF MarkProcessed
  <2>3. CASE processed' = [processed EXCEPT ![Raw(t)] = @ \/ seen[t] = version[Raw(t)]]
    <3>1. CASE Raw(t) = i /\ seen[t] = version[i]
      BY <1>2, <3>1 DEF MarkProcessed, At
    <3>2. CASE Raw(t) # i
      BY <1>2, <2>3, <3>2 DEF MarkProcessed
    <3>3. CASE Raw(t) = i /\ seen[t] # version[i]
      <4>1. processed'[i] = processed[i]
        BY <2>1, <2>3, <3>3
      <4> QED BY <1>2, <4>1 DEF MarkProcessed
    <3> QED BY <3>1, <3>2, <3>3
  <2> QED
    BY <1>2, <2>2, <2>3 DEF MarkProcessed
<1>3. \/ \E j \in Items : RowReplaced(j)
      \/ \E t \in Tasks : MarkProcessed(t)
      \/ UNCHANGED staging
  BY DEF Next, TaskStep, PassBegins, StatusReadBack, Crash, Extract, Upsert, HoldForReview,
         MergeIntoDuplicate, DecideToCreate, CreateIssue, WriteKey, AllPushed, EmbedAction,
         MemoryEnds, vars, staging
<1> QED
  BY <1>1, <1>2, <1>3 DEF staging

\* What a task that goes on has done with its action items.
Reads(u) ==
    /\ step'[u] = "extract"
    /\ seen'[u] = version[Raw(u)] /\ todo'[u] = content[Raw(u)]
    /\ UNCHANGED <<version, content>>

Continues(u) ==
    /\ step[u] # "idle" /\ seen'[u] = seen[u]
    /\ \/ todo'[u] = todo[u]
       \/ \E a \in Actions : todo'[u] = todo[u] \ {a} /\ Settled(Raw(u), a)'
    /\ step'[u] \in AfterPush =>
         /\ todo'[u] = todo[u]
         /\ step[u] \in AfterPush \/ todo[u] = {} \/ Raw(u) \in Skipped

LEMMA TasksProceed ==
    ASSUME TypeInv, IssueBeforeKey, "jira" \notin Faults, [Next]_vars,
           NEW u \in Tasks, step'[u] # "idle"
    PROVE  Reads(u) \/ Continues(u)
<1> USE DEF TypeInv, TypeOK, Continues, AfterPush
<1>1. ASSUME NEW t \in Tasks, TaskStep(t) PROVE Continues(u)
  <2>1. CASE u # t
    <3>1. step'[u] = step[u] /\ todo'[u] = todo[u] /\ seen'[u] = seen[u]
      BY <1>1, <2>1
         DEF TaskStep, Extract, Upsert, HoldForReview, MergeIntoDuplicate, DecideToCreate,
             CreateIssue, WriteKey, AllPushed, EmbedAction, MemoryEnds, MarkProcessed, At, Goto,
             GiveUp, Pushed, NextAction
    <3> QED BY <3>1
  <2>2. CASE u = t /\ (Extract(t) \/ Upsert(t) \/ MarkProcessed(t))
    BY <2>2 DEF Extract, Upsert, MarkProcessed, At, Goto, GiveUp
  <2>8. CASE u = t /\ (AllPushed(t) \/ MemoryEnds(t))
    BY <2>8 DEF AllPushed, MemoryEnds, At, Goto
  <2>9. CASE u = t /\ EmbedAction(t)
    BY <2>9 DEF EmbedAction, At
  <2>3. CASE u = t /\ HoldForReview(t)
    <3>1. PICK a \in todo[t] :
            /\ node' = [node EXCEPT ![a] = [@ EXCEPT !.status = "needs_review"]]
            /\ Pushed(t, a) /\ UNCHANGED <<step, on, made>>
      BY <2>3 DEF HoldForReview, At, GiveUp
    <3>2. a \in Actions /\ node[a] \in Node
      OBVIOUS
    <3>3. node'[a] = [node[a] EXCEPT !.status = "needs_review"]
      BY <3>1, <3>2
    <3>4. Settled(Raw(t), a)'
      BY <3>2, <3>3, KeyAndStatusFields, 0 \in Nat DEF Settled, Raw
    <3> QED
      BY <2>3, <3>1, <3>2, <3>4 DEF HoldForReview, At, Pushed
  <2>4. CASE u = t /\ MergeIntoDuplicate(t)
    <3>1. PICK a \in todo[t], vector \in Vectors : \E b \in Duplicates(a, vector) :
            /\ mentioned' = mentioned \cup {<<b, Raw(t)>>}
            /\ Pushed(t, a) /\ UNCHANGED <<step, on, made>>
      BY <2>4 DEF MergeIntoDuplicate, At, GiveUp
    <3>2. Settled(Raw(t), a)'
      BY <3>1 DEF Settled, Raw, Duplicates, Similar
    <3> QED
      BY <2>4, <3>1, <3>2 DEF MergeIntoDuplicate, At, Pushed
  <2>5. CASE u = t /\ DecideToCreate(t)
    BY <2>5 DEF DecideToCreate, At, GiveUp
  <2>6. CASE u = t /\ CreateIssue(t)
    BY <2>6 DEF CreateIssue, At, Raises
  <2>7. CASE u = t /\ WriteKey(t)
    <3>1. on[t] \in Actions /\ issues'[on[t]] > 0
      BY <2>7 DEF WriteKey, At, OnOK, IssueBeforeKey
    <3>2. \A a \in Actions : issues'[a] > 0 => Settled(Raw(t), a)'
      BY DEF Settled, Raw
    <3> QED
      BY <2>7, <3>1, <3>2 DEF WriteKey, At, NextAction, Pushed
  <2> QED
    BY <1>1, <2>1, <2>2, <2>3, <2>4, <2>5, <2>6, <2>7, <2>8, <2>9 DEF TaskStep
<1>2. ASSUME NEW p \in Passes, PassBegins(p) PROVE Reads(u) \/ Continues(u)
  BY <1>2 DEF PassBegins, Reads, staging
<1>3. CASE Crash
  BY <1>3 DEF Crash
<1>4. CASE UNCHANGED control
  BY <1>4 DEF control
<1> QED
  BY <1>1, <1>2, <1>3, <1>4 DEF Next, RowReplaced, StatusReadBack, vars, control

LEMMA IssueBeforeKeyStep ==
    ASSUME TypeInv, IssueBeforeKey, "jira" \notin Faults, [Next]_vars
    PROVE  IssueBeforeKey'
<1> USE DEF TypeInv, TypeOK
<1>1. \A a \in Actions : issues[a] > 0 => issues'[a] > 0
  BY IssuesAndLinksStay, NextType
<1>2. ASSUME NEW u \in Tasks, step'[u] = "key" PROVE issues'[on'[u]] > 0
  <2>1. ASSUME NEW t \in Tasks, CreateIssue(t), u = t PROVE issues'[on'[u]] > 0
    <3>1. on'[u] = on[t] /\ on[t] \in Actions /\ issues'[on[t]] = issues[on[t]] + 1
      BY <2>1 DEF CreateIssue, At, OnOK, Raises
    <3> QED BY <3>1
  <2>2. CASE step[u] = "key" /\ on'[u] = on[u]
    BY <1>1, <2>2 DEF IssueBeforeKey, OnOK
  <2>3. \/ step[u] = "key" /\ on'[u] = on[u]
        \/ \E t \in Tasks : CreateIssue(t) /\ u = t
    <3>1. ASSUME NEW t \in Tasks, TaskStep(t)
          PROVE  \/ step[u] = "key" /\ on'[u] = on[u]
                 \/ CreateIssue(t) /\ u = t
      <4>1. CASE u # t
        <5>1. step'[u] = step[u] /\ on'[u] = on[u]
          BY <3>1, <4>1
             DEF TaskStep, Extract, Upsert, HoldForReview, MergeIntoDuplicate,
                 DecideToCreate, CreateIssue, WriteKey, AllPushed, EmbedAction, MemoryEnds,
                 MarkProcessed, At, Goto, GiveUp, NextAction
        <5> QED BY <1>2, <5>1
      <4>2. CASE u = t /\ (\/ Extract(t) \/ Upsert(t) \/ AllPushed(t)
                           \/ EmbedAction(t) \/ MemoryEnds(t) \/ MarkProcessed(t))
        BY <1>2, <4>2 DEF Extract, Upsert, AllPushed, EmbedAction, MemoryEnds, MarkProcessed,
                          At, Goto, GiveUp
      <4>3. CASE u = t /\ (HoldForReview(t) \/ MergeIntoDuplicate(t))
        BY <1>2, <4>3 DEF HoldForReview, MergeIntoDuplicate, At, GiveUp
      <4>4. CASE u = t /\ (DecideToCreate(t) \/ WriteKey(t))
        BY <1>2, <4>4 DEF DecideToCreate, WriteKey, At, GiveUp, NextAction
      <4> QED BY <3>1, <4>1, <4>2, <4>3, <4>4 DEF TaskStep
    <3>2. CASE (\E p \in Passes : PassBegins(p)) \/ Crash
      BY <1>2, <3>2 DEF PassBegins, Crash
    <3>3. CASE UNCHANGED control
      BY <1>2, <3>3 DEF control
    <3> QED
      BY <3>1, <3>2, <3>3 DEF Next, RowReplaced, StatusReadBack, vars, control
  <2> QED BY <2>1, <2>2, <2>3
<1>3. ASSUME NEW a \in Actions, node'[a].key # 0 PROVE issues'[a] > 0
  <2>1. node[a].key # 0 \/ \E t \in Tasks : step[t] = "key" /\ on[t] = a
    BY <1>3, NodeChanges
  <2> QED BY <1>1, <2>1 DEF IssueBeforeKey
<1> QED BY <1>2, <1>3 DEF IssueBeforeKey

LEMMA SeenIsPastStep ==
    ASSUME TypeInv, SeenIsPast, [Next]_vars
    PROVE  SeenIsPast'
<1> USE DEF TypeInv, TypeOK
<1>1. ASSUME NEW t \in Tasks
      PROVE  seen'[t] = seen[t] \/ seen'[t] = version[Raw(t)]
  BY DEF Next, TaskStep, PassBegins, RowReplaced, StatusReadBack, Crash, Extract, Upsert,
         HoldForReview, MergeIntoDuplicate, DecideToCreate, CreateIssue, WriteKey,
         AllPushed, EmbedAction, MemoryEnds, MarkProcessed, At, control, vars
<1>2. ASSUME NEW t \in Tasks PROVE version'[Raw(t)] >= version[Raw(t)]
  BY TasksAreOfItems, RowChanges
<1>3. ASSUME NEW t \in Tasks PROVE seen'[t] <= version'[Raw(t)]
  <2>1. Raw(t) \in Items
    BY TasksAreOfItems
  <2>2. version[Raw(t)] \in Nat /\ version'[Raw(t)] \in Nat /\ seen[t] \in Nat
    BY <2>1, NextType
  <2> QED BY <1>1, <1>2, <2>2 DEF SeenIsPast
<1> QED BY <1>3 DEF SeenIsPast, Raw

LEMMA LossInvStep ==
    ASSUME LossInv, "jira" \notin Faults, [Next]_vars
    PROVE  LossInv'
<1> USE DEF LossInv
<1>1. TypeInv' /\ IssueBeforeKey' /\ SeenIsPast'
  BY NextType, IssueBeforeKeyStep, SeenIsPastStep
<1>2. MarkIsLast'
  <2> SUFFICES ASSUME NEW u \in Tasks, step'[u] \in AfterPush, Raw(u) \notin Skipped
               PROVE  todo'[u] = {}
    BY DEF MarkIsLast, Raw
  <2> QED BY TasksProceed DEF Reads, Continues, MarkIsLast, AfterPush
<1>3. WorkSettles'
  <2> SUFFICES ASSUME NEW u \in Tasks, step'[u] # "idle", Raw(u) \notin Skipped,
                      seen'[u] = version'[Raw(u)], NEW a \in content'[Raw(u)]
               PROVE  a \in todo'[u] \/ Settled(Raw(u), a)'
    BY DEF WorkSettles, AtWork, Raw, Settled
  <2>0. Raw(u) \in Items
    BY TasksAreOfItems
  <2>1. CASE Reads(u)
    BY <2>1 DEF Reads
  <2>2. CASE Continues(u)
    <3>1. version'[Raw(u)] # version[Raw(u)] + 1
      BY <2>0, <2>2 DEF Continues, SeenIsPast, TypeInv, TypeOK
    <3>2. version'[Raw(u)] = version[Raw(u)] /\ content'[Raw(u)] = content[Raw(u)]
      BY <2>0, <3>1, RowChanges
    <3>3. a \in Actions
      BY <2>0, <3>2 DEF TypeInv, TypeOK
    <3>4. a \in todo[u] \/ Settled(Raw(u), a)
      BY <2>2, <3>2 DEF Continues, WorkSettles, AtWork
    <3>5. CASE Settled(Raw(u), a)
      BY <2>0, <3>3, <3>5, SettledStays
    <3>6. CASE a \in todo[u]
      BY <2>2, <3>6 DEF Continues
    <3> QED BY <3>4, <3>5, <3>6
  <2> QED BY <2>1, <2>2, TasksProceed
<1>4. NoActionIsLost'
  <2> SUFFICES ASSUME NEW i \in Items \ Skipped, processed'[i], NEW a \in content'[i]
               PROVE  Settled(i, a)'
    BY DEF NoActionIsLost, Settled
  <2>1. /\ content'[i] = content[i]
        /\ \/ processed[i]
           \/ \E t \in Tasks : step[t] = "mark" /\ Raw(t) = i /\ seen[t] = version[i]
    BY RowChanges
  <2>2. a \in Actions
    BY <2>1 DEF TypeInv, TypeOK
  <2>3. Settled(i, a)
    <3>1. CASE processed[i]
      BY <2>1, <3>1 DEF NoActionIsLost, Settled
    <3>2. ASSUME NEW t \in Tasks, step[t] = "mark", Raw(t) = i, seen[t] = version[i]
          PROVE  Settled(i, a)
      BY <2>1, <3>2 DEF WorkSettles, AtWork, MarkIsLast, AfterPush
    <3> QED BY <2>1, <3>1, <3>2
  <2> QED BY <2>2, <2>3, SettledStays
<1> QED
  BY <1>1, <1>2, <1>3, <1>4

(***************************************************************************)
(* While Jira answers, once a row is processed each of its action items    *)
(* has an issue, waits for review or was linked to its meeting through a   *)
(* duplicate, however passes overlap, calls raise and the process dies.    *)
(***************************************************************************)
THEOREM NothingIsLost ==
    ASSUME "jira" \notin Faults
    PROVE  Spec => []NoActionIsLost
<1>1. Init => LossInv
  <2> SUFFICES ASSUME Init PROVE LossInv
    OBVIOUS
  <2>1. TypeInv
    BY InitType
  <2>2. IssueBeforeKey
    BY DEF Init, IssueBeforeKey
  <2>3. SeenIsPast
    BY TasksAreOfItems DEF Init, SeenIsPast
  <2>4. WorkSettles /\ MarkIsLast /\ NoActionIsLost
    BY DEF AfterPush, Init, WorkSettles, AtWork, MarkIsLast, NoActionIsLost
  <2> QED BY <2>1, <2>2, <2>3, <2>4 DEF LossInv
<1>2. LossInv /\ [Next]_vars => LossInv'
  BY LossInvStep
<1>3. LossInv => NoActionIsLost
  BY DEF LossInv
<1> QED
  BY <1>1, <1>2, <1>3, PTL DEF Spec
-----------------------------------------------------------------------------
(***************************************************************************)
(* The graph shows the latest version of a processed row, when one job at  *)
(* a time works on a source.  The invariant says that a row in the hands   *)
(* of a task is unprocessed (this is what needs the single job), and that  *)
(* past its write a task has left in the graph the version it has read.    *)
(***************************************************************************)
AtWorkUnprocessed == \A t \in Tasks : step[t] # "idle" => ~ processed[Raw(t)]

PastWrite == {"push", "create", "key", "memory", "mark"}
WritesWhatItSaw ==
    \A t \in Tasks : step[t] \in PastWrite /\ Raw(t) \notin Skipped
                     => written[Raw(t)] = seen[t]
ProcessedIsWritten == \A i \in Items \ Skipped : processed[i] => written[i] = version[i]

CurrentInv == TypeInv /\ AtWorkUnprocessed /\ WritesWhatItSaw /\ ProcessedIsWritten

\* With one job, a source has one task.
LEMMA OneTaskPerItem ==
    ASSUME \A p, q \in Passes : p = q, NEW t \in Tasks, NEW u \in Tasks, Raw(t) = Raw(u)
    PROVE  t = u
BY DEF Tasks, Raw

\* Where a task goes, and what it writes of its meeting on the way.
LEMMA TaskOrder ==
    ASSUME TypeInv, NEW t \in Tasks, TaskStep(t)
    PROVE  /\ UNCHANGED <<seen, version>>
           /\ \A u \in Tasks \ {t} : step'[u] = step[u]
           /\ \/ step'[t] = "idle"
              \/ step[t] = "extract" /\ step'[t] = "upsert"
              \/ step[t] = "extract" /\ step'[t] = "mark" /\ Raw(t) \in Skipped
              \/ step[t] = "upsert" /\ step'[t] = "push" /\ written'[Raw(t)] = seen[t]
              \/ step[t] \in PastWrite /\ step'[t] \in PastWrite /\ UNCHANGED written
           /\ \A i \in Items \ {Raw(t)} : written'[i] = written[i]
           /\ step[t] # "upsert" => UNCHANGED written
           /\ step[t] # "mark" => UNCHANGED processed
           /\ step[t] = "mark" => step'[t] = "idle"
           /\ step[t] # "idle"
<1> USE TasksAreOfItems DEF TypeInv, TypeOK, PastWrite, At, Goto
<1>1. CASE Extract(t)
  BY <1>1 DEF Extract, GiveUp, staging, graph
<1>2. CASE Upsert(t)
  BY <1>2 DEF Upsert, WriteMeeting, GiveUp, staging
<1>3. CASE HoldForReview(t)
  BY <1>3 DEF HoldForReview, GiveUp, staging
<1>4. CASE MergeIntoDuplicate(t)
  BY <1>4 DEF MergeIntoDuplicate, GiveUp, staging
<1>5. CASE DecideToCreate(t)
  BY <1>5 DEF DecideToCreate, GiveUp, staging, graph
<1>6. CASE CreateIssue(t)
  <2>1. step' \in {[step EXCEPT ![t] = "key"], [step EXCEPT ![t] = "push"]}
    BY <1>6 DEF CreateIssue, NextAction
  <2> QED BY <1>6, <2>1 DEF CreateIssue, staging, graph
<1>7. CASE WriteKey(t)
  BY <1>7 DEF WriteKey, NextAction, staging
<1>8. CASE AllPushed(t)
  BY <1>8 DEF AllPushed, staging, graph
<1>a. CASE EmbedAction(t)
  BY <1>a DEF EmbedAction, staging
<1>b. CASE MemoryEnds(t)
  BY <1>b DEF MemoryEnds, staging, graph
<1>9. CASE MarkProcessed(t)
  BY <1>9 DEF MarkProcessed, GiveUp, graph
<1> QED
  BY <1>1, <1>2, <1>3, <1>4, <1>5, <1>6, <1>7, <1>8, <1>9, <1>a, <1>b DEF TaskStep

LEMMA CurrentInvStep ==
    ASSUME \A p, q \in Passes : p = q, CurrentInv, [Next]_vars
    PROVE  CurrentInv'
<1> USE DEF CurrentInv
<1>t. TypeInv'
  BY NextType
<1>s. CurrentInv' <=> (AtWorkUnprocessed /\ WritesWhatItSaw /\ ProcessedIsWritten)'
  BY <1>t
<1>1. ASSUME NEW t \in Tasks, TaskStep(t)
      PROVE  (AtWorkUnprocessed /\ WritesWhatItSaw /\ ProcessedIsWritten)'
  <2>0. Raw(t) \in Items /\ ~ processed[Raw(t)]
    BY <1>1, TasksAreOfItems, TaskOrder DEF AtWorkUnprocessed
  <2>1. \A u \in Tasks \ {t} : Raw(u) # Raw(t) /\ Raw(u) \in Items
    BY OneTaskPerItem, TasksAreOfItems
  <2>2. \A i \in Items \ {Raw(t)} : processed'[i] = processed[i] /\ version'[i] = version[i]
    <3>1. CASE step[t] # "mark"
      BY <1>1, <3>1, TaskOrder
    <3>2. CASE step[t] = "mark"
      BY <1>1, <3>2
         DEF TaskStep, At, Extract, Upsert, HoldForReview, MergeIntoDuplicate, DecideToCreate,
             CreateIssue, WriteKey, AllPushed, EmbedAction, MemoryEnds, MarkProcessed,
             TypeInv, TypeOK
    <3> QED BY <3>1, <3>2
  <2>3. AtWorkUnprocessed'
    <3> SUFFICES ASSUME NEW u \in Tasks, step'[u] # "idle"
                 PROVE  ~ processed'[Raw(u)]
      BY DEF AtWorkUnprocessed, Raw
    <3>1. CASE u = t
      BY <1>1, <2>0, <3>1, TaskOrder
    <3>2. CASE u # t
      BY <1>1, <2>1, <2>2, <3>2, TaskOrder DEF AtWorkUnprocessed
    <3> QED BY <3>1, <3>2
  <2>4. WritesWhatItSaw'
    <3> SUFFICES ASSUME NEW u \in Tasks, step'[u] \in PastWrite, Raw(u) \notin Skipped
                 PROVE  written'[Raw(u)] = seen'[u]
      BY DEF WritesWhatItSaw, Raw
    <3>1. CASE u = t
      BY <1>1, <3>1, TaskOrder DEF WritesWhatItSaw, PastWrite
    <3>2. CASE u # t
      BY <1>1, <2>1, <3>2, TaskOrder DEF WritesWhatItSaw
    <3> QED BY <3>1, <3>2
  <2>5. ProcessedIsWritten'
    <3> SUFFICES ASSUME NEW i \in Items \ Skipped, processed'[i]
                 PROVE  written'[i] = version'[i]
      BY DEF ProcessedIsWritten
    <3>1. CASE i # Raw(t)
      BY <1>1, <2>2, <3>1, TaskOrder DEF ProcessedIsWritten
    <3>2. CASE i = Raw(t)
      <4>1. step[t] = "mark"
        BY <1>1, <2>0, <3>2, TaskOrder
      <4>2. written[i] = seen[t] /\ UNCHANGED <<written, version>>
        BY <1>1, <3>2, <4>1, TaskOrder DEF WritesWhatItSaw, PastWrite
      <4>3. seen[t] = version[i]
        BY <1>1, <2>0, <3>2, <4>1
           DEF TaskStep, At, Extract, Upsert, HoldForReview, MergeIntoDuplicate,
               DecideToCreate, CreateIssue, WriteKey, AllPushed, EmbedAction,
               MemoryEnds, MarkProcessed, TypeInv, TypeOK
      <4> QED BY <4>2, <4>3
    <3> QED BY <3>1, <3>2
  <2> QED BY <2>3, <2>4, <2>5
<1>2. ASSUME NEW p \in Passes, PassBegins(p)
      PROVE  (AtWorkUnprocessed /\ WritesWhatItSaw /\ ProcessedIsWritten)'
  <2>1. UNCHANGED <<staging, graph>>
    BY <1>2 DEF PassBegins
  <2>2. \A u \in Tasks : \/ step'[u] = "extract" /\ ~ processed[Raw(u)]
                         \/ step'[u] = step[u] /\ seen'[u] = seen[u]
    BY <1>2 DEF PassBegins, Batch, Oldest, Unprocessed
  <2> QED BY <2>1, <2>2
          DEF AtWorkUnprocessed, WritesWhatItSaw, ProcessedIsWritten, PastWrite, staging,
              graph, Raw
<1>3. ASSUME NEW i \in Items, RowReplaced(i)
      PROVE  (AtWorkUnprocessed /\ WritesWhatItSaw /\ ProcessedIsWritten)'
  <2>1. \A j \in Items : processed'[j] => processed[j] /\ version'[j] = version[j]
    BY <1>3 DEF RowReplaced, TypeInv, TypeOK
  <2>2. UNCHANGED <<step, seen, written>>
    BY <1>3 DEF RowReplaced, graph, control
  <2> QED BY <2>1, <2>2, TasksAreOfItems
          DEF AtWorkUnprocessed, WritesWhatItSaw, ProcessedIsWritten, Raw
<1>4. CASE Crash
  BY <1>s, <1>4 DEF Crash, staging, graph, AtWorkUnprocessed, WritesWhatItSaw, ProcessedIsWritten,
              PastWrite, Raw
<1>5. CASE UNCHANGED <<staging, written, step, seen>>
  BY <1>s, <1>5 DEF staging, AtWorkUnprocessed, WritesWhatItSaw, ProcessedIsWritten, Raw
<1> QED
  BY <1>s, <1>1, <1>2, <1>3, <1>4, <1>5
  DEF Next, StatusReadBack, vars, staging, control

(***************************************************************************)
(* When one job at a time works on a source, a row that is marked as       *)
(* processed has its latest version in the graph, although Airbyte may     *)
(* replace it, calls may fail and the process may die under its task.      *)
(***************************************************************************)
THEOREM ProcessedIsCurrent ==
    ASSUME \A p, q \in Passes : p = q
    PROVE  Spec => []GraphIsCurrent
<1>1. Init => CurrentInv
  BY InitType, TasksAreOfItems
     DEF Init, CurrentInv, AtWorkUnprocessed, WritesWhatItSaw, ProcessedIsWritten, PastWrite
<1>2. CurrentInv /\ [Next]_vars => CurrentInv'
  BY CurrentInvStep
<1>3. CurrentInv => GraphIsCurrent
  BY DEF CurrentInv, ProcessedIsWritten, GraphIsCurrent
<1> QED
  BY <1>1, <1>2, <1>3, PTL DEF Spec
=============================================================================
