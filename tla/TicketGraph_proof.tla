------------------------- MODULE TicketGraph_proof -------------------------
(***************************************************************************)
(* Theorems about TicketGraph, for any passes, scenes and bounds.          *)
(***************************************************************************)
EXTENDS TicketGraph, TLAPS

Version == [version : Nat, status : Statuses]

(***************************************************************************)
(* The part of the type invariant that the status sync is about.           *)
(***************************************************************************)
SyncTyped ==
    /\ jira \in Version
    /\ row \in [version : Nat, status : Statuses, processed : BOOLEAN]
    /\ read \in [Passes -> Version]
    /\ step \in [Passes -> {"idle", "write", "mark"}]
    /\ action \in [keyed : BOOLEAN, done : BOOLEAN,
                   status : Statuses \cup {"none", "Open", "needs_review"}]
    /\ written \in Nat
    /\ causes \subseteq Causes

(***************************************************************************)
(* DriftHasCause is not inductive: it looks at quiet states only.  A pass  *)
(* on its way to the mark carries the reason why it may set it.            *)
(***************************************************************************)

\* Versions only grow, and one version has one status.
VersionsAgree ==
    /\ row.version <= jira.version
    /\ row.version = jira.version => row.status = jira.status
    /\ written <= row.version
    /\ \A p \in Passes :
         /\ read[p].version <= row.version
         /\ step[p] # "idle" /\ read[p].version = row.version => read[p].status = row.status

\* What the pass that may mark the row has done, and so what a marked row means.
MarkIsEarned ==
    /\ \A p \in Passes :
         step[p] = "mark" /\ read[p].version = row.version =>
           written = row.version \/ causes # {}
    /\ row.processed /\ row.version > 0 => written = row.version \/ causes # {}

\* The key is written before any status, and only once.
KeyBeforeStatus == action.status = "none" => written = 0

Agrees ==
    /\ action.status = row.status
    /\ action.done = (row.status = "Done")

WrittenAgrees ==
    written = row.version /\ row.version > 0 /\ action.keyed /\ causes = {} => Agrees

DriftInv == SyncTyped /\ VersionsAgree /\ MarkIsEarned /\ KeyBeforeStatus /\ WrittenAgrees

status == <<jira, row, read, step, action, written, causes>>

LEMMA InitDrift == Init => DriftInv
<1> SUFFICES ASSUME Init PROVE DriftInv
  OBVIOUS
<1>1. SyncTyped
  <2>1. Reported \in BOOLEAN
    BY GraphAssumption
  <2>2. action \in [keyed : BOOLEAN, done : BOOLEAN,
                     status : Statuses \cup {"none", "Open", "needs_review"}]
    BY <2>1 DEF Init
  <2>3. row \in [version : Nat, status : Statuses, processed : BOOLEAN]
    BY DEF Init, Statuses
  <2>4. /\ jira \in Version /\ read \in [Passes -> Version]
        /\ step \in [Passes -> {"idle", "write", "mark"}]
        /\ written \in Nat /\ causes \subseteq Causes
    BY DEF Init, Nothing, Version, Statuses
  <2> QED BY <2>2, <2>3, <2>4 DEF SyncTyped
<1>2. VersionsAgree /\ MarkIsEarned /\ KeyBeforeStatus /\ WrittenAgrees
  <2>1. /\ row.version = 0 /\ written = 0 /\ jira.version = 1
        /\ \A p \in Passes : step[p] = "idle" /\ read[p].version = 0
    BY DEF Init, Nothing
  <2> QED BY <2>1 DEF VersionsAgree, MarkIsEarned, KeyBeforeStatus, WrittenAgrees
<1> QED BY <1>1, <1>2 DEF DriftInv

LEMMA DriftStays == DriftInv /\ UNCHANGED status => DriftInv'
BY DEF status, DriftInv, SyncTyped, VersionsAgree, MarkIsEarned, KeyBeforeStatus,
       WrittenAgrees, Agrees

\* Nothing has been written before the key.
LEMMA WriteKeyKeepsDrift == DriftInv /\ WriteKey => DriftInv'
<1> SUFFICES ASSUME DriftInv, WriteKey PROVE DriftInv'
  OBVIOUS
<1>1. /\ action' = [action EXCEPT !.keyed = TRUE, !.status = "Open"]
      /\ UNCHANGED <<jira, row, read, step, written, causes>>
  BY DEF WriteKey, sync
<1>2. written = 0
  BY DEF WriteKey, DriftInv, KeyBeforeStatus
<1>3. SyncTyped'
  BY <1>1 DEF DriftInv, SyncTyped
<1>4. VersionsAgree' /\ MarkIsEarned' /\ KeyBeforeStatus' /\ WrittenAgrees'
  BY <1>1, <1>2 DEF DriftInv, VersionsAgree, MarkIsEarned, KeyBeforeStatus, WrittenAgrees
<1> QED BY <1>3, <1>4 DEF DriftInv

\* A re-processing is a cause, whatever it does to the action item.
LEMMA ReprocessKeepsDrift == DriftInv /\ Reprocess => DriftInv'
<1> SUFFICES ASSUME DriftInv, Reprocess PROVE DriftInv'
  OBVIOUS
<1>1. /\ causes' = causes \cup {"reprocessed"}
      /\ UNCHANGED <<jira, row, read, step, written>>
  BY DEF Reprocess, sync
<1>2. action' \in [keyed : BOOLEAN, done : BOOLEAN,
                   status : Statuses \cup {"none", "Open", "needs_review"}]
  <2>1. Reported \in BOOLEAN
    BY GraphAssumption
  <2>2. action \in [keyed : BOOLEAN, done : BOOLEAN,
                     status : Statuses \cup {"none", "Open", "needs_review"}]
    BY DEF DriftInv, SyncTyped
  <2>3. \A d \in BOOLEAN, st \in {"needs_review", "Open"} :
          /\ [action EXCEPT !.done = d]
               \in [keyed : BOOLEAN, done : BOOLEAN,
                    status : Statuses \cup {"none", "Open", "needs_review"}]
          /\ [action EXCEPT !.done = d, !.status = st]
               \in [keyed : BOOLEAN, done : BOOLEAN,
                    status : Statuses \cup {"none", "Open", "needs_review"}]
          /\ [keyed |-> FALSE, status |-> st, done |-> d]
               \in [keyed : BOOLEAN, done : BOOLEAN,
                    status : Statuses \cup {"none", "Open", "needs_review"}]
    BY <2>2
  <2>4. \/ action' = [action EXCEPT !.done = Reported]
        \/ action' = [action EXCEPT !.done = Reported, !.status = "needs_review"]
        \/ action' = [keyed |-> FALSE, status |-> "Open", done |-> Reported]
    BY DEF Reprocess
  <2> QED BY <2>1, <2>3, <2>4
<1>3. SyncTyped'
  BY <1>1, <1>2 DEF DriftInv, SyncTyped, Causes
<1>4. action'.status # "none" \/ action'.status = action.status
  <2>1. action \in [keyed : BOOLEAN, done : BOOLEAN,
                     status : Statuses \cup {"none", "Open", "needs_review"}]
    BY DEF DriftInv, SyncTyped
  <2>2. /\ [action EXCEPT !.done = Reported].status = action.status
        /\ [action EXCEPT !.done = Reported, !.status = "needs_review"].status = "needs_review"
        /\ [keyed |-> FALSE, status |-> "Open", done |-> Reported].status = "Open"
    BY <2>1
  <2>3. \/ action' = [action EXCEPT !.done = Reported]
        \/ action' = [action EXCEPT !.done = Reported, !.status = "needs_review"]
        \/ action' = [keyed |-> FALSE, status |-> "Open", done |-> Reported]
    BY DEF Reprocess
  <2> QED BY <2>2, <2>3
<1>5. VersionsAgree' /\ MarkIsEarned' /\ KeyBeforeStatus' /\ WrittenAgrees'
  BY <1>1, <1>4 DEF DriftInv, VersionsAgree, MarkIsEarned, KeyBeforeStatus, WrittenAgrees
<1> QED BY <1>3, <1>5 DEF DriftInv

LEMMA ChangesKeepsDrift == DriftInv /\ Changes => DriftInv'
<1> SUFFICES ASSUME DriftInv, Changes PROVE DriftInv'
  OBVIOUS
<1>1. /\ jira' \in Version /\ jira'.version = jira.version + 1
      /\ UNCHANGED <<row, read, step, action, written, causes>>
  BY DEF Changes, sync, item, DriftInv, SyncTyped, Version
<1>2. SyncTyped'
  BY <1>1 DEF DriftInv, SyncTyped
<1>3. row.version \in Nat /\ jira.version \in Nat
  BY DEF DriftInv, SyncTyped, Version
<1>4. row.version <= jira.version
  BY DEF DriftInv, VersionsAgree
<1>5. row.version < jira'.version
  BY <1>1, <1>3, <1>4
<1>6. VersionsAgree'
  BY <1>1, <1>3, <1>5 DEF DriftInv, VersionsAgree
<1>7. MarkIsEarned' /\ KeyBeforeStatus' /\ WrittenAgrees'
  BY <1>1 DEF DriftInv, MarkIsEarned, KeyBeforeStatus, WrittenAgrees, Agrees
<1> QED BY <1>2, <1>6, <1>7 DEF DriftInv

\* A new row is newer than all that was read or written.
LEMMA AirbyteKeepsDrift == DriftInv /\ AirbyteSync => DriftInv'
<1> SUFFICES ASSUME DriftInv, AirbyteSync PROVE DriftInv'
  OBVIOUS
<1>1. /\ row' = [version |-> jira.version, status |-> jira.status, processed |-> FALSE]
      /\ row.version < jira.version
      /\ UNCHANGED <<jira, read, step, action, written, causes>>
  BY DEF AirbyteSync, item
<1>2. /\ row.version \in Nat /\ jira.version \in Nat /\ jira.status \in Statuses
      /\ written \in Nat
      /\ \A p \in Passes : read[p].version \in Nat
  BY DEF DriftInv, SyncTyped, Version
<1>3. SyncTyped'
  <2>1. row' \in [version : Nat, status : Statuses, processed : BOOLEAN]
    BY <1>1, <1>2
  <2> QED BY <1>1, <2>1 DEF DriftInv, SyncTyped
<1>4. /\ written < row'.version
      /\ \A p \in Passes : read[p].version < row'.version
  BY <1>1, <1>2 DEF DriftInv, VersionsAgree
<1>5. VersionsAgree' /\ MarkIsEarned'
  BY <1>1, <1>2, <1>4 DEF VersionsAgree, MarkIsEarned
<1>6. KeyBeforeStatus' /\ WrittenAgrees'
  BY <1>1, <1>2, <1>4 DEF DriftInv, KeyBeforeStatus, WrittenAgrees
<1> QED BY <1>3, <1>5, <1>6 DEF DriftInv

-----------------------------------------------------------------------------
(* A pass.                                                                 *)

LEMMA ReadRowKeepsDrift == ASSUME DriftInv, NEW p \in Passes, ReadRow(p) PROVE DriftInv'
<1>1. /\ read' = [read EXCEPT ![p] = [version |-> row.version, status |-> row.status]]
      /\ step' = [step EXCEPT ![p] = "write"]
      /\ UNCHANGED <<jira, row, action, written, causes>>
  BY DEF ReadRow, item
<1>2. row.version \in Nat /\ row.status \in Statuses
  BY DEF DriftInv, SyncTyped
<1>3. SyncTyped'
  <2>1. [version |-> row.version, status |-> row.status] \in Version
    BY <1>2 DEF Version
  <2> QED BY <1>1, <2>1 DEF DriftInv, SyncTyped
<1>4. VersionsAgree'
  <2> SUFFICES ASSUME NEW q \in Passes
               PROVE  /\ read'[q].version <= row.version
                      /\ step'[q] # "idle" /\ read'[q].version = row.version =>
                           read'[q].status = row.status
    BY <1>1 DEF DriftInv, VersionsAgree
  <2>1. CASE q = p
    BY <1>1, <1>2, <2>1 DEF DriftInv, SyncTyped
  <2>2. CASE q # p
    BY <1>1, <2>2 DEF DriftInv, SyncTyped, VersionsAgree
  <2> QED BY <2>1, <2>2
<1>5. MarkIsEarned' /\ KeyBeforeStatus' /\ WrittenAgrees'
  BY <1>1 DEF DriftInv, SyncTyped, MarkIsEarned, KeyBeforeStatus, WrittenAgrees, Agrees
<1> QED BY <1>3, <1>4, <1>5 DEF DriftInv

\* A pass writes the row's version, or an older one, and then knows it.
LEMMA WriteStatusKeepsDrift ==
    ASSUME DriftInv, NEW p \in Passes, WriteStatus(p) PROVE DriftInv'
<1>1. /\ step[p] = "write" /\ step' = [step EXCEPT ![p] = "mark"]
      /\ UNCHANGED <<jira, row, read>>
  BY DEF WriteStatus
<1>2. /\ read[p] \in Version /\ read[p].version \in Nat /\ read[p].status \in Statuses
      /\ row.version \in Nat /\ written \in Nat /\ causes \subseteq Causes
      /\ step \in [Passes -> {"idle", "write", "mark"}]
      /\ action \in [keyed : BOOLEAN, done : BOOLEAN,
                      status : Statuses \cup {"none", "Open", "needs_review"}]
  BY DEF DriftInv, SyncTyped, Version
<1>3. /\ read[p].version <= row.version /\ written <= row.version
      /\ read[p].version = row.version => read[p].status = row.status
  BY <1>1 DEF DriftInv, VersionsAgree
<1>4. CASE ~ action.keyed
  <2>1. causes' = causes \cup {"unmatched"} /\ UNCHANGED <<action, written>>
    BY <1>4 DEF WriteStatus
  <2>2. SyncTyped'
    BY <1>1, <1>2, <2>1 DEF DriftInv, SyncTyped, Causes
  <2>3. VersionsAgree'
    BY <1>1, <1>2, <1>3, <2>1 DEF DriftInv, VersionsAgree
  <2>4. MarkIsEarned' /\ KeyBeforeStatus' /\ WrittenAgrees'
    BY <1>1, <2>1 DEF DriftInv, MarkIsEarned, KeyBeforeStatus, WrittenAgrees
  <2> QED BY <2>2, <2>3, <2>4 DEF DriftInv
<1>5. CASE action.keyed
  <2>1. /\ action' = [action EXCEPT !.status = read[p].status,
                                    !.done = read[p].status = "Done"]
        /\ written' = IF read[p].version < written THEN written ELSE read[p].version
        /\ causes' = IF read[p].version < written THEN causes \cup {"stale"}
                      ELSE IF read[p].version = row.version THEN {}
                      ELSE causes
    BY <1>5 DEF WriteStatus
  <2>2. /\ action'.status = read[p].status
        /\ action'.done = (read[p].status = "Done")
    BY <1>2, <2>1
  <2>3. action' \in [keyed : BOOLEAN, done : BOOLEAN,
                     status : Statuses \cup {"none", "Open", "needs_review"}]
    <3>1. \A d \in BOOLEAN :
            [action EXCEPT !.status = read[p].status, !.done = d]
              \in [keyed : BOOLEAN, done : BOOLEAN,
                   status : Statuses \cup {"none", "Open", "needs_review"}]
      BY <1>2
    <3>2. (read[p].status = "Done") \in BOOLEAN
      OBVIOUS
    <3> QED BY <2>1, <3>1, <3>2
  <2>4. written' \in Nat /\ written' <= row.version /\ causes' \subseteq Causes
    BY <1>2, <1>3, <2>1 DEF Causes
  <2>5. SyncTyped'
    BY <1>1, <1>2, <2>3, <2>4 DEF DriftInv, SyncTyped
  <2>6. VersionsAgree'
    BY <1>1, <1>2, <2>4, <1>3 DEF DriftInv, VersionsAgree
  <2>7. KeyBeforeStatus'
    BY <1>2, <2>2 DEF KeyBeforeStatus, Statuses
  <2>8. CASE read[p].version = row.version
    <3>1. written' = row.version
      BY <1>2, <1>3, <2>1, <2>8
    <3>2. MarkIsEarned'
      BY <1>1, <3>1 DEF MarkIsEarned
    <3>3. WrittenAgrees'
      BY <1>1, <1>3, <2>2, <2>8 DEF WrittenAgrees, Agrees
    <3> QED BY <2>5, <2>6, <2>7, <3>2, <3>3 DEF DriftInv
  <2>9. CASE read[p].version # row.version
    <3>1. \/ written' = written /\ causes' # {}
          \/ written' # row.version /\ causes' = causes /\ written <= written'
      BY <1>2, <1>3, <2>1, <2>9
    <3>2. written = row.version => written' = row.version \/ causes' # {}
      BY <1>2, <1>3, <2>4, <3>1
    <3>3. causes # {} => causes' # {}
      BY <3>1
    <3>4. MarkIsEarned'
      BY <1>1, <1>2, <2>9, <3>2, <3>3 DEF DriftInv, MarkIsEarned
    <3>5. WrittenAgrees'
      BY <1>1, <3>1 DEF WrittenAgrees
    <3> QED BY <2>5, <2>6, <2>7, <3>4, <3>5 DEF DriftInv
  <2> QED BY <2>8, <2>9
<1> QED BY <1>4, <1>5

LEMMA DoneParts ==
    ASSUME SyncTyped, NEW p \in Passes, Done(p)
    PROVE  /\ step' \in [Passes -> {"idle", "write", "mark"}]
           /\ read' \in [Passes -> Version]
           /\ \A q \in Passes :
                \/ step'[q] = "idle" /\ read'[q].version = 0
                \/ step'[q] = step[q] /\ read'[q] = read[q]
<1>1. Nothing \in Version /\ Nothing.version = 0
  BY DEF Nothing, Version, Statuses
<1> QED BY <1>1 DEF Done, SyncTyped

\* The row is marked only if it is still the one that was read.
LEMMA MarkKeepsDrift == ASSUME DriftInv, NEW p \in Passes, Mark(p) PROVE DriftInv'
<1>1. /\ step[p] = "mark"
      /\ row' = [row EXCEPT !.processed = @ \/ row.version = read[p].version]
      /\ UNCHANGED <<jira, action, written, causes>>
  BY DEF Mark, item
<1>2. /\ row \in [version : Nat, status : Statuses, processed : BOOLEAN]
      /\ row.version \in Nat /\ row.processed \in BOOLEAN
  BY DEF DriftInv, SyncTyped
<1>3. /\ row'.version = row.version /\ row'.status = row.status
      /\ row' \in [version : Nat, status : Statuses, processed : BOOLEAN]
  <2>1. (row.processed \/ row.version = read[p].version) \in BOOLEAN
    OBVIOUS
  <2>2. \A b \in BOOLEAN : /\ [row EXCEPT !.processed = b].version = row.version
                          /\ [row EXCEPT !.processed = b].status = row.status
                          /\ [row EXCEPT !.processed = b]
                               \in [version : Nat, status : Statuses, processed : BOOLEAN]
    BY <1>2
  <2> QED BY <1>1, <2>1, <2>2
<1>4. row'.processed => row.processed \/ row.version = read[p].version
  BY <1>1, <1>2
<1>5. /\ step' \in [Passes -> {"idle", "write", "mark"}]
      /\ read' \in [Passes -> Version]
      /\ \A q \in Passes :
           \/ step'[q] = "idle" /\ read'[q].version = 0
           \/ step'[q] = step[q] /\ read'[q] = read[q]
  BY DoneParts DEF Mark, DriftInv
<1>6. SyncTyped'
  BY <1>1, <1>3, <1>5 DEF DriftInv, SyncTyped
<1>7. VersionsAgree'
  BY <1>1, <1>2, <1>3, <1>5 DEF DriftInv, VersionsAgree
<1>8. MarkIsEarned'
  BY <1>1, <1>3, <1>4, <1>5 DEF DriftInv, MarkIsEarned
<1>9. KeyBeforeStatus' /\ WrittenAgrees'
  BY <1>1, <1>3 DEF DriftInv, KeyBeforeStatus, WrittenAgrees, Agrees
<1> QED BY <1>6, <1>7, <1>8, <1>9 DEF DriftInv

\* A pass that fails or dies leaves the row as it is.
LEMMA StopKeepsDrift ==
    ASSUME DriftInv, Crash \/ \E p \in Passes : IssueError(p)
    PROVE  DriftInv'
<1>1. UNCHANGED <<jira, row, action, written, causes>>
  BY DEF Crash, IssueError, item
<1>2. /\ step' \in [Passes -> {"idle", "write", "mark"}]
      /\ read' \in [Passes -> Version]
      /\ \A q \in Passes :
           \/ step'[q] = "idle" /\ read'[q].version = 0
           \/ step'[q] = step[q] /\ read'[q] = read[q]
  <2>1. CASE Crash
    <3>1. Nothing \in Version /\ Nothing.version = 0
      BY DEF Nothing, Version, Statuses
    <3> QED BY <2>1, <3>1 DEF Crash
  <2>2. ASSUME NEW p \in Passes, IssueError(p) PROVE <1>2
    BY <2>2, DoneParts DEF IssueError, DriftInv
  <2> QED BY <2>1, <2>2
<1>3. SyncTyped'
  BY <1>1, <1>2 DEF DriftInv, SyncTyped
<1>4. row.version \in Nat
  BY DEF DriftInv, SyncTyped
<1>5. VersionsAgree'
  BY <1>1, <1>2, <1>4 DEF DriftInv, VersionsAgree
<1>6. MarkIsEarned' /\ KeyBeforeStatus' /\ WrittenAgrees'
  BY <1>1, <1>2 DEF DriftInv, MarkIsEarned, KeyBeforeStatus, WrittenAgrees, Agrees
<1> QED BY <1>3, <1>5, <1>6 DEF DriftInv

\* A merge writes Done, which is the row's status or else a cause.
LEMMA ResolveKeepsDrift ==
    ASSUME DriftInv, NEW e, Resolve(e), UNCHANGED <<jira, row, read, step, written>>
    PROVE  DriftInv'
<1>1. CASE action.keyed
  <2>1. /\ action' = [action EXCEPT !.status = "Done", !.done = TRUE]
        /\ causes' = IF row.status = "Done" THEN causes ELSE causes \cup {"merged"}
    BY <1>1 DEF Resolve
  <2>2. /\ action' \in [keyed : BOOLEAN, done : BOOLEAN,
                        status : Statuses \cup {"none", "Open", "needs_review"}]
        /\ action'.status = "Done" /\ action'.done = TRUE
    BY <2>1 DEF DriftInv, SyncTyped, Statuses
  <2>3. SyncTyped'
    BY <2>1, <2>2 DEF DriftInv, SyncTyped, Causes
  <2>4. VersionsAgree' /\ MarkIsEarned' /\ KeyBeforeStatus'
    BY <2>1, <2>2 DEF DriftInv, VersionsAgree, MarkIsEarned, KeyBeforeStatus
  <2>5. causes' = {} => row.status = "Done"
    BY <2>1
  <2>6. WrittenAgrees'
    BY <2>2, <2>5 DEF WrittenAgrees, Agrees
  <2> QED BY <2>3, <2>4, <2>6 DEF DriftInv
<1>2. CASE ~ action.keyed
  <2>1. UNCHANGED status
    BY <1>2 DEF Resolve, status
  <2> QED BY <2>1, DriftStays
<1> QED BY <1>1, <1>2

LEMMA NextKeepsDrift == DriftInv /\ [Next]_vars => DriftInv'
<1> SUFFICES ASSUME DriftInv, [Next]_vars PROVE DriftInv'
  OBVIOUS
<1>1. CASE WriteKey \/ Reprocess \/ Changes \/ AirbyteSync \/ Crash
  BY <1>1, WriteKeyKeepsDrift, ReprocessKeepsDrift, ChangesKeepsDrift, AirbyteKeepsDrift,
     StopKeepsDrift
<1>2. ASSUME NEW p \in Passes, ReadBack(p) \/ IssueError(p) PROVE DriftInv'
  BY <1>2, ReadRowKeepsDrift, WriteStatusKeepsDrift, MarkKeepsDrift, StopKeepsDrift
  DEF ReadBack
<1>3. CASE Push \/ OpenPr \/ ClosePr \/ RaiseBlocker \/ Migrate
  BY <1>3, DriftStays
  DEF Push, OpenPr, ClosePr, RaiseBlocker, Migrate, status, sync, item
<1>4. ASSUME NEW pr \in Prs, RecordRun(pr) PROVE DriftInv'
  BY <1>4, DriftStays DEF RecordRun, status, sync, item
<1>5. ASSUME NEW e \in Event, Deliver(e) \/ Drop(e) PROVE DriftInv'
  BY <1>5, DriftStays DEF Deliver, Drop, status, sync, item
<1>6. ASSUME NEW e \in Event, HandleEvent(e) PROVE DriftInv'
  <2>1. UNCHANGED <<jira, row, read, step, written>>
    BY <1>6 DEF HandleEvent, sync
  <2>2. CASE WriteCommit(e) \/ Ignore(e)
    BY <2>1, <2>2, DriftStays DEF WriteCommit, Ignore, status
  <2>3. CASE Resolve(e)
    BY <2>1, <2>3, ResolveKeepsDrift
  <2> QED BY <1>6, <2>2, <2>3 DEF HandleEvent
<1>7. CASE UNCHANGED vars
  BY <1>7, DriftStays DEF vars, status, sync, item
<1> QED BY <1>1, <1>2, <1>3, <1>4, <1>5, <1>6, <1>7 DEF Next

(***************************************************************************)
(* The status in the graph differs from the row that Airbyte last brought  *)
(* only for a known cause; no failed call, crash or replaced row of        *)
(* process_jira_issues is one.                                             *)
(***************************************************************************)
THEOREM DriftIsExplained == Spec => []DriftHasCause
<1>1. DriftInv => DriftHasCause
  <2> SUFFICES ASSUME DriftInv, Quiet, row.version > 0, action.keyed, causes = {}
               PROVE  Agrees
    BY DEF DriftHasCause, Agrees
  <2>1. written = row.version
    BY DEF DriftInv, MarkIsEarned, Quiet
  <2> QED BY <2>1 DEF DriftInv, WrittenAgrees
<1> QED BY <1>1, InitDrift, NextKeepsDrift, PTL DEF Spec

-----------------------------------------------------------------------------
(* Provenance.                                                             *)

TicketTyped == ticket \in [node : BOOLEAN, summary : {"none", "blank", "text"},
                           status : {"none", "Done"}]

\* What each write leaves in the Ticket node.
LEMMA TicketWrites ==
    ASSUME TicketTyped, [Next]_vars
    PROVE  TicketTyped'
<1>1. /\ Resolved \in [node : BOOLEAN, summary : {"none", "blank", "text"},
                      status : {"none", "Done"}]
      /\ [ticket EXCEPT !.node = TRUE]
           \in [node : BOOLEAN, summary : {"none", "blank", "text"}, status : {"none", "Done"}]
      /\ [ticket EXCEPT !.node = TRUE, !.summary = "text"]
           \in [node : BOOLEAN, summary : {"none", "blank", "text"}, status : {"none", "Done"}]
  BY DEF TicketTyped, Resolved
<1>2. \/ UNCHANGED ticket
      \/ ticket' = Resolved
      \/ ticket' = [ticket EXCEPT !.node = TRUE]
      \/ ticket' = [ticket EXCEPT !.node = TRUE, !.summary = "text"]
  BY DEF Next, WriteKey, Reprocess, Changes, AirbyteSync, ReadBack, ReadRow, WriteStatus, Mark,
         IssueError, Push, OpenPr, ClosePr, RaiseBlocker, Migrate, RecordRun, Deliver, Drop,
         HandleEvent, WriteCommit, Resolve, Ignore, Crash, prov, vars
<1> QED BY <1>1, <1>2 DEF TicketTyped

(***************************************************************************)
(* However the webhook's writes, the migration and the dev agent's         *)
(* interleave, the parts of the graph fit together, and the Ticket node    *)
(* says Done if and only if it is resolved.  The invariant is inductive    *)
(* with the type of the node: each write makes the nodes that its edges    *)
(* need, and no merge, and no status written for one, is ever taken back.  *)
(***************************************************************************)
THEOREM GraphFitsTogether == Spec => []ProvenanceIsSound
<1>1. Init => TicketTyped /\ ProvenanceIsSound
  <2> SUFFICES ASSUME Init PROVE TicketTyped /\ ProvenanceIsSound
    OBVIOUS
  <2>1. /\ ticket = [node |-> FALSE, summary |-> "none", status |-> "none"]
        /\ runs = {} /\ resolvedBy = {} /\ ~ ticketed /\ blocker = "none"
    BY DEF Init
  <2>2. ticket.summary = "none" /\ ticket.status = "none"
    BY <2>1
  <2> QED BY <2>1, <2>2 DEF TicketTyped, ProvenanceIsSound
<1>2. TicketTyped /\ ProvenanceIsSound /\ [Next]_vars => ProvenanceIsSound'
  <2> SUFFICES ASSUME TicketTyped, ProvenanceIsSound, [Next]_vars PROVE ProvenanceIsSound'
    OBVIOUS
  <2>1. CASE UNCHANGED <<prov, merged>>
    BY <2>1 DEF prov, ProvenanceIsSound
  <2>2. CASE WriteKey \/ Reprocess \/ Changes \/ AirbyteSync \/ Crash \/ Push \/ OpenPr
    BY <2>1, <2>2
    DEF WriteKey, Reprocess, Changes, AirbyteSync, Crash, Push, OpenPr, github
  <2>3. CASE ClosePr
    BY <2>3 DEF ClosePr, prov, ProvenanceIsSound
  <2>4. CASE RaiseBlocker \/ Migrate
    BY <2>4 DEF RaiseBlocker, Migrate, github, ProvenanceIsSound, TicketTyped
  <2>5. ASSUME NEW p \in Passes, ReadBack(p) \/ IssueError(p) PROVE ProvenanceIsSound'
    BY <2>1, <2>5 DEF ReadBack, ReadRow, WriteStatus, Mark, IssueError, github
  <2>6. ASSUME NEW pr \in Prs, RecordRun(pr) PROVE ProvenanceIsSound'
    BY <2>6 DEF RecordRun, github, ProvenanceIsSound, TicketTyped
  <2>7. ASSUME NEW e \in Event, Deliver(e) \/ Drop(e) PROVE ProvenanceIsSound'
    BY <2>1, <2>7 DEF Deliver, Drop, github
  <2>8. ASSUME NEW e \in Event, HandleEvent(e) PROVE ProvenanceIsSound'
    <3>1. UNCHANGED <<blocker, runs, merged>>
      BY <2>8 DEF HandleEvent, github
    <3>2. CASE WriteCommit(e) \/ Ignore(e)
      BY <3>1, <3>2 DEF WriteCommit, Ignore, ProvenanceIsSound
    <3>3. CASE Resolve(e)
      BY <3>1, <3>3 DEF Resolve, Resolved, ProvenanceIsSound
    <3> QED BY <2>8, <3>2, <3>3 DEF HandleEvent
  <2>9. CASE UNCHANGED vars
    BY <2>1, <2>9 DEF vars, github
  <2> QED BY <2>2, <2>3, <2>4, <2>5, <2>6, <2>7, <2>8, <2>9 DEF Next
<1> QED BY <1>1, <1>2, TicketWrites, PTL DEF Spec

-----------------------------------------------------------------------------
(* Type correctness.                                                       *)

GraphTyped ==
    /\ TicketTyped
    /\ scene \in Scenes
    /\ opened \in 0 .. scene.prs /\ open \in 0 .. opened /\ merged \subseteq 1 .. opened
    /\ pushes \in 0 .. scene.pushes /\ owner \in [Commits -> 0 .. opened]
    /\ hooks \cup tasks \cup lost \subseteq Event
    /\ ticketed \in BOOLEAN
    /\ blocker \in {"none", "loose", "raised"}
    /\ runs \cup prNodes \cup branched \cup resolvedBy \subseteq 1 .. opened
    /\ contains \subseteq Prs \X Commits
    /\ upsets \in 0 .. scene.upsets

LEMMA TypeParts == SyncTyped /\ GraphTyped => TypeOK
BY DEF SyncTyped, GraphTyped, TicketTyped, TypeOK, Version

LEMMA SceneParts ==
    ASSUME scene \in Scenes
    PROVE  /\ scene.prs \in Nat /\ scene.pushes \in Nat /\ scene.upsets \in Nat
           /\ 1 .. scene.prs \subseteq Prs
           /\ 1 .. scene.pushes \subseteq Commits
BY GraphAssumption DEF Prs, Commits

LEMMA UpsetType == GraphTyped /\ Upset => upsets' \in 0 .. scene.upsets
BY SceneParts DEF GraphTyped, Upset

\* The variables of GraphTyped but the queue of events and the count of upsets.
rest == <<scene, github, prov>>

LEMMA QueueType ==
    ASSUME GraphTyped, UNCHANGED rest,
           hooks' \cup tasks' \cup lost' \subseteq hooks \cup tasks \cup lost,
           Upset \/ UNCHANGED upsets
    PROVE  GraphTyped'
<1>1. upsets' \in 0 .. scene.upsets
  BY UpsetType DEF GraphTyped
<1>2. hooks' \cup tasks' \cup lost' \subseteq Event
  BY DEF GraphTyped
<1> QED BY <1>1, <1>2 DEF GraphTyped, TicketTyped, rest, github, prov

LEMMA PushType == GraphTyped /\ Push => GraphTyped'
<1> SUFFICES ASSUME GraphTyped, Push PROVE GraphTyped'
  OBVIOUS
<1>1. pushes + 1 \in 1 .. scene.pushes /\ pushes + 1 \in Commits
  BY SceneParts DEF GraphTyped, Push
<1>2. [kind |-> "push", of |-> pushes + 1] \in Event
  BY <1>1 DEF Event
<1>3. hooks' \cup tasks' \cup lost' \subseteq Event
  BY <1>2 DEF GraphTyped, Push
<1>4. pushes' \in 0 .. scene.pushes /\ owner' \in [Commits -> 0 .. opened]
  BY <1>1 DEF GraphTyped, Push
<1> QED BY <1>3, <1>4 DEF GraphTyped, TicketTyped, Push, prov

LEMMA OpenPrType == GraphTyped /\ OpenPr => GraphTyped'
<1> SUFFICES ASSUME GraphTyped, OpenPr PROVE GraphTyped'
  OBVIOUS
<1>1. opened \in Nat /\ opened' = opened + 1 /\ opened' \in 0 .. scene.prs /\ open' \in 0 .. opened'
  BY SceneParts DEF GraphTyped, OpenPr
<1>2. /\ 1 .. opened \subseteq 1 .. opened'
      /\ 0 .. opened \subseteq 0 .. opened' /\ opened + 1 \in 0 .. opened'
  BY <1>1
<1>3. owner' \in [Commits -> 0 .. opened']
  BY <1>2 DEF GraphTyped, OpenPr
<1>4. UNCHANGED <<scene, merged, pushes, hooks, tasks, lost, ticket, blocker, ticketed,
                  runs, prNodes, branched, resolvedBy, contains, upsets>>
  BY DEF OpenPr, queue, prov
<1> QED BY <1>1, <1>2, <1>3, <1>4 DEF GraphTyped, TicketTyped

LEMMA ClosePrType == GraphTyped /\ ClosePr => GraphTyped'
<1> SUFFICES ASSUME GraphTyped, ClosePr PROVE GraphTyped'
  OBVIOUS
<1>1. open \in 1 .. opened /\ open \in Prs
  BY SceneParts DEF GraphTyped, ClosePr
<1>2. [kind |-> "closed", of |-> open] \in Event
  BY <1>1 DEF Event
<1>3. hooks' \cup tasks' \cup lost' \subseteq Event
  BY <1>2 DEF GraphTyped, ClosePr
<1>4. merged' \subseteq 1 .. opened /\ open' \in 0 .. opened
  BY <1>1 DEF GraphTyped, ClosePr
<1> QED BY <1>3, <1>4 DEF GraphTyped, TicketTyped, ClosePr, prov

LEMMA DevAgentType ==
    ASSUME GraphTyped, RaiseBlocker \/ Migrate \/ \E pr \in Prs : RecordRun(pr), SyncTyped,
           TicketTyped'
    PROVE  GraphTyped'
<1>1. /\ UNCHANGED <<scene, opened, open, merged, pushes, owner, hooks, tasks, lost,
                     resolvedBy, contains, upsets>>
      /\ runs' \cup prNodes' \cup branched' \subseteq 1 .. opened
  BY DEF RaiseBlocker, Migrate, RecordRun, github, queue, GraphTyped
<1>2. blocker' \in {"none", "loose", "raised"}
  BY DEF RaiseBlocker, Migrate, RecordRun, GraphTyped
<1>3. ticketed' \in BOOLEAN
  BY DEF RaiseBlocker, Migrate, RecordRun, GraphTyped, SyncTyped
<1> QED BY <1>1, <1>2, <1>3 DEF GraphTyped

LEMMA HandleType ==
    ASSUME GraphTyped, NEW e \in Event, HandleEvent(e), TicketTyped' PROVE GraphTyped'
<1>1. /\ UNCHANGED <<scene, opened, open, merged, pushes, owner, hooks, lost, blocker,
                     runs, ticketed, branched, upsets>>
      /\ tasks' \subseteq tasks
  BY DEF HandleEvent, WriteCommit, Resolve, Ignore, github
<1>2. prNodes' \subseteq prNodes \cup merged /\ resolvedBy' \subseteq resolvedBy \cup merged
  BY DEF HandleEvent, WriteCommit, Resolve, Ignore
<1>3. contains' \subseteq Prs \X Commits
  <2>1. branched \subseteq Prs
    BY SceneParts DEF GraphTyped
  <2>2. e.kind = "push" => e.of \in Commits
    BY DEF Event
  <2> QED BY <2>1, <2>2 DEF HandleEvent, WriteCommit, Resolve, Ignore, GraphTyped
<1>4. runs' \cup prNodes' \cup branched' \cup resolvedBy' \subseteq 1 .. opened
  BY <1>1, <1>2 DEF GraphTyped
<1> QED BY <1>1, <1>3, <1>4 DEF GraphTyped

LEMMA NextKeepsGraph == SyncTyped /\ GraphTyped /\ [Next]_vars => GraphTyped'
<1> SUFFICES ASSUME SyncTyped, GraphTyped, [Next]_vars PROVE GraphTyped'
  OBVIOUS
<1>0. TicketTyped'
  BY TicketWrites DEF GraphTyped
<1>1. CASE WriteKey \/ Reprocess \/ Changes \/ AirbyteSync \/ Crash
  BY <1>1, QueueType DEF WriteKey, Reprocess, Changes, AirbyteSync, Crash, rest, queue
<1>2. ASSUME NEW p \in Passes, ReadBack(p) \/ IssueError(p) PROVE GraphTyped'
  BY <1>2, QueueType
  DEF ReadBack, ReadRow, WriteStatus, Mark, IssueError, rest, queue
<1>3. ASSUME NEW e \in Event, Deliver(e) \/ Drop(e) PROVE GraphTyped'
  BY <1>3, QueueType DEF Deliver, Drop, rest
<1>4. CASE UNCHANGED vars
  BY <1>4, QueueType DEF vars, rest, queue
<1> QED
  BY <1>0, <1>1, <1>2, <1>3, <1>4, PushType, OpenPrType, ClosePrType, DevAgentType, HandleType
  DEF Next

(***************************************************************************)
(* Every reachable state of the ticket's nodes, of Jira, GitHub and the    *)
(* queue of webhook events is well typed.                                  *)
(***************************************************************************)
THEOREM TypeCorrect == Spec => []TypeOK
<1>1. Init => GraphTyped
  <2>1. ASSUME Init PROVE scene \in Scenes
    BY <2>1 DEF Init
  <2>2. ASSUME Init PROVE GraphTyped
    <3>1. /\ opened = 0 /\ open = 0 /\ merged = {} /\ pushes = 0 /\ upsets = 0
          /\ owner = [c \in Commits |-> 0]
          /\ hooks = {} /\ tasks = {} /\ lost = {}
          /\ runs = {} /\ prNodes = {} /\ branched = {} /\ resolvedBy = {} /\ contains = {}
      BY <2>2 DEF Init
    <3>2. TicketTyped /\ ticketed \in BOOLEAN /\ blocker \in {"none", "loose", "raised"}
      BY <2>2 DEF Init, TicketTyped
    <3>3. scene.prs \in Nat /\ scene.pushes \in Nat /\ scene.upsets \in Nat
      BY <2>1, <2>2, SceneParts
    <3>4. /\ opened \in 0 .. scene.prs /\ pushes \in 0 .. scene.pushes
          /\ upsets \in 0 .. scene.upsets /\ open \in 0 .. opened
          /\ owner \in [Commits -> 0 .. opened]
      BY <3>1, <3>3
    <3> QED BY <2>1, <2>2, <3>1, <3>2, <3>4 DEF GraphTyped
  <2> QED BY <2>2
<1>2. DriftInv => SyncTyped
  BY DEF DriftInv
<1> QED BY <1>1, <1>2, InitDrift, NextKeepsDrift, NextKeepsGraph, TypeParts, PTL DEF Spec
=============================================================================
