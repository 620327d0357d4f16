---------------------------- MODULE ActionAgent ----------------------------
(***************************************************************************)
(* The action agent, transform_service/action_agent.py: a run of           *)
(* process_action_items reads the oldest To Do tickets and, one after the  *)
(* other, drafts each, posts the draft as a comment and moves the ticket   *)
(* to In Review.  The scheduler's job, the webhook's background task and   *)
(* POST /agent/actions/run call it, each without asking about the others.  *)
(* A run keeps what it has read: every await below is a step, between      *)
(* which the other runs, people and crashes may change the tickets.        *)
(***************************************************************************)
EXTENDS Naturals, Sequences, FiniteSets

CONSTANTS
    Runs,          \* the callers whose runs may overlap
    Tickets,       \* labelled tickets, numbered in the order they are created
    Undraftable,   \* tickets for which the model never returns a draft
    Unmovable,     \* tickets that have no transition to In Review
    BatchSize,     \* ACTION_AGENT_BATCH_SIZE
    MaxAttempts,   \* of with_retry
    MaxFaults,     \* bound: how many calls may fail
    MaxMoves,      \* bound: how often people move a ticket
    MaxCrashes     \* bound: how often the process may die

ASSUME TicketsAssumption ==
    /\ Tickets \subseteq Nat
    /\ IsFiniteSet(Tickets)
    /\ IsFiniteSet(Runs)
    /\ Undraftable \cup Unmovable \subseteq Tickets

ASSUME BoundsAssumption ==
    /\ BatchSize \in Nat \ {0}
    /\ MaxAttempts \in Nat \ {0}
    /\ MaxFaults \in Nat
    /\ MaxMoves \in Nat
    /\ MaxCrashes \in Nat

VARIABLES
    status,      \* of each ticket in Jira ("none": not created yet)
    drafts,      \* how many comments of each ticket carry the marker
    step,        \* the next step of each run
    left,        \* the tickets a run has read and not finished, oldest first
    attempt,     \* which attempt of with_retry its next call is
    considered,  \* the counters of process_action_items
    drafted,
    repaired,
    failed,
    faults,      \* calls that failed so far
    lost,        \* comments posted without an answer so far
    moves,       \* tickets moved by people so far
    crashes      \* so far

counters == <<considered, drafted, repaired, failed>>
budget == <<faults, lost, moves, crashes>>
vars == <<status, drafts, step, left, attempt, considered, drafted, repaired,
          failed, faults, lost, moves, crashes>>

TypeOK ==
    /\ status \in [Tickets -> {"none", "To Do", "In Review", "Done"}]
    /\ drafts \in [Tickets -> Nat]
    /\ step \in [Runs -> {"idle", "find", "guard", "draft", "post", "move", "repair"}]
    /\ left \in [Runs -> Seq(Tickets)]
    /\ \A r \in Runs : step[r] \notin {"idle", "find"} => left[r] /= <<>>
    /\ attempt \in [Runs -> 1 .. MaxAttempts]
    /\ {considered, drafted, repaired, failed} \subseteq [Runs -> Nat]
    /\ faults \in 0 .. MaxFaults
    /\ lost \in 0 .. faults
    /\ moves \in 0 .. MaxMoves
    /\ crashes \in 0 .. MaxCrashes

Zero == [r \in Runs |-> 0]

Init ==
    /\ status = [t \in Tickets |-> "none"]
    /\ drafts = [t \in Tickets |-> 0]
    /\ step = [r \in Runs |-> "idle"]
    /\ left = [r \in Runs |-> <<>>]
    /\ attempt = [r \in Runs |-> 1]
    /\ considered = Zero /\ drafted = Zero /\ repaired = Zero /\ failed = Zero
    /\ faults = 0 /\ lost = 0 /\ moves = 0 /\ crashes = 0

-----------------------------------------------------------------------------
(* The loop over the tickets of a run.                                     *)

Ticket(r) == Head(left[r])
At(r, s) == step[r] = s /\ UNCHANGED <<moves, crashes>>
Succeeds == UNCHANGED <<faults, lost>>

Goto(r, s) ==
    /\ step' = [step EXCEPT ![r] = s]
    /\ attempt' = [attempt EXCEPT ![r] = 1]
    /\ UNCHANGED <<left, counters>>

Bump(counter, r) == [counter EXCEPT ![r] = @ + 1]

\* Seeded bug: the loop goes on after the last ticket.
NextTicketAlways(r) ==
    /\ left' = [left EXCEPT ![r] = Tail(@)]
    /\ step' = [step EXCEPT ![r] = "guard"]
    /\ attempt' = [attempt EXCEPT ![r] = 1]

\* The next ticket of the batch; after the last one the run returns.
NextTicket(r) ==
    /\ left' = [left EXCEPT ![r] = Tail(@)]
    /\ step' = [step EXCEPT ![r] = IF Len(left[r]) = 1 THEN "idle" ELSE "guard"]
    /\ attempt' = [attempt EXCEPT ![r] = 1]

\* Seeded bug: a ticket that fails is not counted.
TicketForgotten(r) == NextTicket(r) /\ UNCHANGED counters

\* failed += 1, in the loop's body or in its except clause.
TicketFails(r) ==
    /\ NextTicket(r)
    /\ failed' = Bump(failed, r)
    /\ UNCHANGED <<considered, drafted, repaired>>

\* with_retry: a failing call is tried again, and the last failure raised.
Again(r) ==
    /\ attempt[r] < MaxAttempts
    /\ attempt' = [attempt EXCEPT ![r] = @ + 1]
    /\ UNCHANGED <<step, left, counters>>

Raises(r) == attempt[r] = MaxAttempts /\ TicketFails(r)

CallFails(r) ==
    /\ faults < MaxFaults
    /\ faults' = faults + 1
    /\ Again(r) \/ Raises(r)
    /\ UNCHANGED lost

AnswerIsLost(r) ==
    /\ faults < MaxFaults
    /\ faults' = faults + 1
    /\ lost' = lost + 1
    /\ Again(r) \/ Raises(r)

-----------------------------------------------------------------------------
(* process_action_items.                                                   *)

Starts(r) ==
    /\ At(r, "idle")
    /\ step' = [step EXCEPT ![r] = "find"]
    /\ considered' = [considered EXCEPT ![r] = 0]
    /\ drafted' = [drafted EXCEPT ![r] = 0]
    /\ repaired' = [repaired EXCEPT ![r] = 0]
    /\ failed' = [failed EXCEPT ![r] = 0]
    /\ Succeeds
    /\ UNCHANGED <<status, drafts, left, attempt>>

Eligible == {t \in Tickets : status[t] = "To Do"}

\* The batch: the oldest eligible tickets, in order.
IsBatch(q) ==
    /\ \A i \in DOMAIN q : q[i] \in Eligible
    /\ Len(q) = IF Cardinality(Eligible) < BatchSize THEN Cardinality(Eligible)
                                                     ELSE BatchSize
    /\ \A i \in DOMAIN q : Cardinality({u \in Eligible : u < q[i]}) = i - 1

\* find_eligible_tickets; its failure ends the run (the outer except).
Find(r) ==
    /\ At(r, "find")
    /\ \/ \E q \in UNION {[1 .. n -> Tickets] : n \in 0 .. BatchSize} :
            /\ IsBatch(q)
            /\ left' = [left EXCEPT ![r] = q]
            /\ considered' = [considered EXCEPT ![r] = Len(q)]
            /\ step' = [step EXCEPT ![r] = IF q = <<>> THEN "idle" ELSE "guard"]
            /\ attempt' = [attempt EXCEPT ![r] = 1]
            /\ Succeeds
            /\ UNCHANGED <<drafted, repaired, failed>>
       \/ /\ faults < MaxFaults
          /\ faults' = faults + 1
          /\ \/ Again(r)
             \/ attempt[r] = MaxAttempts /\ Goto(r, "idle")
          /\ UNCHANGED lost
    /\ UNCHANGED <<status, drafts>>

\* Seeded bug: the comments are not looked at.
NoGuard(r) ==
    /\ At(r, "guard")
    /\ \/ Goto(r, "draft") /\ Succeeds
       \/ CallFails(r)
    /\ UNCHANGED <<status, drafts>>

\* Seeded bug: a ticket found with its draft counts as repaired and stays.
SkipDrafted(r) ==
    /\ At(r, "guard")
    /\ \/ /\ drafts[Ticket(r)] > 0
          /\ NextTicket(r)
          /\ repaired' = Bump(repaired, r)
          /\ UNCHANGED <<considered, drafted, failed>>
       \/ drafts[Ticket(r)] = 0 /\ Goto(r, "draft")
    /\ Succeeds
    /\ UNCHANGED <<status, drafts>>

\* has_agent_draft: a marker comment of any run.
Guard(r) ==
    /\ At(r, "guard")
    /\ \/ drafts[Ticket(r)] > 0 /\ Goto(r, "repair") /\ Succeeds
       \/ drafts[Ticket(r)] = 0 /\ Goto(r, "draft") /\ Succeeds
       \/ CallFails(r)
    /\ UNCHANGED <<status, drafts>>

\* Seeded bug: a ticket without a draft is moved all the same.
DraftOrMove(r) ==
    /\ At(r, "draft")
    /\ \/ Ticket(r) \notin Undraftable /\ Goto(r, "post") /\ Succeeds
       \/ Ticket(r) \in Undraftable /\ Goto(r, "move") /\ Succeeds
    /\ UNCHANGED <<status, drafts>>

\* build_context, which never raises, and draft_deliverable: None on failure.
Draft(r) ==
    /\ At(r, "draft")
    /\ \/ Ticket(r) \notin Undraftable /\ Goto(r, "post") /\ Succeeds
       \/ Ticket(r) \in Undraftable /\ TicketFails(r) /\ Succeeds
       \/ /\ faults < MaxFaults
          /\ faults' = faults + 1
          /\ TicketFails(r)
          /\ UNCHANGED lost
    /\ UNCHANGED <<status, drafts>>

\* post_draft: a comment may be created and its answer lost, which with_retry
\* takes for a failure.
Post(r) ==
    /\ At(r, "post")
    /\ \/ drafts' = [drafts EXCEPT ![Ticket(r)] = @ + 1] /\ Goto(r, "move") /\ Succeeds
       \/ /\ drafts' = [drafts EXCEPT ![Ticket(r)] = @ + 1]
          /\ AnswerIsLost(r)
       \/ CallFails(r) /\ UNCHANGED drafts
    /\ UNCHANGED status

\* drafted or repaired, by the step from which the ticket was moved.
Counted(r) ==
    /\ IF step[r] = "repair" THEN repaired' = Bump(repaired, r) /\ UNCHANGED drafted
                             ELSE drafted' = Bump(drafted, r) /\ UNCHANGED repaired
    /\ UNCHANGED <<considered, failed>>

\* transition_to_review: it looks the transition up by the name of its target
\* and knows nothing of the ticket's status.  A ticket that is in review already
\* may list the transition or not.  The move may happen and its answer be lost.
Review(r) ==
    /\ step[r] \in {"move", "repair"}
    /\ At(r, step[r])
    /\ \/ /\ Ticket(r) \notin Unmovable
          /\ status' = [status EXCEPT ![Ticket(r)] = "In Review"]
          /\ \/ NextTicket(r) /\ Counted(r) /\ Succeeds
             \/ CallFails(r)
       \/ /\ Ticket(r) \in Unmovable \/ status[Ticket(r)] = "In Review"
          /\ TicketFails(r) /\ Succeeds
          /\ UNCHANGED status
       \/ CallFails(r) /\ UNCHANGED status
    /\ UNCHANGED drafts

-----------------------------------------------------------------------------
(* The others.                                                             *)

\* jira_pusher creates labelled issues in To Do.
Created(t) ==
    /\ status[t] = "none"
    /\ \A u \in Tickets : u < t => status[u] /= "none"
    /\ status' = [status EXCEPT ![t] = "To Do"]
    /\ UNCHANGED <<drafts, step, left, attempt, counters, budget>>

\* People close a ticket, or send it back to To Do.
Moved(t) ==
    /\ moves < MaxMoves
    /\ moves' = moves + 1
    /\ \E s \in {"To Do", "Done"} :
         /\ status[t] \notin {"none", s}
         /\ status' = [status EXCEPT ![t] = s]
    /\ UNCHANGED <<drafts, step, left, attempt, counters, faults, lost, crashes>>

\* Nothing of a run survives; Jira keeps the comments and the statuses.
Crash ==
    /\ crashes < MaxCrashes
    /\ crashes' = crashes + 1
    /\ \E r \in Runs : step[r] /= "idle"
    /\ step' = [r \in Runs |-> "idle"]
    /\ left' = [r \in Runs |-> <<>>]
    /\ attempt' = [r \in Runs |-> 1]
    /\ considered' = Zero /\ drafted' = Zero /\ repaired' = Zero /\ failed' = Zero
    /\ UNCHANGED <<status, drafts, faults, lost, moves>>

Continues(r) == Find(r) \/ Guard(r) \/ Draft(r) \/ Post(r) \/ Review(r)

Next ==
    \/ \E r \in Runs : Starts(r) \/ Continues(r)
    \/ \E t \in Tickets : Created(t) \/ Moved(t)
    \/ Crash

Spec == Init /\ [][Next]_vars

-----------------------------------------------------------------------------
(* Properties.                                                             *)

(***************************************************************************)
(* A ticket never carries more drafts than there are callers and lost      *)
(* answers: the marker guard keeps every later run from drafting again,    *)
(* after crashes, failed transitions and reopened tickets alike.  With one *)
(* caller and no lost answer that is one draft ("a retry never double-     *)
(* drafts"); two callers may both pass the guard before either posts.      *)
(***************************************************************************)
DraftsAreBounded ==
    \A t \in Tickets : drafts[t] <= Cardinality(Runs) + lost

(***************************************************************************)
(* A ticket in review carries a draft: no failure of the model, of Jira or *)
(* of the process leads process_action_items to the transition without a   *)
(* comment before it.                                                      *)
(***************************************************************************)
ReviewHasDraft ==
    \A t \in Tickets : status[t] = "In Review" => drafts[t] > 0

(***************************************************************************)
(* The counters that process_action_items returns add up: every ticket of  *)
(* the batch is counted once, as drafted, repaired or failed, whichever    *)
(* way it leaves the loop.                                                 *)
(***************************************************************************)
CountsAddUp ==
    \A r \in Runs :
        considered[r] = drafted[r] + repaired[r] + failed[r] + Len(left[r])

(***************************************************************************)
(* Fairness: the scheduler's interval job starts a run whenever the last   *)
(* one has returned, and every await of a run answers, well or badly (the  *)
(* connector and the model's client time out).  Nothing makes the other    *)
(* callers start, people move tickets, or calls fail.                      *)
(***************************************************************************)
FairSpec ==
    /\ Spec
    /\ \A r \in Runs : WF_vars(Starts(r) /\ r = CHOOSE x \in Runs : TRUE)
    /\ \A r \in Runs : WF_vars(Continues(r))

\* Tickets that hold a place of every batch: they never leave To Do.
Stuck == Undraftable \cup Unmovable

(***************************************************************************)
(* A To Do ticket that can be drafted and moved does not stay in To Do, as *)
(* long as the tickets before it that cannot are fewer than a batch:       *)
(* with BatchSize of them, find_eligible_tickets reads the same ones in    *)
(* every run and later tickets are never reached.                          *)
(***************************************************************************)
TicketsAreWorked ==
    \A t \in Tickets \ Stuck :
        Cardinality({u \in Stuck : u < t}) < BatchSize =>
            status[t] = "To Do" ~> status[t] /= "To Do"
=============================================================================
