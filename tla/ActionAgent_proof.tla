------------------------- MODULE ActionAgent_proof -------------------------
(***************************************************************************)
(* Theorems about ActionAgent, for any callers and tickets, any batch size *)
(* and number of attempts, and any number of failing calls, lost answers,  *)
(* moves by people and crashes.                                            *)
(***************************************************************************)
EXTENDS ActionAgent, FiniteSetTheorems, SequenceTheorems, TLAPS

Steps == {"idle", "find", "guard", "draft", "post", "move", "repair"}
Busy(r) == step[r] \notin {"idle", "find"}

(***************************************************************************)
(* What is true of the runs alone.  CountsAddUp is not inductive: Starts   *)
(* and Find set some of its terms and rely on the others being zero.       *)
(***************************************************************************)
RunsTyped ==
    /\ step \in [Runs -> Steps]
    /\ left \in [Runs -> Seq(Tickets)]
    /\ attempt \in [Runs -> 1 .. MaxAttempts]
    /\ considered \in [Runs -> Nat]
    /\ drafted \in [Runs -> Nat]
    /\ repaired \in [Runs -> Nat]
    /\ failed \in [Runs -> Nat]

BusyHasTicket == \A r \in Runs : Busy(r) <=> left[r] # <<>>

FreshCounters ==
    \A r \in Runs :
        step[r] = "find" => drafted[r] = 0 /\ repaired[r] = 0 /\ failed[r] = 0

RunsOK == RunsTyped /\ BusyHasTicket /\ FreshCounters /\ CountsAddUp

BudgetOK ==
    /\ faults \in 0 .. MaxFaults
    /\ lost \in 0 .. faults
    /\ moves \in 0 .. MaxMoves
    /\ crashes \in 0 .. MaxCrashes

JiraTyped ==
    /\ status \in [Tickets -> {"none", "To Do", "In Review", "Done"}]
    /\ drafts \in [Tickets -> Nat]

LEMMA TypeParts == RunsOK /\ BudgetOK /\ JiraTyped => TypeOK
BY DEF RunsOK, RunsTyped, BusyHasTicket, Busy, BudgetOK, JiraTyped, TypeOK, Steps

(***************************************************************************)
(* The list of a run.                                                      *)
(***************************************************************************)
LEMMA ListParts ==
    ASSUME NEW q \in Seq(Tickets), q # <<>>
    PROVE  /\ Head(q) \in Tickets
           /\ Tail(q) \in Seq(Tickets)
           /\ Len(q) \in Nat \ {0}
           /\ Len(Tail(q)) = Len(q) - 1
           /\ Tail(q) = <<>> <=> Len(q) = 1
<1>1. Len(q) \in Nat /\ Len(q) # 0
  OBVIOUS
<1>2. Head(q) \in Tickets /\ Tail(q) \in Seq(Tickets) /\ Len(Tail(q)) = Len(q) - 1
  BY <1>1, HeadTailProperties
<1>3. \A l \in Seq(Tickets) : l = <<>> <=> Len(l) = 0
  OBVIOUS
<1>4. Tail(q) = <<>> <=> Len(q) = 1
  <2> DEFINE rest == Tail(q)
             m == Len(rest)
             n == Len(q)
  <2>1. (rest = <<>>) <=> (m = 0)
    BY <1>2, <1>3
  <2>2. n \in Nat /\ m = n - 1
    BY <1>1, <1>2
  <2> HIDE DEF m, n, rest
  <2>3. (rest = <<>>) <=> (n = 1)
    BY <2>1, <2>2
  <2> QED BY <2>3 DEF n, rest
<1> QED BY <1>1, <1>2, <1>4

LEMMA BatchIsList ==
    ASSUME NEW q \in UNION {[1 .. n -> Tickets] : n \in 0 .. BatchSize}
    PROVE  /\ q \in Seq(Tickets)
           /\ Len(q) \in Nat
           /\ q = <<>> <=> Len(q) = 0
<1>1. PICK n \in 0 .. BatchSize : q \in [1 .. n -> Tickets]
  OBVIOUS
<1>2. n \in Nat
  BY BoundsAssumption
<1>3. q \in Seq(Tickets)
  BY <1>1, <1>2
<1> QED BY <1>3

-----------------------------------------------------------------------------
(* A run at work on a ticket does one of three things to its own state.    *)

OneIsCounted(r) ==
    /\ considered' = considered
    /\ \/ drafted' = Bump(drafted, r) /\ repaired' = repaired /\ failed' = failed
       \/ drafted' = drafted /\ repaired' = Bump(repaired, r) /\ failed' = failed
       \/ drafted' = drafted /\ repaired' = repaired /\ failed' = Bump(failed, r)

Works(r) ==
    \/ \E s \in {"draft", "post", "move", "repair"} : Goto(r, s)
    \/ Again(r)
    \/ NextTicket(r) /\ OneIsCounted(r)

LEMMA BumpParts ==
    ASSUME NEW c \in [Runs -> Nat], NEW r \in Runs
    PROVE  /\ Bump(c, r) \in [Runs -> Nat]
           /\ Bump(c, r)[r] = c[r] + 1
           /\ \A q \in Runs \ {r} : Bump(c, r)[q] = c[q]
BY DEF Bump

LEMMA WorkKeepsRuns ==
    ASSUME RunsOK, NEW r \in Runs, Busy(r), Works(r)
    PROVE  RunsOK'
<1> USE BoundsAssumption
<1>1. CASE \E s \in {"draft", "post", "move", "repair"} : Goto(r, s)
  <2>1. PICK s \in {"draft", "post", "move", "repair"} : Goto(r, s)
    BY <1>1
  <2>2. RunsTyped'
    BY <2>1 DEF Goto, counters, RunsOK, RunsTyped, Steps
  <2>3. BusyHasTicket' /\ FreshCounters'
    BY <2>1 DEF Goto, counters, RunsOK, RunsTyped, BusyHasTicket, FreshCounters, Busy
  <2>4. CountsAddUp'
    BY <2>1 DEF Goto, counters, RunsOK, CountsAddUp
  <2> QED BY <2>2, <2>3, <2>4 DEF RunsOK
<1>2. CASE Again(r)
  <2>1. RunsTyped'
    BY <1>2 DEF Again, counters, RunsOK, RunsTyped
  <2> QED
    BY <1>2, <2>1
    DEF Again, counters, RunsOK, BusyHasTicket, FreshCounters, CountsAddUp, Busy
<1>3. CASE NextTicket(r) /\ OneIsCounted(r)
  <2>1. /\ left[r] \in Seq(Tickets) /\ left[r] # <<>>
        /\ Tail(left[r]) \in Seq(Tickets)
        /\ Len(left[r]) \in Nat \ {0}
        /\ Len(Tail(left[r])) = Len(left[r]) - 1
        /\ Tail(left[r]) = <<>> <=> Len(left[r]) = 1
    BY ListParts DEF RunsOK, RunsTyped, BusyHasTicket
  <2>2. /\ step' = [step EXCEPT ![r] = IF Len(left[r]) = 1 THEN "idle" ELSE "guard"]
        /\ left' = [left EXCEPT ![r] = Tail(left[r])]
    BY <1>3 DEF NextTicket
  <2>3. step' \in [Runs -> Steps] /\ left' \in [Runs -> Seq(Tickets)]
    BY <2>1, <2>2 DEF RunsOK, RunsTyped, Steps
  <2>4. attempt' \in [Runs -> 1 .. MaxAttempts]
    BY <1>3 DEF NextTicket, RunsOK, RunsTyped
  <2>5. /\ considered' \in [Runs -> Nat] /\ drafted' \in [Runs -> Nat]
        /\ repaired' \in [Runs -> Nat] /\ failed' \in [Runs -> Nat]
    <3>1. \A c \in [Runs -> Nat] : Bump(c, r) \in [Runs -> Nat]
      BY BumpParts
    <3> QED BY <1>3, <3>1 DEF OneIsCounted, RunsOK, RunsTyped
  <2>6. BusyHasTicket'
    BY <2>1, <2>2 DEF RunsOK, RunsTyped, BusyHasTicket, Busy
  <2>7. FreshCounters'
    <3> SUFFICES ASSUME NEW q \in Runs, step'[q] = "find"
                 PROVE  drafted'[q] = 0 /\ repaired'[q] = 0 /\ failed'[q] = 0
      BY DEF FreshCounters
    <3>1. q # r /\ step[q] = "find"
      BY <2>2 DEF RunsOK, RunsTyped
    <3> QED BY <1>3, <3>1 DEF OneIsCounted, Bump, RunsOK, RunsTyped, FreshCounters
  <2>8. CountsAddUp'
    <3> SUFFICES ASSUME NEW q \in Runs
                 PROVE  considered'[q] = drafted'[q] + repaired'[q] + failed'[q]
                                         + Len(left'[q])
      BY DEF CountsAddUp
    <3>1. considered[q] = drafted[q] + repaired[q] + failed[q] + Len(left[q])
      BY DEF RunsOK, CountsAddUp
    <3>2. CASE q = r
      <4>1. Len(left'[q]) = Len(left[q]) - 1
        BY <2>1, <2>2, <3>2 DEF RunsOK, RunsTyped
      <4>2. /\ drafted[q] \in Nat /\ repaired[q] \in Nat /\ failed[q] \in Nat
        BY DEF RunsOK, RunsTyped
      <4>3. \A c \in {drafted, repaired, failed} : Bump(c, r)[q] = c[q] + 1
        BY <3>2, BumpParts DEF RunsOK, RunsTyped
      <4>4. considered'[q] = considered[q]
        BY <1>3 DEF OneIsCounted
      <4>5. \/ drafted'[q] = drafted[q] + 1 /\ repaired'[q] = repaired[q] /\ failed'[q] = failed[q]
            \/ drafted'[q] = drafted[q] /\ repaired'[q] = repaired[q] + 1 /\ failed'[q] = failed[q]
            \/ drafted'[q] = drafted[q] /\ repaired'[q] = repaired[q] /\ failed'[q] = failed[q] + 1
        BY <1>3, <4>3 DEF OneIsCounted
      <4> DEFINE n == Len(left[q])
                 rest == Len(left'[q])
      <4>6. n \in Nat /\ rest = n - 1 /\ considered[q] = drafted[q] + repaired[q] + failed[q] + n
        BY <2>1, <3>1, <3>2, <4>1
      <4> HIDE DEF n, rest
      <4>7. considered'[q] = drafted'[q] + repaired'[q] + failed'[q] + rest
        BY <4>2, <4>4, <4>5, <4>6
      <4> QED BY <4>7 DEF rest
    <3>3. CASE q # r
      <4>1. left'[q] = left[q]
        BY <2>2, <3>3 DEF RunsOK, RunsTyped
      <4>2. /\ considered'[q] = considered[q] /\ drafted'[q] = drafted[q]
            /\ repaired'[q] = repaired[q] /\ failed'[q] = failed[q]
        BY <1>3, <3>3 DEF OneIsCounted, Bump, RunsOK, RunsTyped
      <4> QED BY <3>1, <4>1, <4>2
    <3> QED BY <3>2, <3>3
  <2>9. RunsTyped'
    BY <2>3, <2>4, <2>5 DEF RunsTyped
  <2> QED BY <2>6, <2>7, <2>8, <2>9 DEF RunsOK
<1> QED BY <1>1, <1>2, <1>3 DEF Works

(***************************************************************************)
(* The actions of a run after Find are such work, and touch a budget only  *)
(* by spending it.                                                         *)
(***************************************************************************)
LEMMA FailureIsWork ==
    ASSUME NEW r \in Runs
    PROVE  /\ TicketFails(r) => Works(r)
           /\ CallFails(r) => Works(r)
           /\ AnswerIsLost(r) => Works(r)
<1>1. TicketFails(r) => Works(r)
  BY DEF TicketFails, OneIsCounted, Works
<1> QED BY <1>1 DEF CallFails, AnswerIsLost, Raises, Works

Continued(r) == Guard(r) \/ Draft(r) \/ Post(r) \/ Review(r)

LEMMA ContinuedIsWork ==
    ASSUME NEW r \in Runs, Continued(r)
    PROVE  Busy(r) /\ Works(r)
<1>1. CASE Guard(r)
  BY <1>1, FailureIsWork DEF Guard, At, Busy, Works
<1>2. CASE Draft(r)
  BY <1>2, FailureIsWork DEF Draft, At, Busy, Works
<1>3. CASE Post(r)
  BY <1>3, FailureIsWork DEF Post, At, Busy, Works
<1>4. CASE Review(r)
  <2>1. Counted(r) => OneIsCounted(r)
    BY DEF Counted, OneIsCounted
  <2> QED BY <1>4, <2>1, FailureIsWork DEF Review, At, Busy, Works
<1> QED BY <1>1, <1>2, <1>3, <1>4 DEF Continued

LEMMA ContinuedBudget ==
    ASSUME BudgetOK, NEW r \in Runs, Continued(r)
    PROVE  BudgetOK' /\ lost <= lost'
<1>1. UNCHANGED <<moves, crashes>>
  BY DEF Continued, Guard, Draft, Post, Review, At
<1>2. \/ UNCHANGED <<faults, lost>>
      \/ faults < MaxFaults /\ faults' = faults + 1 /\ lost' \in {lost, lost + 1}
  BY DEF Continued, Guard, Draft, Post, Review, Succeeds, CallFails, AnswerIsLost
<1> QED BY <1>1, <1>2, BoundsAssumption DEF BudgetOK

LEMMA ContinuedJira ==
    ASSUME RunsOK, JiraTyped, NEW r \in Runs, Continued(r)
    PROVE  JiraTyped' /\ Ticket(r) \in Tickets
<1>1. drafts' \in {drafts, [drafts EXCEPT ![Ticket(r)] = @ + 1]}
  BY DEF Continued, Guard, Draft, Post, Review
<1>2. status' \in {status, [status EXCEPT ![Ticket(r)] = "In Review"]}
  BY DEF Continued, Guard, Draft, Post, Review
<1>3. Ticket(r) \in Tickets
  <2>1. left[r] \in Seq(Tickets) /\ left[r] # <<>>
    BY ContinuedIsWork DEF RunsOK, RunsTyped, BusyHasTicket
  <2> QED BY <2>1, ListParts DEF Ticket
<1>4. [drafts EXCEPT ![Ticket(r)] = @ + 1] \in [Tickets -> Nat]
  <2>1. \A t \in Tickets : drafts[t] + 1 \in Nat
    <3>1. \A t \in Tickets : drafts[t] \in Nat
      BY DEF JiraTyped
    <3> QED BY <3>1
  <2>2. \A t \in Tickets, n \in Nat : [drafts EXCEPT ![t] = n] \in [Tickets -> Nat]
    BY DEF JiraTyped
  <2> QED BY <1>3, <2>1, <2>2
<1>5. drafts' \in [Tickets -> Nat]
  BY <1>1, <1>4 DEF JiraTyped
<1>6. status' \in [Tickets -> {"none", "To Do", "In Review", "Done"}]
  BY <1>2, <1>3 DEF JiraTyped
<1> QED BY <1>3, <1>5, <1>6 DEF JiraTyped

-----------------------------------------------------------------------------
(* The other actions.                                                      *)

TypeInv == RunsOK /\ BudgetOK /\ JiraTyped

LEMMA InitType == Init => TypeInv
<1> SUFFICES ASSUME Init PROVE TypeInv
  OBVIOUS
<1> USE BoundsAssumption
<1>1. RunsTyped
  BY DEF Init, RunsTyped, Steps, Zero
<1>2. BusyHasTicket /\ FreshCounters
  BY DEF Init, BusyHasTicket, Busy, FreshCounters
<1>3. CountsAddUp
  <2> SUFFICES ASSUME NEW r \in Runs
               PROVE  considered[r] = drafted[r] + repaired[r] + failed[r] + Len(left[r])
    BY DEF CountsAddUp
  <2>1. considered[r] = 0 /\ drafted[r] = 0 /\ repaired[r] = 0 /\ failed[r] = 0
    BY DEF Init, Zero
  <2>2. Len(left[r]) = 0
    BY DEF Init
  <2> QED BY <2>1, <2>2
<1>4. BudgetOK /\ JiraTyped
  BY DEF Init, BudgetOK, JiraTyped
<1> QED BY <1>1, <1>2, <1>3, <1>4 DEF TypeInv, RunsOK

\* Starts resets the counters of a run whose list is empty.
LEMMA StartsKeepsType == ASSUME TypeInv, NEW r \in Runs, Starts(r) PROVE TypeInv'
<1> USE DEF TypeInv
<1>1. /\ step[r] = "idle" /\ UNCHANGED <<status, drafts, left, attempt, budget>>
      /\ step' = [step EXCEPT ![r] = "find"]
      /\ considered' = [considered EXCEPT ![r] = 0]
      /\ drafted' = [drafted EXCEPT ![r] = 0]
      /\ repaired' = [repaired EXCEPT ![r] = 0]
      /\ failed' = [failed EXCEPT ![r] = 0]
  BY DEF Starts, At, Succeeds, budget
<1>2. RunsTyped'
  BY <1>1 DEF RunsOK, RunsTyped, Steps
<1>3. BusyHasTicket' /\ FreshCounters'
  BY <1>1 DEF RunsOK, RunsTyped, BusyHasTicket, FreshCounters, Busy
<1>4. CountsAddUp'
  <2> SUFFICES ASSUME NEW q \in Runs
               PROVE  considered'[q] = drafted'[q] + repaired'[q] + failed'[q]
                                       + Len(left'[q])
    BY DEF CountsAddUp
  <2>1. considered[q] = drafted[q] + repaired[q] + failed[q] + Len(left[q])
    BY DEF RunsOK, CountsAddUp
  <2>2. left'[q] = left[q]
    BY <1>1
  <2>3. CASE q = r
    <3>1. left[q] = <<>>
      BY <1>1, <2>3 DEF RunsOK, BusyHasTicket, Busy
    <3>2. /\ considered'[q] = 0 /\ drafted'[q] = 0
          /\ repaired'[q] = 0 /\ failed'[q] = 0
      BY <1>1, <2>3 DEF RunsOK, RunsTyped
    <3> QED BY <2>2, <3>1, <3>2
  <2>4. CASE q # r
    <3>1. /\ considered'[q] = considered[q] /\ drafted'[q] = drafted[q]
          /\ repaired'[q] = repaired[q] /\ failed'[q] = failed[q]
      BY <1>1, <2>4 DEF RunsOK, RunsTyped
    <3> QED BY <2>1, <2>2, <3>1
  <2> QED BY <2>3, <2>4
<1>5. BudgetOK' /\ JiraTyped'
  BY <1>1 DEF budget, BudgetOK, JiraTyped
<1> QED BY <1>2, <1>3, <1>4, <1>5 DEF RunsOK

\* Find sets considered and the list together, while nothing is counted.
LEMMA FindKeepsType == ASSUME TypeInv, NEW r \in Runs, Find(r) PROVE TypeInv'
<1> USE DEF TypeInv
<1>1. step[r] = "find" /\ UNCHANGED <<status, drafts, moves, crashes>>
  BY DEF Find, At
<1>2. left[r] = <<>> /\ drafted[r] = 0 /\ repaired[r] = 0 /\ failed[r] = 0
  BY <1>1 DEF RunsOK, BusyHasTicket, FreshCounters, Busy
<1>3. JiraTyped'
  BY <1>1 DEF JiraTyped
<1>4. BudgetOK'
  <2>1. \/ UNCHANGED <<faults, lost>>
        \/ faults < MaxFaults /\ faults' = faults + 1 /\ lost' = lost
    BY DEF Find, Succeeds
  <2> QED BY <1>1, <2>1, BoundsAssumption DEF BudgetOK
<1>5. CASE Again(r) \/ Goto(r, "idle")
  <2>1. RunsTyped'
    <3>1. step' \in [Runs -> Steps] /\ UNCHANGED <<left, counters>>
      BY <1>5 DEF Again, Goto, RunsOK, RunsTyped, Steps
    <3>2. attempt' \in [Runs -> 1 .. MaxAttempts]
      <4>1. CASE Again(r)
        BY <4>1, BoundsAssumption DEF Again, RunsOK, RunsTyped
      <4>2. CASE Goto(r, "idle")
        BY <4>2, BoundsAssumption DEF Goto, RunsOK, RunsTyped
      <4> QED BY <1>5, <4>1, <4>2
    <3> QED BY <3>1, <3>2 DEF counters, RunsOK, RunsTyped
  <2>2. BusyHasTicket' /\ FreshCounters'
    BY <1>1, <1>5
    DEF Again, Goto, counters, RunsOK, RunsTyped, BusyHasTicket, FreshCounters, Busy
  <2>3. CountsAddUp'
    BY <1>5 DEF Again, Goto, counters, RunsOK, CountsAddUp
  <2> QED BY <1>3, <1>4, <2>1, <2>2, <2>3 DEF RunsOK
<1>6. CASE \E q \in UNION {[1 .. n -> Tickets] : n \in 0 .. BatchSize} :
              /\ left' = [left EXCEPT ![r] = q]
              /\ considered' = [considered EXCEPT ![r] = Len(q)]
              /\ step' = [step EXCEPT ![r] = IF q = <<>> THEN "idle" ELSE "guard"]
              /\ attempt' = [attempt EXCEPT ![r] = 1]
              /\ UNCHANGED <<drafted, repaired, failed>>
  <2>1. PICK q \in UNION {[1 .. n -> Tickets] : n \in 0 .. BatchSize} :
              /\ left' = [left EXCEPT ![r] = q]
              /\ considered' = [considered EXCEPT ![r] = Len(q)]
              /\ step' = [step EXCEPT ![r] = IF q = <<>> THEN "idle" ELSE "guard"]
              /\ attempt' = [attempt EXCEPT ![r] = 1]
              /\ UNCHANGED <<drafted, repaired, failed>>
    BY <1>6
  <2>2. q \in Seq(Tickets) /\ Len(q) \in Nat
    BY BatchIsList
  <2>3. RunsTyped'
    <3>1. /\ step' \in [Runs -> Steps] /\ left' \in [Runs -> Seq(Tickets)]
          /\ attempt' \in [Runs -> 1 .. MaxAttempts]
      BY <2>1, <2>2, BoundsAssumption DEF RunsOK, RunsTyped, Steps
    <3>2. /\ considered' \in [Runs -> Nat]
          /\ UNCHANGED <<drafted, repaired, failed>>
      BY <2>1, <2>2 DEF RunsOK, RunsTyped
    <3> QED BY <3>1, <3>2 DEF RunsOK, RunsTyped
  <2>4. BusyHasTicket' /\ FreshCounters'
    BY <2>1 DEF RunsOK, RunsTyped, BusyHasTicket, FreshCounters, Busy
  <2>5. CountsAddUp'
    <3> SUFFICES ASSUME NEW p \in Runs
                 PROVE  considered'[p] = drafted'[p] + repaired'[p] + failed'[p]
                                         + Len(left'[p])
      BY DEF CountsAddUp
    <3>1. CASE p = r
      <4>1. considered'[p] = Len(q) /\ left'[p] = q
        BY <2>1, <3>1 DEF RunsOK, RunsTyped
      <4>2. drafted'[p] = 0 /\ repaired'[p] = 0 /\ failed'[p] = 0
        BY <1>2, <2>1, <3>1
      <4> QED BY <2>2, <4>1, <4>2
    <3>2. CASE p # r
      <4>1. considered'[p] = considered[p] /\ left'[p] = left[p]
        BY <2>1, <3>2 DEF RunsOK, RunsTyped
      <4> QED BY <2>1, <4>1 DEF RunsOK, CountsAddUp
    <3> QED BY <3>1, <3>2
  <2> QED BY <1>3, <1>4, <2>3, <2>4, <2>5 DEF RunsOK
<1> QED BY <1>5, <1>6 DEF Find

LEMMA OthersKeepType ==
    ASSUME TypeInv, Crash \/ \E t \in Tickets : Created(t) \/ Moved(t)
    PROVE  TypeInv'
<1> USE BoundsAssumption DEF TypeInv
<1>1. CASE Crash
  <2>1. RunsTyped'
    BY <1>1 DEF Crash, RunsTyped, Steps, Zero
  <2>2. BusyHasTicket' /\ FreshCounters'
    BY <1>1 DEF Crash, BusyHasTicket, Busy, FreshCounters
  <2>3. CountsAddUp'
    <3> SUFFICES ASSUME NEW r \in Runs
                 PROVE  considered'[r] = drafted'[r] + repaired'[r] + failed'[r]
                                         + Len(left'[r])
      BY DEF CountsAddUp
    <3>1. considered'[r] = 0 /\ drafted'[r] = 0 /\ repaired'[r] = 0 /\ failed'[r] = 0
      BY <1>1 DEF Crash, Zero
    <3>2. Len(left'[r]) = 0
      BY <1>1 DEF Crash
    <3> QED BY <3>1, <3>2
  <2>4. JiraTyped'
    BY <1>1 DEF Crash, JiraTyped
  <2>5. /\ UNCHANGED <<faults, lost, moves>>
        /\ crashes < MaxCrashes /\ crashes' = crashes + 1
    BY <1>1 DEF Crash
  <2>6. BudgetOK'
    BY <2>5 DEF BudgetOK
  <2> QED BY <2>1, <2>2, <2>3, <2>4, <2>6 DEF RunsOK
<1>2. ASSUME NEW t \in Tickets, Created(t) \/ Moved(t) PROVE TypeInv'
  <2>1. UNCHANGED <<drafts, step, left, attempt, considered, drafted, repaired, failed>>
    BY <1>2 DEF Created, Moved, counters
  <2>2. RunsOK'
    BY <2>1
    DEF RunsOK, RunsTyped, BusyHasTicket, FreshCounters, CountsAddUp, Busy
  <2>3. JiraTyped'
    BY <1>2, <2>1 DEF Created, Moved, JiraTyped
  <2>4. /\ UNCHANGED <<faults, lost, crashes>>
        /\ moves' = moves \/ (moves < MaxMoves /\ moves' = moves + 1)
    BY <1>2 DEF Created, Moved, budget
  <2>5. BudgetOK'
    BY <2>4 DEF BudgetOK
  <2> QED BY <2>2, <2>3, <2>5
<1> QED BY <1>1, <1>2

LEMMA NextKeepsType == TypeInv /\ [Next]_vars => TypeInv'
<1> SUFFICES ASSUME TypeInv, [Next]_vars PROVE TypeInv'
  OBVIOUS
<1>1. ASSUME NEW r \in Runs, Continued(r) PROVE TypeInv'
  BY <1>1, ContinuedIsWork, WorkKeepsRuns, ContinuedBudget, ContinuedJira DEF TypeInv
<1>2. ASSUME NEW r \in Runs, Starts(r) \/ Continues(r) PROVE TypeInv'
  BY <1>1, <1>2, StartsKeepsType, FindKeepsType DEF Continues, Continued
<1>3. CASE UNCHANGED vars
  BY <1>3
  DEF vars, TypeInv, RunsOK, RunsTyped, BusyHasTicket, FreshCounters, CountsAddUp, Busy,
      BudgetOK, JiraTyped
<1> QED BY <1>2, <1>3, OthersKeepType DEF Next

THEOREM TypeInvariance == Spec => []TypeInv
BY InitType, NextKeepsType, PTL DEF Spec

(***************************************************************************)
(* Every reachable state of process_action_items and of Jira is well       *)
(* typed; in particular a run that is at a ticket has one.                 *)
(***************************************************************************)
THEOREM TypeCorrect == Spec => []TypeOK
<1>1. TypeInv => TypeOK
  BY TypeParts DEF TypeInv
<1> QED BY <1>1, TypeInvariance, PTL

(***************************************************************************)
(* The counters that process_action_items returns add up, whatever fails.  *)
(***************************************************************************)
THEOREM EveryTicketIsCounted == Spec => []CountsAddUp
<1>1. TypeInv => CountsAddUp
  BY DEF TypeInv, RunsOK
<1> QED BY <1>1, TypeInvariance, PTL

-----------------------------------------------------------------------------
(* Drafts.                                                                 *)

Owing(t) == {r \in Runs : step[r] \in {"draft", "post"} /\ Ticket(r) = t}

(***************************************************************************)
(* Neither property is inductive alone.  A run about to move a ticket has  *)
(* seen or posted its draft; and of a ticket, the drafts and the runs that *)
(* may still post one are together bounded: a run joins them only while    *)
(* there is no draft, so that at most all runs are among them, and leaves  *)
(* them with the draft it posts, unless the answer is lost.                *)
(***************************************************************************)
MoversHaveDraft ==
    \A r \in Runs : step[r] \in {"move", "repair"} => drafts[Ticket(r)] > 0

OwedAreBounded ==
    \A t \in Tickets : drafts[t] + Cardinality(Owing(t)) <= Cardinality(Runs) + lost

DraftInv == MoversHaveDraft /\ ReviewHasDraft /\ OwedAreBounded

LEMMA RunsAreCounted ==
    /\ Cardinality(Runs) \in Nat
    /\ \A S \in SUBSET Runs : /\ IsFiniteSet(S)
                             /\ Cardinality(S) \in Nat
                             /\ Cardinality(S) <= Cardinality(Runs)
BY TicketsAssumption, FS_CardinalityType, FS_Subset

LEMMA FewerOwe ==
    ASSUME NEW t, NEW S \in SUBSET Owing(t)
    PROVE  /\ Cardinality(S) \in Nat
           /\ Cardinality(Owing(t)) \in Nat
           /\ Cardinality(S) <= Cardinality(Owing(t))
<1>1. Owing(t) \in SUBSET Runs /\ S \in SUBSET Runs
  BY DEF Owing
<1>2. IsFiniteSet(Owing(t))
  BY <1>1, RunsAreCounted
<1> QED BY <1>1, <1>2, RunsAreCounted, FS_Subset

\* A ticket keeps its bound while its drafts and what is owed do not grow.
LEMMA BoundIsKept ==
    ASSUME BudgetOK, BudgetOK', JiraTyped, NEW t \in Tickets,
           drafts[t] + Cardinality(Owing(t)) <= Cardinality(Runs) + lost,
           drafts'[t] = drafts[t], lost <= lost', Owing(t)' \subseteq Owing(t)
    PROVE  (drafts[t] + Cardinality(Owing(t)) <= Cardinality(Runs) + lost)'
<1> DEFINE before == Cardinality(Owing(t))
           after == Cardinality(Owing(t)')
           all == Cardinality(Runs)
<1>1. before \in Nat /\ after \in Nat /\ after <= before
  BY FewerOwe
<1>2. all \in Nat
  BY RunsAreCounted
<1>3. drafts[t] \in Nat /\ lost \in Nat /\ lost' \in Nat
  <2>1. drafts[t] \in Nat
    BY DEF JiraTyped
  <2>2. lost \in Nat
    BY BoundsAssumption DEF BudgetOK
  <2>3. lost' \in Nat
    BY BoundsAssumption DEF BudgetOK
  <2> QED BY <2>1, <2>2, <2>3
<1>4. drafts[t] + before <= all + lost
  OBVIOUS
<1> HIDE DEF before, after, all
<1>5. drafts'[t] + after <= all + lost'
  BY <1>1, <1>2, <1>3, <1>4
<1> QED BY <1>5 DEF after, all

(***************************************************************************)
(* What a step of a run does to its own next ticket.  Goto and a retry     *)
(* stay with the ticket; a run that has left it owes nothing.              *)
(***************************************************************************)
Stays(r) == left'[r] = left[r]

Rests(r) == step'[r] \in {"idle", "guard"}

LEMMA MovesOfARun ==
    ASSUME RunsOK, NEW r \in Runs
    PROVE  /\ \A s \in {"draft", "post", "move", "repair"} :
                 Goto(r, s) => step'[r] = s /\ Stays(r)
           /\ NextTicket(r) => Rests(r)
           /\ CallFails(r) \/ AnswerIsLost(r) =>
                Rests(r) \/ (step'[r] = step[r] /\ Stays(r))
           /\ TicketFails(r) => Rests(r)
<1>1. \A s \in {"draft", "post", "move", "repair"} :
        Goto(r, s) => step'[r] = s /\ Stays(r)
  BY DEF Goto, Stays, RunsOK, RunsTyped
<1>2. NextTicket(r) => Rests(r)
  BY DEF NextTicket, Rests, RunsOK, RunsTyped
<1> QED
  BY <1>1, <1>2 DEF CallFails, AnswerIsLost, Again, Raises, TicketFails, Stays

LEMMA OthersOfARun ==
    ASSUME RunsOK, NEW r \in Runs, Works(r), NEW q \in Runs \ {r}
    PROVE  step'[q] = step[q] /\ left'[q] = left[q]
BY DEF Works, Goto, Again, NextTicket, RunsOK, RunsTyped

(***************************************************************************)
(* The step of a run as the drafts see it.                                 *)
(***************************************************************************)
LEMMA StepOfARun ==
    ASSUME TypeInv, NEW r \in Runs, Continued(r)
    PROVE  \/ /\ drafts' = drafts /\ status' = status
              /\ \/ Rests(r)
                 \/ step'[r] = step[r] /\ Stays(r)
                 \/ step'[r] = "repair" /\ Stays(r) /\ drafts[Ticket(r)] > 0
                 \/ step'[r] = "draft" /\ Stays(r) /\ drafts[Ticket(r)] = 0
                 \/ step[r] = "draft" /\ step'[r] = "post" /\ Stays(r)
           \/ /\ step[r] = "post" /\ status' = status
              /\ drafts' = [drafts EXCEPT ![Ticket(r)] = @ + 1]
              /\ \/ step'[r] = "move" /\ Stays(r)
                 \/ /\ lost' = lost + 1
                    /\ Rests(r) \/ (step'[r] = "post" /\ Stays(r))
           \/ /\ step[r] \in {"move", "repair"} /\ drafts' = drafts
              /\ status' = [status EXCEPT ![Ticket(r)] = "In Review"]
              /\ Rests(r) \/ (step'[r] = step[r] /\ Stays(r))
<1> USE DEF TypeInv
<1>1. CASE Guard(r)
  BY <1>1, MovesOfARun DEF Guard, At
<1>2. CASE Draft(r)
  BY <1>2, MovesOfARun DEF Draft, At
<1>3. CASE Post(r)
  BY <1>3, MovesOfARun DEF Post, At, AnswerIsLost
<1>4. CASE Review(r)
  BY <1>4, MovesOfARun DEF Review, At
<1> QED BY <1>1, <1>2, <1>3, <1>4 DEF Continued

LEMMA StepKeepsMovers ==
    ASSUME TypeInv, DraftInv, NEW r \in Runs, Continued(r)
    PROVE  MoversHaveDraft' /\ ReviewHasDraft'
<1> USE DEF TypeInv
<1>1. Ticket(r) \in Tickets /\ drafts \in [Tickets -> Nat] /\ JiraTyped'
  BY ContinuedJira DEF JiraTyped
<1>2. \A t \in Tickets : drafts[t] > 0 => drafts'[t] > 0
  <2>1. drafts' = drafts \/ drafts' = [drafts EXCEPT ![Ticket(r)] = @ + 1]
    BY StepOfARun
  <2>2. \A t \in Tickets : drafts'[t] = drafts[t] \/ drafts'[t] = drafts[t] + 1
    BY <1>1, <2>1
  <2>3. \A t \in Tickets : drafts[t] \in Nat
    BY <1>1
  <2> QED BY <2>2, <2>3
<1>3. step[r] = "post" /\ step'[r] = "move" => drafts'[Ticket(r)] > 0
  <2>1. step[r] = "post" /\ step'[r] = "move" =>
          drafts' = [drafts EXCEPT ![Ticket(r)] = @ + 1]
    BY StepOfARun DEF Rests
  <2>2. step[r] = "post" /\ step'[r] = "move" =>
          drafts'[Ticket(r)] = drafts[Ticket(r)] + 1
    BY <1>1, <2>1
  <2>3. drafts[Ticket(r)] \in Nat
    BY <1>1
  <2> QED BY <2>2, <2>3
<1>4. \A q \in Runs \ {r} : step'[q] = step[q] /\ left'[q] = left[q]
  BY ContinuedIsWork, OthersOfARun
<1>5. MoversHaveDraft'
  <2> SUFFICES ASSUME NEW q \in Runs, step'[q] \in {"move", "repair"}
               PROVE  drafts'[Ticket(q)'] > 0
    BY DEF MoversHaveDraft
  <2>1. CASE q # r
    <3>1. step[q] \in {"move", "repair"} /\ Ticket(q)' = Ticket(q)
      BY <1>4, <2>1 DEF Ticket
    <3>2. Ticket(q) \in Tickets
      <4>1. left[q] \in Seq(Tickets) /\ left[q] # <<>>
        BY <3>1 DEF RunsOK, RunsTyped, BusyHasTicket, Busy
      <4> QED BY <4>1, ListParts DEF Ticket
    <3> QED BY <1>2, <3>1, <3>2 DEF DraftInv, MoversHaveDraft
  <2>2. CASE q = r
    <3>1. Stays(r) /\ ((step[r] = "post" /\ step'[r] = "move") \/ drafts[Ticket(r)] > 0)
      BY <2>2, StepOfARun DEF Rests, DraftInv, MoversHaveDraft
    <3>2. Ticket(r)' = Ticket(r)
      BY <3>1 DEF Stays, Ticket
    <3>3. drafts'[Ticket(r)] > 0
      BY <1>1, <1>2, <1>3, <3>1
    <3> QED BY <2>2, <3>2, <3>3
  <2> QED BY <2>1, <2>2
<1>6. ReviewHasDraft'
  <2> SUFFICES ASSUME NEW t \in Tickets, status'[t] = "In Review" PROVE drafts'[t] > 0
    BY DEF ReviewHasDraft
  <2>1. CASE status[t] = "In Review"
    BY <1>2, <2>1 DEF DraftInv, ReviewHasDraft
  <2>2. CASE status[t] # "In Review"
    <3>1. t = Ticket(r) /\ step[r] \in {"move", "repair"}
      BY <2>2, StepOfARun DEF JiraTyped
    <3> QED BY <1>2, <3>1 DEF DraftInv, MoversHaveDraft
  <2> QED BY <2>1, <2>2
<1> QED BY <1>5, <1>6

LEMMA StepKeepsBound ==
    ASSUME TypeInv, DraftInv, NEW r \in Runs, Continued(r)
    PROVE  OwedAreBounded'
<1> USE DEF TypeInv
<1>1. Ticket(r) \in Tickets /\ drafts \in [Tickets -> Nat]
  BY ContinuedJira DEF JiraTyped
<1>2. BudgetOK' /\ lost <= lost'
  BY ContinuedBudget
<1>3. \A q \in Runs \ {r} : step'[q] = step[q] /\ Ticket(q)' = Ticket(q)
  BY ContinuedIsWork, OthersOfARun DEF Ticket
<1>4. Stays(r) => Ticket(r)' = Ticket(r)
  BY DEF Stays, Ticket
<1> SUFFICES ASSUME NEW t \in Tickets
             PROVE  (drafts[t] + Cardinality(Owing(t)) <= Cardinality(Runs) + lost)'
  BY DEF OwedAreBounded
<1>5. drafts[t] + Cardinality(Owing(t)) <= Cardinality(Runs) + lost
  BY DEF DraftInv, OwedAreBounded
<1>6. CASE drafts'[t] = drafts[t] /\ Owing(t)' \subseteq Owing(t)
  BY <1>2, <1>5, <1>6, BoundIsKept
<1>7. CASE drafts'[t] = drafts[t] /\ ~ (Owing(t)' \subseteq Owing(t))
  <2>1. r \in Owing(t)' /\ r \notin Owing(t)
    BY <1>3, <1>7 DEF Owing
  <2>2. drafts[t] = 0
    BY <1>4, <2>1, StepOfARun DEF Rests, Owing
  <2>3. Owing(t)' \in SUBSET Runs
    BY DEF Owing
  <2>4. /\ Cardinality(Owing(t)') \in Nat /\ Cardinality(Runs) \in Nat
        /\ Cardinality(Owing(t)') <= Cardinality(Runs)
    BY <2>3, RunsAreCounted
  <2>5. lost' \in Nat
    BY <1>2, BoundsAssumption DEF BudgetOK
  <2>6. drafts'[t] = 0
    BY <1>7, <2>2
  <2>7. \A a, b, c \in Nat : a <= b => 0 + a <= b + c
    OBVIOUS
  <2>8. drafts'[t] + Cardinality(Owing(t)') <= Cardinality(Runs) + lost'
    BY <2>4, <2>5, <2>6, <2>7
  <2> QED BY <2>8
<1>8. CASE drafts'[t] # drafts[t]
  <2>1. /\ t = Ticket(r) /\ step[r] = "post" /\ drafts'[t] = drafts[t] + 1
        /\ \/ step'[r] = "move"
           \/ lost' = lost + 1 /\ (Rests(r) \/ (step'[r] = "post" /\ Stays(r)))
    BY <1>1, <1>8, StepOfARun
  <2>2. r \in Owing(t) /\ Owing(t)' \subseteq Owing(t)
    BY <1>3, <1>4, <2>1 DEF Owing, Rests
  <2> DEFINE before == Cardinality(Owing(t))
             after == Cardinality(Owing(t)')
             all == Cardinality(Runs)
  <2>3. before \in Nat /\ after \in Nat /\ after <= before /\ all \in Nat
    BY <2>2, FewerOwe, RunsAreCounted
  <2>4. lost \in Nat /\ lost' \in Nat /\ lost <= lost' /\ drafts[t] \in Nat
    <3>1. lost \in Nat
      BY BoundsAssumption DEF BudgetOK
    <3>2. lost' \in Nat
      BY <1>2, BoundsAssumption DEF BudgetOK
    <3> QED BY <1>1, <1>2, <3>1, <3>2
  <2>5. drafts[t] + before <= all + lost
    BY <1>5
  <2>6. CASE step'[r] = "move"
    <3>1. Owing(t)' \subseteq Owing(t) \ {r}
      BY <2>2, <2>6 DEF Owing
    <3>2. IsFiniteSet(Owing(t)) /\ Owing(t) \in SUBSET Runs
      BY RunsAreCounted DEF Owing
    <3>3. Owing(t) \ {r} \in SUBSET Runs /\ Cardinality(Owing(t) \ {r}) = before - 1
      BY <2>2, <3>2, FS_RemoveElement
    <3>4. IsFiniteSet(Owing(t) \ {r}) /\ Cardinality(Owing(t) \ {r}) \in Nat
      BY <3>3, RunsAreCounted
    <3>5. after <= before - 1
      BY <3>1, <3>3, <3>4, FS_Subset
    <3> HIDE DEF before, after, all
    <3>6. drafts'[t] + after <= all + lost'
      BY <2>1, <2>3, <2>4, <2>5, <3>5
    <3> QED BY <3>6 DEF after, all
  <2>7. CASE lost' = lost + 1
    <3> HIDE DEF before, after, all
    <3>1. drafts'[t] + after <= all + lost'
      BY <2>1, <2>3, <2>4, <2>5, <2>7
    <3> QED BY <3>1 DEF after, all
  <2> QED BY <2>1, <2>6, <2>7
<1> QED BY <1>6, <1>7, <1>8

LEMMA InitDrafts == Init => DraftInv
<1> SUFFICES ASSUME Init PROVE DraftInv
  OBVIOUS
<1>1. MoversHaveDraft /\ ReviewHasDraft
  BY DEF Init, MoversHaveDraft, ReviewHasDraft
<1>2. OwedAreBounded
  <2> SUFFICES ASSUME NEW t \in Tickets
               PROVE  drafts[t] + Cardinality(Owing(t)) <= Cardinality(Runs) + lost
    BY DEF OwedAreBounded
  <2>1. drafts[t] = 0 /\ lost = 0
    BY DEF Init
  <2>2. Owing(t) = {}
    BY DEF Init, Owing
  <2>3. Cardinality(Owing(t)) = 0
    BY <2>2, FS_EmptySet
  <2> QED BY <2>1, <2>3, RunsAreCounted
<1> QED BY <1>1, <1>2 DEF DraftInv

\* A run is away from any ticket after the step, or as it was before.
Unmoved(q) ==
    \/ step'[q] \in {"idle", "find", "guard"}
    \/ step'[q] = step[q] /\ left'[q] = left[q]

\* Nobody but a run in the middle of a ticket touches its drafts or moves it
\* to In Review, and a crash takes all runs from their tickets.
LEMMA OthersKeepDrafts ==
    ASSUME TypeInv, DraftInv, BudgetOK',
           \/ \E r \in Runs : Starts(r) \/ Find(r)
           \/ \E t \in Tickets : Created(t) \/ Moved(t)
           \/ Crash
           \/ UNCHANGED vars
    PROVE  DraftInv'
<1> USE DEF TypeInv
<1>1. drafts' = drafts /\ lost' = lost
  BY DEF Starts, Find, Succeeds, At, Created, Moved, Crash, budget, vars
<1>2. \A q \in Runs : Unmoved(q)
  <2> SUFFICES ASSUME NEW q \in Runs PROVE Unmoved(q)
    OBVIOUS
  <2>1. ASSUME NEW r \in Runs, Starts(r) PROVE Unmoved(q)
    BY <2>1 DEF Unmoved, Starts, RunsOK, RunsTyped
  <2>2. ASSUME NEW r \in Runs, Find(r) PROVE Unmoved(q)
    <3>1. step[r] = "find"
      BY <2>2 DEF Find, At
    <3>2. CASE Again(r)
      BY <3>2 DEF Again, Unmoved
    <3>3. CASE ~ Again(r)
      <4>1. PICK s \in {"idle", "guard"} :
              /\ \E l : left' = [left EXCEPT ![r] = l]
              /\ step' = [step EXCEPT ![r] = s]
        <5>1. CASE Goto(r, "idle")
          <6>1. left' = [left EXCEPT ![r] = left[r]]
            BY <5>1 DEF Goto, RunsOK, RunsTyped
          <6> QED BY <5>1, <6>1 DEF Goto
        <5>2. CASE ~ Goto(r, "idle")
          BY <2>2, <3>3, <5>2 DEF Find
        <5> QED BY <5>1, <5>2
      <4> QED BY <4>1 DEF Unmoved, RunsOK, RunsTyped
    <3> QED BY <3>2, <3>3
  <2>3. ASSUME NEW t \in Tickets, Created(t) \/ Moved(t) PROVE Unmoved(q)
    BY <2>3 DEF Unmoved, Created, Moved
  <2>4. CASE Crash
    BY <2>4 DEF Unmoved, Crash
  <2>5. CASE UNCHANGED vars
    BY <2>5 DEF Unmoved, vars
  <2> QED BY <2>1, <2>2, <2>3, <2>4, <2>5
<1>3. MoversHaveDraft'
  BY <1>1, <1>2 DEF Unmoved, DraftInv, MoversHaveDraft, Ticket
<1>4. \A t \in Tickets : status'[t] = "In Review" => status[t] = "In Review"
  BY DEF Starts, Find, Created, Moved, Crash, vars, JiraTyped
<1>5. ReviewHasDraft'
  BY <1>1, <1>4 DEF DraftInv, ReviewHasDraft
<1>6. \A t \in Tickets : Owing(t)' \subseteq Owing(t)
  BY <1>2 DEF Unmoved, Owing, Ticket
<1>7. lost <= lost'
  BY <1>1, BoundsAssumption DEF BudgetOK
<1>8. OwedAreBounded'
  <2> SUFFICES ASSUME NEW t \in Tickets
               PROVE  (drafts[t] + Cardinality(Owing(t)) <= Cardinality(Runs) + lost)'
    BY DEF OwedAreBounded
  <2> QED BY <1>1, <1>6, <1>7, BoundIsKept DEF DraftInv, OwedAreBounded
<1> QED BY <1>3, <1>5, <1>8 DEF DraftInv

LEMMA NextKeepsDrafts == TypeInv /\ TypeInv' /\ DraftInv /\ [Next]_vars => DraftInv'
<1> SUFFICES ASSUME TypeInv, TypeInv', DraftInv, [Next]_vars PROVE DraftInv'
  OBVIOUS
<1>1. BudgetOK'
  BY DEF TypeInv
<1>2. ASSUME NEW r \in Runs, Continued(r) PROVE DraftInv'
  BY <1>2, StepKeepsMovers, StepKeepsBound DEF DraftInv
<1> QED BY <1>1, <1>2, OthersKeepDrafts DEF Next, Continues, Continued

THEOREM DraftInvariance == Spec => []DraftInv
BY InitDrafts, NextKeepsDrafts, TypeInvariance, PTL DEF Spec

(***************************************************************************)
(* Whatever fails, crashes or runs beside it, the action agent moves no    *)
(* ticket to In Review that carries no draft.                              *)
(***************************************************************************)
THEOREM NoEmptyReview == Spec => []ReviewHasDraft
<1>1. DraftInv => ReviewHasDraft
  BY DEF DraftInv
<1> QED BY <1>1, DraftInvariance, PTL

(***************************************************************************)
(* The marker guard and with_retry together let a ticket have no more      *)
(* drafts than there are callers and lost answers.                         *)
(***************************************************************************)
THEOREM FewDrafts == Spec => []DraftsAreBounded
<1>1. TypeInv /\ DraftInv => DraftsAreBounded
  <2> SUFFICES ASSUME TypeInv, DraftInv, NEW t \in Tickets
               PROVE  drafts[t] <= Cardinality(Runs) + lost
    BY DEF DraftsAreBounded
  <2> DEFINE owing == Cardinality(Owing(t))
             all == Cardinality(Runs)
  <2>1. owing \in Nat /\ all \in Nat
    BY FewerOwe, RunsAreCounted
  <2>2. drafts[t] \in Nat
    BY DEF TypeInv, JiraTyped
  <2>3. lost \in Nat
    BY BoundsAssumption DEF TypeInv, BudgetOK
  <2>4. drafts[t] + owing <= all + lost
    BY DEF DraftInv, OwedAreBounded
  <2> HIDE DEF owing, all
  <2>5. drafts[t] <= all + lost
    BY <2>1, <2>2, <2>3, <2>4
  <2> QED BY <2>5 DEF all
<1> QED BY <1>1, DraftInvariance, TypeInvariance, PTL
=============================================================================
