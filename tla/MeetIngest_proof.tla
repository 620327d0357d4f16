--------------------------- MODULE MeetIngest_proof ---------------------------
(***************************************************************************)
(* Theorems about MeetIngest, for any events and transcripts and any       *)
(* number of failing calls, expired leases, redeliveries and crashes.      *)
(***************************************************************************)
EXTENDS MeetIngest, TLAPS

(***************************************************************************)
(* The inductive invariant.  AckedIsStaged alone is not inductive: the     *)
(* acknowledgement does not look at the database.  It is right because     *)
(* what a pull will acknowledge and no longer has to handle is staged, and *)
(* because a pull acknowledges with nothing left to handle.  What a pull   *)
(* holds was published, without which it could stage what was never        *)
(* announced.                                                              *)
(***************************************************************************)
HandledIsStaged == \A m \in acks \ todo : About[m] \in staged \cup {Unreadable}

HeldIsPublished == \A m \in acks : message[m] # "unpublished"

StagedIsAnnounced == staged \subseteq Announced

IInv ==
    /\ TypeOK
    /\ AckedIsStaged
    /\ HandledIsStaged
    /\ HeldIsPublished
    /\ StagedIsAnnounced

LEMMA InitInv == Init => IInv
<1> SUFFICES ASSUME Init PROVE IInv
  OBVIOUS
<1>1. TypeOK
  <2>1. stagedHere \in BOOLEAN
    BY DEF Init
  <2>2. faults \in 0 .. MaxFaults /\ expiries \in 0 .. MaxExpiries /\ crashes \in 0 .. MaxCrashes
    BY BoundsAssumption DEF Init
  <2>3. /\ message \in [Messages -> {"unpublished", "waiting", "leased", "acked"}]
        /\ staged \subseteq Transcripts /\ ingested \subseteq staged
        /\ todo \subseteq acks /\ acks \subseteq Messages
        /\ step \in {"idle", "handle", "process"}
    BY DEF Init
  <2> QED BY <2>1, <2>2, <2>3 DEF TypeOK
<1>2. AckedIsStaged
  BY DEF Init, AckedIsStaged, Acked
<1>3. HandledIsStaged /\ HeldIsPublished /\ StagedIsAnnounced
  BY DEF Init, HandledIsStaged, HeldIsPublished, StagedIsAnnounced
<1> QED BY <1>1, <1>2, <1>3 DEF IInv

\* A pull, or the attempt at one, leases waiting events and nothing else.
LEMMA PullKeepsInv == IInv /\ (Pull \/ PullFails) => IInv'
<1> SUFFICES ASSUME IInv, Pull \/ PullFails PROVE IInv'
  OBVIOUS
<1> USE MessagesAssumption, BoundsAssumption
<1>1. CASE Pull
  <2>1. PICK received \in SUBSET Waiting \ {{}} :
          /\ message' = [m \in Messages |-> IF m \in received THEN "leased" ELSE message[m]]
          /\ todo' = received
          /\ acks' = received
    BY <1>1 DEF Pull
  <2>2. received \subseteq Messages
    BY DEF Waiting
  <2> QED
    BY <1>1, <2>1, <2>2
    DEF Pull, IInv, TypeOK, AckedIsStaged, HandledIsStaged, HeldIsPublished,
        StagedIsAnnounced, Acked, Announced, budget
<1>2. CASE PullFails
  <2>1. PICK received \in SUBSET Waiting \ {{}} :
          message' = [m \in Messages |-> IF m \in received THEN "leased" ELSE message[m]]
    BY <1>2 DEF PullFails
  <2> QED
    BY <1>2, <2>1
    DEF PullFails, Fails, IInv, TypeOK, AckedIsStaged, HandledIsStaged,
        HeldIsPublished, StagedIsAnnounced, Acked, Announced, pull
<1> QED BY <1>1, <1>2

LEMMA HandleKeepsInv == ASSUME NEW m \in Messages, IInv, Handle(m) PROVE IInv'
<1> USE MessagesAssumption, BoundsAssumption
<1>0. UNCHANGED message
  BY DEF Handle
<1>1. CASE Stages(m)
  <2>1. m \in acks
    BY DEF Handle, IInv, TypeOK
  <2>2. TypeOK'
    <3>1. stagedHere' \in BOOLEAN
      BY <1>1 DEF Stages
    <3> QED BY <1>0, <1>1, <3>1 DEF Stages, Insert, budget, IInv, TypeOK
  <2>3. AckedIsStaged' /\ HandledIsStaged' /\ HeldIsPublished'
    BY <1>0, <1>1
    DEF Stages, Insert, IInv, AckedIsStaged, HandledIsStaged, HeldIsPublished, Acked
  <2>4. StagedIsAnnounced'
    BY <1>0, <1>1, <2>1
    DEF Stages, Insert, IInv, TypeOK, HeldIsPublished, StagedIsAnnounced, Announced
  <2> QED BY <2>2, <2>3, <2>4 DEF IInv
<1>2. CASE Skips(m)
  BY <1>0, <1>2
  DEF Skips, budget, IInv, TypeOK, AckedIsStaged, HandledIsStaged, HeldIsPublished,
      StagedIsAnnounced, Acked, Announced
<1>3. CASE FailsToStage(m)
  <2>1. m \in acks
    BY DEF Handle, IInv, TypeOK
  <2>2. /\ staged \subseteq staged' /\ staged' \subseteq staged \cup {About[m]}
        /\ ingested' = ingested
    BY <1>3 DEF FailsToStage, Insert
  <2>3. TypeOK'
    <3>1. UNCHANGED <<message, expiries, crashes>> /\ faults' \in 0 .. MaxFaults
      <4>1. Fails \/ UNCHANGED budget
        BY <1>3 DEF FailsToStage
      <4> QED BY <1>0, <4>1 DEF Fails, budget, IInv, TypeOK
    <3>2. step' = "idle" /\ todo' = {} /\ acks' = {}
      BY <1>3 DEF FailsToStage, Returns
    <3>3. stagedHere' \in BOOLEAN
      BY <1>3 DEF FailsToStage, Returns
    <3>4. staged' \subseteq Transcripts /\ ingested' \subseteq staged'
      BY <1>3, <2>2 DEF FailsToStage, IInv, TypeOK
    <3> QED BY <3>1, <3>2, <3>3, <3>4 DEF IInv, TypeOK
  <2>4. AckedIsStaged' /\ HandledIsStaged' /\ HeldIsPublished'
    <3>1. acks' = {}
      BY <1>3 DEF FailsToStage, Returns
    <3> QED BY <1>0, <2>2, <3>1
    DEF IInv, AckedIsStaged, HandledIsStaged, HeldIsPublished, Acked
  <2>5. StagedIsAnnounced'
    BY <1>0, <1>3, <2>1, <2>2
    DEF FailsToStage, IInv, TypeOK, HeldIsPublished, StagedIsAnnounced, Announced
  <2> QED BY <2>3, <2>4, <2>5 DEF IInv
<1> QED BY <1>1, <1>2, <1>3 DEF Handle

\* Only here do events become acknowledged: some of acks, with todo empty.
LEMMA AcknowledgeKeepsInv == IInv /\ Acknowledge => IInv'
<1> SUFFICES ASSUME IInv, Acknowledge PROVE IInv'
  OBVIOUS
<1> USE MessagesAssumption, BoundsAssumption
<1>1. \E events \in SUBSET acks : Reach(events)
  BY DEF Acknowledge, Leased, Waiting
<1>2. PICK events \in SUBSET acks : Reach(events)
  BY <1>1
<1>3. /\ todo = {}
      /\ UNCHANGED <<staged, ingested>>
      /\ acks' \in {acks, {}} /\ todo' = {}
  BY DEF Acknowledge, Drains, Returns, IInv, TypeOK
<1>4. TypeOK'
  <2>1. message' \in [Messages -> {"unpublished", "waiting", "leased", "acked"}]
    BY <1>2 DEF Reach, IInv, TypeOK
  <2>2. /\ step' \in {"idle", "handle", "process"}
        /\ stagedHere' \in BOOLEAN
    BY DEF Acknowledge, Drains, Returns, IInv, TypeOK
  <2>3. faults' \in 0 .. MaxFaults /\ UNCHANGED <<expiries, crashes>>
    <3>1. UNCHANGED budget \/ Fails
      BY DEF Acknowledge
    <3> QED BY <3>1 DEF Fails, budget, IInv, TypeOK
  <2> QED BY <1>3, <2>1, <2>2, <2>3 DEF IInv, TypeOK
<1>5. AckedIsStaged' /\ HandledIsStaged' /\ HeldIsPublished' /\ StagedIsAnnounced'
  BY <1>2, <1>3
  DEF Reach, IInv, TypeOK, AckedIsStaged, HandledIsStaged, HeldIsPublished,
      StagedIsAnnounced, Acked, Announced
<1> QED BY <1>4, <1>5 DEF IInv

LEMMA OthersKeepInv ==
    ASSUME IInv,
           \/ Process \/ OtherPass \/ Crash
           \/ \E m \in Messages : Publish(m) \/ Redeliver(m)
    PROVE  IInv'
<1> USE MessagesAssumption, BoundsAssumption
<1>1. CASE Process \/ OtherPass
  BY <1>1
  DEF Process, OtherPass, Finishes, Returns, pull, budget, IInv, TypeOK, AckedIsStaged,
      HandledIsStaged, HeldIsPublished, StagedIsAnnounced, Acked, Announced
<1>2. CASE Crash
  <2>1. TypeOK'
    <3>1. /\ UNCHANGED <<message, staged, ingested, faults, expiries>>
          /\ crashes' \in 0 .. MaxCrashes
      BY <1>2 DEF Crash, IInv, TypeOK
    <3>2. step' = "idle" /\ todo' = {} /\ acks' = {}
      BY <1>2 DEF Crash, Returns
    <3>3. stagedHere' \in BOOLEAN
      BY <1>2 DEF Crash, Returns
    <3> QED BY <3>1, <3>2, <3>3 DEF IInv, TypeOK
  <2>2. AckedIsStaged' /\ HandledIsStaged' /\ HeldIsPublished'
    BY <1>2
    DEF Crash, Returns, IInv, AckedIsStaged, HandledIsStaged, HeldIsPublished, Acked
  <2>3. StagedIsAnnounced'
    BY <1>2 DEF Crash, IInv, StagedIsAnnounced, Announced
  <2> QED BY <2>1, <2>2, <2>3 DEF IInv
<1>3. ASSUME NEW m \in Messages, Publish(m) PROVE IInv'
  BY <1>3
  DEF Publish, pull, budget, IInv, TypeOK, AckedIsStaged, HandledIsStaged,
      HeldIsPublished, StagedIsAnnounced, Acked, Announced
<1>4. ASSUME NEW m \in Messages, Redeliver(m) PROVE IInv'
  BY <1>4
  DEF Redeliver, pull, budget, IInv, TypeOK, AckedIsStaged, HandledIsStaged,
      HeldIsPublished, StagedIsAnnounced, Acked, Announced
<1> QED BY <1>1, <1>2, <1>3, <1>4

LEMMA NextKeepsInv == IInv /\ [Next]_vars => IInv'
<1> SUFFICES ASSUME IInv, [Next]_vars PROVE IInv'
  OBVIOUS
<1>1. CASE Next
  BY <1>1, PullKeepsInv, HandleKeepsInv, AcknowledgeKeepsInv, OthersKeepInv DEF Next
<1>2. CASE UNCHANGED vars
  BY <1>2
  DEF vars, IInv, TypeOK, AckedIsStaged, HandledIsStaged, HeldIsPublished,
      StagedIsAnnounced, Acked, Announced
<1> QED BY <1>1, <1>2

THEOREM Invariance == Spec => []IInv
BY InitInv, NextKeepsInv, PTL DEF Spec

(***************************************************************************)
(* Every reachable state of the ingest is well typed (meet_ingest.py's     *)
(* pull_and_stage and what Pub/Sub and the database hold).                 *)
(***************************************************************************)
THEOREM TypeCorrect == Spec => []TypeOK
<1>1. IInv => TypeOK
  BY DEF IInv
<1> QED BY <1>1, Invariance, PTL

(***************************************************************************)
(* An event that pull_and_stage has acknowledged and that can be read has  *)
(* its transcript in the database.                                         *)
(***************************************************************************)
THEOREM NothingIsForgotten == Spec => []AckedIsStaged
<1>1. IInv => AckedIsStaged
  BY DEF IInv
<1> QED BY <1>1, Invariance, PTL

-----------------------------------------------------------------------------
(* The safety half of the refinement.                                      *)

LEMMA InboxInit == Init => Inbox!Init
BY MessagesAssumption DEF Init, Inbox!Init, Announced, Blocked

\* Announced and Blocked do not change unless an event is published.
LEMMA AnnouncedStays ==
    ASSUME IInv, message' \in [Messages -> {"unpublished", "waiting", "leased", "acked"}],
           \A m \in Messages : (message'[m] = "unpublished") = (message[m] = "unpublished")
    PROVE  Announced' = Announced /\ Blocked' = Blocked
BY MessagesAssumption DEF Announced, Blocked

LEMMA InboxStep == IInv /\ [Next]_vars => [Inbox!Next]_(Inbox!inbox)
<1> SUFFICES ASSUME IInv, [Next]_vars PROVE [Inbox!Next]_(Inbox!inbox)
  OBVIOUS
<1> USE MessagesAssumption, BoundsAssumption
<1>1. CASE Pull \/ PullFails
  <2>1. UNCHANGED <<staged, ingested>>
    BY <1>1 DEF Pull, PullFails
  <2>2. PICK received \in SUBSET Waiting :
          message' = [m \in Messages |-> IF m \in received THEN "leased" ELSE message[m]]
    BY <1>1 DEF Pull, PullFails
  <2>3. Announced' = Announced /\ Blocked' = Blocked
    BY <2>2, AnnouncedStays DEF Waiting, IInv, TypeOK
  <2> QED BY <2>1, <2>3 DEF Inbox!inbox
<1>2. ASSUME NEW m \in Messages, Handle(m) PROVE [Inbox!Next]_(Inbox!inbox)
  <2>1. Announced' = Announced /\ Blocked' = Blocked
    BY <1>2 DEF Handle, Announced, Blocked
  <2>2. CASE UNCHANGED <<staged, ingested>>
    BY <2>1, <2>2 DEF Inbox!inbox
  <2>3. CASE Insert(About[m]) /\ About[m] \in Transcripts
    <3>1. About[m] \in Announced
      BY <1>2, <2>3 DEF Handle, IInv, TypeOK, HeldIsPublished, Announced
    <3>2. CASE About[m] \in staged
      BY <2>1, <2>3, <3>2 DEF Insert, Inbox!inbox
    <3>3. CASE About[m] \notin staged
      <4>1. Inbox!Stage(About[m])
        BY <2>1, <2>3, <3>1, <3>3 DEF Insert, Inbox!Stage
      <4> QED BY <4>1, <2>3 DEF Inbox!Next
    <3> QED BY <3>2, <3>3
  <2> QED BY <1>2, <2>2, <2>3 DEF Handle, Stages, Skips, FailsToStage
<1>3. CASE Acknowledge
  <2>1. UNCHANGED <<staged, ingested>>
    BY <1>3 DEF Acknowledge
  <2>2. \E events \in SUBSET acks : Reach(events)
    BY <1>3 DEF Acknowledge, Leased, Waiting
  <2>3. PICK events \in SUBSET acks : Reach(events)
    BY <2>2
  <2>4. Announced' = Announced /\ Blocked' = Blocked
    BY <2>3, AnnouncedStays DEF Reach, IInv, TypeOK, HeldIsPublished
  <2> QED BY <2>1, <2>4 DEF Inbox!inbox
<1>4. CASE Process \/ OtherPass
  <2>1. PICK rows \in SUBSET staged : ingested' = ingested \cup rows
    BY <1>4 DEF Process, OtherPass, Finishes
  <2>2. Announced' = Announced /\ Blocked' = Blocked /\ staged' = staged
    BY <1>4 DEF Process, OtherPass, Announced, Blocked
  <2>3. Inbox!Ingest(rows)
    BY <2>1, <2>2 DEF Inbox!Ingest
  <2>4. rows \in SUBSET Transcripts
    BY <2>1 DEF IInv, TypeOK
  <2> QED BY <2>3, <2>4 DEF Inbox!Next
<1>5. CASE Crash
  BY <1>5 DEF Crash, Announced, Blocked, Inbox!inbox
<1>6. ASSUME NEW m \in Messages, Publish(m) PROVE [Inbox!Next]_(Inbox!inbox)
  <2>1. UNCHANGED <<staged, ingested>>
    BY <1>6 DEF Publish
  <2>2. CASE About[m] = Unreadable
    <3>1. Announced' = Announced /\ Blocked' = Blocked
      BY <1>6, <2>2, MessagesAssumption DEF Publish, Announced, Blocked, IInv, TypeOK
    <3> QED BY <2>1, <3>1 DEF Inbox!inbox
  <2>3. CASE About[m] \in Transcripts
    <3>1. Announced' = Announced \cup {About[m]}
      BY <1>6, <2>3 DEF Publish, Announced, IInv, TypeOK
    <3>2. Blocked' \in {Blocked, TRUE}
      BY <1>6 DEF Publish, Blocked, IInv, TypeOK
    <3>3. Inbox!Announce(About[m])
      BY <2>1, <3>1, <3>2 DEF Inbox!Announce
    <3> QED BY <3>3, <2>3 DEF Inbox!Next
  <2> QED BY <2>2, <2>3
<1>7. ASSUME NEW m \in Messages, Redeliver(m) PROVE [Inbox!Next]_(Inbox!inbox)
  <2>1. UNCHANGED <<staged, ingested>>
    BY <1>7 DEF Redeliver
  <2>2. Announced' = Announced /\ Blocked' = Blocked
    BY <1>7, AnnouncedStays DEF Redeliver, IInv, TypeOK
  <2> QED BY <2>1, <2>2 DEF Inbox!inbox
<1>8. CASE UNCHANGED vars
  BY <1>8 DEF vars, Announced, Blocked, Inbox!inbox
<1> QED BY <1>1, <1>2, <1>3, <1>4, <1>5, <1>6, <1>7, <1>8 DEF Next

(***************************************************************************)
(* The safety half of ImplementsInbox: every step of pull_and_stage, of    *)
(* Pub/Sub and of the passes is a step of the inbox or changes nothing of  *)
(* it.  In particular no transcript is staged that was not announced, and  *)
(* no ingested one ever becomes unprocessed again.                         *)
(***************************************************************************)
THEOREM StepsImplementInbox == Spec => Inbox!Init /\ [][Inbox!Next]_(Inbox!inbox)
BY Invariance, InboxInit, InboxStep, PTL DEF Spec
=============================================================================
