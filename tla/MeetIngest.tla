----------------------------- MODULE MeetIngest -----------------------------
(***************************************************************************)
(* The Google Meet ingest, transform_service/meet_ingest.py: the job of    *)
(* every five minutes (main.py) pulls up to MaxMessages events from the    *)
(* Pub/Sub subscription, fetches and stages the transcript of each, and    *)
(* acknowledges all of them in one call at the end.  A raise anywhere      *)
(* ends the pull before that call.  Pub/Sub leases what it hands out and   *)
(* delivers it again when the lease expires without an acknowledgement;    *)
(* the answer to the acknowledgement is not looked at.                     *)
(***************************************************************************)
EXTENDS Naturals, FiniteSets

CONSTANTS
    Messages,      \* the published events
    Transcripts,
    Unreadable,    \* the transcript of an event that decode_event gives up on
    About,         \* the transcript an event names (two may name the same one)
    Dated,         \* events with a startTime: it is inserted as a str, which
                   \* asyncpg refuses for a timestamptz, every time
    MaxMessages,   \* maxMessages of the pull
    MaxFaults,     \* bound: how many calls may fail
    MaxExpiries,   \* bound: how many leases may expire during a pull
    MaxCrashes     \* bound: how often the process may die

ASSUME MessagesAssumption ==
    /\ IsFiniteSet(Messages)
    /\ Unreadable \notin Transcripts
    /\ About \in [Messages -> Transcripts \cup {Unreadable}]
    /\ Dated \subseteq {m \in Messages : About[m] \in Transcripts}

ASSUME BoundsAssumption ==
    /\ MaxMessages \in Nat \ {0}
    /\ MaxFaults \in Nat
    /\ MaxExpiries \in Nat
    /\ MaxCrashes \in Nat

VARIABLES
    message,    \* of each event: unpublished, waiting, leased or acknowledged
    staged,     \* transcripts that have a row
    ingested,   \* transcripts whose row is processed
    step,       \* of the job
    todo,       \* the received events that the pull has yet to handle
    acks,       \* the received events it will acknowledge
    stagedHere, \* whether this pull has staged anything (staged in the code)
    faults,     \* calls that failed so far
    expiries,   \* leases that expired during a pull so far
    crashes     \* so far

pull == <<step, todo, acks, stagedHere>>
budget == <<faults, expiries, crashes>>
vars == <<message, staged, ingested, step, todo, acks, stagedHere, faults,
          expiries, crashes>>

TypeOK ==
    /\ message \in [Messages -> {"unpublished", "waiting", "leased", "acked"}]
    /\ staged \subseteq Transcripts
    /\ ingested \subseteq staged
    /\ step \in {"idle", "handle", "process"}
    /\ todo \subseteq acks
    /\ acks \subseteq Messages
    /\ stagedHere \in BOOLEAN
    /\ faults \in 0 .. MaxFaults
    /\ expiries \in 0 .. MaxExpiries
    /\ crashes \in 0 .. MaxCrashes

Init ==
    /\ message = [m \in Messages |-> "unpublished"]
    /\ staged = {}
    /\ ingested = {}
    /\ step = "idle"
    /\ todo = {} /\ acks = {} /\ stagedHere = FALSE
    /\ faults = 0 /\ expiries = 0 /\ crashes = 0

-----------------------------------------------------------------------------
(* pull_and_stage.                                                         *)

Returns ==
    /\ step' = "idle"
    /\ todo' = {}
    /\ acks' = {}
    /\ stagedHere' = FALSE

Fails == faults < MaxFaults /\ faults' = faults + 1 /\ UNCHANGED <<expiries, crashes>>

Waiting == {m \in Messages : message[m] = "waiting"}
Leased == {m \in Messages : message[m] = "leased"}
Acked == {m \in Messages : message[m] = "acked"}

\* The answer holds some of the waiting events, up to maxMessages; the scheduler
\* starts no pull while one is running (one instance of a job).
Pull ==
    /\ step = "idle"
    /\ \E received \in SUBSET Waiting \ {{}} :
         /\ Cardinality(received) <= MaxMessages
         /\ message' = [m \in Messages |-> IF m \in received THEN "leased" ELSE message[m]]
         /\ todo' = received
         /\ acks' = received
    /\ step' = "handle"
    /\ UNCHANGED <<staged, ingested, stagedHere, budget>>

\* The pull itself fails: the events may have been leased all the same.
PullFails ==
    /\ step = "idle"
    /\ Fails
    /\ \E received \in SUBSET Waiting \ {{}} :
         message' = [m \in Messages |-> IF m \in received THEN "leased" ELSE message[m]]
    /\ UNCHANGED <<staged, ingested, pull>>

\* Seeded bug: a conflicting row is replaced by a fresh, unprocessed one.
InsertOrReplace(t) == staged' = staged \cup {t} /\ ingested' = ingested \ {t}

\* insert_meet_transcript: ON CONFLICT (source_id) DO NOTHING.
Insert(t) == staged' = staged \cup {t} /\ UNCHANGED ingested

Skips(m) ==
    /\ About[m] = Unreadable
    /\ todo' = todo \ {m}
    /\ UNCHANGED <<staged, ingested, step, acks, stagedHere, budget>>

Stages(m) ==
    /\ About[m] \in Transcripts
    /\ m \notin Dated
    /\ Insert(About[m])
    /\ todo' = todo \ {m}
    /\ stagedHere' = TRUE
    /\ UNCHANGED <<step, acks, budget>>

\* The fetch raises, or the insert does, which may have had its effect.
FailsToStage(m) ==
    /\ About[m] \in Transcripts
    /\ \/ UNCHANGED <<staged, ingested>>
       \/ m \notin Dated /\ Insert(About[m])
    /\ Fails \/ (m \in Dated /\ UNCHANGED budget)
    /\ Returns

\* Seeded bug: the payload is used without looking whether there is one.
HandleAny(m) ==
    /\ step = "handle" /\ m \in todo
    /\ Insert(About[m])
    /\ todo' = todo \ {m}
    /\ stagedHere' = TRUE
    /\ UNCHANGED <<message, step, acks, budget>>

\* Seeded bug: an event whose transcript cannot be staged is passed over.
HandleOrSkip(m) ==
    /\ step = "handle" /\ m \in todo
    /\ \/ Stages(m) \/ Skips(m)
       \/ /\ m \in Dated
          /\ todo' = todo \ {m}
          /\ UNCHANGED <<staged, ingested, step, acks, stagedHere, budget>>
    /\ UNCHANGED message

\* Seeded bug: an unreadable event ends the pull like a raise.
HandleReadable(m) ==
    /\ step = "handle" /\ m \in todo
    /\ \/ Stages(m) \/ FailsToStage(m)
       \/ About[m] = Unreadable /\ Returns /\ UNCHANGED <<staged, ingested, budget>>
    /\ UNCHANGED message

\* One event of the loop, in any order of the list: an undecodable one is
\* skipped, and its ackId has been kept; any other is fetched and staged, or
\* ends the pull.
Handle(m) ==
    /\ step = "handle" /\ m \in todo
    /\ Skips(m) \/ Stages(m) \/ FailsToStage(m)
    /\ UNCHANGED message

Reach(events) ==
    message' = [m \in Messages |-> IF m \in events THEN "acked" ELSE message[m]]

\* After the loop the rows are processed if this pull has staged any.
Drains ==
    \/ stagedHere /\ step' = "process" /\ UNCHANGED <<todo, acks, stagedHere>>
    \/ ~ stagedHere /\ Returns

\* The acknowledgement reaches the leased events, and may reach those whose
\* lease has expired.  A refusal goes unnoticed (no raise_for_status); a raise
\* ends the pull, whether the call has had its effect or not.
Acknowledge ==
    /\ step = "handle" /\ todo = {}
    /\ \/ \E late \in SUBSET (acks \cap Waiting) :
            Reach((acks \cap Leased) \cup late) /\ Drains /\ UNCHANGED budget
       \/ Reach({}) /\ Fails /\ Drains
       \/ \E events \in {acks \cap Leased, {}} : Reach(events) /\ Fails /\ Returns
    /\ UNCHANGED <<staged, ingested>>

\* A pass of process_new_transcripts (Ingestion): it finishes some of the rows.
Finishes == \E rows \in SUBSET staged : ingested' = ingested \cup rows

Process ==
    /\ step = "process"
    /\ Finishes
    /\ Returns
    /\ UNCHANGED <<message, staged, budget>>

-----------------------------------------------------------------------------
(* The others.                                                             *)

Publish(m) ==
    /\ message[m] = "unpublished"
    /\ message' = [message EXCEPT ![m] = "waiting"]
    /\ UNCHANGED <<staged, ingested, pull, budget>>

\* Pub/Sub delivers a leased event again: after the pull that held it has ended,
\* or, when its deadline passes, while the pull is still at work.
Redeliver(m) ==
    /\ message[m] = "leased"
    /\ message' = [message EXCEPT ![m] = "waiting"]
    /\ \/ step = "idle" /\ UNCHANGED expiries
       \/ step /= "idle" /\ expiries < MaxExpiries /\ expiries' = expiries + 1
    /\ UNCHANGED <<staged, ingested, pull, faults, crashes>>

\* The pass of the poll_transcripts job and of the webhooks.
OtherPass ==
    /\ Finishes
    /\ UNCHANGED <<message, staged, pull, budget>>

Crash ==
    /\ step /= "idle"
    /\ crashes < MaxCrashes
    /\ crashes' = crashes + 1
    /\ Returns
    /\ UNCHANGED <<message, staged, ingested, faults, expiries>>

Next ==
    \/ Pull \/ PullFails \/ Acknowledge \/ Process \/ OtherPass \/ Crash
    \/ \E m \in Messages : Publish(m) \/ Handle(m) \/ Redeliver(m)

Spec == Init /\ [][Next]_vars

(***************************************************************************)
(* Fairness: the interval job pulls while something waits, and its awaits  *)
(* answer (httpx times out after 30 s); Pub/Sub redelivers.  That a staged *)
(* row is ever processed is not assumed here: it is the subject of         *)
(* Ingestion, and no property of this module needs it.                     *)
(***************************************************************************)
FairSpec ==
    /\ Spec
    /\ WF_vars(Acknowledge) /\ WF_vars(Process)
    /\ \A m \in Messages :
         /\ SF_vars(Pull /\ m \in todo')
         /\ WF_vars(Handle(m))
         /\ WF_vars(Redeliver(m))

-----------------------------------------------------------------------------
(* Properties.                                                             *)

(***************************************************************************)
(* What Pub/Sub forgets is in the database: an acknowledged event that can *)
(* be read has its transcript staged, whatever failed, expired or crashed  *)
(* in pull_and_stage on the way.                                           *)
(***************************************************************************)
AckedIsStaged ==
    \A m \in Acked : About[m] \in staged \cup {Unreadable}

\* An event whose staging always raises is delivered again and again, and keeps
\* the events of its pulls from being acknowledged, and those after it in the
\* list from being staged.
Blocked == \E m \in Dated : message[m] /= "unpublished"

(***************************************************************************)
(* An unreadable event is dropped: it is not delivered for ever, which     *)
(* would take a place of every pull, unless an event that can never be     *)
(* staged stands in the way of the acknowledgement.                        *)
(***************************************************************************)
UnreadableIsDropped ==
    \A m \in Messages :
        About[m] = Unreadable /\ message[m] /= "unpublished"
        ~> message[m] = "acked" \/ Blocked

Announced == {t \in Transcripts :
                \E m \in Messages : About[m] = t /\ message[m] /= "unpublished"}

Inbox == INSTANCE TranscriptInbox WITH announced <- Announced, blocked <- Blocked

(***************************************************************************)
(* pull_and_stage implements the inbox: as long as no event is published   *)
(* that can never be staged, every announced transcript is staged in the   *)
(* end; only announced ones ever are; and, whatever is redelivered, a row  *)
(* that was ingested never becomes unprocessed again                       *)
(* (insert_meet_transcript does nothing on conflict).                      *)
(***************************************************************************)
ImplementsInbox == Inbox!Spec
=============================================================================
