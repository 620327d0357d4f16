-------------------------- MODULE TranscriptInbox --------------------------
(***************************************************************************)
(* What the Meet ingest promises, without messages and leases: a transcript *)
(* that Google announces is staged in the end, unless the inbox is blocked *)
(* by an event that it can never stage; only staged ones are ingested; and *)
(* none goes back to an earlier stage.                                     *)
(***************************************************************************)
CONSTANT Transcripts

VARIABLES
    announced,  \* transcripts for which a readable event was published
    staged,     \* transcripts with a row in raw_meet_transcripts
    ingested,   \* transcripts whose row is processed
    blocked     \* an event that can never be staged was published

inbox == <<announced, staged, ingested, blocked>>

Init ==
    /\ announced = {}
    /\ staged = {}
    /\ ingested = {}
    /\ blocked = FALSE

\* One event announces one transcript, and may be the first that blocks.
Announce(t) ==
    /\ announced' = announced \cup {t}
    /\ blocked' \in {blocked, TRUE}
    /\ UNCHANGED <<staged, ingested>>

Stage(t) ==
    /\ t \in announced \ staged
    /\ staged' = staged \cup {t}
    /\ UNCHANGED <<announced, ingested, blocked>>

\* A pass of process_new_transcripts finishes any number of rows.
Ingest(rows) ==
    /\ rows \subseteq staged
    /\ ingested' = ingested \cup rows
    /\ UNCHANGED <<announced, staged, blocked>>

Next ==
    \/ \E t \in Transcripts : Announce(t) \/ Stage(t)
    \/ \E rows \in SUBSET Transcripts : Ingest(rows)

Spec ==
    /\ Init
    /\ [][Next]_inbox
    /\ \A t \in Transcripts : WF_inbox(Stage(t) /\ ~ blocked)
=============================================================================
