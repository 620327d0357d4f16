----------------------------- MODULE MCMemory ------------------------------
(***************************************************************************)
(* An instance of Memory for TLC: three meetings one day apart that all    *)
(* share ann, and a fourth date that any of them may be moved to.          *)
(***************************************************************************)
EXTENDS Memory, TLC

CONSTANTS ann, ben, kickoff, planning, review

MCAttendees == (kickoff :> {ann, ben}) @@ (planning :> {ann}) @@ (review :> {ann, ben})
MCFirstDate == (kickoff :> 1) @@ (planning :> 2) @@ (review :> 3)
MCPair == {ann, ben}

Quiet ==
    [rows |-> Meetings, passes |-> 3, pollers |-> 1, nights |-> 0, faults |-> 0,
     edits |-> 0, dates |-> {}, says |-> 1, listed |-> 1, topics |-> {}, misspelt |-> {}]

\* What is believed of a fact that an answer may repeat, and of a person; the
\* causes that two pollers find; the chain, with a move; the embeddings, with
\* overlapping passes over one meeting, failures and a backfill; and the
\* procedures, on a night that fails and on a night between more passes.
Beliefs == [Quiet EXCEPT !.rows = {kickoff, review}, !.nights = 2, !.edits = 1,
                         !.says = 3, !.topics = {"fact"}]
People == [Quiet EXCEPT !.passes = 4, !.edits = 1, !.listed = 2, !.misspelt = {planning},
                        !.topics = {"preference", "role"}]
FollowUps == [Quiet EXCEPT !.rows = {kickoff, review}, !.pollers = 2,
                           !.topics = {"cause", "decision"}]
Chains == [Quiet EXCEPT !.pollers = 2, !.edits = 1, !.dates = {4}, !.topics = {"embedding"}]
Embeddings == [Quiet EXCEPT !.rows = {kickoff}, !.pollers = 2, !.faults = 1, !.edits = 1,
                            !.topics = {"fact", "embedding", "backfill"}]
Procedures == [Quiet EXCEPT !.nights = 2, !.faults = 1, !.topics = {"procedure"}]
Nights == [Quiet EXCEPT !.passes = 4, !.nights = 1, !.edits = 1, !.topics = {"procedure"}]

AllScenes == {Beliefs, People, FollowUps, Chains, Embeddings, Procedures, Nights}
=============================================================================
