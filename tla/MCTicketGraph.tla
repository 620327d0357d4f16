--------------------------- MODULE MCTicketGraph ---------------------------
(***************************************************************************)
(* An instance of TicketGraph for TLC.                                     *)
(***************************************************************************)
EXTENDS TicketGraph

CONSTANTS scheduler, webhook

\* Two passes that overlap, a pull request with two commits, one after another,
\* and a little of everything.
ReadBacks ==
    [passes |-> {scheduler, webhook}, prs |-> 0, pushes |-> 0, upsets |-> 3,
     mentioned |-> FALSE]
PullRequests ==
    [passes |-> {}, prs |-> 2, pushes |-> 2, upsets |-> 1, mentioned |-> FALSE]
Merges ==
    [passes |-> {scheduler}, prs |-> 1, pushes |-> 1, upsets |-> 1,
     mentioned |-> TRUE]

AllScenes == {ReadBacks, PullRequests, Merges}
=============================================================================
