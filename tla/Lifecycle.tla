----------------------------- MODULE Lifecycle -----------------------------
(***************************************************************************)
(* The dev-agent run lifecycle of dev_agent/lifecycle.py: its states and   *)
(* the table of legal transitions.  "NULL" is the state column of a row    *)
(* that has never been given a lifecycle state.                            *)
(***************************************************************************)

TerminalStates == {"CLOSED", "FAILED", "NEEDS_HUMAN"}

ActiveStates ==
    {"TRIAGED", "PLANNED", "IMPLEMENTING", "DEBUGGING", "REVIEWING", "SHIPPED"}

AllStates == ActiveStates \cup TerminalStates

\* Forward edges, the two backward edges (self-fix and review feedback), and
\* the escalations that every non-terminal state has.
Transitions ==
    {<<"TRIAGED", "PLANNED">>, <<"PLANNED", "IMPLEMENTING">>,
     <<"IMPLEMENTING", "DEBUGGING">>,
     <<"DEBUGGING", "REVIEWING">>, <<"DEBUGGING", "IMPLEMENTING">>,
     <<"REVIEWING", "SHIPPED">>, <<"REVIEWING", "IMPLEMENTING">>,
     <<"SHIPPED", "CLOSED">>}
    \cup (ActiveStates \X {"FAILED", "NEEDS_HUMAN"})

CanTransition(from, to) == <<from, to>> \in Transitions
=============================================================================
