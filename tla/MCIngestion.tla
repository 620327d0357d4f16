---------------------------- MODULE MCIngestion ----------------------------
(***************************************************************************)
(* Instances of Ingestion for TLC.                                         *)
(***************************************************************************)
EXTENDS Ingestion, TLC

CONSTANTS a, b

NoService == {}
AllServices == Services
AllButJira == {"llm", "graph", "db"}

\* One job over a row of Airbyte's table, with a doubtful action item beside a
\* normal one, and over two rows of the manual table: one that cannot be
\* extracted, and one that the classifier skips.
ThreeRows == 1 .. 3
MixedRows == 1 :> {} @@ 2 :> {a, b} @@ 3 :> {}

\* Two meetings that raise the same thing; each action item matches the other.
TwoRows == 1 .. 2
RecurringMeetings == 1 :> {a} @@ 2 :> {b}
MatchEachOther == {<<a, b>>, <<b, a>>}
=============================================================================
