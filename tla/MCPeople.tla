------------------------------ MODULE MCPeople ------------------------------
(***************************************************************************)
(* An instance of People for TLC: ann, who has two addresses and is listed *)
(* by the second roster only, with her opt-in; ben, whom no roster lists;  *)
(* and attendees without an address who are called much like one of them,  *)
(* or like nobody.                                                         *)
(***************************************************************************)
EXTENDS People, TLC

CONSTANTS scheduler, webhook

MCAttendees ==
    << << [name |-> "Ann Lee", address |-> "Ann+work@x"], [name |-> "Ben", address |-> "ben@x"] >>,
       << [name |-> "Ann Lee", address |-> "al@x"], [name |-> "Benn", address |-> NoAddress] >>,
       << [name |-> "Ann Leo", address |-> NoAddress], [name |-> "Zoe", address |-> NoAddress] >> >>

MCNorm == ("Ann+work@x" :> "ann@x") @@ ("al@x" :> "al@x") @@ ("ben@x" :> "ben@x")

Alike == {{"Ann Lee", "Ann Leo"}, {"Ben", "Benn"}}
MCLikeness == [x \in Names |-> [y \in Names |->
    IF x = y THEN 100 ELSE IF {x, y} \in Alike THEN 90 ELSE 20]]

ann == [name |-> "Ann Lee", mail |-> "ann@x", aliases |-> {"al@x"}, tracked |-> TRUE]
MCRosters == << << >>, << ann >> >>
=============================================================================
