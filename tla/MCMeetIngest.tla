---------------------------- MODULE MCMeetIngest ----------------------------
(***************************************************************************)
(* An instance of MeetIngest for TLC: the events of two transcripts, one   *)
(* that cannot be decoded, and one that cannot be staged.                  *)
(***************************************************************************)
EXTENDS MeetIngest, TLC

CONSTANTS first, other, garbled, dated, one, two

AboutThem == first :> one @@ other :> two @@ garbled :> Unreadable @@ dated :> two
=============================================================================
