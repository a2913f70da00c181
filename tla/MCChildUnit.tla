---------------------------- MODULE MCChildUnit ----------------------------
(* A small instance of ChildUnit for TLC. *)
EXTENDS ChildUnit

CONSTANTS s1
OneStore == {s1}
AllUnits == Known \cup {"NONE", "other"}
FewUnits == {"NONE", "A0"}

\* After an interruption only these units are followed further: 40 has the
\* program of 00 and the write that comes late, A0 the modem.
CutUnits == {"NONE", "40", "A0"}
CutBound ==
  cuts > 0 => /\ child_unit \in CutUnits
              /\ \A a \in Actors : Busy(a) =>
                   job[a].unit \in CutUnits /\ job[a].next \in CutUnits \cup {None}
=============================================================================
