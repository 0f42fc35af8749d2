---------------------------- MODULE MCInboxRaces ----------------------------
(***************************************************************************)
(* What people do to WhatsApp replies and to an escalation case while the  *)
(* worker is at them, on small instances of OutboundQueue and              *)
(* EscalationCase.                                                         *)
(*                                                                         *)
(* The two have tables and loops of their own, so a behaviour explores one *)
(* of them and leaves the other where it starts.  It is about two replies, *)
(* the one of a foreign account and one of the other two, or else about    *)
(* the case.                                                               *)
(***************************************************************************)
EXTENDS OutboundQueueRefinement, EscalationCase, TLC

CONSTANTS auto, manual, foreign, d1, d2, d3, c1, g1, p1, a1

ThreeRows == {auto, manual, foreign}
OnlyManual == {manual}
OnlyForeign == {foreign}
TwoOperators == {d1, d2}
Interchangeable == Permutations(TwoOperators)
Pairs == {{auto, foreign}, {manual, foreign}}

OneCase == {c1}
OneGroup == {g1}
OneMember == {p1}
OneAdmin == {a1}
BothPeople == {p1, a1}
OneDashboard == {d3}
EveryKind == RequestKinds

VARIABLE about  \* the replies this behaviour is about; none: it is about the case

all == <<vars, caseVars, about>>

-----------------------------------------------------------------------------
RacesInit ==
  /\ Init
  /\ CaseInit
  /\ about \in Pairs \cup {{}}

RacesNext ==
  \/ /\ about # {}
     /\ Next
     /\ \A r \in Rows \ about : row'[r] = row[r]
     /\ UNCHANGED <<caseVars, about>>
  \/ /\ about = {}
     /\ CaseNext
     /\ UNCHANGED <<vars, about>>

RacesSpec == RacesInit /\ [][RacesNext]_all
=============================================================================
