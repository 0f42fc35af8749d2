---------------------------- MODULE MCThreadRaces ----------------------------
(***************************************************************************)
(* What people do to a broadcast and to a Messenger or Instagram thread    *)
(* while the loops are at them, on small instances of BroadcastJobs and    *)
(* ChannelThread.                                                          *)
(*                                                                         *)
(* The two have tables and loops of their own, so a behaviour explores one *)
(* of them and leaves the other where it starts.  It is about two of the   *)
(* thread's messages, or else about the broadcast's job, whose two rows go *)
(* to two groups.                                                          *)
(***************************************************************************)
EXTENDS BroadcastJobsRefinement, ChannelThread, TLC

CONSTANTS j1, b1, b2, d1, d2, r1, r2, m1

OneJob == {j1}
TwoRows == {b1, b2}
SameJob == [r \in TwoRows |-> j1]
NoForeign == {}
TwoDashboards == {d1, d2}
ThreeKinds == {"CANCEL", "RETRY", "KILL"}
Interchangeable == Permutations(TwoRows) \cup Permutations(TwoDashboards)

TwoReplies == {r1, r2}
OneElsewhere == {m1}
(* The person elsewhere writes what the first reply says.                  *)
Texts == [m \in TwoReplies \cup OneElsewhere |-> IF m = r2 THEN "thanks" ELSE "hello"]
Pairs == {{r1, r2}, {r1, m1}, {r2, m1}}

VARIABLE about  \* the messages this behaviour is about; none: it is about the job

all == <<vars, threadVars, about>>

------------------------------------------------------------------------------
(* The job meets a fault, or two requests at once: not both.  Two replies  *)
(* of the thread meet one mishap, a reply beside a person's message two.   *)
TwoRequests == \A d \in Dashboards : request[d] # NoRequest

RacesInit ==
  /\ Init
  /\ ThreadInit
  /\ about \in Pairs \cup {{}}
  /\ about = {} => platform = "MESSENGER"

RacesNext ==
  \/ /\ about = {}
     /\ Next
     /\ ~(TwoRequests' /\ faults' > 0)
     /\ UNCHANGED <<threadVars, about>>
  \/ /\ about # {}
     /\ ThreadNext
     /\ about = Replies => mishaps' <= 1
     /\ \A r \in Replies \ about : reply'[r] = reply[r]
     /\ \A m \in Elsewhere \ about : posted'[m] = posted[m]
     /\ UNCHANGED <<vars, about>>

RacesSpec == RacesInit /\ [][RacesNext]_all
==============================================================================
