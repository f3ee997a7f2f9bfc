----------------------------- MODULE JobHandoff -----------------------------
(***************************************************************************)
(* What the hand-off of jobs from the network thread to the mining thread  *)
(* promises in both engines of capminer: jobs are announced in an order,   *)
(* the miner only ever moves to the job that is the latest one at that     *)
(* moment (never back to an older one, never to one that was not           *)
(* announced), and while it has not stopped it does not stay behind        *)
(* forever.  Jobs are numbered by the order of their mining.notify; 0 is   *)
(* "no job yet".                                                           *)
(***************************************************************************)
EXTENDS Naturals

VARIABLES
  latest,   \* number of the last job the pool announced
  mining,   \* number of the job the miner scans
  stopped   \* the mining loop has been left

vars == <<latest, mining, stopped>>

Init ==
  /\ latest = 0
  /\ mining = 0
  /\ stopped = FALSE

Announce ==
  /\ latest' = latest + 1
  /\ UNCHANGED <<mining, stopped>>

Adopt ==
  /\ ~stopped
  /\ mining # latest
  /\ mining' = latest
  /\ UNCHANGED <<latest, stopped>>

Stop ==
  /\ stopped' = TRUE
  /\ UNCHANGED <<latest, mining>>

Next == Announce \/ Adopt \/ Stop

SafetySpec == Init /\ [][Next]_vars

Spec == SafetySpec /\ WF_vars(Adopt)

=============================================================================
