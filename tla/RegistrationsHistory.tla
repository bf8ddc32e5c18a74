-------------------------- MODULE RegistrationsHistory --------------------------
(***************************************************************************)
(* Registrations with a history variable that says which activities have   *)
(* seen a handler disturbed: somebody else changed what it works on        *)
(* between its first and its last step, or it died.                        *)
(*                                                                         *)
(* The comments of the code hold of the activities that are not disturbed, *)
(* whatever happens to the others.                                         *)
(***************************************************************************)
EXTENDS Registrations

VARIABLE disturbed

watchedVars == <<vars, disturbed>>

Changed(a) ==
    <<state'[a], capacity'[a], registered'[a], suspended'>>
      # <<state[a], capacity[a], registered[a], suspended>>

\* Who works on an activity, and not on the reservation it stands on.
OnActivity(p) == req[p].op \notin {"idle", "move", "noshow"}

\* The activities of the handlers that wait while somebody else takes a step.
DisturbedByOthers ==
    {req[p].on : p \in {q \in Api : OnActivity(q) /\ req'[q] = req[q] /\ Changed(req[q].on)}}

Step ==
    \/ \E p \in Api : Arrive(p) \/ Proceed(p)
    \/ \E a \in Activity : Pass(a)

WatchedInit == Init /\ disturbed = {}

WatchedNext ==
    \/ Step /\ disturbed' = disturbed \cup DisturbedByOthers
    \/ \E p \in Api :
          /\ Crash(p)
          /\ disturbed' = IF OnActivity(p) THEN disturbed \cup {req[p].on} ELSE disturbed

WatchedSpec == WatchedInit /\ [][WatchedNext]_watchedVars

-----------------------------------------------------------------------------

\* Where nobody interferes, assertInGoodStanding keeps a suspended player out of
\* a session: neither an earlier registration nor another handler lets him in.
UndisturbedInGoodStanding ==
    [][\A s \in Session \ disturbed : InGoodStandingOnly(s)]_watchedVars

\* Where nobody interferes and no handler dies, a cancelled session has told
\* everyone who is on its list, and nobody joins the list later.
UndisturbedTold == \A s \in Session \ disturbed : Told(s)
===============================================================================
