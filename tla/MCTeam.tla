--------------------------------- MODULE MCTeam ---------------------------------
(***************************************************************************)
(* Instances of Team for TLC.  A behaviour is about one subject: the       *)
(* featured club, the coaches, or the admins and staff.  Featuring looks   *)
(* at no person, and the two ways of adding a person share the account     *)
(* only, which onboarding makes as well in each of them.                   *)
(***************************************************************************)
EXTENDS Team, TLC

VARIABLE subject

allVars == <<vars, subject>>

MCInit == Init /\ subject \in {"featured", "coaches", "members"}

OnSubject ==
    CASE subject = "featured" -> <<rows', activated', invited'>> = <<rows, activated, invited>>
                                 /\ \A p \in Api : req'[p].op \in {"idle", "feature"}
      [] subject = "coaches"  -> \A p \in Api : /\ req'[p].op # "feature"
                                                /\ req'[p] # Idle => req'[p].role = "COACH"
      [] subject = "members"  -> \A p \in Api : /\ req'[p].op # "feature"
                                                /\ req'[p] # Idle => req'[p].role # "COACH"

\* Whether a club is suspended matters to nobody who is being added.
FewStatuses == subject = "featured" \/ \A c \in Club : club'[c] # "SUSPENDED"

MCNext == Next /\ OnSubject /\ FewStatuses /\ UNCHANGED subject

MCSpec == MCInit /\ [][MCNext]_allVars

Symmetry == Permutations(Api) \cup Permutations(Club)
===============================================================================
