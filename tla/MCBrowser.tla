-------------------------------- MODULE MCBrowser --------------------------------
(***************************************************************************)
(* Instances of Browser for TLC.  A behaviour is about one subject: saves  *)
(* in one session, or sessions among which nobody writes; and it is on the *)
(* pages, and does the saves, that have to do with the watched keys.       *)
(***************************************************************************)
EXTENDS Browser

VARIABLE subject

allVars == <<vars, subject>>

MCInit ==
    /\ Init
    /\ subject \in {"saves", "sessions"}
    /\ subject = "saves" => session # "none"
    /\ subject = "sessions" => watched \subseteq Guarded

Concerned(p) ==
    \/ p = "home"
    \/ p = "login" /\ subject = "sessions"
    \/ \E c \in Parts(p) : (watched \ {"me"}) \cap (c.always \cup c.signedIn) # {}

Relevant(s) == \E k \in watched \ {"me"} : Reads(k) \cap s.writes # {} \/ k \in s.refresh

OnSubject ==
    CASE subject = "saves"    -> /\ session' = session
                                 /\ entry'["me"].status # "error" /\ entry'["me"].fresh
                                 /\ saving' # Nothing => Relevant(saving'.save)
                                 /\ clock' # clock => written' # written
      [] subject = "sessions" -> /\ saving' = Nothing /\ clock' = 0 /\ missed' = {}
                                 /\ going' \in {"nowhere"} \cup {p \in Page : Concerned(p)}

MCNext ==
    /\ Next
    /\ OnSubject
    /\ \/ Concerned(page')
       \/ subject = "saves" /\ \E s \in Saves(page') : Relevant(s)
    /\ UNCHANGED subject

Symmetry == Permutations(Account)

MCSpec == MCInit /\ [][MCNext]_allVars
===============================================================================
