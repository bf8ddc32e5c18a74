---------------------------- MODULE MCRegistrations ----------------------------
(***************************************************************************)
(* Instances of Registrations, with its history, for TLC.                  *)
(*                                                                         *)
(* Activities share nothing but accounts and handlers, so that a behaviour *)
(* looks at one of them: an event or a session.                            *)
(***************************************************************************)
EXTENDS RegistrationsHistory, TLC

VARIABLE subject

MCInit == WatchedInit /\ subject \in Activity

OnSubject ==
    \A a \in Activity \ {subject} :
        state'[a] = "none" /\ (a \in Session => backing'[a] = "none")

MCNext == WatchedNext /\ OnSubject /\ UNCHANGED subject

MCSpec == MCInit /\ [][MCNext]_<<watchedVars, subject>>

Symmetry == Permutations(User) \cup Permutations(Api)
===============================================================================
