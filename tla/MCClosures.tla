------------------------------- MODULE MCClosures -------------------------------
(***************************************************************************)
(* Instances of Closures and ClosureList for TLC.                          *)
(*                                                                         *)
(* A behaviour is about one subject: saving hours, bookings against one    *)
(* closure, or the list of several closures while time passes.  Saves and  *)
(* closures do not look at each other, the list does not look at bookings, *)
(* and a request for a closure does not look at the clock.  To bookings    *)
(* the days and hours of a closure make little difference: some are left   *)
(* to the list.                                                            *)
(***************************************************************************)
EXTENDS ClosureList

CONSTANTS a1, c1, m1

VARIABLE subject

allVars == <<vars, subject>>

MCInit == Init /\ subject \in {"hours", "bookings", "list"}

Ops(p) == req'[p].op

\* The list is that of one handler, so that only closures that do not wait are in it,
\* and time passes between its requests, into the second day; at 2 nothing is over that
\* was not at 1.  The first closure has the one reason; the names of the reasons make no
\* difference.
OnSubject ==
    CASE subject = "hours"    -> /\ \A p \in Api : Ops(p) \in {"idle", "hours"}
                                 /\ \A c \in Court : court'[c] # "INACTIVE"
                                 /\ \A c \in Court \ {c1} : court'[c] = "none"
                                 /\ booking' = booking /\ now' = now
      [] subject = "bookings" -> /\ \A p \in Api : Ops(p) # "hours"
                                 /\ \A p \in Api : Ops(p) \in {"check", "insert"} =>
                                       /\ req'[p].reason = m1
                                       /\ \E w \in req'[p].windows : FirstDay(w) = 0
                                       /\ \A w \in req'[p].windows : LastDay(w) <= 1 /\ OfDay(w) # <<0, 1>>
                                       /\ ~ DaysByHours(req'[p].windows)
                                 /\ \A c \in Court \ {c1} : court'[c] = "none"
                                 /\ entered' <= 1
                                 /\ now' = now
      [] subject = "list"     -> /\ \A p \in Api : Ops(p) \in {"idle", "check", "insert"}
                                 /\ \A p \in Api : p # a1 \/ entered' = MaxClosures => Ops(p) = "idle"
                                 /\ \A c \in Court : court'[c] # "none" => court'[c1] # "none"
                                 /\ \A c \in Court : court'[c] # "INACTIVE"
                                 /\ entered = 0 /\ Ops(a1) # "idle" => req'[a1].reason = m1
                                 /\ now' # now => req[a1] = Idle /\ now' <= 4
                                 /\ now = 2 => now' = 3
                                 /\ booking' = booking

MCNext == Next /\ OnSubject /\ UNCHANGED subject

MCSpec == MCInit /\ [][MCNext]_allVars

SomeSlots == {[from |-> 2, to |-> 3], [from |-> 2, to |-> 4], [from |-> 5, to |-> 6]}
SomeTimed == {[from |-> 2, to |-> 3], [from |-> 0, to |-> 1], [from |-> 0, to |-> 3]}
OpenHours == {[from |-> 0, to |-> 3], [from |-> 3, to |-> 6]}
SavedHours == {{[from |-> 0, to |-> 3]}, {}}
===============================================================================
