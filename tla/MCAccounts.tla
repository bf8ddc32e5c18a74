------------------------------- MODULE MCAccounts -------------------------------
(***************************************************************************)
(* Instances of Accounts for TLC.  A behaviour is about one subject, the   *)
(* operations that touch the same data: the verification of an address,    *)
(* reset links, or Google sign-in; removal goes with the last two.         *)
(***************************************************************************)
EXTENDS Accounts, TLC

VARIABLE subject

allVars == <<vars, subject>>

Ops(s) ==
    {"idle", "register"} \cup
    CASE s = "address" -> {"issue", "verify", "welcome", "approve", "signup"}
      [] s = "reset"   -> {"sweep", "create", "reset", "remove", "anonymise"}
      [] s = "google"  -> {"signup", "link", "mark", "approve", "remove", "anonymise"}

MCInit == Init /\ subject \in {"address", "reset", "google"}

OnSubject ==
    /\ \A p \in Api :
          \/ req'[p].op \in Ops(subject)
          \/ req'[p].op = "issue" /\ (At(p, "register") \/ req'[p] = req[p])
    /\ subject = "address" => UNCHANGED history
    /\ subject = "reset" => Cardinality({a \in Account : row'[a] # "none"}) <= 1

MCNext == Next /\ OnSubject /\ UNCHANGED subject

MCSpec == MCInit /\ [][MCNext]_allVars

Symmetry == Permutations(Api) \cup Permutations(Account)
===============================================================================
