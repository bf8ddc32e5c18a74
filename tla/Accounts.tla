------------------------------- MODULE Accounts -------------------------------
(***************************************************************************)
(* Accounts and the ways into them: AuthService (registration, e-mail      *)
(* verification, password reset, invite links, Google sign-in) and the     *)
(* part of ModerationService that approves and removes accounts.           *)
(*                                                                         *)
(* The rows are shared by handlers that look first and write later.  A     *)
(* query is a step, a transaction is a step, and a transaction that meets  *)
(* a missing row (P2025) or a taken unique key changes nothing at all.     *)
(* raced holds the accounts that changed while a handler that had looked   *)
(* at them was yet to write.                                               *)
(*                                                                         *)
(* A person is an e-mail address with one Google account.                  *)
(***************************************************************************)
EXTENDS Naturals, FiniteSets

CONSTANTS
    Account,     \* ids of User rows
    Email,
    MaxTokens,   \* bound on the tokens issued
    Api,         \* request handlers in flight at the same time
    Crashes      \* whether a handler may die between two steps

ASSUME ConstantsAssumption == MaxTokens \in Nat /\ Crashes \in BOOLEAN

VARIABLES
    row,        \* the User row: none, live, anonymous (deletedAt set) or gone
    email,      \* User.email of a live row
    password,   \* accounts with a passwordHash
    verified,   \* accounts with emailVerifiedAt
    history,    \* accounts other rows refer to (bookings, memberships ...)
    token,      \* the VerificationToken rows, in the order they were issued
    google,     \* the OAuthAccount rows: whose, and if Google had verified the address then
    welcomes,   \* welcome mails sent to an account
    spent,      \* how often a token has changed a password
    halted,     \* accounts a handler died on
    vouched,    \* accounts entered with an address that Google had verified
    req,        \* what each handler in flight has read and will do next
    raced       \* accounts that changed under a handler

rows == <<row, email, password, verified, history, token, google>>
mails == <<welcomes, spent, halted, vouched>>
vars == <<rows, mails, req, raced>>

Tokens == 1 .. MaxTokens

Unissued == [state |-> "none"]

Idle == [op |-> "idle"]

Requests ==
    [op: {"register", "signup"}, email: Email, trusted: BOOLEAN]
      \cup [op: {"link"}, email: Email, on: Account, trusted: BOOLEAN, first: BOOLEAN]
      \cup [op: {"mark", "issue", "sweep", "create", "welcome", "approve",
                 "remove", "anonymise"}, on: Account]
      \cup [op: {"verify"}, on: Account, token: Tokens, first: BOOLEAN]
      \cup [op: {"reset"}, on: Account, token: Tokens]
      \cup {Idle}

TypeOK ==
    /\ row \in [Account -> {"none", "live", "anonymous", "gone"}]
    /\ email \in [{a \in Account : row[a] = "live"} -> Email]
    /\ password \subseteq Account /\ verified \subseteq Account /\ history \subseteq Account
    /\ token \in [Tokens -> [state: {"unused", "used", "expired", "deleted"},
                             for: {"EMAIL_VERIFY", "PASSWORD_RESET"}, on: Account]
                              \cup {Unissued}]
    /\ google \in [Email -> [on: Account, trusted: BOOLEAN] \cup {Idle}]
    /\ welcomes \in [Account -> Nat] /\ spent \in [Tokens -> Nat]
    /\ halted \subseteq Account /\ vouched \subseteq Account
    /\ req \in [Api -> Requests] /\ raced \subseteq Account

Init ==
    /\ row = [a \in Account |-> "none"]
    /\ email \in [{} -> Email]
    /\ password = {} /\ verified = {} /\ history = {} /\ halted = {} /\ vouched = {}
    /\ token = [t \in Tokens |-> Unissued]
    /\ google = [e \in Email |-> Idle]
    /\ welcomes = [a \in Account |-> 0]
    /\ spent = [t \in Tokens |-> 0]
    /\ req = [p \in Api |-> Idle]
    /\ raced = {}

Begin(p, next) == req[p] = Idle /\ req' = [req EXCEPT ![p] = next]
At(p, op) == req[p].op = op
Goto(p, next) == req' = [req EXCEPT ![p] = next]
Finish(p) == Goto(p, Idle)

\* The handler works on an account, not on an address.
OnAccount(p) == req[p].op \notin {"idle", "register", "signup"}

Live(a) == row[a] = "live"

With(e) == {a \in DOMAIN email : email[a] = e}

\* A new row in the User table, unless its unique e-mail is taken; then the
\* INSERT fails and so does the handler.
Insert(a, e) ==
    /\ row[a] = "none" /\ With(e) = {}
    /\ row' = [row EXCEPT ![a] = "live"]
    /\ email' = [b \in DOMAIN email \cup {a} |-> IF b = a THEN e ELSE email[b]]

Issued == {t \in Tokens : token[t] # Unissued}

Issue(a, purpose) ==
    \E t \in Tokens \ Issued :
        /\ Issued = 1 .. t - 1
        /\ token' = [token EXCEPT ![t] = [state |-> "unused", for |-> purpose, on |-> a]]

Usable(t, purpose) == token[t] # Unissued /\ token[t].state = "unused" /\ token[t].for = purpose

Outstanding(a) == {t \in Tokens : Usable(t, "PASSWORD_RESET") /\ token[t].on = a}

\* The same with those that are too old by now: all that was not used.
Unspent(a) ==
    {t \in Tokens : token[t].state \in {"unused", "expired"}
                      /\ token[t].for = "PASSWORD_RESET" /\ token[t].on = a}

Exists(t) == token[t].state # "deleted"

Without(T) == [t \in Tokens |-> IF t \in T THEN [token[t] EXCEPT !.state = "deleted"] ELSE token[t]]

OfAccount(a) == {t \in Issued : token[t].on = a}

-----------------------------------------------------------------------------
(***************************************************************************)
(* Registration and e-mail verification.                                   *)
(***************************************************************************)

Register(p, e) ==
    /\ With(e) = {}
    /\ Begin(p, [op |-> "register", email |-> e, trusted |-> FALSE])
    /\ UNCHANGED <<rows, mails>>

CreateUser(p) ==
    /\ At(p, "register")
    /\ \E a \in Account :
          /\ Insert(a, req[p].email)
          /\ password' = password \cup {a}
          /\ Goto(p, [op |-> "issue", on |-> a])
    /\ UNCHANGED <<verified, history, token, google, mails>>

EmailTaken(p) ==
    /\ req[p].op \in {"register", "signup"}
    /\ With(req[p].email) # {}
    /\ Finish(p)
    /\ UNCHANGED <<rows, mails>>

ResendVerification(p, e) ==
    /\ \E a \in With(e) \ verified : Begin(p, [op |-> "issue", on |-> a])
    /\ UNCHANGED <<rows, mails>>

\* issueAndSendVerification
IssueVerification(p) ==
    /\ At(p, "issue")
    /\ IF row[req[p].on] \in {"live", "anonymous"}
         THEN Issue(req[p].on, "EMAIL_VERIFY") ELSE UNCHANGED token
    /\ Finish(p)
    /\ UNCHANGED <<row, email, password, verified, history, google, mails>>

\* Mutant: everybody who verifies is welcomed.
First_Always(a) == TRUE

First(a) == a \notin verified

VerifyRead(p, t) ==
    /\ Usable(t, "EMAIL_VERIFY")
    /\ Begin(p, [op |-> "verify", on |-> token[t].on, token |-> t, first |-> First(token[t].on)])
    /\ UNCHANGED <<rows, mails>>

VerifyCommit(p) ==
    /\ At(p, "verify")
    /\ LET a == req[p].on  t == req[p].token
       IN  IF Exists(t)
             THEN /\ verified' = verified \cup {a}
                  /\ token' = [token EXCEPT ![t].state = "used"]
                  /\ IF req[p].first THEN Goto(p, [op |-> "welcome", on |-> a]) ELSE Finish(p)
             ELSE UNCHANGED <<verified, token>> /\ Finish(p)
    /\ UNCHANGED <<row, email, password, history, google, mails>>

Welcome(p) ==
    /\ At(p, "welcome")
    /\ welcomes' = [welcomes EXCEPT ![req[p].on] = @ + 1]
    /\ Finish(p)
    /\ UNCHANGED <<rows, spent, halted, vouched>>

\* ModerationService.verifyEmail: the admin approves by hand.
Approve(p, a) ==
    /\ Live(a) /\ a \notin verified
    /\ Begin(p, [op |-> "approve", on |-> a])
    /\ UNCHANGED <<rows, mails>>

ApproveCommit(p) ==
    /\ At(p, "approve")
    /\ verified' = IF row[req[p].on] = "gone" THEN verified ELSE verified \cup {req[p].on}
    /\ Finish(p)
    /\ UNCHANGED <<row, email, password, history, token, google, mails>>

-----------------------------------------------------------------------------
(***************************************************************************)
(* Password reset and invite links.                                        *)
(***************************************************************************)

\* forgotPassword; createInviteLink does the same for an account just created.
Forgot(p, e) ==
    /\ \E a \in With(e) : Begin(p, [op |-> "sweep", on |-> a])
    /\ UNCHANGED <<rows, mails>>

\* Mutant: the old links stay good.
Swept_None(a) == {}

Swept(a) == Unspent(a)

SweepTokens(p) ==
    /\ At(p, "sweep")
    /\ token' = Without(Swept(req[p].on))
    /\ Goto(p, [op |-> "create", on |-> req[p].on])
    /\ UNCHANGED <<row, email, password, verified, history, google, mails>>

CreateResetToken(p) ==
    /\ At(p, "create")
    /\ IF row[req[p].on] # "gone" THEN Issue(req[p].on, "PASSWORD_RESET") ELSE UNCHANGED token
    /\ Finish(p)
    /\ UNCHANGED <<row, email, password, verified, history, google, mails>>

ResetRead(p, t) ==
    /\ Usable(t, "PASSWORD_RESET")
    /\ Begin(p, [op |-> "reset", on |-> token[t].on, token |-> t])
    /\ UNCHANGED <<rows, mails>>

\* Mutant: the token is not marked as used.
Spend_NotMarked(t) == Without(Unspent(token[t].on) \ {t})

\* The token is used, and the others become moot.
Spend(t) == [Without(Unspent(token[t].on) \ {t}) EXCEPT ![t].state = "used"]

ResetCommit(p) ==
    /\ At(p, "reset")
    /\ LET a == req[p].on  t == req[p].token
       IN  IF Exists(t)
             THEN /\ password' = password \cup {a}
                  /\ token' = Spend(t)
                  /\ spent' = [spent EXCEPT ![t] = @ + 1]
             ELSE UNCHANGED <<password, token, spent>>
    /\ Finish(p)
    /\ UNCHANGED <<row, email, verified, history, google, welcomes, halted, vouched>>

Expire(t) ==
    /\ token[t].state = "unused"
    /\ token' = [token EXCEPT ![t].state = "expired"]
    /\ UNCHANGED <<row, email, password, verified, history, google, mails, req>>

-----------------------------------------------------------------------------
(***************************************************************************)
(* Google sign-in: upsertOAuthUser finds, links or creates.                *)
(***************************************************************************)

\* The Google account is found: its owner enters, whatever else Google says.
SignIn(e, trusted) ==
    /\ google[e] # Idle
    /\ vouched' = IF trusted THEN vouched \cup {google[e].on} ELSE vouched
    /\ UNCHANGED <<rows, welcomes, spent, halted, req>>

OAuthRead(p, e, trusted) ==
    /\ google[e] = Idle
    /\ \/ \E a \in With(e) :
             Begin(p, [op |-> "link", email |-> e, on |-> a, trusted |-> trusted,
                       first |-> a \notin verified])
       \/ With(e) = {} /\ Begin(p, [op |-> "signup", email |-> e, trusted |-> trusted])
    /\ UNCHANGED <<rows, mails>>

\* Mutant: only new users are verified by Google.
ToMark_Never(r) == FALSE

ToMark(r) == r.first /\ r.trusted

OAuthLink(p) ==
    /\ At(p, "link")
    /\ LET r == req[p]
       IN  IF google[r.email] = Idle /\ row[r.on] # "gone"
             THEN /\ google' = [google EXCEPT ![r.email] = [on |-> r.on, trusted |-> r.trusted]]
                  /\ IF ToMark(r) THEN Goto(p, [op |-> "mark", on |-> r.on]) ELSE Finish(p)
                  /\ vouched' = IF r.trusted /\ ~ToMark(r) THEN vouched \cup {r.on} ELSE vouched
             ELSE UNCHANGED <<google, vouched>> /\ Finish(p)
    /\ UNCHANGED <<row, email, password, verified, history, token, welcomes, spent, halted>>

OAuthMark(p) ==
    /\ At(p, "mark")
    /\ IF row[req[p].on] = "gone"
         THEN UNCHANGED <<verified, vouched>>
         ELSE /\ verified' = verified \cup {req[p].on}
              /\ vouched' = vouched \cup {req[p].on}
    /\ Finish(p)
    /\ UNCHANGED <<row, email, password, history, token, google, welcomes, spent, halted>>

OAuthCreate(p) ==
    /\ At(p, "signup")
    /\ google[req[p].email] = Idle
    /\ \E a \in Account :
          /\ Insert(a, req[p].email)
          /\ IF req[p].trusted
               THEN verified' = verified \cup {a} /\ vouched' = vouched \cup {a}
               ELSE UNCHANGED <<verified, vouched>>
          /\ google' = [google EXCEPT ![req[p].email] = [on |-> a, trusted |-> req[p].trusted]]
    /\ Finish(p)
    /\ UNCHANGED <<password, history, token, welcomes, spent, halted>>

-----------------------------------------------------------------------------
(***************************************************************************)
(* Removal.                                                                *)
(***************************************************************************)

\* The first booking, membership ... of a person.
GainHistory(a) ==
    /\ Live(a) /\ a \notin history
    /\ history' = history \cup {a}
    /\ UNCHANGED <<row, email, password, verified, token, google, mails, req>>

RemoveRead(p, a) ==
    /\ Live(a)
    /\ Begin(p, [op |-> "remove", on |-> a])
    /\ UNCHANGED <<rows, mails>>

\* Mutant: the address stays with the row.
Others_Kept(a) == email

Others(a) == [b \in DOMAIN email \ {a} |-> email[b]]

\* Mutant: the link to the Google account survives.
Unlinked_Not(a) == google

Unlinked(a) == [e \in Email |-> IF google[e] # Idle /\ google[e].on = a THEN Idle ELSE google[e]]

Erase(a, state) ==
    /\ row' = [row EXCEPT ![a] = state]
    /\ email' = Others(a)
    /\ password' = password \ {a}
    /\ google' = Unlinked(a)
    /\ token' = Without(OfAccount(a))

\* DELETE cascades to what belongs to the account, and is refused (P2003) when
\* anything else refers to it: then the account is made anonymous instead.
RemoveCommit(p) ==
    /\ At(p, "remove")
    /\ LET a == req[p].on
       IN  IF row[a] = "gone" THEN Finish(p) /\ UNCHANGED rows
           ELSE IF a \in history
             THEN Goto(p, [op |-> "anonymise", on |-> a]) /\ UNCHANGED rows
             ELSE Erase(a, "gone") /\ Finish(p) /\ UNCHANGED <<verified, history>>
    /\ UNCHANGED mails

Anonymise(p) ==
    /\ At(p, "anonymise")
    /\ Erase(req[p].on, "anonymous")
    /\ Finish(p)
    /\ UNCHANGED <<verified, history, mails>>

Crash(p) ==
    /\ Crashes
    /\ req[p] # Idle
    /\ halted' = IF OnAccount(p) THEN halted \cup {req[p].on} ELSE halted
    /\ Finish(p)
    /\ UNCHANGED <<rows, welcomes, spent, vouched>>

-----------------------------------------------------------------------------

Arrive(p) ==
    \/ \E e \in Email : Register(p, e) \/ ResendVerification(p, e) \/ Forgot(p, e)
    \/ \E e \in Email, b \in BOOLEAN : OAuthRead(p, e, b)
    \/ \E t \in Tokens : VerifyRead(p, t) \/ ResetRead(p, t)
    \/ \E a \in Account : Approve(p, a) \/ RemoveRead(p, a)

Proceed(p) ==
    \/ CreateUser(p) \/ EmailTaken(p) \/ IssueVerification(p)
    \/ VerifyCommit(p) \/ Welcome(p) \/ ApproveCommit(p)
    \/ SweepTokens(p) \/ CreateResetToken(p) \/ ResetCommit(p)
    \/ OAuthLink(p) \/ OAuthMark(p) \/ OAuthCreate(p)
    \/ RemoveCommit(p) \/ Anonymise(p)

\* What is known of an account.
View(a) == <<row[a], a \in password, a \in verified,
             {<<t, token[t]>> : t \in OfAccount(a)},
             {e \in Email : google[e] # Idle /\ google[e].on = a}>>

Waiting(a) ==
    {q \in Api : req'[q] = req[q] /\ OnAccount(q) /\ req[q].on = a}

Notice == raced' = raced \cup {a \in Account : Waiting(a) # {} /\ View(a)' # View(a)}

Next ==
    /\ \/ \E p \in Api : Arrive(p) \/ Proceed(p) \/ Crash(p)
       \/ \E e \in Email, b \in BOOLEAN : SignIn(e, b)
       \/ \E t \in Tokens : Expire(t)
       \/ \E a \in Account : GainHistory(a)
    /\ Notice

Spec == Init /\ [][Next]_vars

-----------------------------------------------------------------------------

\* A person is welcomed at the first verification of the address and never again,
\* with however many links, where no two handlers met on the account.
WelcomedOnce ==
    [][\A a \in Account \ raced : welcomes'[a] > welcomes[a] => welcomes[a] = 0]_vars

\* A reset link is good for one new password.
ResetIsSingleUse ==
    [][\A t \in Tokens : spent'[t] > spent[t] /\ token[t].on \notin raced => spent[t] = 0]_vars

\* Only the newest reset or invite link of an account is good, and none after a
\* new password.
NewestLinkOnly ==
    [][\A a \in Account \ raced :
          /\ Cardinality(Outstanding(a)') <= 1
          /\ (\E t \in OfAccount(a) : spent'[t] > spent[t]) => Outstanding(a)' = {}]_vars

\* The ways into an account.
Keys(a) ==
    {<<"password", b>> : b \in password \cap {a}}
      \cup {<<"google", e>> : e \in {f \in Email : google[f] # Idle /\ google[f].on = a}}
      \cup {<<"token", t>> : t \in {u \in OfAccount(a) : Exists(u)}}
      \cup {<<"email", b>> : b \in DOMAIN email \cap {a}}

\* "The person's data (name, email, phone, logins) is gone": nothing opens a
\* removed account, and nothing makes it open again.
RemovedStaysShut ==
    \A a \in Account \ raced : row[a] \in {"anonymous", "gone"} => Keys(a) = {}

\* Whoever has come in with an address that Google had verified has a verified
\* account, but where
\*   - Google had not verified the address when the account was linked: that is
\*     looked at once, and a later sign-in finds the link and looks no further,
\*   - the handler that linked it has yet to mark it, or died before.
LinkedIsVerified ==
    \A e \in Email :
        google[e] # Idle /\ google[e].on \in vouched =>
            \/ google[e].on \in verified \cup halted
            \/ \E p \in Api : At(p, "mark") /\ req[p].on = google[e].on
            \/ ~google[e].trusted
===============================================================================
