----------------------------- MODULE AccountsProofs -----------------------------
(***************************************************************************)
(* Theorems about Accounts, for any accounts, addresses and handlers and   *)
(* any number of tokens, with handlers dying between any two steps.        *)
(*                                                                         *)
(* The argument.  What a handler has seen of an account is still so when   *)
(* it writes, unless the account is among the raced: the step of another   *)
(* handler that changes what is known of it (its View) puts it there.  So  *)
(* for the accounts that are not raced, what a step needs of the state it  *)
(* finds can be said of the requests in flight (Fresh).  The rest, that a  *)
(* token is used once and an address verified for good, holds of all.      *)
(***************************************************************************)
EXTENDS Accounts, FiniteSetTheorems, TLAPS

\* The token a handler works on is one of the account it works on.
TokensKnown ==
    \A p \in Api : req[p].op \in {"verify", "reset"} =>
        /\ token[req[p].token] # Unissued
        /\ token[req[p].token].on = req[p].on

Typed == TypeOK /\ TokensKnown

Issuable == [state: {"unused", "used", "expired", "deleted"},
             for: {"EMAIL_VERIFY", "PASSWORD_RESET"}, on: Account]

-----------------------------------------------------------------------------
(***************************************************************************)
(* Types.                                                                  *)
(***************************************************************************)

LEMMA RequestTypes ==
    ASSUME TypeOK, NEW p \in Api
    PROVE  /\ req[p].op \in {"register", "signup"} =>
                req[p] \in [op: {"register", "signup"}, email: Email, trusted: BOOLEAN]
           /\ req[p].op = "link" =>
                req[p] \in [op: {"link"}, email: Email, on: Account, trusted: BOOLEAN, first: BOOLEAN]
           /\ req[p].op \in {"mark", "issue", "sweep", "create", "welcome", "approve",
                              "remove", "anonymise"} =>
                req[p] \in [op: {"mark", "issue", "sweep", "create", "welcome", "approve",
                                 "remove", "anonymise"}, on: Account]
           /\ req[p].op = "verify" =>
                req[p] \in [op: {"verify"}, on: Account, token: Tokens, first: BOOLEAN]
           /\ req[p].op = "reset" => req[p] \in [op: {"reset"}, on: Account, token: Tokens]
           /\ req[p].op = "idle" <=> req[p] = Idle
           /\ req[p].op \in {"register", "signup", "link", "mark", "issue", "sweep", "create",
                              "welcome", "approve", "remove", "anonymise", "verify", "reset", "idle"}
  BY DEF TypeOK, Requests, Idle

LEMMA TokenTypes ==
    ASSUME TypeOK, NEW t \in Tokens
    PROVE  /\ token[t] \in Issuable \cup {Unissued}
           /\ token[t].state # "none" <=> token[t] # Unissued
           /\ token[t] # Unissued => token[t] \in Issuable
  BY DEF TypeOK, Issuable, Unissued

\* What may be deleted of an account is among its tokens, and has all that is good.
LEMMA UnspentTypes ==
    ASSUME TypeOK, NEW a
    PROVE  /\ \A t \in Unspent(a) : /\ t \in Tokens /\ token[t] \in Issuable
                                    /\ token[t] # Unissued /\ token[t].on = a
           /\ Outstanding(a) \subseteq Unspent(a)
  BY TokenTypes DEF Unspent, Outstanding, Usable, Issuable

LEMMA NextRequest ==
    ASSUME TypeOK, NEW p \in Api, NEW next \in Requests, Begin(p, next) \/ Goto(p, next)
    PROVE  req' \in [Api -> Requests]
  BY DEF TypeOK, Begin, Goto

LEMMA FinishTypes ==
    ASSUME TypeOK, NEW p \in Api, Finish(p)
    PROVE  req' \in [Api -> Requests]
  BY NextRequest DEF Finish, Requests

LEMMA OnRequest ==
    ASSUME NEW a \in Account
    PROVE  \A op \in {"mark", "issue", "sweep", "create", "welcome", "approve", "remove", "anonymise"} :
             [op |-> op, on |-> a] \in Requests
  BY DEF Requests

\* A token is issued, and the others stay as they are.
LEMMA IssueTypes ==
    ASSUME TypeOK, NEW a \in Account, NEW purpose \in {"EMAIL_VERIFY", "PASSWORD_RESET"},
           Issue(a, purpose)
    PROVE  token' \in [Tokens -> Issuable \cup {Unissued}]
  BY DEF Issue, Issued, TypeOK, Issuable

LEMMA WithoutTypes ==
    ASSUME TypeOK, NEW T \in SUBSET Issued
    PROVE  Without(T) \in [Tokens -> Issuable \cup {Unissued}]
  <1>1. \A t \in T : [token[t] EXCEPT !.state = "deleted"] \in Issuable
    BY DEF Issued, TypeOK, Issuable
  <1>2. QED
    BY <1>1 DEF Without, TypeOK, Issuable

LEMMA InsertTypes ==
    ASSUME TypeOK, NEW a \in Account, NEW e \in Email, Insert(a, e)
    PROVE  /\ row' \in [Account -> {"none", "live", "anonymous", "gone"}]
           /\ email' \in [{b \in Account : row'[b] = "live"} -> Email]
  <1>1. row' \in [Account -> {"none", "live", "anonymous", "gone"}]
    BY DEF Insert, TypeOK
  <1>2. {b \in Account : row'[b] = "live"} = DOMAIN email \cup {a}
    BY DEF Insert, TypeOK
  <1>3. \A b \in DOMAIN email : email[b] \in Email
    BY DEF TypeOK
  <1>4. QED
    BY <1>1, <1>2, <1>3 DEF Insert

LEMMA EraseTypes ==
    ASSUME TypeOK, NEW a \in Account, NEW state \in {"anonymous", "gone"}, Erase(a, state)
    PROVE  /\ row' \in [Account -> {"none", "live", "anonymous", "gone"}]
           /\ email' \in [{b \in Account : row'[b] = "live"} -> Email]
           /\ password' \subseteq Account
           /\ google' \in [Email -> [on: Account, trusted: BOOLEAN] \cup {Idle}]
           /\ token' \in [Tokens -> Issuable \cup {Unissued}]
  <1>1. row' \in [Account -> {"none", "live", "anonymous", "gone"}]
    BY DEF Erase, TypeOK
  <1>2. email' \in [{b \in Account : row'[b] = "live"} -> Email]
    <2>1. {b \in Account : row'[b] = "live"} = DOMAIN email \ {a}
      BY DEF Erase, TypeOK
    <2>2. \A b \in DOMAIN email : email[b] \in Email
      BY DEF TypeOK
    <2>3. QED
      BY <2>1, <2>2 DEF Erase, Others
  <1>3. password' \subseteq Account
    BY DEF Erase, TypeOK
  <1>4. google' \in [Email -> [on: Account, trusted: BOOLEAN] \cup {Idle}]
    BY DEF Erase, Unlinked, TypeOK
  <1>5. token' \in [Tokens -> Issuable \cup {Unissued}]
    BY WithoutTypes DEF Erase, OfAccount
  <1>6. QED
    BY <1>1, <1>2, <1>3, <1>4, <1>5

LEMMA ArriveTypes ==
    ASSUME TypeOK, NEW p \in Api, Arrive(p)
    PROVE  UNCHANGED <<rows, mails>> /\ req' \in [Api -> Requests]
  <1>1. ASSUME NEW e \in Email, Register(p, e)
        PROVE  UNCHANGED <<rows, mails>> /\ req' \in [Api -> Requests]
    <2>1. [op |-> "register", email |-> e, trusted |-> FALSE] \in Requests
      BY DEF Requests
    <2>2. QED
      BY <1>1, <2>1, NextRequest DEF Register
  <1>2. ASSUME NEW e \in Email, ResendVerification(p, e) \/ Forgot(p, e)
        PROVE  UNCHANGED <<rows, mails>> /\ req' \in [Api -> Requests]
    <2>1. With(e) \subseteq Account
      BY DEF With, TypeOK
    <2>2. QED
      BY <1>2, <2>1, NextRequest, OnRequest DEF ResendVerification, Forgot
  <1>3. ASSUME NEW e \in Email, NEW b \in BOOLEAN, OAuthRead(p, e, b)
        PROVE  UNCHANGED <<rows, mails>> /\ req' \in [Api -> Requests]
    <2>1. \A a \in With(e) : [op |-> "link", email |-> e, on |-> a, trusted |-> b,
                             first |-> a \notin verified] \in Requests
      <3>1. \A a \in With(e) : a \in Account /\ (a \notin verified) \in BOOLEAN
        BY DEF With, TypeOK
      <3>2. QED
        BY <3>1 DEF Requests
    <2>2. [op |-> "signup", email |-> e, trusted |-> b] \in Requests
      BY DEF Requests
    <2>3. QED
      BY <1>3, <2>1, <2>2, NextRequest DEF OAuthRead
  <1>4. ASSUME NEW t \in Tokens, VerifyRead(p, t)
        PROVE  UNCHANGED <<rows, mails>> /\ req' \in [Api -> Requests]
    <2>1. token[t].on \in Account /\ First(token[t].on) \in BOOLEAN
      BY <1>4, TokenTypes DEF VerifyRead, Usable, Issuable, First
    <2>2. [op |-> "verify", on |-> token[t].on, token |-> t, first |-> First(token[t].on)] \in Requests
      BY <2>1 DEF Requests
    <2>3. QED
      BY <1>4, <2>2, NextRequest DEF VerifyRead
  <1>5. ASSUME NEW t \in Tokens, ResetRead(p, t)
        PROVE  UNCHANGED <<rows, mails>> /\ req' \in [Api -> Requests]
    <2>1. token[t].on \in Account
      BY <1>5, TokenTypes DEF ResetRead, Usable, Issuable
    <2>2. [op |-> "reset", on |-> token[t].on, token |-> t] \in Requests
      BY <2>1 DEF Requests
    <2>3. QED
      BY <1>5, <2>2, NextRequest DEF ResetRead
  <1>6. ASSUME NEW a \in Account, Approve(p, a) \/ RemoveRead(p, a)
        PROVE  UNCHANGED <<rows, mails>> /\ req' \in [Api -> Requests]
    BY <1>6, NextRequest, OnRequest DEF Approve, RemoveRead
  <1>7. QED
    BY <1>1, <1>2, <1>3, <1>4, <1>5, <1>6 DEF Arrive

\* Tokens stay those of their account.
TokensStay ==
    \A t \in Tokens : token[t] # Unissued => token'[t] # Unissued /\ token'[t].on = token[t].on

LEMMA IssueStays ==
    ASSUME TypeOK, NEW a \in Account, NEW purpose, Issue(a, purpose)
    PROVE  TokensStay
  BY DEF Issue, Issued, TokensStay, TypeOK

LEMMA WithoutStays ==
    ASSUME TypeOK, NEW T \in SUBSET Issued, token' = Without(T)
    PROVE  TokensStay
  <1>1. ASSUME NEW t \in Tokens, token[t] # Unissued
        PROVE  token'[t] # Unissued /\ token'[t].on = token[t].on
    <2>1. token[t] \in Issuable
      BY <1>1, TokenTypes
    <2>2. token'[t] = IF t \in T THEN [token[t] EXCEPT !.state = "deleted"] ELSE token[t]
      BY DEF Without
    <2>3. QED
      BY <2>1, <2>2 DEF Issuable, Unissued
  <1>2. QED
    BY <1>1 DEF TokensStay

\* A token changes its state, and nothing else of it.
LEMMA MarkStays ==
    ASSUME TypeOK, NEW t \in Tokens, token[t] # Unissued, NEW s \in {"used", "expired"},
           token' = [token EXCEPT ![t].state = s]
    PROVE  TokensStay /\ token' \in [Tokens -> Issuable \cup {Unissued}]
  <1>1. token[t] \in Issuable
    BY TokenTypes
  <1>2. [token[t] EXCEPT !.state = s] \in Issuable /\ [token[t] EXCEPT !.state = s].on = token[t].on
    BY <1>1 DEF Issuable
  <1>3. token' = [token EXCEPT ![t] = [token[t] EXCEPT !.state = s]]
    OBVIOUS
  <1>4. \A u \in Issuable : u # Unissued
    BY DEF Issuable, Unissued
  <1>5. token \in [Tokens -> Issuable \cup {Unissued}]
    BY DEF TypeOK, Issuable
  <1>6. QED
    BY <1>2, <1>3, <1>4, <1>5 DEF TokensStay

\* What Spend leaves: the token is used, the other links of its account are deleted.
LEMMA SpendStays ==
    ASSUME TypeOK, NEW t \in Tokens, token[t] # Unissued, token' = Spend(t)
    PROVE  /\ TokensStay
           /\ token' \in [Tokens -> Issuable \cup {Unissued}]
           /\ token'[t].state = "used"
           /\ \A u \in Tokens \ {t} :
                 token'[u] = IF u \in Unspent(token[t].on) THEN [token[u] EXCEPT !.state = "deleted"]
                             ELSE token[u]
  <1> DEFINE moot == Unspent(token[t].on) \ {t}
  <1>1. \A u \in Issuable : u # Unissued
    BY DEF Issuable, Unissued
  <1>2. token[t] \in Issuable /\ token \in [Tokens -> Issuable \cup {Unissued}]
    BY TokenTypes DEF TypeOK, Issuable
  <1>3. \A u \in moot : token[u] \in Issuable
    BY UnspentTypes
  <1>4. /\ [token[t] EXCEPT !.state = "used"] \in Issuable
        /\ [token[t] EXCEPT !.state = "used"].on = token[t].on
        /\ [token[t] EXCEPT !.state = "used"].state = "used"
    BY <1>2 DEF Issuable
  <1>5. \A u \in moot : /\ [token[u] EXCEPT !.state = "deleted"] \in Issuable
                         /\ [token[u] EXCEPT !.state = "deleted"].on = token[u].on
    BY <1>3 DEF Issuable
  <1>6. \A u \in Tokens :
            Without(moot)[u] = IF u \in moot THEN [token[u] EXCEPT !.state = "deleted"] ELSE token[u]
    BY DEF Without
  <1>7. Without(moot) \in [Tokens -> Issuable \cup {Unissued}] /\ Without(moot)[t] = token[t]
    BY <1>2, <1>5, <1>6 DEF Without
  <1>8. token' = [Without(moot) EXCEPT ![t] = [token[t] EXCEPT !.state = "used"]]
    BY <1>7 DEF Spend
  <1>9. \A u \in Tokens : token'[u] = IF u = t THEN [token[t] EXCEPT !.state = "used"]
                                     ELSE IF u \in moot THEN [token[u] EXCEPT !.state = "deleted"]
                                     ELSE token[u]
    BY <1>6, <1>7, <1>8
  <1>10. token' \in [Tokens -> Issuable \cup {Unissued}]
    BY <1>4, <1>7, <1>8
  <1>11. TokensStay
    BY <1>1, <1>3, <1>4, <1>5, <1>9 DEF TokensStay
  <1>12. QED
    BY <1>4, <1>9, <1>10, <1>11

\* What a step keeps of the types; raced is left to Notice.
Kept ==
    /\ row' \in [Account -> {"none", "live", "anonymous", "gone"}]
    /\ email' \in [{a \in Account : row'[a] = "live"} -> Email]
    /\ password' \subseteq Account /\ verified' \subseteq Account /\ history' \subseteq Account
    /\ token' \in [Tokens -> Issuable \cup {Unissued}]
    /\ google' \in [Email -> [on: Account, trusted: BOOLEAN] \cup {Idle}]
    /\ welcomes' \in [Account -> Nat] /\ spent' \in [Tokens -> Nat]
    /\ halted' \subseteq Account /\ vouched' \subseteq Account
    /\ req' \in [Api -> Requests]
    /\ TokensStay

LEMMA ProceedTypes ==
    ASSUME Typed, NEW p \in Api, Proceed(p)
    PROVE  Kept
  <1> USE DEF Typed
  <1>0. token \in [Tokens -> Issuable \cup {Unissued}]
    BY DEF TypeOK, Issuable
  <1>1. CASE CreateUser(p)
    <2>1. req[p].email \in Email
      BY <1>1, RequestTypes DEF CreateUser, At
    <2>2. PICK a \in Account : /\ Insert(a, req[p].email)
                               /\ password' = password \cup {a}
                               /\ Goto(p, [op |-> "issue", on |-> a])
      BY <1>1 DEF CreateUser
    <2>3. req' \in [Api -> Requests]
      BY <2>2, NextRequest, OnRequest
    <2>4. QED
      BY <1>0, <1>1, <2>1, <2>2, <2>3, InsertTypes DEF CreateUser, mails, Kept, TokensStay, TypeOK
  <1>2. CASE EmailTaken(p)
    BY <1>0, <1>2, FinishTypes DEF EmailTaken, rows, mails, Kept, TokensStay, TypeOK
  <1>3. CASE IssueVerification(p)
    <2>1. req[p].on \in Account
      BY <1>3, RequestTypes DEF IssueVerification, At
    <2>2. token' \in [Tokens -> Issuable \cup {Unissued}] /\ TokensStay
      BY <1>0, <1>3, <2>1, IssueTypes, IssueStays DEF IssueVerification, TokensStay
    <2>3. QED
      BY <1>3, <2>2, FinishTypes DEF IssueVerification, mails, Kept, TypeOK
  <1>4. CASE VerifyCommit(p)
    <2>1. req[p].on \in Account /\ req[p].token \in Tokens /\ token[req[p].token] # Unissued
      BY <1>4, RequestTypes DEF VerifyCommit, At, TokensKnown
    <2>2. token' \in [Tokens -> Issuable \cup {Unissued}] /\ TokensStay /\ verified' \subseteq Account
      BY <1>0, <1>4, <2>1, MarkStays DEF VerifyCommit, TokensStay, TypeOK
    <2>3. req' \in [Api -> Requests]
      BY <1>4, <2>1, NextRequest, OnRequest, FinishTypes DEF VerifyCommit
    <2>4. QED
      BY <1>4, <2>2, <2>3 DEF VerifyCommit, mails, Kept, TypeOK
  <1>5. CASE Welcome(p)
    <2>1. req[p].on \in Account
      BY <1>5, RequestTypes DEF Welcome, At
    <2>2. welcomes' \in [Account -> Nat]
      BY <1>5, <2>1 DEF Welcome, TypeOK
    <2>3. QED
      BY <1>0, <1>5, <2>2, FinishTypes DEF Welcome, rows, Kept, TokensStay, TypeOK
  <1>6. CASE ApproveCommit(p)
    <2>1. req[p].on \in Account
      BY <1>6, RequestTypes DEF ApproveCommit, At
    <2>2. QED
      BY <1>0, <1>6, <2>1, FinishTypes DEF ApproveCommit, mails, Kept, TokensStay, TypeOK
  <1>7. CASE SweepTokens(p)
    <2>1. req[p].on \in Account
      BY <1>7, RequestTypes DEF SweepTokens, At
    <2>2. token' \in [Tokens -> Issuable \cup {Unissued}] /\ TokensStay
      <3>1. Swept(req[p].on) \subseteq Issued
        BY UnspentTypes DEF Swept, Issued, Unspent
      <3>2. QED
        BY <1>7, <3>1, WithoutTypes, WithoutStays DEF SweepTokens
    <2>3. QED
      BY <1>7, <2>1, <2>2, NextRequest, OnRequest DEF SweepTokens, mails, Kept, TypeOK
  <1>8. CASE CreateResetToken(p)
    <2>1. req[p].on \in Account
      BY <1>8, RequestTypes DEF CreateResetToken, At
    <2>2. token' \in [Tokens -> Issuable \cup {Unissued}] /\ TokensStay
      BY <1>0, <1>8, <2>1, IssueTypes, IssueStays DEF CreateResetToken, TokensStay
    <2>3. QED
      BY <1>8, <2>2, FinishTypes DEF CreateResetToken, mails, Kept, TypeOK
  <1>9. CASE ResetCommit(p)
    <2>1. req[p].on \in Account /\ req[p].token \in Tokens /\ token[req[p].token] # Unissued
      BY <1>9, RequestTypes DEF ResetCommit, At, TokensKnown
    <2>2. token' \in [Tokens -> Issuable \cup {Unissued}] /\ TokensStay
      BY <1>0, <1>9, <2>1, SpendStays DEF ResetCommit, TokensStay
    <2>3. password' \subseteq Account /\ spent' \in [Tokens -> Nat]
      BY <1>9, <2>1 DEF ResetCommit, TypeOK
    <2>4. QED
      BY <1>9, <2>2, <2>3, FinishTypes DEF ResetCommit, Kept, TypeOK
  <1>10. CASE OAuthLink(p)
    <2>1. req[p].on \in Account /\ req[p].trusted \in BOOLEAN /\ req[p].email \in Email
      BY <1>10, RequestTypes DEF OAuthLink, At
    <2>2. google' \in [Email -> [on: Account, trusted: BOOLEAN] \cup {Idle}]
      BY <1>10, <2>1 DEF OAuthLink, TypeOK
    <2>3. req' \in [Api -> Requests]
      BY <1>10, <2>1, NextRequest, OnRequest, FinishTypes DEF OAuthLink
    <2>4. vouched' \subseteq Account
      BY <1>10, <2>1 DEF OAuthLink, TypeOK
    <2>5. QED
      BY <1>0, <1>10, <2>2, <2>3, <2>4 DEF OAuthLink, mails, Kept, TokensStay, TypeOK
  <1>11. CASE OAuthMark(p)
    <2>1. req[p].on \in Account
      BY <1>11, RequestTypes DEF OAuthMark, At
    <2>2. QED
      BY <1>0, <1>11, <2>1, FinishTypes DEF OAuthMark, mails, Kept, TokensStay, TypeOK
  <1>12. CASE OAuthCreate(p)
    <2>1. req[p].email \in Email /\ req[p].trusted \in BOOLEAN
      BY <1>12, RequestTypes DEF OAuthCreate, At
    <2>2. PICK a \in Account :
             /\ Insert(a, req[p].email)
             /\ IF req[p].trusted
                  THEN verified' = verified \cup {a} /\ vouched' = vouched \cup {a}
                  ELSE UNCHANGED <<verified, vouched>>
             /\ google' = [google EXCEPT ![req[p].email] = [on |-> a, trusted |-> req[p].trusted]]
      BY <1>12 DEF OAuthCreate
    <2>3. verified' \subseteq Account /\ vouched' \subseteq Account
          /\ google' \in [Email -> [on: Account, trusted: BOOLEAN] \cup {Idle}]
      BY <2>1, <2>2 DEF TypeOK
    <2>4. QED
      BY <1>0, <1>12, <2>1, <2>2, <2>3, InsertTypes, FinishTypes
         DEF OAuthCreate, mails, Kept, TokensStay, TypeOK
  <1>13. CASE RemoveCommit(p)
    <2>1. req[p].on \in Account
      BY <1>13, RequestTypes DEF RemoveCommit, At
    <2>2. req' \in [Api -> Requests]
      BY <1>13, <2>1, NextRequest, OnRequest, FinishTypes DEF RemoveCommit
    <2>3. CASE UNCHANGED rows
      BY <1>0, <1>13, <2>2, <2>3 DEF RemoveCommit, rows, mails, Kept, TokensStay, TypeOK
    <2>4. CASE Erase(req[p].on, "gone") /\ UNCHANGED <<verified, history>>
      <3>1. TokensStay
        BY <2>4, WithoutStays DEF Erase, OfAccount
      <3>2. QED
        BY <1>13, <2>1, <2>2, <2>4, <3>1, EraseTypes DEF RemoveCommit, mails, Kept, TypeOK
    <2>5. QED
      BY <1>13, <2>3, <2>4 DEF RemoveCommit
  <1>14. CASE Anonymise(p)
    <2>1. req[p].on \in Account
      BY <1>14, RequestTypes DEF Anonymise, At
    <2>2. TokensStay
      BY <1>14, WithoutStays DEF Anonymise, Erase, OfAccount
    <2>3. QED
      BY <1>14, <2>1, <2>2, EraseTypes, FinishTypes DEF Anonymise, mails, Kept, TypeOK
  <1>15. QED
    BY <1>1, <1>2, <1>3, <1>4, <1>5, <1>6, <1>7, <1>8, <1>9, <1>10, <1>11, <1>12, <1>13, <1>14 DEF Proceed

LEMMA NextTypes ==
    ASSUME Typed, [Next]_vars
    PROVE  TypeOK' /\ TokensStay
  <1>0. token \in [Tokens -> Issuable \cup {Unissued}]
    BY DEF Typed, TypeOK, Issuable
  <1>1. ASSUME NEW p \in Api, Arrive(p)
        PROVE  Kept
    BY <1>0, <1>1, ArriveTypes DEF rows, mails, Kept, TokensStay, Typed, TypeOK
  <1>2. ASSUME NEW p \in Api, Proceed(p)
        PROVE  Kept
    BY <1>2, ProceedTypes
  <1>3. ASSUME NEW p \in Api, Crash(p)
        PROVE  Kept
    <2>1. OnAccount(p) => req[p].on \in Account
      BY RequestTypes DEF OnAccount, Typed
    <2>2. QED
      BY <1>0, <1>3, <2>1, FinishTypes DEF Crash, rows, Kept, TokensStay, Typed, TypeOK
  <1>9. ASSUME NEW e \in Email, NEW b \in BOOLEAN, SignIn(e, b)
        PROVE  Kept
    BY <1>0, <1>9 DEF SignIn, rows, Idle, Kept, TokensStay, Typed, TypeOK
  <1>4. ASSUME NEW t \in Tokens, Expire(t)
        PROVE  Kept
    <2>1. token[t] # Unissued
      BY <1>4, TokenTypes DEF Expire, Typed
    <2>2. QED
      BY <1>4, <2>1, MarkStays DEF Expire, mails, Kept, Typed, TypeOK
  <1>5. ASSUME NEW a \in Account, GainHistory(a)
        PROVE  Kept
    BY <1>0, <1>5 DEF GainHistory, mails, Kept, TokensStay, Typed, TypeOK
  <1>6. CASE Next
    <2>1. Kept
      BY <1>1, <1>2, <1>3, <1>4, <1>5, <1>6, <1>9 DEF Next
    <2>2. raced' \subseteq Account
      BY <1>6 DEF Next, Notice, Typed, TypeOK
    <2>3. QED
      BY <2>1, <2>2 DEF Kept, TypeOK, Issuable
  <1>7. CASE UNCHANGED vars
    BY <1>7 DEF vars, rows, mails, TokensStay, Typed, TypeOK
  <1>8. QED
    BY <1>6, <1>7

-----------------------------------------------------------------------------
(***************************************************************************)
(* Who does what to whom.                                                  *)
(***************************************************************************)

Acts(p) == Arrive(p) \/ Proceed(p) \/ Crash(p)

\* A step is that of one handler, and leaves the requests of the others alone, or
\* it is none of the handlers'.
LEMMA OneActs ==
    ASSUME TypeOK, Next
    PROVE  \/ \E p \in Api : Acts(p) /\ \A q \in Api \ {p} : req'[q] = req[q]
           \/ /\ UNCHANGED req
              /\ \/ \E e \in Email, b \in BOOLEAN : SignIn(e, b)
                 \/ \E t \in Tokens : Expire(t)
                 \/ \E a \in Account : GainHistory(a)
  <1>1. ASSUME NEW p \in Api, Arrive(p)
        PROVE  \A q \in Api \ {p} : req'[q] = req[q]
    BY <1>1 DEF Arrive, Register, ResendVerification, Forgot, OAuthRead, VerifyRead, ResetRead,
                Approve, RemoveRead, Begin, TypeOK
  <1>2. ASSUME NEW p \in Api, Proceed(p)
        PROVE  \A q \in Api \ {p} : req'[q] = req[q]
    BY <1>2 DEF Proceed, CreateUser, EmailTaken, IssueVerification, VerifyCommit, Welcome,
                ApproveCommit, SweepTokens, CreateResetToken, ResetCommit, OAuthLink, OAuthMark,
                OAuthCreate, RemoveCommit, Anonymise, Goto, Finish, TypeOK
  <1>3. ASSUME NEW p \in Api, Crash(p)
        PROVE  \A q \in Api \ {p} : req'[q] = req[q]
    BY <1>3 DEF Crash, Goto, Finish, TypeOK
  <1>4. QED
    BY <1>1, <1>2, <1>3 DEF Next, Acts, SignIn, Expire, GainHistory

\* What the next step of a handler is after this one.
LEMMA NextOps ==
    ASSUME TypeOK, NEW p \in Api, Acts(p)
    PROVE  \/ req'[p].op = "idle"
           \/ req'[p].op \in {"register", "signup"}
           \/ \E t \in Tokens : VerifyRead(p, t) \/ ResetRead(p, t)
           \/ VerifyCommit(p) /\ req'[p].op = "welcome" /\ req'[p].on = req[p].on
           \/ SweepTokens(p) /\ req'[p].op = "create" /\ req'[p].on = req[p].on
           \/ RemoveCommit(p) /\ req'[p].op = "anonymise" /\ req'[p].on = req[p].on
           \/ OAuthLink(p) /\ req'[p].op = "mark" /\ req'[p].on = req[p].on
           \/ CreateUser(p) /\ \E a \in Account : row[a] = "none" /\ req'[p].op = "issue" /\ req'[p].on = a
           \/ \E a \in Account : Live(a) /\ req'[p].op \in {"issue", "sweep", "link", "approve", "remove"}
                                /\ req'[p].on = a /\ Arrive(p)
                                /\ (req'[p].op = "link" /\ ~req'[p].first => a \in verified)
  <1> USE DEF TypeOK, Begin, Goto, Finish, Idle
  <1>1. CASE Arrive(p)
    <2>1. \A e \in Email : \A a \in With(e) : a \in Account /\ Live(a)
      BY DEF With, Live
    <2>2. ASSUME NEW e \in Email, Register(p, e)
          PROVE  req'[p].op = "register"
      BY <2>2 DEF Register
    <2>3. ASSUME NEW e \in Email, ResendVerification(p, e) \/ Forgot(p, e)
          PROVE  \E a \in Account : Live(a) /\ req'[p].op \in {"issue", "sweep"} /\ req'[p].on = a
      BY <2>1, <2>3 DEF ResendVerification, Forgot
    <2>4. ASSUME NEW e \in Email, NEW b \in BOOLEAN, OAuthRead(p, e, b)
          PROVE  \/ req'[p].op = "signup"
                 \/ \E a \in Account : Live(a) /\ req'[p].op = "link" /\ req'[p].on = a
                                      /\ (~req'[p].first => a \in verified)
      <3>1. CASE \E a \in With(e) : req'[p] = [op |-> "link", email |-> e, on |-> a, trusted |-> b,
                                            first |-> a \notin verified]
        <4>1. PICK a \in With(e) : req'[p] = [op |-> "link", email |-> e, on |-> a, trusted |-> b,
                                            first |-> a \notin verified]
          BY <3>1
        <4>2. req'[p].op = "link" /\ req'[p].on = a /\ req'[p].first = (a \notin verified)
          BY <4>1
        <4>3. QED
          BY <2>1, <4>2
      <3>2. CASE req'[p] = [op |-> "signup", email |-> e, trusted |-> b]
        BY <3>2
      <3>3. QED
        BY <2>4, <3>1, <3>2 DEF OAuthRead
    <2>5. ASSUME NEW a \in Account, Approve(p, a) \/ RemoveRead(p, a)
          PROVE  Live(a) /\ req'[p].op \in {"approve", "remove"} /\ req'[p].on = a
      BY <2>5 DEF Approve, RemoveRead
    <2>6. QED
      BY <1>1, <2>2, <2>3, <2>4, <2>5 DEF Arrive
  <1>2. CASE CreateUser(p)
    <2>1. PICK a \in Account : row[a] = "none" /\ req'[p] = [op |-> "issue", on |-> a]
      BY <1>2 DEF CreateUser, Insert
    <2>2. req'[p].op = "issue" /\ req'[p].on = a
      BY <2>1
    <2>3. QED
      BY <1>2, <2>1, <2>2
  <1>3. CASE VerifyCommit(p) \/ SweepTokens(p) \/ RemoveCommit(p) \/ OAuthLink(p)
    BY <1>3 DEF VerifyCommit, SweepTokens, RemoveCommit, OAuthLink
  <1>4. CASE \/ EmailTaken(p) \/ IssueVerification(p) \/ Welcome(p) \/ ApproveCommit(p)
             \/ CreateResetToken(p) \/ ResetCommit(p) \/ OAuthMark(p) \/ OAuthCreate(p)
             \/ Anonymise(p) \/ Crash(p)
    BY <1>4 DEF EmailTaken, IssueVerification, Welcome, ApproveCommit, CreateResetToken,
                ResetCommit, OAuthMark, OAuthCreate, Anonymise, Crash
  <1>5. QED
    BY <1>1, <1>2, <1>3, <1>4 DEF Acts, Proceed

\* A handler that has looked at a token goes on with that one.
LEMMA NextTyped ==
    ASSUME Typed, [Next]_vars
    PROVE  Typed'
  <1>1. TypeOK' /\ TokensStay
    BY NextTypes
  <1>2. ASSUME NEW p \in Api, req'[p].op \in {"verify", "reset"}
        PROVE  token'[req'[p].token] # Unissued /\ token'[req'[p].token].on = req'[p].on
    <2>1. CASE req'[p] = req[p]
      BY <1>1, <1>2, <2>1, RequestTypes DEF Typed, TokensKnown, TokensStay
    <2>2. CASE req'[p] # req[p]
      <3>1. Acts(p)
        BY <2>2, OneActs DEF Typed, vars
      <3>2. PICK t \in Tokens : VerifyRead(p, t) \/ ResetRead(p, t)
        BY <1>2, <3>1, NextOps DEF Typed
      <3>3. token[t] # Unissued /\ req'[p].token = t /\ req'[p].on = token[t].on
        BY <3>2, TokenTypes DEF VerifyRead, ResetRead, Usable, Begin, Typed, TypeOK
      <3>4. QED
        BY <1>1, <3>3 DEF TokensStay
    <2>3. QED
      BY <2>1, <2>2
  <1>3. QED
    BY <1>1, <1>2 DEF Typed, TokensKnown

Works(p, a) == OnAccount(p) /\ req[p].on = a

LinkedTo(e, a) == google[e] # Idle /\ google[e].on = a

\* A step that does nothing to an account.
Same(a) ==
    /\ row'[a] = row[a]
    /\ a \in password' <=> a \in password
    /\ a \in verified' <=> a \in verified
    /\ \A t \in Tokens : t \in OfAccount(a) \/ t \in OfAccount(a)'
                         => token'[t] = token[t] /\ spent'[t] = spent[t]
    /\ \A e \in Email : LinkedTo(e, a)' <=> LinkedTo(e, a)
    /\ welcomes'[a] = welcomes[a]

\* Handlers do something to the account they work on, and to accounts they make.
LEMMA Elsewhere ==
    ASSUME Typed, NEW p \in Api, Proceed(p), NEW a \in Account,
           ~ Works(p, a), row[a] # "none" \/ row'[a] = "none"
    PROVE  Same(a)
  <1> USE DEF Typed, Same, OfAccount, Issued, LinkedTo, Insert, At, OnAccount, Works, rows, mails,
              TypeOK
  <1>0. \A t \in Tokens : token[t] # Unissued /\ token[t].on # a =>
                            t \notin OfAccount(a)
    OBVIOUS
  <1>1. CASE CreateUser(p)
    BY <1>1 DEF CreateUser
  <1>2. CASE EmailTaken(p)
    BY <1>2 DEF EmailTaken
  <1>3. CASE IssueVerification(p)
    BY <1>3 DEF IssueVerification, Issue
  <1>4. CASE VerifyCommit(p)
    <2>1. req[p].token \in Tokens /\ token[req[p].token] # Unissued /\ token[req[p].token].on = req[p].on
      BY <1>4, RequestTypes DEF VerifyCommit, TokensKnown
    <2>2. \A t \in Tokens \ {req[p].token} : token'[t] = token[t]
      BY <1>4 DEF VerifyCommit
    <2>3. req[p].token \notin OfAccount(a) /\ req[p].token \notin OfAccount(a)'
      BY <1>4, <2>1, MarkStays DEF VerifyCommit, TokensStay
    <2>4. QED
      BY <1>4, <2>2, <2>3 DEF VerifyCommit
  <1>5. CASE Welcome(p)
    BY <1>5 DEF Welcome
  <1>6. CASE ApproveCommit(p)
    BY <1>6 DEF ApproveCommit
  <1>7. CASE SweepTokens(p)
    <2>1. \A t \in OfAccount(a) : token'[t] = token[t]
      BY <1>7 DEF SweepTokens, Without, Swept, Unspent
    <2>2. OfAccount(a)' \subseteq OfAccount(a)
      <3>1. Swept(req[p].on) \subseteq Issued
        BY UnspentTypes DEF Swept
      <3>2. TokensStay
        BY <1>7, <3>1, WithoutStays DEF SweepTokens
      <3>3. \A t \in Tokens : token[t] = Unissued => token'[t] = Unissued
        BY <1>7, <3>1 DEF SweepTokens, Without
      <3>4. QED
        BY <3>2, <3>3 DEF TokensStay
    <2>3. QED
      BY <1>7, <2>1, <2>2 DEF SweepTokens
  <1>8. CASE CreateResetToken(p)
    BY <1>8 DEF CreateResetToken, Issue
  <1>9. CASE ResetCommit(p)
    <2>1. req[p].token \in Tokens /\ token[req[p].token] # Unissued /\ token[req[p].token].on = req[p].on
      BY <1>9, RequestTypes DEF ResetCommit, TokensKnown
    <2>2. req[p].on # a
      BY <1>9 DEF ResetCommit
    <2>3. CASE Exists(req[p].token)
      <3>1. token' = Spend(req[p].token) /\ spent' = [spent EXCEPT ![req[p].token] = @ + 1]
        BY <1>9, <2>3 DEF ResetCommit
      <3>2. \A t \in Unspent(req[p].on) : token[t] # Unissued /\ t \notin OfAccount(a)
        BY <2>2, TokenTypes DEF Unspent
      <3>3. /\ TokensStay
            /\ \A t \in Tokens \ {req[p].token} :
                 token'[t] = IF t \in Unspent(req[p].on) THEN [token[t] EXCEPT !.state = "deleted"]
                             ELSE token[t]
        BY <2>1, <3>1, SpendStays
      <3>4. \A t \in OfAccount(a) : token'[t] = token[t] /\ spent'[t] = spent[t]
        BY <2>1, <2>2, <3>1, <3>2, <3>3
      <3>5. \A t \in Tokens : token[t] = Unissued => token'[t] = Unissued
        BY <2>1, <3>2, <3>3
      <3>6. OfAccount(a)' \subseteq OfAccount(a)
        BY <3>3, <3>5 DEF TokensStay
      <3>7. QED
        BY <1>9, <2>2, <3>4, <3>6 DEF ResetCommit
    <2>4. CASE ~ Exists(req[p].token)
      BY <1>9, <2>2, <2>4 DEF ResetCommit
    <2>5. QED
      BY <2>3, <2>4
  <1>10. CASE OAuthLink(p)
    BY <1>10 DEF OAuthLink, Idle
  <1>11. CASE OAuthMark(p)
    BY <1>11 DEF OAuthMark
  <1>12. CASE OAuthCreate(p)
    BY <1>12 DEF OAuthCreate, Idle
  <1>15. ASSUME NEW b \in Account, b # a, NEW state, Erase(b, state), UNCHANGED <<verified, mails>>
         PROVE  Same(a)
    <2>1. \A t \in OfAccount(a) : token'[t] = token[t]
      BY <1>15 DEF Erase, Without
    <2>2. TokensStay
      BY <1>15, WithoutStays DEF Erase
    <2>3. \A t \in Tokens : token[t] = Unissued => token'[t] = Unissued
      BY <1>15 DEF Erase, Without
    <2>4. OfAccount(a)' \subseteq OfAccount(a)
      BY <2>2, <2>3 DEF TokensStay
    <2>5. \A e \in Email : LinkedTo(e, a)' <=> LinkedTo(e, a)
      BY <1>15 DEF Erase, Unlinked, Idle
    <2>6. QED
      BY <1>15, <2>1, <2>4, <2>5 DEF Erase
  <1>13. CASE RemoveCommit(p)
    <2>1. req[p].on \in Account \ {a}
      BY <1>13, RequestTypes DEF RemoveCommit
    <2>2. QED
      BY <1>13, <1>15, <2>1 DEF RemoveCommit
  <1>14. CASE Anonymise(p)
    <2>1. req[p].on \in Account \ {a}
      BY <1>14, RequestTypes DEF Anonymise
    <2>2. QED
      BY <1>14, <1>15, <2>1 DEF Anonymise
  <1>16. QED
    BY <1>1, <1>2, <1>3, <1>4, <1>5, <1>6, <1>7, <1>8, <1>9, <1>10, <1>11, <1>12, <1>13, <1>14 DEF Proceed

\* So do steps that are nobody's, and requests that arrive.
LEMMA ElsewhereToo ==
    ASSUME Typed, NEW a \in Account
    PROVE  /\ \A p \in Api : Arrive(p) \/ Crash(p) => Same(a)
           /\ \A t \in Tokens : Expire(t) /\ t \notin OfAccount(a) => Same(a)
           /\ (\E b \in Account : GainHistory(b)) => Same(a)
           /\ (\E e \in Email, b \in BOOLEAN : SignIn(e, b)) => Same(a)
  <1> USE DEF Typed, Same, OfAccount, Issued, LinkedTo, rows, mails, TypeOK
  <1>1. ASSUME NEW p \in Api, Arrive(p) \/ Crash(p)
        PROVE  Same(a)
    BY <1>1, ArriveTypes DEF Crash
  <1>2. ASSUME NEW t \in Tokens, Expire(t), t \notin OfAccount(a)
        PROVE  Same(a)
    <2>1. token[t] # Unissued
      BY <1>2, TokenTypes DEF Expire
    <2>2. token' = [token EXCEPT ![t].state = "expired"]
      BY <1>2 DEF Expire
    <2>3. TokensStay
      BY <2>1, <2>2, MarkStays
    <2>4. t \notin OfAccount(a)' /\ \A u \in Tokens \ {t} : token'[u] = token[u]
      BY <1>2, <2>1, <2>2, <2>3 DEF TokensStay
    <2>5. QED
      BY <1>2, <2>4 DEF Expire
  <1>3. ASSUME NEW b \in Account, GainHistory(b)
        PROVE  Same(a)
    BY <1>3 DEF GainHistory
  <1>4. ASSUME NEW e \in Email, NEW b \in BOOLEAN, SignIn(e, b)
        PROVE  Same(a)
    BY <1>4 DEF SignIn
  <1>5. QED
    BY <1>1, <1>2, <1>3, <1>4

-----------------------------------------------------------------------------
(***************************************************************************)
(* What holds of all accounts.                                             *)
(***************************************************************************)

\* A row that does not exist has no tokens, and nobody works on it.
Unmade ==
    \A a \in Account : row[a] = "none" => OfAccount(a) = {} /\ \A p \in Api : ~ Works(p, a)

\* A token that is good has not changed a password yet.
SpentOnce ==
    \A t \in Tokens : token[t].state \in {"none", "unused", "expired"} => spent[t] = 0

\* Who is welcomed has verified the address.
WelcomedVerified ==
    /\ \A a \in Account : welcomes[a] # 0 => a \in verified
    /\ \A p \in Api : At(p, "welcome") => req[p].on \in verified

\* An account linked with an address that Google had verified is verified, whoever
\* comes in; or it is about to be marked, or the handler died.
LinkedIsMarked ==
    \A e \in Email :
        google[e] # Idle /\ google[e].trusted =>
            \/ google[e].on \in verified \cup halted
            \/ \E p \in Api : At(p, "mark") /\ req[p].on = google[e].on

\* Accounts with a Google account are there; who is not verified when it is linked
\* will be marked.
Linking ==
    /\ \A e \in Email : google[e] # Idle => row[google[e].on] # "gone"
    /\ \A p \in Api : At(p, "link") /\ ~ req[p].first => req[p].on \in verified
    /\ LinkedIsMarked

LEMMA RowsStay ==
    ASSUME Typed, Next, NEW a \in Account, row[a] # "none"
    PROVE  row'[a] # "none"
  <1>1. ASSUME NEW p \in Api, Proceed(p)
        PROVE  row'[a] # "none"
    BY <1>1 DEF Proceed, CreateUser, EmailTaken, IssueVerification, VerifyCommit, Welcome,
                ApproveCommit, SweepTokens, CreateResetToken, ResetCommit, OAuthLink, OAuthMark,
                OAuthCreate, RemoveCommit, Anonymise, Insert, Erase, rows, Typed, TypeOK
  <1>2. QED
    BY <1>1, ElsewhereToo, ArriveTypes DEF Next, Same, SignIn, Expire, GainHistory, rows, Typed, Crash

LEMMA NextUnmade ==
    ASSUME Typed, Unmade, Next
    PROVE  Unmade'
  <1>1. ASSUME NEW a \in Account, row'[a] = "none"
        PROVE  OfAccount(a)' = {} /\ \A q \in Api : ~ Works(q, a)'
    <2>1. row[a] = "none"
      BY <1>1, RowsStay
    <2>2. OfAccount(a) = {} /\ \A q \in Api : ~ Works(q, a)
      BY <2>1 DEF Unmade
    <2>3. Same(a)
      BY <1>1, <2>2, Elsewhere, ElsewhereToo DEF Next
    <2>4. OfAccount(a)' = {}
      BY <2>2, <2>3 DEF Same, OfAccount, Issued
    <2>5. ASSUME NEW p \in Api, Acts(p)
          PROVE  ~ Works(p, a)'
      <3>1. \A t \in Tokens : Usable(t, "EMAIL_VERIFY") \/ Usable(t, "PASSWORD_RESET") => token[t].on # a
        BY <2>2 DEF Usable, OfAccount, Issued
      <3>2. \A t \in Tokens : VerifyRead(p, t) \/ ResetRead(p, t) => req'[p].on # a
        BY <3>1 DEF VerifyRead, ResetRead, Begin, Typed, TypeOK
      <3>3. VerifyCommit(p) \/ SweepTokens(p) \/ RemoveCommit(p) \/ OAuthLink(p) => req[p].on # a
        BY <2>2 DEF VerifyCommit, SweepTokens, RemoveCommit, OAuthLink, Works, OnAccount, At
      <3>4. ~ Live(a)
        BY <2>1 DEF Live
      <3>5. \A b \in Account : row[b] = "none" /\ CreateUser(p) /\ req'[p].on = b => a # b
        BY <1>1, <2>5 DEF CreateUser, Insert, Goto, Typed, TypeOK
      <3>6. QED
        BY <2>5, <3>2, <3>3, <3>4, <3>5, NextOps DEF Works, OnAccount, Typed
    <2>6. QED
      BY <2>2, <2>4, <2>5, OneActs DEF Works, OnAccount, Typed
  <1>2. QED
    BY <1>1 DEF Unmade

\* A token that changes is deleted, used or expired, or it is new; only the reset
\* with that token is counted for it.
LEMMA TokenSteps ==
    ASSUME Typed, Next, NEW t \in Tokens
    PROVE  /\ \/ token'[t] = token[t]
              \/ token'[t].state \in {"deleted", "used"}
              \/ token[t].state = "unused" /\ token'[t].state = "expired"
              \/ token[t].state = "none" /\ token'[t].for = "EMAIL_VERIFY"
              \/ token[t].state = "none" /\ \E p \in Api : CreateResetToken(p) /\ req[p].on = token'[t].on
           /\ \/ spent'[t] = spent[t]
              \/ \E p \in Api : ResetCommit(p) /\ req[p].token = t /\ token' = Spend(t)
                                  /\ token'[t].state = "used"
  <1> USE DEF rows, mails
  <1>0. token \in [Tokens -> Issuable \cup {Unissued}]
    BY DEF Typed, TypeOK, Issuable
  <1>1. ASSUME NEW T \in SUBSET Issued, token' = Without(T)
        PROVE  token'[t] = token[t] \/ token'[t].state = "deleted"
    BY <1>0, <1>1 DEF Without, Issued, Issuable
  <1>2. ASSUME NEW a, NEW purpose, Issue(a, purpose)
        PROVE  \/ token'[t] = token[t]
               \/ token[t].state = "none" /\ token'[t].for = purpose /\ token'[t].on = a
    BY <1>0, <1>2 DEF Issue, Issued, Unissued
  <1>3. ASSUME NEW u \in Tokens, NEW s \in {"used", "expired"}, token[u] # Unissued,
               token' = [token EXCEPT ![u].state = s]
        PROVE  token'[t] = token[t] \/ (t = u /\ token'[t].state = s)
    BY <1>0, <1>3 DEF Issuable
  <1>4. ASSUME NEW p \in Api, ResetCommit(p)
        PROVE  /\ token'[t] = token[t] \/ token'[t].state \in {"deleted", "used"}
               /\ spent'[t] = spent[t] \/ (req[p].token = t /\ token' = Spend(t) /\ token'[t].state = "used")
    <2>1. req[p].token \in Tokens /\ token[req[p].token] # Unissued
      BY <1>4, RequestTypes DEF ResetCommit, At, TokensKnown, Typed
    <2>2. CASE Exists(req[p].token)
      <3>1. token' = Spend(req[p].token) /\ spent' = [spent EXCEPT ![req[p].token] = @ + 1]
        BY <1>4, <2>2 DEF ResetCommit
      <3>2. /\ token'[req[p].token].state = "used"
            /\ \A u \in Tokens \ {req[p].token} :
                 token'[u] = IF u \in Unspent(token[req[p].token].on)
                             THEN [token[u] EXCEPT !.state = "deleted"] ELSE token[u]
        BY <2>1, <3>1, SpendStays DEF Typed
      <3>3. \A u \in Unspent(token[req[p].token].on) : token[u] \in Issuable
        BY UnspentTypes DEF Typed
      <3>4. QED
        BY <2>1, <3>1, <3>2, <3>3 DEF Issuable, Typed, TypeOK
    <2>3. CASE ~ Exists(req[p].token)
      BY <1>4, <2>3 DEF ResetCommit
    <2>4. QED
      BY <2>2, <2>3
  <1>5. ASSUME NEW p \in Api, Proceed(p)
        PROVE  /\ \/ token'[t] = token[t]
                  \/ token'[t].state \in {"deleted", "used"}
                  \/ token[t].state = "none" /\ token'[t].for = "EMAIL_VERIFY"
                  \/ token[t].state = "none" /\ CreateResetToken(p) /\ req[p].on = token'[t].on
               /\ spent'[t] = spent[t] \/ ResetCommit(p)
    <2>1. CASE IssueVerification(p) \/ CreateResetToken(p)
      BY <1>2, <2>1 DEF IssueVerification, CreateResetToken
    <2>2. CASE VerifyCommit(p)
      <3>1. req[p].token \in Tokens /\ token[req[p].token] # Unissued
        BY <2>2, RequestTypes DEF VerifyCommit, At, TokensKnown, Typed
      <3>2. QED
        BY <1>3, <2>2, <3>1 DEF VerifyCommit
    <2>3. CASE SweepTokens(p)
      BY <1>1, <2>3, UnspentTypes DEF SweepTokens, Swept, Issued, Unspent, Typed
    <2>4. CASE ResetCommit(p)
      BY <1>4, <2>4
    <2>5. CASE RemoveCommit(p) \/ Anonymise(p)
      BY <1>1, <2>5 DEF RemoveCommit, Anonymise, Erase, OfAccount
    <2>6. CASE \/ CreateUser(p) \/ EmailTaken(p) \/ Welcome(p) \/ ApproveCommit(p)
               \/ OAuthLink(p) \/ OAuthMark(p) \/ OAuthCreate(p)
      BY <2>6 DEF CreateUser, EmailTaken, Welcome, ApproveCommit, OAuthLink, OAuthMark, OAuthCreate
    <2>7. QED
      BY <1>5, <2>1, <2>2, <2>3, <2>4, <2>5, <2>6 DEF Proceed
  <1>6. ASSUME NEW u \in Tokens, Expire(u)
        PROVE  /\ \/ token'[t] = token[t]
                  \/ token[t].state = "unused" /\ token'[t].state = "expired"
               /\ spent'[t] = spent[t]
    BY <1>6, <1>0 DEF Expire
  <1>7. ASSUME NEW p \in Api, Arrive(p) \/ Crash(p)
        PROVE  token'[t] = token[t] /\ spent'[t] = spent[t]
    BY <1>7, ArriveTypes DEF Crash, Typed
  <1>8. QED
    BY <1>4, <1>5, <1>6, <1>7 DEF Next, SignIn, GainHistory

LEMMA NextSpent ==
    ASSUME Typed, SpentOnce, Next
    PROVE  SpentOnce'
  <1>1. ASSUME NEW t \in Tokens, token'[t].state \in {"none", "unused", "expired"}
        PROVE  spent'[t] = 0
    <2>1. spent'[t] = spent[t]
      BY <1>1, TokenSteps
    <2>2. token[t].state \in {"none", "unused", "expired"}
      BY <1>1, TokenSteps
    <2>3. QED
      BY <2>1, <2>2 DEF SpentOnce
  <1>2. QED
    BY <1>1 DEF SpentOnce

\* A verified address stays verified, and only a handler that welcomes writes to
\* the person.
LEMMA WelcomeSteps ==
    ASSUME Typed, Next, NEW a \in Account
    PROVE  /\ a \in verified => a \in verified'
           /\ \/ welcomes'[a] = welcomes[a]
              \/ \E p \in Api : Welcome(p) /\ req[p].on = a
  <1> USE DEF rows, mails
  <1>1. ASSUME NEW p \in Api, Proceed(p)
        PROVE  /\ a \in verified => a \in verified'
               /\ welcomes'[a] = welcomes[a] \/ (Welcome(p) /\ req[p].on = a)
    <2>1. CASE Welcome(p)
      BY <2>1 DEF Welcome, Typed, TypeOK
    <2>2. CASE ~ Welcome(p)
      BY <1>1, <2>2 DEF Proceed, CreateUser, EmailTaken, IssueVerification, VerifyCommit,
              ApproveCommit, SweepTokens, CreateResetToken, ResetCommit, OAuthLink, OAuthMark,
              OAuthCreate, RemoveCommit, Anonymise
    <2>3. QED
      BY <2>1, <2>2
  <1>2. QED
    BY <1>1, ArriveTypes DEF Next, SignIn, Expire, GainHistory, Crash, Typed

LEMMA NextWelcomed ==
    ASSUME Typed, WelcomedVerified, Next
    PROVE  WelcomedVerified'
  <1>1. ASSUME NEW a \in Account, welcomes'[a] # 0
        PROVE  a \in verified'
    BY <1>1, WelcomeSteps DEF WelcomedVerified, Welcome
  <1>2. ASSUME NEW p \in Api, At(p, "welcome")'
        PROVE  req'[p].on \in verified'
    <2>1. CASE req'[p] = req[p]
      <3>1. req[p].on \in Account /\ req[p].on \in verified
        BY <1>2, <2>1, RequestTypes DEF WelcomedVerified, At, Typed
      <3>2. QED
        BY <2>1, <3>1, WelcomeSteps
    <2>2. CASE req'[p] # req[p]
      <3>1. Acts(p)
        BY <2>2, OneActs DEF Typed
      <3>2. VerifyCommit(p) /\ req'[p].on = req[p].on
        BY <1>2, <3>1, NextOps DEF At, Typed, VerifyRead, ResetRead, Begin, TypeOK
      <3>3. QED
        BY <1>2, <3>2 DEF VerifyCommit, At, Finish, Goto, Idle, Typed, TypeOK
    <2>3. QED
      BY <2>1, <2>2
  <1>3. QED
    BY <1>1, <1>2 DEF WelcomedVerified, At

\* A link to a Google account goes away with the account, or it is new: then the
\* account is there, and it is verified or about to be marked.
LEMMA LinkSteps ==
    ASSUME Typed, Linking, Next, NEW e \in Email, google'[e] # Idle
    PROVE  /\ row'[google'[e].on] # "gone"
           /\ \/ google'[e] = google[e]
              \/ google'[e].trusted =>
                    \/ google'[e].on \in verified'
                    \/ \E p \in Api : At(p, "mark")' /\ req'[p].on = google'[e].on
  <1> USE DEF rows, mails
  <1>0. google[e] # Idle => google[e].on \in Account /\ row[google[e].on] # "gone"
    BY DEF Typed, TypeOK, Linking
  <1>1. CASE google' = google /\ row' = row
    BY <1>0, <1>1
  <1>2. ASSUME NEW p \in Api, CreateUser(p)
        PROVE  google' = google /\ row'[google[e].on] # "gone"
    BY <1>0, <1>2 DEF CreateUser, Insert, Typed, TypeOK
  <1>3. ASSUME NEW a \in Account, NEW state \in {"anonymous", "gone"}, Erase(a, state)
        PROVE  google'[e] = google[e] /\ row'[google[e].on] # "gone"
    <2>1. google'[e] = google[e] /\ google[e].on # a
      BY <1>3 DEF Erase, Unlinked
    <2>2. QED
      BY <1>0, <1>3, <2>1 DEF Erase, Typed, TypeOK
  <1>4. ASSUME NEW p \in Api, RemoveCommit(p) \/ Anonymise(p)
        PROVE  google'[e] = google[e] /\ row'[google[e].on] # "gone"
    <2>1. req[p].on \in Account
      BY <1>4, RequestTypes DEF RemoveCommit, Anonymise, At, Typed
    <2>2. QED
      BY <1>0, <1>3, <1>4, <2>1 DEF RemoveCommit, Anonymise
  <1>5. ASSUME NEW p \in Api, OAuthLink(p)
        PROVE  /\ row' = row
               /\ \/ google'[e] = google[e]
                  \/ /\ google'[e].on = req[p].on /\ row[req[p].on] # "gone"
                     /\ google'[e].trusted => \/ google'[e].on \in verified'
                                              \/ At(p, "mark")' /\ req'[p].on = google'[e].on
    <2>1. /\ req[p].email \in Email /\ req[p].on \in Account
          /\ req[p].first \in BOOLEAN /\ req[p].trusted \in BOOLEAN
      BY <1>5, RequestTypes DEF OAuthLink, At, Typed
    <2>2. ~ req[p].first => req[p].on \in verified
      BY <1>5 DEF OAuthLink, Linking
    <2>3. CASE google'[e] = google[e]
      BY <1>5, <2>3 DEF OAuthLink
    <2>4. CASE google'[e] # google[e]
      <3>1. google' = [google EXCEPT ![req[p].email] = [on |-> req[p].on, trusted |-> req[p].trusted]]
        BY <1>5, <2>4 DEF OAuthLink
      <3>2. e = req[p].email
        BY <2>4, <3>1 DEF Typed, TypeOK
      <3>3. google'[e].on = req[p].on /\ google'[e].trusted = req[p].trusted
        BY <2>1, <3>1, <3>2 DEF Typed, TypeOK
      <3>4. CASE req[p].first /\ req[p].trusted
        <4>1. req'[p] = [op |-> "mark", on |-> req[p].on]
          BY <1>5, <2>4, <3>4 DEF OAuthLink, ToMark, Goto, Typed, TypeOK
        <4>2. QED
          BY <1>5, <2>4, <3>3, <4>1 DEF OAuthLink, At
      <3>5. CASE ~ (req[p].first /\ req[p].trusted)
        BY <1>5, <2>1, <2>2, <2>4, <3>3, <3>5 DEF OAuthLink
      <3>6. QED
        BY <3>4, <3>5
    <2>5. QED
      BY <2>3, <2>4
  <1>6. ASSUME NEW p \in Api, OAuthCreate(p)
        PROVE  \/ google'[e] = google[e] /\ (google[e] # Idle => row'[google[e].on] # "gone")
               \/ /\ row'[google'[e].on] # "gone"
                  /\ google'[e].trusted => google'[e].on \in verified'
    <2>1. PICK a \in Account :
             /\ Insert(a, req[p].email)
             /\ IF req[p].trusted
                  THEN verified' = verified \cup {a} /\ vouched' = vouched \cup {a}
                  ELSE UNCHANGED <<verified, vouched>>
             /\ google' = [google EXCEPT ![req[p].email] = [on |-> a, trusted |-> req[p].trusted]]
      BY <1>6 DEF OAuthCreate
    <2>2. row'[a] = "live" /\ \A b \in Account \ {a} : row'[b] = row[b]
      BY <2>1 DEF Insert, Typed, TypeOK
    <2>3. CASE google'[e] = google[e]
      BY <1>0, <2>2, <2>3
    <2>4. CASE google'[e] # google[e]
      <3>1. google'[e].on = a /\ google'[e].trusted = req[p].trusted
        BY <2>1, <2>4 DEF Typed, TypeOK
      <3>2. QED
        BY <2>1, <2>2, <3>1
    <2>5. QED
      BY <2>3, <2>4
  <1>7. ASSUME NEW p \in Api, Proceed(p)
        PROVE  \/ google' = google /\ row' = row
               \/ CreateUser(p) \/ OAuthLink(p) \/ OAuthCreate(p) \/ RemoveCommit(p) \/ Anonymise(p)
    BY <1>7 DEF Proceed, EmailTaken, IssueVerification, VerifyCommit, Welcome, ApproveCommit,
            SweepTokens, CreateResetToken, ResetCommit, OAuthMark
  <1>8. ASSUME NEW p \in Api, Arrive(p) \/ Crash(p)
        PROVE  google' = google /\ row' = row
    BY <1>8, ArriveTypes DEF Crash, Typed
  <1>9. ASSUME NEW p \in Api, Proceed(p)
        PROVE  /\ row'[google'[e].on] # "gone"
               /\ \/ google'[e] = google[e]
                  \/ google'[e].trusted =>
                        \/ google'[e].on \in verified'
                        \/ \E q \in Api : At(q, "mark")' /\ req'[q].on = google'[e].on
    <2>1. CASE OAuthLink(p)
      <3>1. CASE google'[e] = google[e]
        BY <1>0, <1>5, <2>1, <3>1
      <3>2. CASE google'[e] # google[e]
        BY <1>5, <2>1, <3>2
      <3>3. QED
        BY <3>1, <3>2
    <2>2. CASE OAuthCreate(p)
      BY <1>6, <2>2
    <2>3. QED
      BY <1>0, <1>1, <1>2, <1>4, <1>7, <1>9, <2>1, <2>2
  <1>10. QED
    BY <1>1, <1>8, <1>9 DEF Next, SignIn, Expire, GainHistory

LEMMA NextLinking ==
    ASSUME Typed, Linking, Next
    PROVE  Linking'
  <1>1. \A e \in Email : google'[e] # Idle => row'[google'[e].on] # "gone"
    BY LinkSteps
  <1>2. ASSUME NEW p \in Api, At(p, "link")', ~ req'[p].first
        PROVE  req'[p].on \in verified'
    <2>1. CASE req'[p] = req[p]
      <3>1. req[p].on \in Account /\ req[p].on \in verified
        BY <1>2, <2>1, RequestTypes DEF Linking, At, Typed
      <3>2. QED
        BY <2>1, <3>1, WelcomeSteps
    <2>2. CASE req'[p] # req[p]
      <3>1. Acts(p)
        BY <2>2, OneActs DEF Typed
      <3>2. PICK a \in Account : req'[p].on = a /\ a \in verified
        BY <1>2, <3>1, NextOps DEF At, Typed, VerifyRead, ResetRead, Begin, TypeOK
      <3>3. QED
        BY <3>2, WelcomeSteps
    <2>3. QED
      BY <2>1, <2>2
  <1>3. ASSUME NEW e \in Email, google'[e] # Idle, google'[e].trusted
        PROVE  \/ google'[e].on \in verified' \cup halted'
               \/ \E p \in Api : At(p, "mark")' /\ req'[p].on = google'[e].on
    <2>1. CASE google'[e] # google[e]
      BY <1>3, <2>1, LinkSteps
    <2>2. CASE google'[e] = google[e]
      <3> DEFINE a == google[e].on
      <3>1. a \in Account /\ row[a] # "gone" /\ google'[e].on = a
        BY <1>3, <2>2 DEF Typed, TypeOK, Linking
      <3>2. CASE a \in verified
        BY <3>1, <3>2, WelcomeSteps
      <3>3. CASE a \in halted
        <4>1. ASSUME NEW p \in Api, Proceed(p)
              PROVE  halted' = halted
          BY <4>1 DEF Proceed, CreateUser, EmailTaken, IssueVerification, VerifyCommit, Welcome,
                 ApproveCommit, SweepTokens, CreateResetToken, ResetCommit, OAuthLink, OAuthMark,
                 OAuthCreate, RemoveCommit, Anonymise, mails
        <4>2. halted \subseteq halted'
          BY <4>1, ArriveTypes DEF Next, Crash, SignIn, Expire, GainHistory, mails, Typed
        <4>3. QED
          BY <3>1, <3>3, <4>2
      <3>4. CASE \E p \in Api : At(p, "mark") /\ req[p].on = a
        <4>1. PICK p \in Api : At(p, "mark") /\ req[p].on = a
          BY <3>4
        <4>2. CASE req'[p] = req[p]
          BY <3>1, <4>1, <4>2 DEF At
        <4>3. CASE req'[p] # req[p]
          <5>1. Acts(p)
            BY <4>3, OneActs DEF Typed
          <5>2. CASE Crash(p)
            BY <3>1, <4>1, <5>2 DEF Crash, OnAccount, At
          <5>3. CASE OAuthMark(p)
            BY <3>1, <4>1, <5>3 DEF OAuthMark
          <5>4. ~ Arrive(p)
            BY <4>1 DEF Arrive, Register, ResendVerification, Forgot, OAuthRead, VerifyRead,
                   ResetRead, Approve, RemoveRead, Begin, At, Idle
          <5>5. Proceed(p) => OAuthMark(p)
            BY <4>1 DEF Proceed, CreateUser, EmailTaken, IssueVerification, VerifyCommit, Welcome,
                   ApproveCommit, SweepTokens, CreateResetToken, ResetCommit, OAuthLink,
                   OAuthCreate, RemoveCommit, Anonymise, At
          <5>6. QED
            BY <5>1, <5>2, <5>3, <5>4, <5>5 DEF Acts
        <4>4. QED
          BY <4>2, <4>3
      <3>5. QED
        BY <1>3, <2>2, <3>1, <3>2, <3>3, <3>4 DEF Linking, LinkedIsMarked
    <2>3. QED
      BY <2>1, <2>2
  <1>4. QED
    BY <1>1, <1>2, <1>3 DEF Linking, LinkedIsMarked, At

-----------------------------------------------------------------------------
(***************************************************************************)
(* What holds of the accounts that are not raced.                          *)
(***************************************************************************)

Shut(a) == row[a] \in {"anonymous", "gone"}

\* What a handler relies on when it works on an account.
Relies(p, a) ==
    /\ ~ Shut(a)
    /\ At(p, "verify") /\ req[p].first => a \notin verified
    /\ At(p, "welcome") => welcomes[a] = 0 /\ \A q \in Api : At(q, "welcome") /\ Works(q, a) => q = p
    /\ At(p, "create") => Outstanding(a) = {}
    /\ At(p, "reset") => token[req[p].token].state = "unused"

Fresh ==
    \A a \in Account \ raced :
        /\ \A p \in Api : Works(p, a) => Relies(p, a)
        /\ \A t, u \in Outstanding(a) : t = u
        /\ Shut(a) => Keys(a) = {}

\* Whoever works on an account while another handler changes it has raced.
LEMMA Unseen ==
    ASSUME Typed, Next, NEW a \in Account, a \notin raced',
           NEW p \in Api, Works(p, a), req'[p] = req[p]
    PROVE  /\ row'[a] = row[a]
           /\ a \in verified' <=> a \in verified
           /\ \A t \in Tokens : t \in OfAccount(a) \/ t \in OfAccount(a)' => token'[t] = token[t]
  <1>1. Waiting(a) # {}
    BY DEF Waiting, Works
  <1>2. View(a)' = View(a)
    BY <1>1 DEF Next, Notice
  <1>3. row'[a] = row[a] /\ (a \in verified' <=> a \in verified)
    BY <1>2 DEF View
  <1>4. {<<t, token'[t]>> : t \in OfAccount(a)'} = {<<t, token[t]>> : t \in OfAccount(a)}
    BY <1>2 DEF View
  <1>5. ASSUME NEW t \in OfAccount(a)
        PROVE  token'[t] = token[t]
    <2>1. <<t, token[t]>> \in {<<u, token'[u]>> : u \in OfAccount(a)'}
      BY <1>4
    <2>2. PICK u \in OfAccount(a)' : <<t, token[t]>> = <<u, token'[u]>>
      BY <2>1
    <2>3. QED
      BY <2>2
  <1>6. ASSUME NEW t \in OfAccount(a)'
        PROVE  token'[t] = token[t]
    <2>1. <<t, token'[t]>> \in {<<u, token[u]>> : u \in OfAccount(a)}
      BY <1>4
    <2>2. PICK u \in OfAccount(a) : <<t, token'[t]>> = <<u, token[u]>>
      BY <2>1
    <2>3. QED
      BY <2>2
  <1>7. QED
    BY <1>3, <1>5, <1>6

\* There is one more link only when a handler creates it.
LEMMA OutstandingSteps ==
    ASSUME Typed, Next, NEW a \in Account
    PROVE  \/ Outstanding(a)' \subseteq Outstanding(a)
           \/ \E p \in Api : CreateResetToken(p) /\ Works(p, a)
                               /\ \E t \in Tokens : /\ t \notin OfAccount(a) /\ t \in OfAccount(a)'
                                                    /\ Outstanding(a)' \subseteq Outstanding(a) \cup {t}
  <1>1. CASE \E p \in Api : CreateResetToken(p) /\ req[p].on = a
    <2>1. PICK p \in Api : CreateResetToken(p) /\ req[p].on = a
      BY <1>1
    <2>2. CASE token' = token
      BY <2>2 DEF Outstanding, Usable
    <2>3. CASE token' # token
      <3>1. Issue(a, "PASSWORD_RESET")
        BY <2>1, <2>3 DEF CreateResetToken
      <3>2. PICK t \in Tokens \ Issued :
               token' = [token EXCEPT ![t] = [state |-> "unused", for |-> "PASSWORD_RESET", on |-> a]]
        BY <3>1 DEF Issue
      <3>3. t \notin OfAccount(a) /\ t \in OfAccount(a)'
        BY <3>2 DEF OfAccount, Issued, Unissued, Typed, TypeOK
      <3>4. Outstanding(a)' \subseteq Outstanding(a) \cup {t}
        BY <3>2 DEF Outstanding, Usable, Typed, TypeOK
      <3>5. QED
        BY <2>1, <3>3, <3>4 DEF Works, OnAccount, CreateResetToken, At
    <2>4. QED
      BY <2>2, <2>3
  <1>2. CASE ~ \E p \in Api : CreateResetToken(p) /\ req[p].on = a
    <2>1. ASSUME NEW t \in Outstanding(a)'
          PROVE  t \in Outstanding(a)
      <3>1. t \in Tokens /\ token'[t].state = "unused" /\ token'[t].for = "PASSWORD_RESET" /\ token'[t].on = a
        BY DEF Outstanding, Usable
      <3>2. token'[t] = token[t]
        BY <1>2, <3>1, TokenSteps
      <3>3. QED
        BY <3>2 DEF Outstanding, Usable
    <2>2. QED
      BY <2>1
  <1>3. QED
    BY <1>1, <1>2

\* A removed account that nobody works on stays as it is.
LEMMA ShutStays ==
    ASSUME Typed, Next, NEW a \in Account, Shut(a), Keys(a) = {}, \A p \in Api : ~ Works(p, a)
    PROVE  Shut(a)' /\ Keys(a)' = {} /\ \A p \in Api : ~ Works(p, a)'
  <1>1. row[a] # "none" /\ ~ Live(a)
    BY DEF Shut, Live
  <1>2. \A t \in OfAccount(a) : token[t].state = "deleted"
    BY DEF Keys, Exists
  <1>3. \A t \in Tokens : Expire(t) => t \notin OfAccount(a)
    BY <1>2 DEF Expire
  <1>4. Same(a)
    BY <1>1, <1>3, Elsewhere, ElsewhereToo DEF Next
  <1>5. Shut(a)'
    BY <1>4 DEF Same, Shut
  <1>6. Keys(a)' = {}
    <2>1. a \notin password /\ \A e \in Email : ~ LinkedTo(e, a)
      BY DEF Keys, LinkedTo
    <2>2. a \notin password' /\ \A e \in Email : ~ LinkedTo(e, a)'
      BY <1>4, <2>1 DEF Same
    <2>3. a \notin DOMAIN email'
      BY <1>5, NextTypes DEF TypeOK, Shut
    <2>4. \A t \in OfAccount(a)' : token'[t].state = "deleted"
      <3>1. ASSUME NEW t \in OfAccount(a)'
            PROVE  token'[t].state = "deleted"
        <4>1. t \in Tokens /\ token'[t] = token[t]
          BY <1>4 DEF Same, OfAccount, Issued
        <4>2. t \in OfAccount(a)
          BY <4>1 DEF OfAccount, Issued
        <4>3. QED
          BY <1>2, <4>1, <4>2
      <3>2. QED
        BY <3>1
    <2>5. QED
      BY <2>2, <2>3, <2>4 DEF Keys, LinkedTo, Exists
  <1>7. ASSUME NEW p \in Api, Acts(p)
        PROVE  ~ Works(p, a)'
    <2>1. \A t \in Tokens : VerifyRead(p, t) \/ ResetRead(p, t) => req'[p].on # a
      <3>1. \A t \in Tokens : Usable(t, "EMAIL_VERIFY") \/ Usable(t, "PASSWORD_RESET") => token[t].on # a
        BY <1>2 DEF Usable, OfAccount, Issued
      <3>2. QED
        BY <3>1 DEF VerifyRead, ResetRead, Begin, Typed, TypeOK
    <2>2. VerifyCommit(p) \/ SweepTokens(p) \/ RemoveCommit(p) \/ OAuthLink(p) => req[p].on # a
      BY DEF VerifyCommit, SweepTokens, RemoveCommit, OAuthLink, Works, OnAccount, At
    <2>3. QED
      BY <1>1, <1>7, <2>1, <2>2, NextOps DEF Works, OnAccount, Typed
  <1>8. QED
    BY <1>5, <1>6, <1>7, OneActs DEF Works, OnAccount, Typed

\* A handler that waits can go on as it meant to.
LEMMA StillRelies ==
    ASSUME Typed, WelcomedVerified, Fresh, Next, NEW a \in Account, a \notin raced',
           NEW p \in Api, Works(p, a), req'[p] = req[p]
    PROVE  Relies(p, a)'
  <1>0. Relies(p, a) /\ a \notin raced
    BY DEF Fresh, Next, Notice
  <1>1. ~ Shut(a)'
    BY <1>0, Unseen DEF Relies, Shut
  <1>2. At(p, "verify")' /\ req'[p].first => a \notin verified'
    BY <1>0, Unseen DEF Relies, At
  <1>3. ASSUME At(p, "welcome")'
        PROVE  welcomes'[a] = 0 /\ \A q \in Api : (At(q, "welcome") /\ Works(q, a))' => q = p
    <2>1. At(p, "welcome") /\ a \in verified
      BY <1>3 DEF At, WelcomedVerified, Works
    <2>2. ASSUME NEW q \in Api, Welcome(q), req[q].on = a
          PROVE  FALSE
      <3>1. q = p
        BY <1>0, <2>1, <2>2 DEF Relies, Welcome, Works, OnAccount, At
      <3>2. req'[p] = Idle
        BY <2>2, <3>1 DEF Welcome, Finish, Goto, Typed, TypeOK
      <3>3. QED
        BY <2>1, <3>2 DEF At, Idle
    <2>3. ASSUME NEW q \in Api, (At(q, "welcome") /\ Works(q, a))', req'[q] # req[q]
          PROVE  FALSE
      <3>1. Acts(q)
        BY <2>3, OneActs DEF Typed
      <3>2. VerifyCommit(q) /\ req[q].on = a
        BY <2>3, <3>1, NextOps DEF At, Works, Typed, VerifyRead, ResetRead, Begin, TypeOK
      <3>3. req[q].first
        BY <2>3, <3>2 DEF VerifyCommit, At, Finish, Goto, Idle, Typed, TypeOK
      <3>4. Relies(q, a)
        BY <1>0, <3>2 DEF Fresh, Works, OnAccount, VerifyCommit, At
      <3>5. QED
        BY <2>1, <3>2, <3>3, <3>4 DEF Relies, VerifyCommit
    <2>4. QED
      BY <1>0, <2>1, <2>2, <2>3, WelcomeSteps DEF Relies, At, Works, OnAccount
  <1>4. At(p, "create")' => Outstanding(a)' = {}
    <2>1. \A t \in Outstanding(a)' : t \in OfAccount(a)'
      BY DEF Outstanding, Usable, OfAccount, Issued
    <2>2. \A t \in Outstanding(a)' : t \in Outstanding(a)
      BY <2>1, Unseen DEF Outstanding, Usable
    <2>3. QED
      BY <1>0, <2>2 DEF Relies, At
  <1>5. ASSUME At(p, "reset")'
        PROVE  token'[req'[p].token].state = "unused"
    <2>1. At(p, "reset") /\ req[p].token \in Tokens /\ req[p].token \in OfAccount(a)
      BY <1>5, RequestTypes DEF At, Typed, TokensKnown, OfAccount, Issued, Works
    <2>2. QED
      BY <1>0, <2>1, Unseen DEF Relies
  <1>6. QED
    BY <1>1, <1>2, <1>3, <1>4, <1>5 DEF Relies

\* A handler that starts on an account, or goes on, has just seen what it relies on.
LEMMA NowRelies ==
    ASSUME Typed, WelcomedVerified, Fresh, Next, NEW a \in Account, a \notin raced',
           NEW p \in Api, Acts(p), \A q \in Api \ {p} : req'[q] = req[q], Works(p, a)'
    PROVE  Relies(p, a)'
  <1> USE DEF rows, mails
  <1>0. a \notin raced /\ (Works(p, a) => Relies(p, a)) /\ (Shut(a) => Keys(a) = {})
    BY DEF Fresh, Next, Notice
  <1>1. ASSUME NEW t \in Tokens, VerifyRead(p, t) \/ ResetRead(p, t)
        PROVE  Relies(p, a)'
    <2>1. CASE VerifyRead(p, t)
      <3>1. req'[p] = [op |-> "verify", on |-> token[t].on, token |-> t, first |-> First(token[t].on)]
        BY <2>1 DEF VerifyRead, Begin, Typed, TypeOK
      <3>2. req'[p].op = "verify" /\ token[t].on = a /\ req'[p].first = (a \notin verified)
        BY <3>1 DEF Works, First
      <3>3. Usable(t, "EMAIL_VERIFY") /\ row' = row /\ verified' = verified
        BY <2>1 DEF VerifyRead
      <3>4. <<"token", t>> \in Keys(a)
        BY <3>2, <3>3 DEF Keys, OfAccount, Issued, Exists, Usable
      <3>5. QED
        BY <1>0, <3>2, <3>3, <3>4 DEF Relies, At, Shut
    <2>2. CASE ResetRead(p, t)
      <3>1. req'[p] = [op |-> "reset", on |-> token[t].on, token |-> t]
        BY <2>2 DEF ResetRead, Begin, Typed, TypeOK
      <3>2. req'[p].op = "reset" /\ token[t].on = a /\ req'[p].token = t
        BY <3>1 DEF Works
      <3>3. Usable(t, "PASSWORD_RESET") /\ row' = row /\ token' = token
        BY <2>2 DEF ResetRead
      <3>4. <<"token", t>> \in Keys(a)
        BY <3>2, <3>3 DEF Keys, OfAccount, Issued, Exists, Usable
      <3>5. QED
        BY <1>0, <3>2, <3>3, <3>4 DEF Relies, At, Shut, Usable
    <2>3. QED
      BY <1>1, <2>1, <2>2
  <1>2. CASE VerifyCommit(p) /\ req'[p].op = "welcome" /\ req'[p].on = req[p].on
    <2>1. Works(p, a) /\ At(p, "verify") /\ row' = row /\ welcomes' = welcomes
      BY <1>2 DEF VerifyCommit, Works, OnAccount, At
    <2>2. req[p].first
      BY <1>2 DEF VerifyCommit, At, Finish, Goto, Idle, Typed, TypeOK
    <2>3. a \notin verified /\ ~ Shut(a)
      BY <1>0, <2>1, <2>2 DEF Relies
    <2>4. welcomes[a] = 0 /\ \A q \in Api : ~ (At(q, "welcome") /\ Works(q, a))
      BY <2>3 DEF WelcomedVerified, Works
    <2>5. QED
      BY <1>2, <2>1, <2>3, <2>4 DEF Relies, At, Shut, Works, OnAccount
  <1>3. CASE SweepTokens(p) /\ req'[p].op = "create" /\ req'[p].on = req[p].on
    <2>1. Works(p, a) /\ row' = row
      BY <1>3 DEF SweepTokens, Works, OnAccount, At
    <2>2. Outstanding(a)' = {}
      <3>1. token' = Without(Unspent(a))
        BY <1>3 DEF SweepTokens, Swept, Works
      <3>2. \A t \in Unspent(a) : token'[t].state = "deleted"
        <4>1. \A t \in Unspent(a) : t \in Tokens /\ token[t] \in Issuable
          BY UnspentTypes DEF Typed
        <4>2. QED
          BY <3>1, <4>1 DEF Without, Issuable
      <3>3. \A t \in Tokens \ Unspent(a) : token'[t] = token[t] /\ t \notin Outstanding(a)
        BY <3>1, UnspentTypes DEF Without, Typed
      <3>4. QED
        BY <3>2, <3>3 DEF Outstanding, Usable
    <2>3. QED
      BY <1>0, <1>3, <2>1, <2>2 DEF Relies, At, Shut
  <1>4. CASE RemoveCommit(p) /\ req'[p].op = "anonymise" /\ req'[p].on = req[p].on
    <2>1. Works(p, a)
      BY <1>4 DEF RemoveCommit, Works, OnAccount, At
    <2>2. row' = row
      BY <1>4 DEF RemoveCommit, Finish, Goto, Idle, Typed, TypeOK
    <2>3. QED
      BY <1>0, <1>4, <2>1, <2>2 DEF Relies, At, Shut
  <1>5. CASE OAuthLink(p) /\ req'[p].op = "mark" /\ req'[p].on = req[p].on
    <2>1. Works(p, a) /\ row' = row
      BY <1>5 DEF OAuthLink, Works, OnAccount, At
    <2>2. QED
      BY <1>0, <1>5, <2>1 DEF Relies, At, Shut
  <1>6. ASSUME CreateUser(p)
        PROVE  Relies(p, a)'
    <2>1. PICK b \in Account : Insert(b, req[p].email) /\ req'[p] = [op |-> "issue", on |-> b]
      BY <1>6 DEF CreateUser, Goto, Typed, TypeOK
    <2>2. b = a /\ req'[p].op = "issue"
      BY <2>1 DEF Works
    <2>3. row'[a] = "live"
      BY <2>1, <2>2 DEF Insert, Typed, TypeOK
    <2>4. QED
      BY <2>2, <2>3 DEF Relies, At, Shut
  <1>7. ASSUME NEW b \in Account, Live(b), req'[p].on = b, Arrive(p),
               req'[p].op \in {"issue", "sweep", "link", "approve", "remove"}
        PROVE  Relies(p, a)'
    BY <1>7, ArriveTypes DEF Relies, At, Shut, Live, Works, Typed
  <1>8. req'[p].op \notin {"idle", "register", "signup"}
    BY DEF Works, OnAccount
  <1>9. QED
    BY <1>1, <1>2, <1>3, <1>4, <1>5, <1>6, <1>7, <1>8, NextOps DEF Typed

\* Whoever removes an account erases the ways into it.
LEMMA ErasureShuts ==
    ASSUME Typed, Next, NEW a \in Account, ~ Shut(a), Shut(a)'
    PROVE  Keys(a)' = {}
  <1> USE DEF rows, mails
  <1>1. PICK p \in Api : Proceed(p)
    BY ArriveTypes DEF Next, Shut, SignIn, Expire, GainHistory, Crash, Typed
  <1>2. ~ (CreateUser(p) \/ OAuthCreate(p))
    BY DEF CreateUser, OAuthCreate, Insert, Shut, Typed, TypeOK
  <1>3. \E state \in {"anonymous", "gone"} : Erase(req[p].on, state) /\ req[p].on \in Account
    <2>1. row' # row
      BY DEF Shut
    <2>2. RemoveCommit(p) \/ Anonymise(p)
      BY <1>1, <1>2, <2>1 DEF Proceed, EmailTaken, IssueVerification, VerifyCommit, Welcome,
              ApproveCommit, SweepTokens, CreateResetToken, ResetCommit, OAuthLink, OAuthMark
    <2>3. QED
      BY <2>1, <2>2, RequestTypes DEF RemoveCommit, Anonymise, At, Typed
  <1>4. PICK state \in {"anonymous", "gone"} : Erase(a, state)
    BY <1>3 DEF Erase, Shut, Typed, TypeOK
  <1>5. \A t \in Tokens : t \in OfAccount(a)' => token'[t].state = "deleted"
    <2>1. \A t \in OfAccount(a) : token'[t].state = "deleted"
      <3>1. \A t \in OfAccount(a) : token[t] \in Issuable
        BY TokenTypes DEF OfAccount, Issued, Typed
      <3>2. QED
        BY <1>4, <3>1 DEF Erase, Without, OfAccount, Issued, Issuable
    <2>2. \A t \in Tokens \ OfAccount(a) : token'[t] = token[t]
      BY <1>4 DEF Erase, Without
    <2>3. QED
      BY <2>1, <2>2 DEF OfAccount, Issued
  <1>6. \A e \in Email : google'[e] = Idle \/ google'[e].on # a
    BY <1>4 DEF Erase, Unlinked, Typed, TypeOK
  <1>7. a \notin password' /\ a \notin DOMAIN email'
    BY <1>4 DEF Erase, Others
  <1>8. QED
    BY <1>5, <1>6, <1>7 DEF Keys, Exists, OfAccount, Issued

LEMMA NextFresh ==
    ASSUME Typed, WelcomedVerified, Fresh, Next
    PROVE  Fresh'
  <1>1. SUFFICES ASSUME NEW a \in Account, a \notin raced'
                 PROVE  /\ \A p \in Api : Works(p, a)' => Relies(p, a)'
                        /\ \A t, u \in Outstanding(a)' : t = u
                        /\ Shut(a)' => Keys(a)' = {}
    BY DEF Fresh
  <1>2. a \notin raced
    BY <1>1 DEF Next, Notice
  <1>3. ASSUME NEW p \in Api, Works(p, a)'
        PROVE  Relies(p, a)'
    <2>1. CASE req'[p] = req[p]
      BY <1>1, <1>3, <2>1, StillRelies DEF Works, OnAccount
    <2>2. CASE req'[p] # req[p]
      BY <1>1, <1>3, <2>2, OneActs, NowRelies DEF Typed
    <2>3. QED
      BY <2>1, <2>2
  <1>4. \A t, u \in Outstanding(a)' : t = u
    <2>1. CASE Outstanding(a)' \subseteq Outstanding(a)
      BY <1>2, <2>1 DEF Fresh
    <2>2. CASE ~ (Outstanding(a)' \subseteq Outstanding(a))
      <3>1. PICK p \in Api : CreateResetToken(p) /\ Works(p, a)
                               /\ \E t \in Tokens : Outstanding(a)' \subseteq Outstanding(a) \cup {t}
        BY <2>2, OutstandingSteps
      <3>2. Outstanding(a) = {}
        BY <1>2, <3>1 DEF Fresh, Relies, CreateResetToken
      <3>3. QED
        BY <3>1, <3>2
    <2>3. QED
      BY <2>1, <2>2
  <1>5. ASSUME Shut(a)'
        PROVE  Keys(a)' = {}
    <2>1. CASE Shut(a)
      <3>1. Keys(a) = {} /\ \A p \in Api : ~ Works(p, a)
        BY <1>2, <2>1 DEF Fresh, Relies
      <3>2. QED
        BY <2>1, <3>1, ShutStays
    <2>2. CASE ~ Shut(a)
      BY <1>5, <2>2, ErasureShuts
    <2>3. QED
      BY <2>1, <2>2
  <1>6. QED
    BY <1>3, <1>4, <1>5

-----------------------------------------------------------------------------
(***************************************************************************)
(* The invariant, and what follows.                                        *)
(***************************************************************************)

IInv == Typed /\ Unmade /\ SpentOnce /\ WelcomedVerified /\ Linking /\ Fresh

LEMMA InitIInv ==
    Init => IInv
  <1>1. SUFFICES ASSUME Init
                 PROVE  IInv
    OBVIOUS
  <1>2. Typed
    BY <1>1 DEF Init, Typed, TypeOK, TokensKnown, Requests, Unissued, Idle
  <1>3. \A p \in Api : req[p].op = "idle"
    BY <1>1 DEF Init, Idle
  <1>4. \A a \in Account : OfAccount(a) = {} /\ Outstanding(a) = {}
    BY <1>1 DEF Init, OfAccount, Issued, Outstanding, Usable
  <1>5. Unmade /\ SpentOnce /\ WelcomedVerified /\ Linking
    BY <1>1, <1>3, <1>4 DEF Init, Unmade, SpentOnce, WelcomedVerified, Linking, LinkedIsMarked,
                            Works, OnAccount, At
  <1>6. Fresh
    BY <1>1, <1>3, <1>4 DEF Init, Fresh, Works, OnAccount, Shut
  <1>7. QED
    BY <1>2, <1>5, <1>6 DEF IInv

LEMMA NextIInv ==
    IInv /\ [Next]_vars => IInv'
  <1>1. ASSUME IInv, Next
        PROVE  IInv'
    <2>1. [Next]_vars
      BY <1>1
    <2>2. QED
      BY <1>1, <2>1, NextTyped, NextUnmade, NextSpent, NextWelcomed, NextLinking, NextFresh DEF IInv
  <1>2. ASSUME IInv, UNCHANGED vars
        PROVE  IInv'
    BY <1>2 DEF vars, rows, mails, IInv, Typed, TypeOK, TokensKnown, Unmade, SpentOnce,
                WelcomedVerified, Linking, LinkedIsMarked, Fresh, Relies, Works, OnAccount, At,
                Shut, Keys, OfAccount, Issued, Outstanding, Usable, Exists
  <1>3. QED
    BY <1>1, <1>2

\* The invariant the theorems below rest on.
THEOREM Invariance ==
    Spec => []IInv
  BY InitIInv, NextIInv, PTL DEF Spec

\* All the variables keep their types.
THEOREM TypeCorrect ==
    Spec => []TypeOK
  <1>1. IInv => TypeOK
    BY DEF IInv, Typed
  <1>2. QED
    BY <1>1, Invariance, PTL

\* Whoever has come in with an address that Google had verified has a verified
\* account, unless the account was linked before Google had verified the address,
\* or the handler that linked it has yet to mark it or died before.
THEOREM GoogleVerifies ==
    Spec => []LinkedIsVerified
  <1>1. IInv => LinkedIsVerified
    BY DEF IInv, Linking, LinkedIsMarked, LinkedIsVerified
  <1>2. QED
    BY <1>1, Invariance, PTL

\* Nothing opens an account that was removed, or makes it open again, if no two
\* handlers met on it.
THEOREM RemovalShuts ==
    Spec => []RemovedStaysShut
  <1>1. IInv => RemovedStaysShut
    BY DEF IInv, Fresh, RemovedStaysShut, Shut
  <1>2. QED
    BY <1>1, Invariance, PTL

\* Nobody is welcomed a second time, however many verification links were sent, if
\* no two handlers met on the account.
THEOREM OneWelcome ==
    Spec => WelcomedOnce
  <1>1. ASSUME IInv, [Next]_vars, NEW a \in Account \ raced, welcomes'[a] > welcomes[a]
        PROVE  welcomes[a] = 0
    <2>1. welcomes'[a] # welcomes[a]
      BY <1>1 DEF IInv, Typed, TypeOK
    <2>2. Next
      BY <1>1, <2>1 DEF vars, mails
    <2>3. PICK p \in Api : Welcome(p) /\ req[p].on = a
      BY <1>1, <2>1, <2>2, WelcomeSteps DEF IInv
    <2>4. QED
      BY <1>1, <2>3 DEF IInv, Fresh, Relies, Welcome, Works, OnAccount, At
  <1>2. IInv /\ [Next]_vars => [\A a \in Account \ raced : welcomes'[a] > welcomes[a] => welcomes[a] = 0]_vars
    BY <1>1
  <1>3. QED
    BY <1>2, Invariance, PTL DEF Spec, WelcomedOnce

\* A reset link changes one password, if no two handlers met on the account.
THEOREM OneReset ==
    Spec => ResetIsSingleUse
  <1>1. ASSUME IInv, [Next]_vars, NEW t \in Tokens, spent'[t] > spent[t], token[t].on \notin raced
        PROVE  spent[t] = 0
    <2>1. spent'[t] # spent[t]
      BY <1>1 DEF IInv, Typed, TypeOK
    <2>2. Next
      BY <1>1, <2>1 DEF vars, mails
    <2>3. PICK p \in Api : ResetCommit(p) /\ req[p].token = t
      BY <1>1, <2>1, <2>2, TokenSteps DEF IInv
    <2>4. Works(p, req[p].on) /\ req[p].on \in Account /\ token[t].on = req[p].on /\ At(p, "reset")
      BY <1>1, <2>3, RequestTypes DEF IInv, Typed, TokensKnown, ResetCommit, Works, OnAccount, At
    <2>5. token[t].state = "unused"
      BY <1>1, <2>3, <2>4 DEF IInv, Fresh, Relies
    <2>6. QED
      BY <1>1, <2>5 DEF IInv, SpentOnce
  <1>2. IInv /\ [Next]_vars =>
          [\A t \in Tokens : spent'[t] > spent[t] /\ token[t].on \notin raced => spent[t] = 0]_vars
    BY <1>1
  <1>3. QED
    BY <1>2, Invariance, PTL DEF Spec, ResetIsSingleUse

\* An account has one link that is good, the newest, and none after a new password,
\* if no two handlers met on it.
THEOREM OneLink ==
    Spec => NewestLinkOnly
  <1>1. ASSUME IInv, [Next]_vars, NEW a \in Account \ raced
        PROVE  Cardinality(Outstanding(a)') <= 1
    <2>1. \/ Outstanding(a)' = {}
          \/ \E t \in Tokens : Outstanding(a)' = {t}
      <3>0. Fresh /\ a \in Account /\ a \notin raced
        BY <1>1 DEF IInv
      <3>1. \A t, u \in Outstanding(a) : t = u
        BY <3>0 DEF Fresh
      <3>2. CASE Outstanding(a)' \subseteq Outstanding(a)
        <4>1. \A t, u \in Outstanding(a)' : t = u
          BY <3>1, <3>2
        <4>2. Outstanding(a)' \subseteq Tokens
          BY DEF Outstanding
        <4>3. QED
          BY <4>1, <4>2
      <3>3. CASE ~ (Outstanding(a)' \subseteq Outstanding(a))
        <4>1. Next
          BY <1>1, <3>3 DEF vars, rows, Outstanding, Usable
        <4>2. PICK p \in Api : CreateResetToken(p) /\ Works(p, a)
                                 /\ \E t \in Tokens : Outstanding(a)' \subseteq Outstanding(a) \cup {t}
          BY <1>1, <3>3, <4>1, OutstandingSteps DEF IInv
        <4>3. Outstanding(a) = {}
          BY <1>1, <4>2 DEF IInv, Fresh, Relies, CreateResetToken
        <4>4. QED
          BY <4>2, <4>3
      <3>4. QED
        BY <3>2, <3>3
    <2>2. ASSUME NEW t \in Tokens, Outstanding(a)' = {t}
          PROVE  Cardinality(Outstanding(a)') = 1
      BY <2>2, FS_Singleton
    <2>3. Outstanding(a)' = {} => Cardinality(Outstanding(a)') = 0
      BY FS_EmptySet
    <2>4. QED
      BY <2>1, <2>2, <2>3
  <1>2. ASSUME IInv, [Next]_vars, NEW a \in Account, NEW t \in OfAccount(a), spent'[t] > spent[t]
        PROVE  Outstanding(a)' = {}
    <2>1. t \in Tokens /\ token[t] # Unissued /\ token[t].on = a
      BY DEF OfAccount, Issued
    <2>2. spent'[t] # spent[t]
      BY <1>2, <2>1 DEF IInv, Typed, TypeOK
    <2>3. Next
      BY <1>2, <2>2 DEF vars, mails
    <2>4. token' = Spend(t)
      BY <1>2, <2>1, <2>2, <2>3, TokenSteps DEF IInv
    <2>5. /\ token'[t].state = "used"
          /\ \A u \in Tokens \ {t} :
               token'[u] = IF u \in Unspent(a) THEN [token[u] EXCEPT !.state = "deleted"]
                           ELSE token[u]
      BY <1>2, <2>1, <2>4, SpendStays DEF IInv, Typed
    <2>6. \A u \in Unspent(a) : u \in Tokens /\ token[u] \in Issuable
      BY <1>2, UnspentTypes DEF IInv, Typed
    <2>7. \A u \in Unspent(a) \ {t} : token'[u].state = "deleted"
      BY <2>5, <2>6 DEF Issuable
    <2>8. \A u \in Tokens \ (Unspent(a) \cup {t}) : token'[u] = token[u] /\ u \notin Outstanding(a)
      BY <1>2, <2>5, UnspentTypes DEF IInv, Typed
    <2>9. QED
      BY <2>5, <2>7, <2>8 DEF Outstanding, Usable
  <1>3. IInv /\ [Next]_vars =>
          [\A a \in Account \ raced :
              /\ Cardinality(Outstanding(a)') <= 1
              /\ (\E t \in OfAccount(a) : spent'[t] > spent[t]) => Outstanding(a)' = {}]_vars
    BY <1>1, <1>2
  <1>4. QED
    BY <1>3, Invariance, PTL DEF Spec, NewestLinkOnly

=============================================================================
