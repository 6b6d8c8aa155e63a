------------------------------ MODULE Accounts ------------------------------
(***************************************************************************)
(* Accounts: sign-up, sign-in, verification and the limiters of            *)
(* api/auth.py, roles and activation of api/routers/admin.py.  Requests    *)
(* interleave at their awaits; each SELECT sees what is committed at the   *)
(* time (READ COMMITTED).  Passwords, hashes and signatures are left out.  *)
(***************************************************************************)
EXTENDS Limiter, FiniteSets

CONSTANTS
  Founders,     \* the names of the admins there are at first
  Names,        \* names people sign up with
  Emails,       \* addresses they may give, or NoEmail
  Requests,     \* sign-ups and admin requests under way at a time
  SignUpLimit, SignUpWindow,    \* _REGISTER_MAX_PER_WINDOW, ..._SECONDS
  ForgotLimit, ForgotWindow,    \* _FORGOT_MAX_PER_WINDOW, ..._SECONDS
  AccessTTL     \* jwt_access_ttl_seconds

NoEmail == "no address"

(* A name is a pair: how it reads in lower case, and how it is spelt.      *)
Lower(name) == name[1]

ASSUME AccountsAssumption ==
  /\ Founders # {}
  /\ \A n, m \in Founders : Lower(n) = Lower(m) => n = m
  /\ AccessTTL \in Nat
  /\ SignUpLimit \in Nat /\ SignUpWindow \in Nat
  /\ ForgotLimit \in Nat /\ ForgotWindow \in Nat

VARIABLES
  accounts,     \* the committed rows of users
  token,        \* until when the newest access token of a name is valid
  requests,     \* the requests under way
  signUps,      \* _register_times
  forgots,      \* _forgot_times
  admitted,     \* history: the times sign-ups were admitted at
  sameName,     \* history: names and addresses two sign-ups checked at once
  overtaken     \* history: an admin's count was out of date when he wrote

accountVars == <<accounts, token, requests, signUps, forgots, admitted,
                 sameName, overtaken>>

Account(name, email, role) ==
  [name |-> name, email |-> email, role |-> role, active |-> TRUE,
   verified |-> FALSE]

AccountsInit ==
  /\ accounts = {Account(n, NoEmail, "admin") : n \in Founders}
  /\ token = [n \in Founders \cup Names |-> 0]
  /\ requests = {}
  /\ signUps = <<>> /\ forgots = <<>> /\ admitted = <<>>
  /\ sameName = {}
  /\ overtaken = FALSE

--------------------------------------------------------------------------
(* issue_token() and decode_token(): a name is signed in until its newest  *)
(* access token expires.                                                   *)
Issue(tokens, name) == [tokens EXCEPT ![name] = clock + AccessTTL]
Valid(name) == clock < token[name]

(* current_user(), require_admin()                                         *)
CurrentUser(a) == Valid(a.name) /\ a.active
RequireAdmin(a) == CurrentUser(a) /\ a.role = "admin"

Replace(a, b) == accounts' = (accounts \ {a}) \cup {b}

(* login(), and refresh_token() with a cookie, which outlives the model's  *)
(* clock.                                                                  *)
SignIn(a) ==
  /\ a.active
  /\ token' = Issue(token, a.name)
  /\ UNCHANGED <<accounts, requests, signUps, forgots, admitted, sameName, overtaken>>

(* The link of register() or resend_verification() is opened.              *)
VerifyEmail(a) ==
  /\ a.email # NoEmail
  /\ Replace(a, [a EXCEPT !.verified = TRUE])
  /\ UNCHANGED <<token, requests, signUps, forgots, admitted, sameName, overtaken>>

(* forgot_password(): the limiter counts every call, whoever it is for.    *)
ForgotPassword ==
  /\ forgots' = Called(forgots, ForgotLimit, ForgotWindow)
  /\ UNCHANGED <<accounts, token, requests, signUps, admitted, sameName, overtaken>>

--------------------------------------------------------------------------
(* Sign-up *)

(* Mutant: the name is looked up as it is spelt.                           *)
Exactly(a, name) == a.name = name
SameName(a, name) == Lower(a.name) = Lower(name)

Free(id) == \A r \in requests : r.id # id
Checking(r) == r.kind = "signUp"

(* The SELECT by name, and all register() does before it.                  *)
Register(id, name, email) ==
  /\ Free(id)
  /\ \A a \in accounts : ~SameName(a, name)
  /\ requests' = requests \cup
       {[id |-> id, kind |-> "signUp", name |-> name, email |-> email, at |-> "email"]}
  /\ UNCHANGED <<accounts, token, signUps, forgots, admitted, sameName, overtaken>>

(* The SELECT by address, and the limiter, which comes last: whatever      *)
(* fails before it costs no quota.                                         *)
Admit(r) ==
  /\ Checking(r) /\ r.at = "email"
  /\ IF r.email # NoEmail /\ \E a \in accounts : a.email = r.email
     THEN requests' = requests \ {r} /\ UNCHANGED <<signUps, admitted>>
     ELSE /\ signUps' = Called(signUps, SignUpLimit, SignUpWindow)
          /\ IF Admits(signUps, SignUpLimit, SignUpWindow)
             THEN /\ requests' = (requests \ {r}) \cup {[r EXCEPT !.at = "insert"]}
                  /\ admitted' = Append(admitted, clock)
             ELSE requests' = requests \ {r} /\ UNCHANGED admitted
  /\ UNCHANGED <<accounts, token, forgots, sameName, overtaken>>

(* The INSERT and its commit; only the exact name is unique.               *)
InsertUser(r) ==
  LET others == {q \in requests \ {r} : Checking(q)}
  IN /\ Checking(r) /\ r.at = "insert"
     /\ requests' = requests \ {r}
     /\ IF \E a \in accounts : a.name = r.name
        THEN UNCHANGED <<accounts, token, sameName>>
        ELSE /\ accounts' = accounts \cup {Account(r.name, r.email, "member")}
             /\ token' = Issue(token, r.name)
             /\ sameName' = sameName
                  \cup {Lower(q.name) :
                          q \in {o \in others : Lower(o.name) = Lower(r.name)}}
                  \cup {q.email :
                          q \in {o \in others : o.at = "insert" /\ o.email = r.email}}
     /\ UNCHANGED <<signUps, forgots, admitted, overtaken>>

--------------------------------------------------------------------------
(* Roles and activation: set_role() and set_active() load the row, count   *)
(* the active admins if one is about to go, and write what they were told. *)
ActiveAdmins == {a \in accounts : a.role = "admin" /\ a.active}

(* Mutant: a deactivation is not counted.                                  *)
OnlyDemotes(a, change) == a.role = "admin" /\ change = "member"
Changes == {"admin", "member", "active", "inactive"}
Removes(a, change) == a.role = "admin" /\ change \in {"member", "inactive"}

ChangeUser(id, admin, a, change) ==
  /\ Free(id)
  /\ RequireAdmin(admin)
  /\ requests' = requests \cup
       {[id |-> id, kind |-> "change", name |-> a.name, change |-> change,
         at |-> IF Removes(a, change) THEN "count" ELSE "write", loaded |-> a]}
  /\ UNCHANGED <<accounts, token, signUps, forgots, admitted, sameName, overtaken>>

CountAdmins(r) ==
  /\ r.kind = "change" /\ r.at = "count"
  /\ requests' = IF Cardinality(ActiveAdmins) <= 1 THEN requests \ {r}
                 ELSE (requests \ {r}) \cup {[r EXCEPT !.at = "write"]}
  /\ UNCHANGED <<accounts, token, signUps, forgots, admitted, sameName, overtaken>>

Changed(a, change) ==
  CASE change \in {"admin", "member"} -> [a EXCEPT !.role = change]
    [] change = "inactive" -> [a EXCEPT !.active = FALSE]
    [] change = "active" -> [a EXCEPT !.active = TRUE]

(* The UPDATE, of a column that differs from the row as loaded.            *)
WriteUser(r) ==
  LET a == CHOOSE b \in accounts : b.name = r.name
      b == IF Changed(r.loaded, r.change) = r.loaded THEN a ELSE Changed(a, r.change)
  IN /\ r.kind = "change" /\ r.at = "write"
     /\ Replace(a, b)
     /\ requests' = requests \ {r}
     /\ overtaken' = (overtaken \/ (b # a /\ \E q \in requests \ {r} : q.kind = "change"))
     /\ UNCHANGED <<token, signUps, forgots, admitted, sameName>>

(* A request ends before its commit.                                       *)
GiveUp(r) ==
  /\ requests' = requests \ {r}
  /\ UNCHANGED <<accounts, token, signUps, forgots, admitted, sameName, overtaken>>

(* The API restarts: the limiters forget, requests end.                    *)
ApiRestarts ==
  /\ requests' = {}
  /\ signUps' = <<>> /\ forgots' = <<>> /\ admitted' = <<>>
  /\ UNCHANGED <<accounts, token, sameName, overtaken>>

SignUpStep ==
  \/ \E a \in accounts : VerifyEmail(a)
  \/ ForgotPassword
  \/ \E id \in Requests, n \in Names, e \in Emails : Register(id, n, e)
  \/ \E r \in requests : Admit(r) \/ InsertUser(r) \/ GiveUp(r)
  \/ ApiRestarts

AdminStep ==
  \/ \E a \in accounts : SignIn(a)
  \/ \E id \in Requests, admin, a \in accounts, c \in Changes :
       ChangeUser(id, admin, a, c)
  \/ \E r \in requests : CountAdmins(r) \/ WriteUser(r) \/ GiveUp(r)
  \/ ApiRestarts

AccountsTick == Tick /\ UNCHANGED accountVars

--------------------------------------------------------------------------
(* There is an active admin left, but where two changes of roles or        *)
(* activation overlapped and one counted what the other took away.         *)
AdminsRemain == ~overtaken => ActiveAdmins # {}

(* Two accounts of one name, however spelt, or of one address come only    *)
(* from sign-ups that checked before either was committed.                 *)
OneAccountEach ==
  \A a, b \in accounts : a # b =>
    /\ Lower(a.name) = Lower(b.name) => Lower(a.name) \in sameName
    /\ a.email = b.email /\ a.email # NoEmail => a.email \in sameName

=============================================================================
