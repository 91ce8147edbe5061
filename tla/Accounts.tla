------------------------------ MODULE Accounts ------------------------------
(***************************************************************************)
(* Accounts of customers: apps/authentication (views.py, models.py,        *)
(* serializers.py, services/auth_services.py) and apps/users.  A user      *)
(* registers, proves an address with a mailed code, resets or changes the  *)
(* password, edits the profile, signs in with Google; staff deactivate and *)
(* reactivate.  Codes and reset tokens travel by a Celery mail task        *)
(* (apps/notifications).                                                   *)
(*                                                                         *)
(* Registration and Google sign-in are transactions; every other request   *)
(* commits statement by statement, and others run in between.  The library *)
(* that issues and blacklists JWTs is not modelled: a request that needs   *)
(* one is made by any account that is active when it is authenticated.     *)
(* User names are left out: a name that is taken fails like an address.    *)
(***************************************************************************)
EXTENDS FiniteSets

CONSTANTS
  User,      \* primary keys of accounts
  Email, Password,
  Google,    \* Google accounts, by their "sub"
  Code,      \* EmailOTP rows; two live codes of one address differ
  Token,     \* PasswordResetToken rows
  Web,       \* sessions of the web workers
  None       \* no user, address, password, Google account, code or token

ASSUME NoneAssumption == None \notin User \cup Email \cup Password \cup Google \cup Code \cup Token
ASSUME KindsDiffer == Code \cap Token = {}

VARIABLES
  user,    \* User rows: email, password (None: unusable), is_email_verified, is_active
  link,    \* GoogleOAuthAccount rows: the user of a Google account, or None
  code,    \* EmailOTP rows: user, email, is_used
  token,   \* PasswordResetToken rows: user, is_used
  lapsed,  \* codes and tokens past their expires_at
  mail,    \* NotificationLog status of the mail that carries a code or token
  login,   \* history: the users each Google account was signed in as
  job      \* what each session is in the middle of

vars == <<user, link, code, token, lapsed, mail, login, job>>

-----------------------------------------------------------------------------

NoUser == [email |-> None, password |-> None, verified |-> FALSE, active |-> FALSE]
NoCode == [user |-> None, email |-> None, used |-> FALSE]
NoToken == [user |-> None, used |-> FALSE]
Idle == [step |-> "idle", user |-> None, item |-> None, google |-> None,
         email |-> None, password |-> None, seen |-> NoUser, flag |-> FALSE]

Exists(u) == user[u].email # None

\* email is unique: the serializers look, and the constraint decides.
Free(e, u) == \A v \in User \ {u} : user[v].email # e

Linked(u) == \E g \in Google : link[g] = u

Begin(w, j) == job[w] = Idle /\ job' = [job EXCEPT ![w] = j]
Continue(w, j) == job' = [job EXCEPT ![w] = j]
End(w) == Continue(w, Idle)

-----------------------------------------------------------------------------
(* Codes and tokens are rows; the mail that carries them is a task.        *)

\* The task is queued before the transaction of a registration commits; when
\* the broker is down the row is there and no mail ever goes out.
Queue(x) == \E status \in {"queued", "lost"} : mail' = [mail EXCEPT ![x] = status]

\* generate_and_send_otp
NewCode(u, e) ==
  \E c \in Code :
    /\ code[c] = NoCode
    /\ code' = [code EXCEPT ![c] = [user |-> u, email |-> e, used |-> FALSE]]
    /\ Queue(c)

\* Faulty variant: the log gets a status of its own for an exception.
RunMail_Word(x) ==
  /\ mail[x] = "queued"
  /\ \E status \in {"sent", "error"} : mail' = [mail EXCEPT ![x] = status]
  /\ UNCHANGED <<user, link, code, token, lapsed, login, job>>

\* send_email_task: its log row says what became of the mail, unless the
\* worker is killed, which leaves the row at "queued" and the mail sent or not.
RunMail(x) ==
  /\ mail[x] = "queued"
  /\ \E status \in {"sent", "failed"} : mail' = [mail EXCEPT ![x] = status]
  /\ UNCHANGED <<user, link, code, token, lapsed, login, job>>

LoseMail(x) ==
  /\ mail[x] = "queued"
  /\ mail' = [mail EXCEPT ![x] = "lost"]
  /\ UNCHANGED <<user, link, code, token, lapsed, login, job>>

\* What a customer can send back: a code or token that has arrived in time.
Usable(x) == mail[x] = "sent" /\ x \notin lapsed

Lapse(x) ==
  /\ mail[x] # "none"
  /\ lapsed' = lapsed \cup {x}
  /\ UNCHANGED <<user, link, code, token, mail, login, job>>

-----------------------------------------------------------------------------
(* RegisterView: one transaction.                                          *)

Register(u, e, p) ==
  /\ ~Exists(u) /\ Free(e, u)
  /\ user' = [user EXCEPT ![u] = [email |-> e, password |-> p, verified |-> FALSE, active |-> TRUE]]
  /\ NewCode(u, e)
  /\ UNCHANGED <<link, token, lapsed, login, job>>

-----------------------------------------------------------------------------
(* OTPRequestView and OTPVerifyView.                                       *)

RequestCode(u) ==
  /\ Exists(u)
  /\ NewCode(u, user[u].email)
  /\ UNCHANGED <<user, link, token, lapsed, login, job>>

\* verify_otp: the row is read, ...
LookCode(w, c) ==
  /\ code[c].user # None /\ ~code[c].used /\ Usable(c)
  /\ Begin(w, [Idle EXCEPT !.step = "spend", !.item = c])
  /\ UNCHANGED <<user, link, code, token, lapsed, mail, login>>

\* Faulty variant: the account is marked first and the code afterwards.
SpendCode_Later(w) ==
  /\ job[w].step = "spend"
  /\ LET u == code[job[w].item].user
     IN  user' = [user EXCEPT ![u].verified = TRUE]
  /\ Continue(w, [job[w] EXCEPT !.step = "mark"])
  /\ UNCHANGED <<link, code, token, lapsed, mail, login>>

\* ... marked as used, ...
SpendCode(w) ==
  /\ job[w].step = "spend"
  /\ code' = [code EXCEPT ![job[w].item].used = TRUE]
  /\ Continue(w, [job[w] EXCEPT !.step = "mark"])
  /\ UNCHANGED <<user, link, token, lapsed, mail, login>>

\* ... and its user as verified, with update_fields.
MarkVerified(w) ==
  /\ job[w].step = "mark"
  /\ LET u == code[job[w].item].user
     IN  user' = [user EXCEPT ![u].verified = TRUE]
  /\ End(w)
  /\ UNCHANGED <<link, code, token, lapsed, mail, login>>

-----------------------------------------------------------------------------
(* ForgotPasswordView, ResetPasswordView, ChangePasswordView.              *)

\* create_password_reset_token; the account need not be active or verified.
Forgot(u) ==
  /\ Exists(u)
  /\ \E t \in Token :
       /\ token[t] = NoToken
       /\ token' = [token EXCEPT ![t] = [user |-> u, used |-> FALSE]]
       /\ Queue(t)
  /\ UNCHANGED <<user, link, code, lapsed, login, job>>

LookToken(w, t, p) ==
  /\ token[t] # NoToken /\ ~token[t].used /\ Usable(t)
  /\ Begin(w, [Idle EXCEPT !.step = "password", !.user = token[t].user, !.item = t, !.password = p])
  /\ UNCHANGED <<user, link, code, token, lapsed, mail, login>>

\* The current password is compared with the row that authentication read.
LookChange(w, u, p) ==
  /\ user[u].active /\ user[u].password # None
  /\ Begin(w, [Idle EXCEPT !.step = "password", !.user = u, !.password = p])
  /\ UNCHANGED <<user, link, code, token, lapsed, mail, login>>

\* The password alone is saved, and then the token, in a statement of its own.
SavePassword(w) ==
  /\ job[w].step = "password"
  /\ user' = [user EXCEPT ![job[w].user].password = job[w].password]
  /\ IF job[w].item = None THEN End(w) ELSE Continue(w, [job[w] EXCEPT !.step = "token"])
  /\ UNCHANGED <<link, code, token, lapsed, mail, login>>

SpendToken(w) ==
  /\ job[w].step = "token"
  /\ token' = [token EXCEPT ![job[w].item].used = TRUE]
  /\ End(w)
  /\ UNCHANGED <<user, link, code, lapsed, mail, login>>

-----------------------------------------------------------------------------
(* MeView.patch and AdminCustomerStatusView.                               *)

\* The row that authentication read is the one the serializer fills in.
LookProfile(w, u, e) ==
  /\ user[u].active /\ Free(e, u)
  /\ Begin(w, [Idle EXCEPT !.step = "profile", !.user = u, !.email = e, !.seen = user[u]])
  /\ UNCHANGED <<user, link, code, token, lapsed, mail, login>>

\* save() without update_fields writes every column as it was read.  The
\* constraint on email may refuse it.
SaveProfile(w) ==
  /\ job[w].step = "profile"
  /\ user' = IF Free(job[w].email, job[w].user)
             THEN [user EXCEPT ![job[w].user] = [job[w].seen EXCEPT !.email = job[w].email]]
             ELSE user
  /\ End(w)
  /\ UNCHANGED <<link, code, token, lapsed, mail, login>>

LookStatus(w, u) ==
  /\ Exists(u)
  /\ Begin(w, [Idle EXCEPT !.step = "status", !.user = u, !.flag = ~user[u].active])
  /\ UNCHANGED <<user, link, code, token, lapsed, mail, login>>

SaveStatus(w) ==
  /\ job[w].step = "status"
  /\ user' = [user EXCEPT ![job[w].user].active = job[w].flag]
  /\ End(w)
  /\ UNCHANGED <<link, code, token, lapsed, mail, login>>

-----------------------------------------------------------------------------
(* GoogleOAuthLoginView: one transaction; Google vouches for g and e.      *)

\* Faulty variant: the address is looked up first.
FindLink_ByEmail(w, g, e) ==
  /\ LET found == {u \in User : user[u].email = e}
     IN  \/ \E u \in found : Begin(w, [Idle EXCEPT !.step = "login", !.user = u, !.google = g])
         \/ /\ found = {}
            /\ Begin(w, [Idle EXCEPT !.step = "find", !.google = g, !.email = e])
  /\ UNCHANGED <<user, link, code, token, lapsed, mail, login>>

\* The Google account decides, whatever its address is today.
FindLink(w, g, e) ==
  /\ IF link[g] # None
     THEN Begin(w, [Idle EXCEPT !.step = "login", !.user = link[g], !.google = g,
                                !.flag = user[link[g]].verified])
     ELSE Begin(w, [Idle EXCEPT !.step = "find", !.google = g, !.email = e])
  /\ UNCHANGED <<user, link, code, token, lapsed, mail, login>>

\* Else the address does; a user who is linked already is refused.
FindUser(w) ==
  /\ job[w].step = "find"
  /\ \/ \E u \in User :
          /\ user[u].email = job[w].email
          /\ IF Linked(u)
             THEN End(w)
             ELSE Continue(w, [job[w] EXCEPT !.step = "link", !.user = u, !.flag = user[u].verified])
     \/ /\ Free(job[w].email, None)
        /\ Continue(w, [job[w] EXCEPT !.step = "signup"])
  /\ UNCHANGED <<user, link, code, token, lapsed, mail, login>>

SignIn(g, u) == login' = [login EXCEPT ![g] = @ \cup {u}]

\* Only a user that was read as not verified is saved, and only that field.
Vouch(w, u) == user' = IF job[w].flag THEN user ELSE [user EXCEPT ![u].verified = TRUE]

\* Faulty variant: no transaction, so a user whose link is refused stays.
SignUp_NotAtomic(w) ==
  /\ job[w].step = "signup"
  /\ LET g == job[w].google
     IN  \E u \in User :
           /\ ~Exists(u) /\ Free(job[w].email, u)
           /\ user' = [user EXCEPT ![u] = [email |-> job[w].email, password |-> None,
                                           verified |-> TRUE, active |-> TRUE]]
           /\ IF link[g] = None THEN link' = [link EXCEPT ![g] = u] /\ SignIn(g, u)
                                ELSE UNCHANGED <<link, login>>
  /\ End(w)
  /\ UNCHANGED <<code, token, lapsed, mail>>

\* A user without a usable password, and its link; one of the constraints may
\* refuse a row, and then neither is there.
SignUp(w) ==
  /\ job[w].step = "signup"
  /\ LET g == job[w].google
     IN  \/ \E u \in User :
              /\ ~Exists(u) /\ Free(job[w].email, u) /\ link[g] = None
              /\ user' = [user EXCEPT ![u] = [email |-> job[w].email, password |-> None,
                                              verified |-> TRUE, active |-> TRUE]]
              /\ link' = [link EXCEPT ![g] = u]
              /\ SignIn(g, u)
         \/ /\ ~Free(job[w].email, None) \/ link[g] # None
            /\ UNCHANGED <<user, link, login>>
  /\ End(w)
  /\ UNCHANGED <<code, token, lapsed, mail>>

\* The link of a user who is there; google_sub and user are unique in it.
LinkUser(w) ==
  /\ job[w].step = "link"
  /\ LET g == job[w].google
         u == job[w].user
     IN  IF link[g] = None /\ ~Linked(u)
         THEN /\ link' = [link EXCEPT ![g] = u]
              /\ Vouch(w, u)
              /\ SignIn(g, u)
         ELSE UNCHANGED <<link, user, login>>
  /\ End(w)
  /\ UNCHANGED <<code, token, lapsed, mail>>

LogIn(w) ==
  /\ job[w].step = "login"
  /\ Vouch(w, job[w].user)
  /\ SignIn(job[w].google, job[w].user)
  /\ End(w)
  /\ UNCHANGED <<link, code, token, lapsed, mail>>

\* A worker killed between two statements.
Abort(w) ==
  /\ job[w] # Idle
  /\ End(w)
  /\ UNCHANGED <<user, link, code, token, lapsed, mail, login>>

-----------------------------------------------------------------------------

Init ==
  /\ user = [u \in User |-> NoUser]
  /\ link = [g \in Google |-> None]
  /\ code = [c \in Code |-> NoCode]
  /\ token = [t \in Token |-> NoToken]
  /\ lapsed = {}
  /\ mail = [x \in Code \cup Token |-> "none"]
  /\ login = [g \in Google |-> {}]
  /\ job = [w \in Web |-> Idle]

Next ==
  \/ \E u \in User :
       \/ \E e \in Email, p \in Password : Register(u, e, p)
       \/ RequestCode(u) \/ Forgot(u)
  \/ \E x \in Code \cup Token : RunMail(x) \/ LoseMail(x) \/ Lapse(x)
  \/ \E w \in Web :
       \/ \E c \in Code : LookCode(w, c)
       \/ SpendCode(w) \/ MarkVerified(w)
       \/ \E t \in Token, p \in Password : LookToken(w, t, p)
       \/ \E u \in User, p \in Password : LookChange(w, u, p)
       \/ SavePassword(w) \/ SpendToken(w)
       \/ \E u \in User, e \in Email : LookProfile(w, u, e)
       \/ SaveProfile(w)
       \/ \E u \in User : LookStatus(w, u)
       \/ SaveStatus(w)
       \/ \E g \in Google, e \in Email : FindLink(w, g, e)
       \/ FindUser(w) \/ SignUp(w) \/ LinkUser(w) \/ LogIn(w)
       \/ Abort(w)

Spec == Init /\ [][Next]_vars

-----------------------------------------------------------------------------
(* Properties.                                                             *)

Rows == [email : Email \cup {None}, password : Password \cup {None},
         verified : BOOLEAN, active : BOOLEAN]

Jobs ==
  [step : {"idle", "spend", "mark", "password", "token", "profile", "status",
           "login", "find", "signup", "link"},
   user : User \cup {None}, item : Code \cup Token \cup {None},
   google : Google \cup {None}, email : Email \cup {None},
   password : Password \cup {None}, seen : Rows, flag : BOOLEAN]

\* Every row, mail and session has the shape the models give it.
TypeOK ==
  /\ user \in [User -> Rows]
  /\ link \in [Google -> User \cup {None}]
  /\ code \in [Code -> [user : User \cup {None}, email : Email \cup {None}, used : BOOLEAN]]
  /\ token \in [Token -> [user : User \cup {None}, used : BOOLEAN]]
  /\ lapsed \subseteq Code \cup Token
  /\ mail \in [Code \cup Token -> {"none", "queued", "sent", "failed", "lost"}]
  /\ login \in [Google -> SUBSET User]
  /\ job \in [Web -> Jobs]

\* What entitles an account to is_email_verified: a mailed code of its own that
\* has been used, or a Google account.
Proven(u) == Linked(u) \/ \E c \in Code : code[c].user = u /\ code[c].used

\* No overlap of verifications, sign-ins and profile saves (which write the flag
\* as it was) marks an account as verified that has proven nothing.
VerifiedIsProven == \A u \in User : user[u].verified => Proven(u)

\* A Google account signs in as one user for good, though its address changes
\* hands and two sign-ins race.
SameUserEachTime == \A g \in Google : login[g] \subseteq {link[g]}

\* An account without a usable password has a Google account to sign in with:
\* a sign-up that loses a race leaves nothing behind.
CanSignIn == \A u \in User : Exists(u) /\ user[u].password = None => Linked(u)

-----------------------------------------------------------------------------
(* What one would expect and the code does not keep: see README.           *)

\* An account that staff deactivated is only reactivated by staff
\* (test_admin_can_deactivate_and_reactivate_customer_without_deleting_orders).
DeactivationLasts ==
  [][\A u \in User : Exists(u) /\ ~user[u].active /\ user'[u].active =>
       \E w \in Web : job[w].step = "status"]_vars

\* A password changes when it is reset or changed, not when a profile is saved.
PasswordStays ==
  [][\A u \in User : Exists(u) /\ user'[u].password # user[u].password =>
       \E w \in Web : job[w].step = "password"]_vars

\* A reset token changes one password, once (is_used).
TokenUsedOnce ==
  \A v, w \in Web : v # w /\ job[v].step = "password" /\ job[w].step = "password" =>
    job[v].item = None \/ job[v].item # job[w].item

\* is_email_verified speaks of the address the account has.
VerifiedAddress ==
  \A u \in User : user[u].verified =>
    Linked(u) \/ \E c \in Code : code[c] = [user |-> u, email |-> user[u].email, used |-> TRUE]
=============================================================================
