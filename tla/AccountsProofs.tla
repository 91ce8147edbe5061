---------------------------- MODULE AccountsProofs ----------------------------
(***************************************************************************)
(* Proofs about Accounts, for any accounts, addresses, codes, Google       *)
(* accounts and sessions.  Requests write long after they read; the proofs *)
(* rest on what they have read being of the kind that stays true: codes    *)
(* stay used, links stay, accounts stay (Grows).                           *)
(***************************************************************************)
EXTENDS Accounts, TLAPS

\* What a session has found out and relies on when it writes.
Knows(j) ==
  /\ j.step \in {"spend", "mark"} => j.item \in Code /\ code[j.item].user \in User
  /\ j.step = "mark" => code[j.item].used
  /\ j.step = "password" => j.user \in User /\ j.password \in Password /\ j.item \in Token \cup {None}
  /\ j.step = "token" => j.item \in Token
  /\ j.step = "profile" => /\ j.user \in User /\ j.email \in Email
                           /\ j.seen.verified => Proven(j.user)
                           /\ j.seen.password = None => Linked(j.user)
  /\ j.step = "status" => j.user \in User /\ Exists(j.user)
  /\ j.step = "login" => j.google \in Google /\ j.user \in User /\ link[j.google] = j.user
  /\ j.step \in {"find", "signup"} => j.google \in Google /\ j.email \in Email
  /\ j.step = "link" => j.google \in Google /\ j.user \in User

ActiveExists == \A u \in User : user[u].active => Exists(u)

RowTypes ==
  /\ user \in [User -> Rows]
  /\ link \in [Google -> User \cup {None}]
  /\ code \in [Code -> [user : User \cup {None}, email : Email \cup {None}, used : BOOLEAN]]
  /\ token \in [Token -> [user : User \cup {None}, used : BOOLEAN]]
  /\ lapsed \subseteq Code \cup Token
  /\ mail \in [Code \cup Token -> {"none", "queued", "sent", "failed", "lost"}]
  /\ login \in [Google -> SUBSET User]

RowsOK == RowTypes /\ VerifiedIsProven /\ SameUserEachTime /\ CanSignIn /\ ActiveExists

SessionsOK == job \in [Web -> Jobs] /\ \A w \in Web : Knows(job[w])

Inv == RowsOK /\ SessionsOK

\* What no step takes back.
Grows ==
  /\ \A g \in Google : link[g] # None => link'[g] = link[g]
  /\ \A c \in Code : code[c].user \in User =>
       code'[c].user = code[c].user /\ (code[c].used => code'[c].used)
  /\ \A u \in User : Exists(u) => Exists(u)'

LEMMA ProvenStays ==
  ASSUME Inv, Grows, NEW u \in User
  PROVE  (Linked(u) => Linked(u)') /\ (Proven(u) => Proven(u)')
  <1>1. Linked(u) => Linked(u)'
    BY NoneAssumption DEF Inv, RowsOK, RowTypes, Grows, Linked
  <1>2. QED
    BY <1>1 DEF Grows, Proven

LEMMA KnowsStays ==
  ASSUME Inv, Grows, NEW j \in Jobs, Knows(j) PROVE Knows(j)'
  <1>1. j.step = "profile" => /\ j.seen.verified => Proven(j.user)'
                              /\ j.seen.password = None => Linked(j.user)'
    BY ProvenStays DEF Knows
  <1>2. j.step \in {"spend", "mark"} => code'[j.item].user \in User
    BY DEF Knows, Grows
  <1>3. j.step = "mark" => code'[j.item].used
    BY DEF Knows, Grows
  <1>4. j.step = "status" => Exists(j.user)'
    BY DEF Knows, Grows
  <1>5. j.step = "login" => link'[j.google] = j.user
    BY NoneAssumption DEF Knows, Grows
  <1>6. QED
    BY <1>1, <1>2, <1>3, <1>4, <1>5 DEF Knows

LEMMA IdleKnows == Idle \in Jobs /\ Knows(Idle) /\ Knows(Idle)'
  BY DEF Idle, Jobs, Rows, NoUser, Knows

\* A step of one session, from what it does to the rows and where it goes.
LEMMA StepKeeps ==
  ASSUME Inv, RowsOK', Grows, NEW w \in Web, NEW j \in Jobs, Knows(j)', Continue(w, j)
  PROVE  Inv'
  <1>1. \A x \in Web : job'[x] \in Jobs /\ Knows(job[x])'
    <2> SUFFICES ASSUME NEW x \in Web PROVE job'[x] \in Jobs /\ Knows(job[x])'
      OBVIOUS
    <2>1. CASE x = w
      <3>1. job'[x] = j
        BY <2>1 DEF Continue, Inv, SessionsOK
      <3>2. QED
        BY <3>1 DEF Knows
    <2>2. CASE x # w
      <3>1. PICK k \in Jobs : k = job[x] /\ k = job'[x]
        BY <2>2 DEF Continue, Inv, SessionsOK
      <3>2. Knows(k)
        BY <3>1 DEF Inv, SessionsOK
      <3>3. Knows(k)'
        BY <3>2, KnowsStays
      <3>4. QED
        BY <3>1, <3>3 DEF Knows
    <2>3. QED
      BY <2>1, <2>2
  <1>2. QED
    BY <1>1 DEF Inv, SessionsOK, Continue

LEMMA EndKeeps ==
  ASSUME Inv, RowsOK', Grows, NEW w \in Web, End(w) PROVE Inv'
  BY IdleKnows, StepKeeps DEF End

\* A step of no session.
LEMMA OthersKeep ==
  ASSUME Inv, RowsOK', Grows, UNCHANGED job PROVE Inv'
  <1>1. \A x \in Web : Knows(job[x])'
    <2> SUFFICES ASSUME NEW x \in Web PROVE Knows(job[x])'
      OBVIOUS
    <2>1. PICK k \in Jobs : k = job[x] /\ k = job'[x]
      BY DEF Inv, SessionsOK
    <2>2. Knows(k)'
      BY <2>1, KnowsStays DEF Inv, SessionsOK
    <2>3. QED
      BY <2>1, <2>2 DEF Knows
  <1>2. QED
    BY <1>1 DEF Inv, SessionsOK

\* A request that only reads.
LEMMA ReadKeeps ==
  ASSUME Inv, NEW w \in Web, NEW j \in Jobs, Knows(j), Begin(w, j) \/ Continue(w, j),
         UNCHANGED <<user, link, code, token, lapsed, mail, login>>
  PROVE  Inv'
  <1>1. RowsOK' /\ Grows
    BY DEF Inv, RowsOK, RowTypes, VerifiedIsProven, SameUserEachTime, CanSignIn, ActiveExists,
           Proven, Linked, Exists, Grows
  <1>2. Knows(j)'
    BY <1>1, KnowsStays
  <1>3. QED
    BY <1>1, <1>2, StepKeeps DEF Begin, Continue

\* Users change, and nothing else.
LEMMA UsersKeep ==
  ASSUME Inv, UNCHANGED <<link, code, token, lapsed, mail, login>>,
         user' \in [User -> Rows],
         \A u \in User : /\ Exists(u) => user'[u].email # None
                         /\ user'[u].verified => Proven(u)
                         /\ user'[u].email # None /\ user'[u].password = None => Linked(u)
                         /\ user'[u].active => user'[u].email # None
  PROVE  RowsOK' /\ Grows
  <1>1. \A u \in User : (Linked(u)' <=> Linked(u)) /\ (Proven(u)' <=> Proven(u))
    BY DEF Linked, Proven
  <1>2. QED
    BY <1>1 DEF Inv, RowsOK, RowTypes, VerifiedIsProven, SameUserEachTime, CanSignIn, ActiveExists,
                Exists, Grows

\* Codes, tokens and mails change.
LEMMA MailsKeep ==
  ASSUME Inv, UNCHANGED <<user, link, login>>,
         code' \in [Code -> [user : User \cup {None}, email : Email \cup {None}, used : BOOLEAN]],
         token' \in [Token -> [user : User \cup {None}, used : BOOLEAN]],
         lapsed' \subseteq Code \cup Token,
         mail' \in [Code \cup Token -> {"none", "queued", "sent", "failed", "lost"}],
         \A c \in Code : code[c].user \in User =>
           code'[c].user = code[c].user /\ (code[c].used => code'[c].used)
  PROVE  RowsOK' /\ Grows
  <1>1. Grows
    BY DEF Grows, Exists
  <1>2. \A u \in User : (Linked(u)' <=> Linked(u)) /\ (Proven(u) => Proven(u)')
    BY <1>1, ProvenStays DEF Linked
  <1>3. QED
    BY <1>1, <1>2 DEF Inv, RowsOK, RowTypes, VerifiedIsProven, SameUserEachTime, CanSignIn,
                      ActiveExists, Exists

-----------------------------------------------------------------------------
LEMMA InvInit == Init => Inv
  <1> SUFFICES ASSUME Init PROVE Inv
    OBVIOUS
  <1>1. RowTypes /\ SameUserEachTime
    BY DEF Init, RowTypes, Rows, NoUser, NoCode, NoToken, SameUserEachTime
  <1>2. VerifiedIsProven /\ CanSignIn /\ ActiveExists
    BY DEF Init, NoUser, VerifiedIsProven, CanSignIn, ActiveExists, Exists
  <1>3. SessionsOK
    BY IdleKnows DEF Init, SessionsOK
  <1>4. QED
    BY <1>1, <1>2, <1>3 DEF Inv, RowsOK

-----------------------------------------------------------------------------
(* Rows that requests without a session write.                             *)

LEMMA NewCodeKeeps ==
  ASSUME Inv, NEW u \in User, NEW e \in Email, NewCode(u, e)
  PROVE  /\ code' \in [Code -> [user : User \cup {None}, email : Email \cup {None}, used : BOOLEAN]]
         /\ mail' \in [Code \cup Token -> {"none", "queued", "sent", "failed", "lost"}]
         /\ \A c \in Code : code[c].user \in User =>
              code'[c].user = code[c].user /\ (code[c].used => code'[c].used)
  <1>1. PICK c \in Code : /\ code[c] = NoCode
                          /\ code' = [code EXCEPT ![c] = [user |-> u, email |-> e, used |-> FALSE]]
                          /\ Queue(c)
    BY DEF NewCode
  <1>2. code[c].user \notin User
    BY <1>1, NoneAssumption DEF NoCode
  <1>3. QED
    BY <1>1, <1>2 DEF Queue, Inv, RowsOK, RowTypes

LEMMA RegisterKeeps ==
  ASSUME Inv, NEW u \in User, NEW e \in Email, NEW p \in Password, Register(u, e, p)
  PROVE  Inv'
  <1>1. /\ ~Exists(u)
        /\ user' = [user EXCEPT ![u] = [email |-> e, password |-> p, verified |-> FALSE, active |-> TRUE]]
        /\ NewCode(u, e)
        /\ UNCHANGED <<link, token, lapsed, login, job>>
    BY DEF Register
  <1>2. /\ code' \in [Code -> [user : User \cup {None}, email : Email \cup {None}, used : BOOLEAN]]
        /\ mail' \in [Code \cup Token -> {"none", "queued", "sent", "failed", "lost"}]
        /\ \A c \in Code : code[c].user \in User =>
             code'[c].user = code[c].user /\ (code[c].used => code'[c].used)
    BY <1>1, NewCodeKeeps
  <1>3. /\ user' \in [User -> Rows]
        /\ user'[u] = [email |-> e, password |-> p, verified |-> FALSE, active |-> TRUE]
        /\ \A v \in User \ {u} : user'[v] = user[v]
    BY <1>1 DEF Inv, RowsOK, RowTypes, Rows
  <1>4. Grows
    BY <1>1, <1>2, <1>3 DEF Grows, Exists
  <1>5. \A v \in User : (Linked(v) => Linked(v)') /\ (Proven(v) => Proven(v)')
    BY <1>4, ProvenStays
  <1>6. RowTypes'
    BY <1>1, <1>2, <1>3 DEF Inv, RowsOK, RowTypes
  <1>7. VerifiedIsProven' /\ CanSignIn' /\ ActiveExists'
    BY <1>3, <1>5, NoneAssumption DEF Inv, RowsOK, VerifiedIsProven, CanSignIn, ActiveExists, Exists
  <1>8. SameUserEachTime'
    BY <1>1 DEF Inv, RowsOK, SameUserEachTime
  <1>9. QED
    BY <1>1, <1>4, <1>6, <1>7, <1>8, OthersKeep DEF RowsOK

LEMMA MailKeeps ==
  ASSUME Inv,
         \/ \E u \in User : RequestCode(u) \/ Forgot(u)
         \/ \E x \in Code \cup Token : RunMail(x) \/ LoseMail(x) \/ Lapse(x)
  PROVE  Inv'
  <1>1. ASSUME NEW u \in User, RequestCode(u) PROVE RowsOK' /\ Grows /\ UNCHANGED job
    <2>1. user[u].email \in Email
      BY <1>1 DEF RequestCode, Exists, Inv, RowsOK, RowTypes, Rows
    <2>2. NewCode(u, user[u].email) /\ UNCHANGED <<user, link, token, lapsed, login, job>>
      BY <1>1 DEF RequestCode
    <2>3. QED
      BY <2>1, <2>2, NewCodeKeeps, MailsKeep DEF Inv, RowsOK, RowTypes
  <1>2. ASSUME NEW u \in User, Forgot(u) PROVE RowsOK' /\ Grows /\ UNCHANGED job
    <2>1. /\ token' \in [Token -> [user : User \cup {None}, used : BOOLEAN]]
          /\ mail' \in [Code \cup Token -> {"none", "queued", "sent", "failed", "lost"}]
          /\ UNCHANGED <<user, link, code, lapsed, login, job>>
      BY <1>2 DEF Forgot, Queue, Inv, RowsOK, RowTypes
    <2>2. QED
      BY <2>1, MailsKeep DEF Inv, RowsOK, RowTypes
  <1>3. ASSUME NEW x \in Code \cup Token, RunMail(x) \/ LoseMail(x) \/ Lapse(x)
        PROVE  RowsOK' /\ Grows /\ UNCHANGED job
    <2>1. /\ mail' \in [Code \cup Token -> {"none", "queued", "sent", "failed", "lost"}]
          /\ lapsed' \subseteq Code \cup Token
          /\ UNCHANGED <<user, link, code, token, login, job>>
      BY <1>3 DEF RunMail, LoseMail, Lapse, Inv, RowsOK, RowTypes
    <2>2. QED
      BY <2>1, MailsKeep DEF Inv, RowsOK, RowTypes
  <1>4. QED
    BY <1>1, <1>2, <1>3, OthersKeep

-----------------------------------------------------------------------------
(* Codes, passwords, profiles and the staff's switch.                      *)

LEMMA CodeKeeps ==
  ASSUME Inv, NEW w \in Web,
         (\E c \in Code : LookCode(w, c)) \/ SpendCode(w) \/ MarkVerified(w)
  PROVE  Inv'
  <1>0. job[w] \in Jobs /\ Knows(job[w])
    BY DEF Inv, SessionsOK
  <1>1. ASSUME NEW c \in Code, LookCode(w, c) PROVE Inv'
    <2>1. PICK j : j = [Idle EXCEPT !.step = "spend", !.item = c]
      OBVIOUS
    <2>2. code[c].user \in User
      BY <1>1 DEF LookCode, Inv, RowsOK, RowTypes
    <2>3. j \in Jobs /\ Knows(j)
      BY <2>1, <2>2 DEF Idle, Jobs, Rows, NoUser, Knows
    <2>4. QED
      BY <1>1, <2>1, <2>3, ReadKeeps DEF LookCode
  <1>2. ASSUME SpendCode(w) PROVE Inv'
    <2>1. PICK j : j = [job[w] EXCEPT !.step = "mark"]
      OBVIOUS
    <2>2. job[w].step = "spend" /\ job[w].item \in Code /\ code[job[w].item].user \in User
      BY <1>0, <1>2 DEF SpendCode, Knows
    <2>3. /\ code' \in [Code -> [user : User \cup {None}, email : Email \cup {None}, used : BOOLEAN]]
          /\ code'[job[w].item].used /\ code'[job[w].item].user = code[job[w].item].user
          /\ \A c \in Code : code'[c].user = code[c].user /\ (code[c].used => code'[c].used)
      BY <1>2, <2>2 DEF SpendCode, Inv, RowsOK, RowTypes
    <2>4. RowsOK' /\ Grows
      BY <1>2, <2>3, MailsKeep DEF SpendCode, Inv, RowsOK, RowTypes
    <2>5. j \in Jobs /\ j.step = "mark" /\ j.item = job[w].item
      BY <1>0, <2>1 DEF Jobs
    <2>6. Knows(j)'
      BY <2>2, <2>3, <2>5 DEF Knows
    <2>7. QED
      BY <1>2, <2>1, <2>4, <2>5, <2>6, StepKeeps DEF SpendCode
  <1>3. ASSUME MarkVerified(w) PROVE Inv'
    <2>1. PICK u \in User : u = code[job[w].item].user /\ Proven(u)
      BY <1>0, <1>3 DEF MarkVerified, Knows, Proven
    <2>2. user' = [user EXCEPT ![u].verified = TRUE]
      BY <1>3, <2>1 DEF MarkVerified
    <2>3. /\ user' \in [User -> Rows]
          /\ user'[u].email = user[u].email /\ user'[u].password = user[u].password
          /\ user'[u].active = user[u].active
          /\ \A v \in User \ {u} : user'[v] = user[v]
      BY <2>2 DEF Inv, RowsOK, RowTypes, Rows
    <2>4. \A v \in User : user'[v].verified => Proven(v)
      BY <2>1, <2>3 DEF Inv, RowsOK, VerifiedIsProven
    <2>5. \A v \in User : /\ Exists(v) => user'[v].email # None
                          /\ user'[v].email # None /\ user'[v].password = None => Linked(v)
                          /\ user'[v].active => user'[v].email # None
      BY <2>3 DEF Inv, RowsOK, CanSignIn, ActiveExists, Exists
    <2>6. RowsOK' /\ Grows
      BY <1>3, <2>3, <2>4, <2>5, UsersKeep DEF MarkVerified
    <2>7. QED
      BY <1>3, <2>6, EndKeeps DEF MarkVerified
  <1>4. QED
    BY <1>1, <1>2, <1>3

LEMMA PasswordKeeps ==
  ASSUME Inv, NEW w \in Web,
         \/ \E t \in Token, p \in Password : LookToken(w, t, p)
         \/ \E u \in User, p \in Password : LookChange(w, u, p)
         \/ SavePassword(w) \/ SpendToken(w)
  PROVE  Inv'
  <1>0. job[w] \in Jobs /\ Knows(job[w])
    BY DEF Inv, SessionsOK
  <1>1. ASSUME NEW t \in Token, NEW p \in Password, LookToken(w, t, p) PROVE Inv'
    <2>1. PICK j : j = [Idle EXCEPT !.step = "password", !.user = token[t].user, !.item = t,
                                    !.password = p]
      OBVIOUS
    <2>2. token[t].user \in User
      BY <1>1 DEF LookToken, NoToken, Inv, RowsOK, RowTypes
    <2>3. j \in Jobs /\ Knows(j)
      BY <2>1, <2>2 DEF Idle, Jobs, Rows, NoUser, Knows
    <2>4. QED
      BY <1>1, <2>1, <2>3, ReadKeeps DEF LookToken
  <1>2. ASSUME NEW u \in User, NEW p \in Password, LookChange(w, u, p) PROVE Inv'
    <2>1. PICK j : j = [Idle EXCEPT !.step = "password", !.user = u, !.password = p]
      OBVIOUS
    <2>2. j \in Jobs /\ Knows(j)
      BY <2>1 DEF Idle, Jobs, Rows, NoUser, Knows
    <2>3. QED
      BY <1>2, <2>1, <2>2, ReadKeeps DEF LookChange
  <1>3. ASSUME SavePassword(w) PROVE Inv'
    <2>1. PICK u \in User : u = job[w].user
      BY <1>0, <1>3 DEF SavePassword, Knows
    <2>2. job[w].password \in Password /\ job[w].item \in Token \cup {None}
      BY <1>0, <1>3 DEF SavePassword, Knows
    <2>3. /\ user' \in [User -> Rows] /\ user'[u].password \in Password
          /\ \A v \in User : /\ user'[v].email = user[v].email /\ user'[v].verified = user[v].verified
                              /\ user'[v].active = user[v].active
                              /\ v # u => user'[v].password = user[v].password
      BY <1>3, <2>1, <2>2 DEF SavePassword, Inv, RowsOK, RowTypes, Rows
    <2>4. RowsOK' /\ Grows
      BY <1>3, <2>3, NoneAssumption, UsersKeep
      DEF SavePassword, Inv, RowsOK, VerifiedIsProven, CanSignIn, ActiveExists, Exists
    <2>5. CASE job[w].item = None
      BY <1>3, <2>4, <2>5, EndKeeps DEF SavePassword
    <2>6. CASE job[w].item # None
      <3>1. PICK j : j = [job[w] EXCEPT !.step = "token"]
        OBVIOUS
      <3>2. j \in Jobs /\ j.step = "token" /\ j.item \in Token
        BY <1>0, <2>2, <2>6, <3>1 DEF Jobs
      <3>3. Knows(j)'
        BY <3>2 DEF Knows
      <3>4. QED
        BY <1>3, <2>4, <2>6, <3>1, <3>2, <3>3, StepKeeps DEF SavePassword
    <2>7. QED
      BY <2>5, <2>6
  <1>4. ASSUME SpendToken(w) PROVE Inv'
    <2>0. PICK t \in Token : t = job[w].item
      BY <1>0, <1>4 DEF SpendToken, Knows
    <2>1. token' \in [Token -> [user : User \cup {None}, used : BOOLEAN]]
      BY <1>4, <2>0 DEF SpendToken, Inv, RowsOK, RowTypes
    <2>2. RowsOK' /\ Grows
      BY <1>4, <2>1, MailsKeep DEF SpendToken, Inv, RowsOK, RowTypes
    <2>3. QED
      BY <1>4, <2>2, EndKeeps DEF SpendToken
  <1>5. QED
    BY <1>1, <1>2, <1>3, <1>4

LEMMA ProfileKeeps ==
  ASSUME Inv, NEW w \in Web,
         \/ \E u \in User, e \in Email : LookProfile(w, u, e)
         \/ \E u \in User : LookStatus(w, u)
         \/ SaveProfile(w) \/ SaveStatus(w)
  PROVE  Inv'
  <1>0. job[w] \in Jobs /\ Knows(job[w])
    BY DEF Inv, SessionsOK
  <1>1. ASSUME NEW u \in User, NEW e \in Email, LookProfile(w, u, e) PROVE Inv'
    <2>1. PICK j : j = [Idle EXCEPT !.step = "profile", !.user = u, !.email = e, !.seen = user[u]]
      OBVIOUS
    <2>2. user[u] \in Rows
      BY DEF Inv, RowsOK, RowTypes
    <2>3. /\ user[u].verified => Proven(u)
          /\ user[u].password = None => Linked(u)
      BY <1>1 DEF LookProfile, Inv, RowsOK, VerifiedIsProven, CanSignIn, ActiveExists
    <2>4. j \in Jobs /\ Knows(j)
      BY <2>1, <2>2, <2>3 DEF Idle, Jobs, Knows
    <2>5. QED
      BY <1>1, <2>1, <2>4, ReadKeeps DEF LookProfile
  <1>2. ASSUME NEW u \in User, LookStatus(w, u) PROVE Inv'
    <2>1. PICK j : j = [Idle EXCEPT !.step = "status", !.user = u, !.flag = ~user[u].active]
      OBVIOUS
    <2>2. user[u].active \in BOOLEAN
      BY DEF Inv, RowsOK, RowTypes, Rows
    <2>3. j \in Jobs /\ Knows(j)
      BY <1>2, <2>1, <2>2 DEF LookStatus, Idle, Jobs, Rows, NoUser, Knows
    <2>4. QED
      BY <1>2, <2>1, <2>3, ReadKeeps DEF LookStatus
  <1>3. ASSUME SaveProfile(w) PROVE Inv'
    <2>1. PICK u \in User : u = job[w].user
      BY <1>0, <1>3 DEF SaveProfile, Knows
    <2>2. PICK r : r = [job[w].seen EXCEPT !.email = job[w].email]
      OBVIOUS
    <2>3. /\ r \in Rows /\ r.email \in Email
          /\ r.verified => Proven(u)
          /\ r.password = None => Linked(u)
      BY <1>0, <1>3, <2>1, <2>2 DEF SaveProfile, Knows, Jobs, Rows
    <2>4. user' = user \/ user' = [user EXCEPT ![u] = r]
      BY <1>3, <2>1, <2>2 DEF SaveProfile
    <2>5. /\ user' \in [User -> Rows]
          /\ \A v \in User : user'[v] = user[v] \/ (v = u /\ user'[v] = r)
      BY <2>3, <2>4 DEF Inv, RowsOK, RowTypes
    <2>6. RowsOK' /\ Grows
      BY <1>3, <2>3, <2>5, NoneAssumption, UsersKeep
      DEF SaveProfile, Inv, RowsOK, VerifiedIsProven, CanSignIn, ActiveExists, Exists
    <2>7. QED
      BY <1>3, <2>6, EndKeeps DEF SaveProfile
  <1>4. ASSUME SaveStatus(w) PROVE Inv'
    <2>1. PICK u \in User : u = job[w].user /\ Exists(u)
      BY <1>0, <1>4 DEF SaveStatus, Knows
    <2>2. job[w].flag \in BOOLEAN
      BY <1>0 DEF Jobs
    <2>3. /\ user' \in [User -> Rows]
          /\ \A v \in User : /\ user'[v].email = user[v].email /\ user'[v].verified = user[v].verified
                              /\ user'[v].password = user[v].password
                              /\ v # u => user'[v].active = user[v].active
      BY <1>4, <2>1, <2>2 DEF SaveStatus, Inv, RowsOK, RowTypes, Rows
    <2>4. RowsOK' /\ Grows
      BY <1>4, <2>1, <2>3, UsersKeep
      DEF SaveStatus, Inv, RowsOK, VerifiedIsProven, CanSignIn, ActiveExists, Exists
    <2>5. QED
      BY <1>4, <2>4, EndKeeps DEF SaveStatus
  <1>5. QED
    BY <1>1, <1>2, <1>3, <1>4

-----------------------------------------------------------------------------
(* Google sign-in.                                                         *)

\* A user signs in with a Google account: the link is there or made now.
LEMMA SignInKeeps ==
  ASSUME Inv, NEW w \in Web, NEW g \in Google, NEW u \in User,
         UNCHANGED <<code, token, lapsed, mail>>, End(w), SignIn(g, u),
         link[g] \in {None, u}, link' = [link EXCEPT ![g] = u],
         user' \in [User -> Rows], \A v \in User \ {u} : user'[v] = user[v],
         Exists(u) => user'[u].email # None,
         user'[u].active => user'[u].email # None
  PROVE  Inv'
  <1>1. /\ link' \in [Google -> User \cup {None}] /\ link'[g] = u
        /\ \A h \in Google \ {g} : link'[h] = link[h]
    BY DEF Inv, RowsOK, RowTypes
  <1>2. Grows
    BY <1>1 DEF Grows, Exists
  <1>3. Linked(u)' /\ Proven(u)'
    BY <1>1 DEF Linked, Proven
  <1>4. \A v \in User : (Linked(v) => Linked(v)') /\ (Proven(v) => Proven(v)')
    BY <1>2, ProvenStays
  <1>5. VerifiedIsProven' /\ CanSignIn' /\ ActiveExists'
    BY <1>3, <1>4 DEF Inv, RowsOK, VerifiedIsProven, CanSignIn, ActiveExists, Exists
  <1>6. /\ login' \in [Google -> SUBSET User]
        /\ login'[g] = login[g] \cup {u}
        /\ \A h \in Google \ {g} : login'[h] = login[h]
    BY DEF SignIn, Inv, RowsOK, RowTypes
  <1>7. SameUserEachTime'
    <2>1. login[g] \subseteq {u}
      BY NoneAssumption DEF Inv, RowsOK, RowTypes, SameUserEachTime
    <2>2. QED
      BY <1>1, <1>6, <2>1 DEF Inv, RowsOK, SameUserEachTime
  <1>8. RowTypes'
    BY <1>1, <1>6 DEF Inv, RowsOK, RowTypes
  <1>9. QED
    BY <1>2, <1>5, <1>7, <1>8, EndKeeps DEF RowsOK

LEMMA FindKeeps ==
  ASSUME Inv, NEW w \in Web,
         (\E g \in Google, e \in Email : FindLink(w, g, e)) \/ FindUser(w)
  PROVE  Inv'
  <1>0. job[w] \in Jobs /\ Knows(job[w])
    BY DEF Inv, SessionsOK
  <1>1. ASSUME NEW g \in Google, NEW e \in Email, FindLink(w, g, e) PROVE Inv'
    <2>1. CASE link[g] # None
      <3>1. PICK j : j = [Idle EXCEPT !.step = "login", !.user = link[g], !.google = g,
                                      !.flag = user[link[g]].verified]
        OBVIOUS
      <3>2. link[g] \in User /\ user[link[g]].verified \in BOOLEAN
        BY <2>1 DEF Inv, RowsOK, RowTypes, Rows
      <3>3. j \in Jobs /\ Knows(j)
        BY <3>1, <3>2 DEF Idle, Jobs, Rows, NoUser, Knows
      <3>4. QED
        BY <1>1, <2>1, <3>1, <3>3, ReadKeeps DEF FindLink
    <2>2. CASE link[g] = None
      <3>1. PICK j : j = [Idle EXCEPT !.step = "find", !.google = g, !.email = e]
        OBVIOUS
      <3>2. j \in Jobs /\ Knows(j)
        BY <3>1 DEF Idle, Jobs, Rows, NoUser, Knows
      <3>3. QED
        BY <1>1, <2>2, <3>1, <3>2, ReadKeeps DEF FindLink
    <2>3. QED
      BY <2>1, <2>2
  <1>2. ASSUME FindUser(w) PROVE Inv'
    <2>0. job[w].google \in Google /\ job[w].email \in Email
      BY <1>0, <1>2 DEF FindUser, Knows
    <2>1. CASE End(w)
      BY <1>2, <2>1, IdleKnows, ReadKeeps DEF FindUser, End
    <2>2. ASSUME NEW u \in User,
                 Continue(w, [job[w] EXCEPT !.step = "link", !.user = u, !.flag = user[u].verified])
          PROVE  Inv'
      <3>1. PICK j : j = [job[w] EXCEPT !.step = "link", !.user = u, !.flag = user[u].verified]
        OBVIOUS
      <3>2. user[u].verified \in BOOLEAN
        BY DEF Inv, RowsOK, RowTypes, Rows
      <3>4. j \in Jobs /\ Knows(j)
        BY <1>0, <2>0, <3>1, <3>2 DEF Jobs, Knows
      <3>3. QED
        BY <1>2, <2>2, <3>1, <3>4, ReadKeeps DEF FindUser
    <2>3. CASE Continue(w, [job[w] EXCEPT !.step = "signup"])
      <3>1. PICK j : j = [job[w] EXCEPT !.step = "signup"]
        OBVIOUS
      <3>2. j \in Jobs /\ Knows(j)
        BY <1>0, <2>0, <3>1 DEF Jobs, Knows
      <3>3. QED
        BY <1>2, <2>3, <3>1, <3>2, ReadKeeps DEF FindUser
    <2>4. QED
      BY <1>2, <2>1, <2>2, <2>3 DEF FindUser
  <1>3. QED
    BY <1>1, <1>2

LEMMA GoogleKeeps ==
  ASSUME Inv, NEW w \in Web, SignUp(w) \/ LinkUser(w) \/ LogIn(w)
  PROVE  Inv'
  <1>0. job[w] \in Jobs /\ Knows(job[w])
    BY DEF Inv, SessionsOK
  <1>1. ASSUME End(w), UNCHANGED <<user, link, login, code, token, lapsed, mail>> PROVE Inv'
    BY <1>1, IdleKnows, ReadKeeps DEF End
  <1>2. ASSUME SignUp(w) PROVE Inv'
    <2>1. PICK g \in Google : g = job[w].google /\ job[w].email \in Email
      BY <1>0, <1>2 DEF SignUp, Knows
    <2>2. ASSUME NEW u \in User, link[g] = None,
                 user' = [user EXCEPT ![u] = [email |-> job[w].email, password |-> None,
                                              verified |-> TRUE, active |-> TRUE]],
                 link' = [link EXCEPT ![g] = u], SignIn(g, u)
          PROVE  Inv'
      <3>1. /\ user' \in [User -> Rows] /\ user'[u].email = job[w].email
            /\ \A v \in User \ {u} : user'[v] = user[v]
        BY <2>1, <2>2 DEF Inv, RowsOK, RowTypes, Rows
      <3>2. user'[u].email # None
        BY <2>1, <3>1, NoneAssumption
      <3>3. QED
        BY <1>2, <2>2, <3>1, <3>2, SignInKeeps DEF SignUp
    <2>3. QED
      BY <1>1, <1>2, <2>1, <2>2 DEF SignUp
  <1>3. ASSUME NEW u \in User, Vouch(w, u)
        PROVE  /\ user' \in [User -> Rows] /\ \A v \in User \ {u} : user'[v] = user[v]
               /\ Exists(u) => user'[u].email # None
               /\ user'[u].active => user'[u].email # None
    <2>1. user' = user \/ user' = [user EXCEPT ![u].verified = TRUE]
      BY <1>3 DEF Vouch
    <2>2. /\ user' \in [User -> Rows] /\ \A v \in User \ {u} : user'[v] = user[v]
          /\ user'[u].email = user[u].email /\ user'[u].active = user[u].active
      BY <2>1 DEF Inv, RowsOK, RowTypes, Rows
    <2>3. QED
      BY <2>2 DEF Inv, RowsOK, ActiveExists, Exists
  <1>4. ASSUME LinkUser(w) PROVE Inv'
    <2>1. PICK g \in Google, u \in User : g = job[w].google /\ u = job[w].user
      BY <1>0, <1>4 DEF LinkUser, Knows
    <2>2. CASE link[g] = None /\ ~Linked(u)
      <3>1. /\ link' = [link EXCEPT ![g] = u]
            /\ Vouch(w, u)
            /\ SignIn(g, u) /\ End(w) /\ UNCHANGED <<code, token, lapsed, mail>>
        BY <1>4, <2>1, <2>2 DEF LinkUser
      <3>2. QED
        BY <1>3, <2>2, <3>1, SignInKeeps
    <2>3. CASE ~(link[g] = None /\ ~Linked(u))
      BY <1>1, <1>4, <2>1, <2>3 DEF LinkUser
    <2>4. QED
      BY <2>2, <2>3
  <1>5. ASSUME LogIn(w) PROVE Inv'
    <2>1. PICK g \in Google, u \in User : g = job[w].google /\ u = job[w].user /\ link[g] = u
      BY <1>0, <1>5 DEF LogIn, Knows
    <2>2. /\ Vouch(w, u)
          /\ SignIn(g, u) /\ End(w) /\ UNCHANGED <<link, code, token, lapsed, mail>>
      BY <1>5, <2>1 DEF LogIn
    <2>3. link' = [link EXCEPT ![g] = u]
      BY <2>1, <2>2 DEF Inv, RowsOK, RowTypes
    <2>4. QED
      BY <1>3, <2>1, <2>2, <2>3, SignInKeeps
  <1>6. QED
    BY <1>2, <1>4, <1>5

-----------------------------------------------------------------------------

LEMMA InvStep == Inv /\ [Next]_vars => Inv'
  <1> SUFFICES ASSUME Inv, [Next]_vars PROVE Inv'
    OBVIOUS
  <1>1. CASE UNCHANGED vars
    <2>1. RowsOK' /\ Grows /\ UNCHANGED job
      BY <1>1 DEF vars, Inv, RowsOK, RowTypes, VerifiedIsProven, SameUserEachTime, CanSignIn,
                  ActiveExists, Proven, Linked, Exists, Grows
    <2>2. QED
      BY <2>1, OthersKeep
  <1>2. ASSUME NEW u \in User,
               \/ \E e \in Email, p \in Password : Register(u, e, p)
               \/ RequestCode(u) \/ Forgot(u)
        PROVE  Inv'
    BY <1>2, RegisterKeeps, MailKeeps
  <1>3. ASSUME NEW x \in Code \cup Token, RunMail(x) \/ LoseMail(x) \/ Lapse(x) PROVE Inv'
    BY <1>3, MailKeeps
  <1>4. ASSUME NEW w \in Web,
               (\E c \in Code : LookCode(w, c)) \/ SpendCode(w) \/ MarkVerified(w)
        PROVE  Inv'
    BY <1>4, CodeKeeps
  <1>5. ASSUME NEW w \in Web,
               \/ \E t \in Token, p \in Password : LookToken(w, t, p)
               \/ \E u \in User, p \in Password : LookChange(w, u, p)
               \/ SavePassword(w) \/ SpendToken(w)
        PROVE  Inv'
    BY <1>5, PasswordKeeps
  <1>6. ASSUME NEW w \in Web,
               \/ \E u \in User, e \in Email : LookProfile(w, u, e)
               \/ SaveProfile(w)
               \/ \E u \in User : LookStatus(w, u)
               \/ SaveStatus(w)
        PROVE  Inv'
    BY <1>6, ProfileKeeps
  <1>7. ASSUME NEW w \in Web,
               \/ \E g \in Google, e \in Email : FindLink(w, g, e)
               \/ FindUser(w) \/ SignUp(w) \/ LinkUser(w) \/ LogIn(w)
        PROVE  Inv'
    BY <1>7, FindKeeps, GoogleKeeps
  <1>8. ASSUME NEW w \in Web, Abort(w) PROVE Inv'
    BY <1>8, IdleKnows, ReadKeeps DEF Abort, End
  <1>9. QED
    BY <1>1, <1>2, <1>3, <1>4, <1>5, <1>6, <1>7, <1>8 DEF Next

LEMMA InvCorrect == Spec => []Inv
  BY InvInit, InvStep, PTL DEF Spec

\* Type correctness, for any accounts, codes, tokens and sessions.
THEOREM TypeCorrect == Spec => []TypeOK
  <1>1. Inv => TypeOK
    BY DEF Inv, RowsOK, RowTypes, SessionsOK, TypeOK
  <1>2. QED
    BY <1>1, InvCorrect, PTL

\* No interleaving of verifications, sign-ins and profile saves marks an
\* account as verified that has proven nothing (verify_otp, MeView.patch).
THEOREM VerifiedHasProof == Spec => []VerifiedIsProven
  <1>1. Inv => VerifiedIsProven
    BY DEF Inv, RowsOK
  <1>2. QED
    BY <1>1, InvCorrect, PTL

\* A Google account signs in as one user for good (GoogleOAuthLoginView).
THEOREM OneUserPerGoogle == Spec => []SameUserEachTime
  <1>1. Inv => SameUserEachTime
    BY DEF Inv, RowsOK
  <1>2. QED
    BY <1>1, InvCorrect, PTL

\* Whoever has no usable password has a Google account to sign in with.
THEOREM EveryoneCanSignIn == Spec => []CanSignIn
  <1>1. Inv => CanSignIn
    BY DEF Inv, RowsOK
  <1>2. QED
    BY <1>1, InvCorrect, PTL
=============================================================================
