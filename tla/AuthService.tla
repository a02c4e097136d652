---------------------------- MODULE AuthService ----------------------------
(***************************************************************************)
(* CoreBankingAuthService: registration, which inserts a user and a wallet *)
(* in one transaction, and the two halves of a password reset, which save  *)
(* the user they have read (a SELECT by id and an UPDATE of the columns    *)
(* that differ) and send mail.  Login and profile only read.               *)
(*                                                                         *)
(* A user's id, a password and a reset token are the request that made     *)
(* them.  Time is in hours.                                                *)
(***************************************************************************)
EXTENDS Naturals, FiniteSets

CONSTANTS
  Requests,
  Initial,       \* the user there is at the start
  Emails,
  InitialEmail,
  Numbers,       \* account numbers
  InitialNumber,
  Transports,    \* how the process may send mail at the start
  ValidHours,    \* how long a reset token is valid, 1 in the code
  LastHour,      \* bound: the clock stops there
  NoUser, NoToken, NoOwner, Nothing

VARIABLES
  users,      \* core_banking_users
  wallets,    \* core_banking_wallets: whose each account number is
  mail,       \* the transport of the mail service
  delivered,  \* the tokens that have reached their customer
  now,
  pc, req, loc,
  overtaken,  \* history: requests that have read a user somebody has changed since
  stale,      \* history: such a request has saved
  spent,      \* history: the tokens a reset has been made with
  superseded  \* history: the tokens a later one has replaced

history == <<overtaken, stale, spent, superseded>>
vars == <<users, wallets, mail, delivered, now, pc, req, loc, history>>

-----------------------------------------------------------------------------
UserIds == Requests \union {Initial}

\* The token of a row and its expiry are always written together.
Users ==
  [ email : Emails, password : UserIds, token : Requests \union {NoToken},
    expires : Nat ]

RequestRecords ==
  [op : {"register", "forgot"}, email : Emails]
    \union [op : {"reset"}, token : Requests]

\* One customer to begin with; the markers are none of what they stand for.
ASSUME ConstantsAssumption ==
  /\ Initial \notin Requests
  /\ InitialEmail \in Emails /\ InitialNumber \in Numbers
  /\ Transports \subseteq {"smtp", "ethereal", "json"}
  /\ ValidHours \in Nat /\ LastHour \in Nat
  /\ NoUser \notin Users /\ NoToken \notin Requests /\ NoOwner \notin UserIds

\* id is the user a request works on, entity that user as it is going to be,
\* stored what the save has read, number the account number it has picked,
\* inserted whether its open transaction holds the user.
EmptyLoc ==
  [ id |-> Nothing, entity |-> NoUser, stored |-> NoUser, number |-> Nothing,
    inserted |-> FALSE ]

InFlight ==
  {"find", "hash", "insert", "pick", "open", "read", "write", "mail"}

Answered == {"done", "declined", "failed"}

\* The type invariant.
TypeOK ==
  /\ users \in [UserIds -> Users \union {NoUser}]
  /\ wallets \in [Numbers -> UserIds \union {NoOwner}]
  /\ mail \in {"smtp", "ethereal", "json"}
  /\ now \in 0 .. LastHour
  /\ pc \in [Requests -> {"idle"} \union InFlight \union Answered]
  /\ \A r \in Requests :
       /\ pc[r] # "idle" => req[r] \in RequestRecords
       /\ loc[r].entity \in Users \union {NoUser}
       /\ loc[r].inserted => pc[r] \in {"pick", "open"}
  /\ delivered \union overtaken \union spent \union superseded \subseteq Requests
  /\ stale \in BOOLEAN

Init ==
  /\ users = [u \in UserIds |->
       IF u = Initial
       THEN [email |-> InitialEmail, password |-> Initial, token |-> NoToken,
             expires |-> 0]
       ELSE NoUser]
  /\ wallets = [n \in Numbers |-> IF n = InitialNumber THEN Initial ELSE NoOwner]
  /\ mail \in Transports
  /\ now = 0
  /\ pc = [r \in Requests |-> "idle"]
  /\ req = [r \in Requests |-> Nothing]
  /\ loc = [r \in Requests |-> EmptyLoc]
  /\ delivered = {} /\ overtaken = {} /\ spent = {} /\ superseded = {}
  /\ stale = FALSE

-----------------------------------------------------------------------------
Goto(r, label, l) ==
  /\ pc' = [pc EXCEPT ![r] = label]
  /\ loc' = [loc EXCEPT ![r] = l]

Rest == UNCHANGED <<mail, delivered, now, req>>

Submit(r) ==
  /\ pc[r] = "idle"
  /\ \E c \in RequestRecords : req' = [req EXCEPT ![r] = c]
  /\ Goto(r, "find", EmptyLoc)
  /\ UNCHANGED <<users, wallets, mail, delivered, now, history>>

Registered == {u \in UserIds : users[u] # NoUser}

\* findByEmail, findByResetToken.
WithEmail(email) == {u \in Registered : users[u].email = email}

WithToken(token) == {u \in Registered : users[u].token = token}

-----------------------------------------------------------------------------
(***************************************************************************)
(* register                                                                *)
(***************************************************************************)

FindFree(r) ==
  /\ pc[r] = "find" /\ req[r].op = "register"
  /\ IF WithEmail(req[r].email) # {} THEN Goto(r, "declined", loc[r])
     ELSE Goto(r, "insert",
            [loc[r] EXCEPT
               !.id = r,
               !.entity = [email |-> req[r].email, password |-> r,
                           token |-> NoToken, expires |-> 0]])
  /\ Rest /\ UNCHANGED <<users, wallets, history>>

\* Mutant: the user is inserted outside the transaction.
InsertUserAtOnce(r) ==
  /\ pc[r] = "insert"
  /\ IF WithEmail(req[r].email) # {}
     THEN Goto(r, "failed", loc[r]) /\ UNCHANGED users
     ELSE Goto(r, "pick", loc[r]) /\ users' = [users EXCEPT ![r] = loc[r].entity]
  /\ Rest /\ UNCHANGED <<wallets, history>>

\* The INSERT of the user waits for an open transaction that has inserted the
\* same email, and fails if a committed one has.
InsertUser(r) ==
  /\ pc[r] = "insert"
  /\ \A q \in Requests : loc[q].inserted => req[q].email # req[r].email
  /\ IF WithEmail(req[r].email) # {}
     THEN Goto(r, "failed", loc[r])
     ELSE Goto(r, "pick", [loc[r] EXCEPT !.inserted = TRUE])
  /\ Rest /\ UNCHANGED <<users, wallets, history>>

\* generateUniqueAccountNumber: any number that no committed wallet has; the code
\* draws until it has found one.
PickNumber(r) ==
  /\ pc[r] = "pick"
  /\ \E n \in Numbers :
       /\ wallets[n] = NoOwner
       /\ Goto(r, "open", [loc[r] EXCEPT !.number = n])
  /\ Rest /\ UNCHANGED <<users, wallets, history>>

\* Mutant: the transaction of a request that fails is not ended.
OpenWalletLeftOpen(r) ==
  LET l == loc[r] IN
  /\ pc[r] = "open"
  /\ IF wallets[l.number] = NoOwner
     THEN /\ users' = [users EXCEPT ![r] = l.entity]
          /\ wallets' = [wallets EXCEPT ![l.number] = r]
          /\ Goto(r, "done", [l EXCEPT !.inserted = FALSE])
     ELSE Goto(r, "failed", l) /\ UNCHANGED <<users, wallets>>
  /\ Rest /\ UNCHANGED history

\* The INSERT of the wallet and COMMIT; a number somebody else has taken since
\* takes the user back as well.
OpenWallet(r) ==
  LET l == loc[r] IN
  /\ pc[r] = "open"
  /\ IF wallets[l.number] = NoOwner
     THEN /\ users' = [users EXCEPT ![r] = l.entity]
          /\ wallets' = [wallets EXCEPT ![l.number] = r]
          /\ Goto(r, "done", [l EXCEPT !.inserted = FALSE])
     ELSE /\ Goto(r, "failed", [l EXCEPT !.inserted = FALSE])
          /\ UNCHANGED <<users, wallets>>
  /\ Rest /\ UNCHANGED history

-----------------------------------------------------------------------------
(***************************************************************************)
(* forgotPassword and resetPassword                                        *)
(***************************************************************************)

\* Mutant: the customer is given a temporary password at once.
WithNewTokenAndPassword(user, r) ==
  [user EXCEPT !.token = r, !.expires = now + ValidHours, !.password = r]

WithNewToken(user, r) ==
  [user EXCEPT !.token = r, !.expires = now + ValidHours]

\* Mutant: the token stays on the row.
WithNewPasswordOnly(user, r) == [user EXCEPT !.password = r]

WithNewPassword(user, r) ==
  [user EXCEPT !.password = r, !.token = NoToken, !.expires = 0]

\* Mutant: a token is no longer valid in its last hour.
ExpiredEarly(user) == user.expires =< now

Expired(user) == user.expires < now

FindForgetful(r) ==
  /\ pc[r] = "find" /\ req[r].op = "forgot"
  /\ IF WithEmail(req[r].email) = {} THEN Goto(r, "declined", loc[r])
     ELSE \E u \in WithEmail(req[r].email) :
            Goto(r, "read",
                 [loc[r] EXCEPT !.id = u, !.entity = WithNewToken(users[u], r)])
  /\ Rest /\ UNCHANGED <<users, wallets, history>>

FindByResetToken(r) ==
  /\ pc[r] = "find" /\ req[r].op = "reset"
  /\ IF WithToken(req[r].token) = {} THEN Goto(r, "declined", loc[r])
     ELSE \E u \in WithToken(req[r].token) :
            IF Expired(users[u]) THEN Goto(r, "declined", loc[r])
            ELSE Goto(r, "hash", [loc[r] EXCEPT !.id = u, !.entity = users[u]])
  /\ Rest /\ UNCHANGED <<users, wallets, history>>

\* bcrypt has hashed the new password.
Hash(r) ==
  /\ pc[r] = "hash"
  /\ Goto(r, "read", [loc[r] EXCEPT !.entity = WithNewPassword(@, r)])
  /\ Rest /\ UNCHANGED <<users, wallets, history>>

SaveReads(r) ==
  /\ pc[r] = "read"
  /\ Goto(r, "write", [loc[r] EXCEPT !.stored = users[loc[r].id]])
  /\ Rest /\ UNCHANGED <<users, wallets, history>>

SaveWrites(r) ==
  LET l == loc[r]
      row == users[l.id]
      new == [col \in DOMAIN row |-> IF l.entity[col] # l.stored[col]
                                     THEN l.entity[col] ELSE row[col]]
  IN
  /\ pc[r] = "write"
  /\ users' = [users EXCEPT ![l.id] = new]
  /\ Goto(r, "mail", l)
  /\ overtaken' =
       IF new = row THEN overtaken
       ELSE overtaken \union
              {q \in Requests \ {r} : /\ pc[q] \in {"hash", "read", "write"}
                                      /\ loc[q].id = l.id}
  /\ stale' = (stale \/ r \in overtaken)
  /\ spent' = IF req[r].op = "reset" THEN spent \union {req[r].token} ELSE spent
  /\ superseded' = IF req[r].op = "forgot"
                   THEN (superseded \union {row.token}) \ {NoToken} ELSE superseded
  /\ Rest /\ UNCHANGED wallets

\* What the transport makes of a mail: SMTP delivers it or fails, the test
\* account of a process without credentials takes or fails it and shows it to
\* nobody, the JSON fallback takes everything.
Outcomes ==
  CASE mail = "smtp" -> {"delivered", "error"}
    [] mail = "ethereal" -> {"taken", "error"}
    [] OTHER -> {"taken"}

\* Mutant: an error is swallowed here as it is after a reset.
SendTokenQuietly(r) ==
  /\ pc[r] = "mail" /\ req[r].op = "forgot"
  /\ \E outcome \in Outcomes :
       /\ Goto(r, "done", loc[r])
       /\ delivered' = IF outcome = "delivered" THEN delivered \union {r} ELSE delivered
  /\ UNCHANGED <<users, wallets, mail, now, req, history>>

\* sendPasswordResetEmail, whose error is answered with a 500.
SendToken(r) ==
  /\ pc[r] = "mail" /\ req[r].op = "forgot"
  /\ \E outcome \in Outcomes :
       /\ Goto(r, IF outcome = "error" THEN "failed" ELSE "done", loc[r])
       /\ delivered' = IF outcome = "delivered" THEN delivered \union {r} ELSE delivered
  /\ UNCHANGED <<users, wallets, mail, now, req, history>>

\* sendPasswordResetSuccessEmail, whose error is only logged.
SendConfirmation(r) ==
  /\ pc[r] = "mail" /\ req[r].op = "reset"
  /\ Goto(r, "done", loc[r])
  /\ Rest /\ UNCHANGED <<users, wallets, history>>

-----------------------------------------------------------------------------
\* The process dies, open transactions are rolled back, and a new process sets
\* up its mail: a test account if it can have one.
Crash ==
  /\ \E r \in Requests : pc[r] \in InFlight
  /\ pc' = [r \in Requests |-> IF pc[r] \in InFlight THEN "failed" ELSE pc[r]]
  /\ loc' = [r \in Requests |-> [loc[r] EXCEPT !.inserted = FALSE]]
  /\ mail' \in IF mail = "smtp" THEN {"smtp"} ELSE {"ethereal", "json"}
  /\ UNCHANGED <<users, wallets, delivered, now, req, history>>

NextHour ==
  /\ now < LastHour
  /\ now' = now + 1
  /\ UNCHANGED <<users, wallets, mail, delivered, pc, req, loc, history>>

Terminating ==
  /\ \A r \in Requests : pc[r] \in Answered
  /\ UNCHANGED vars

Serve(r) ==
  \/ FindFree(r) \/ InsertUser(r) \/ PickNumber(r) \/ OpenWallet(r)
  \/ FindForgetful(r) \/ FindByResetToken(r) \/ Hash(r)
  \/ SaveReads(r) \/ SaveWrites(r)
  \/ SendToken(r) \/ SendConfirmation(r)

Next ==
  \/ \E r \in Requests : Submit(r) \/ Serve(r)
  \/ Crash
  \/ NextHour
  \/ Terminating

Spec == Init /\ [][Next]_vars

-----------------------------------------------------------------------------
(***************************************************************************)
(* Properties                                                              *)
(***************************************************************************)

\* Every user has one wallet, every wallet a user, and no two users an email,
\* whatever two registrations race for and wherever one of them fails.
OneWalletPerUser ==
  /\ \A u \in UserIds :
       Cardinality({n \in Numbers : wallets[n] = u}) =
         IF users[u] = NoUser THEN 0 ELSE 1
  /\ \A u, v \in Registered : users[u].email = users[v].email => u = v

\* A token a password has been reset with is on no row any more, unless a request
\* that had read the user before has saved it again.
SpentTokensGone ==
  ~ stale => \A u \in Registered : users[u].token \notin spent

\* The password of a user changes only with the token the row holds, unless a
\* request saves a password it read before somebody else's change.
PasswordChangesByToken ==
  [][ \A u \in Registered :
        users'[u].password # users[u].password =>
          \/ stale'
          \/ \E r \in Requests :
               /\ pc[r] = "write" /\ req[r].op = "reset"
               /\ users[u].token = req[r].token ]_vars

\* Who is told that the instructions have been sent has been sent them, where
\* the process has an SMTP server; without one the answer is the same.
SentMeansDelivered ==
  \A r \in Requests :
    pc[r] = "done" /\ req[r].op = "forgot" => r \in delivered \/ mail # "smtp"

\* A token somebody was promised opens the reset for ValidHours, unless it is
\* spent or another request for one has replaced it (also one whose own mail
\* failed), or an early read has been saved over it.
PromisedTokensWork ==
  [][ \A r, t \in Requests :
        ( /\ pc[r] = "find" /\ pc'[r] = "declined" /\ req[r].op = "reset"
          /\ req[r].token = t /\ pc[t] = "done" /\ req[t].op = "forgot" )
        => \/ now > loc[t].entity.expires
           \/ t \in spent \union superseded
           \/ stale ]_vars

=============================================================================
