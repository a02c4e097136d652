-------------------------- MODULE AuthServiceProofs --------------------------
(***************************************************************************)
(* Proofs about AuthService, for any number of requests, emails and        *)
(* account numbers.  The inductive invariant has four layers:              *)
(*   TypeInv     the types, and what the place of a request tells of it;   *)
(*   WalletInv   users, wallets and emails, and what an open transaction   *)
(*               keeps others from;                                        *)
(*   TokenInv    whose each token is, and that a request nobody has        *)
(*               overtaken would read again what it has read;              *)
(*   PromiseInv  what has become of the tokens.                            *)
(***************************************************************************)
EXTENDS AuthService, FiniteSetTheorems, TLAPS

Locals ==
  [ id : UserIds \union {Nothing}, entity : Users \union {NoUser},
    stored : Users \union {NoUser}, number : Numbers \union {Nothing},
    inserted : BOOLEAN ]

\* A request that works on a user it has read; one that is past its save; one
\* whose own user is not in the table.
Saving == {"hash", "read", "write"}
Saved == {"mail", "done", "failed"}
Uncommitted == {"idle", "find", "insert", "pick", "open"}

PlaceOf(r) ==
  /\ pc[r] \in {"insert", "pick", "open"} =>
       /\ req[r].op = "register"
       /\ loc[r].id = r
       /\ loc[r].entity = [email |-> req[r].email, password |-> r,
                           token |-> NoToken, expires |-> 0]
  /\ pc[r] = "open" => loc[r].number \in Numbers
  /\ loc[r].inserted <=> pc[r] \in {"pick", "open"}
  /\ pc[r] \in Saving \union {"mail"} => req[r].op \in {"forgot", "reset"}
  /\ pc[r] = "hash" => req[r].op = "reset"
  /\ pc[r] \in Saving =>
       /\ loc[r].id \in Registered
       /\ loc[r].entity \in Users
       /\ loc[r].entity.email = users[loc[r].id].email
  /\ pc[r] = "write" =>
       /\ loc[r].stored \in Users
       /\ loc[r].stored.email = users[loc[r].id].email

TypeInv ==
  /\ TypeOK
  /\ req \in [Requests -> RequestRecords \union {Nothing}]
  /\ loc \in [Requests -> Locals]
  /\ \A r \in Requests : PlaceOf(r)

\* Every user there is has one account number, and nobody else has any.
Owners ==
  /\ \A u \in Registered : \E n \in Numbers : wallets[n] = u
  /\ \A n \in Numbers : wallets[n] # NoOwner => wallets[n] \in Registered
  /\ \A m, n \in Numbers : wallets[m] = wallets[n] /\ wallets[n] # NoOwner => m = n

UniqueEmails ==
  \A u, v \in Registered : users[u].email = users[v].email => u = v

\* A request has its user only when it has committed, and nobody else can
\* commit the email its open transaction has inserted.
OpenOf(r) ==
  /\ pc[r] \in Uncommitted => users[r] = NoUser
  /\ loc[r].inserted =>
       /\ WithEmail(req[r].email) = {}
       /\ \A q \in Requests :
            loc[q].inserted /\ req[q].email = req[r].email => q = r

WalletInv == Owners /\ UniqueEmails /\ \A r \in Requests : OpenOf(r)

\* The token t was made for user u.
MadeFor(t, u) ==
  t \in Requests /\ pc[t] \in Saved /\ req[t].op = "forgot" /\ loc[t].id = u

\* What request r is going to make of the user, from the user in the table.
Intended(r) ==
  LET row == users[loc[r].id] IN
  IF req[r].op = "forgot"
  THEN [row EXCEPT !.token = r, !.expires = loc[r].entity.expires]
  ELSE WithNewPassword(row, r)

\* A request nobody has overtaken would read again what it has read.
Current(r) ==
  /\ pc[r] \in Saving /\ req[r].op = "reset" =>
       users[loc[r].id].token = req[r].token
  /\ pc[r] = "hash" => loc[r].entity = users[loc[r].id]
  /\ pc[r] \in {"read", "write"} => loc[r].entity = Intended(r)
  /\ pc[r] = "write" => loc[r].stored = users[loc[r].id]

TokensOf(r) ==
  /\ pc[r] \in Saving /\ req[r].op = "reset" => MadeFor(req[r].token, loc[r].id)
  /\ pc[r] \in {"read", "write"} =>
       loc[r].entity.token = IF req[r].op = "forgot" THEN r ELSE NoToken
  /\ r \notin overtaken => Current(r)

TokenInv ==
  /\ \A u \in Registered : users[u].token # NoToken => MadeFor(users[u].token, u)
  /\ \A r \in Requests : TokensOf(r)

\* A token that was sent, and neither spent nor replaced, is on the row.
PromiseOf(t) ==
  ( /\ ~ stale /\ t \notin spent \union superseded
    /\ pc[t] \in {"mail", "done"} /\ req[t].op = "forgot" )
  => /\ loc[t].id \in Registered
     /\ users[loc[t].id].token = t
     /\ users[loc[t].id].expires = loc[t].entity.expires

PromiseInv ==
  /\ \A t \in spent : pc[t] \in Saved
  /\ SpentTokensGone
  /\ \A t \in Requests : PromiseOf(t)

IInv == TypeInv /\ WalletInv /\ TokenInv /\ PromiseInv

-----------------------------------------------------------------------------
(***************************************************************************)
(* Facts about rows and steps                                              *)
(***************************************************************************)

\* A step moves one request.
LEMMA Moves ==
  ASSUME TypeInv, NEW r \in Requests, NEW label, NEW l, Goto(r, label, l)
  PROVE  /\ \A q \in Requests : pc'[q] = IF q = r THEN label ELSE pc[q]
         /\ \A q \in Requests : loc'[q] = IF q = r THEN l ELSE loc[q]
  BY DEF Goto, TypeInv, TypeOK

LEMMA RegisteredUsers ==
  ASSUME TypeInv
  PROVE  /\ \A u \in Registered : u \in UserIds /\ users[u] \in Users
         /\ \A u \in UserIds : u \notin Registered => users[u] = NoUser
  BY DEF TypeInv, TypeOK, Registered

\* A user's columns.
LEMMA UserColumns ==
  ASSUME NEW u \in Users
  PROVE  /\ DOMAIN u = {"email", "password", "token", "expires"}
         /\ u.email \in Emails /\ u.password \in UserIds
         /\ u.token \in Requests \union {NoToken} /\ u.expires \in Nat
  BY DEF Users

\* What a save leaves in the table is column by column the entity's or the row's.
LEMMA SavedRow ==
  ASSUME NEW row \in Users, NEW entity \in Users, NEW stored \in Users
  PROVE  LET new == [col \in DOMAIN row |-> IF entity[col] # stored[col]
                                            THEN entity[col] ELSE row[col]]
         IN /\ new \in Users
            /\ new.email = IF entity.email # stored.email
                           THEN entity.email ELSE row.email
            /\ new.password = IF entity.password # stored.password
                              THEN entity.password ELSE row.password
            /\ new.token = IF entity.token # stored.token
                           THEN entity.token ELSE row.token
            /\ new.expires = IF entity.expires # stored.expires
                             THEN entity.expires ELSE row.expires
  <1> DEFINE new == [col \in DOMAIN row |-> IF entity[col] # stored[col]
                                            THEN entity[col] ELSE row[col]]
  <1>1. DOMAIN row = {"email", "password", "token", "expires"}
    BY UserColumns
  <1>2. new = [ email |-> IF entity.email # stored.email
                          THEN entity.email ELSE row.email,
                password |-> IF entity.password # stored.password
                             THEN entity.password ELSE row.password,
                token |-> IF entity.token # stored.token
                          THEN entity.token ELSE row.token,
                expires |-> IF entity.expires # stored.expires
                            THEN entity.expires ELSE row.expires ]
    BY <1>1
  <1> HIDE DEF new
  <1>3. new \in Users
    BY <1>2, UserColumns DEF Users
  <1> QED BY <1>2, <1>3 DEF new

\* The rows the two calls want are rows.
LEMMA WantedRows ==
  ASSUME TypeInv, NEW u \in Users, NEW r \in Requests
  PROVE  /\ WithNewToken(u, r) \in Users
         /\ WithNewToken(u, r) = [u EXCEPT !.token = r, !.expires = now + ValidHours]
         /\ WithNewToken(u, r).email = u.email /\ WithNewToken(u, r).token = r
         /\ WithNewPassword(u, r) \in Users
         /\ WithNewPassword(u, r).email = u.email
         /\ WithNewPassword(u, r).token = NoToken
  <1>1. now \in Nat /\ ValidHours \in Nat /\ r \in UserIds
    BY ConstantsAssumption DEF TypeInv, TypeOK, UserIds
  <1>2. WithNewToken(u, r) \in Users
    <2>1. now + ValidHours \in Nat /\ r \in Requests \union {NoToken}
      BY <1>1
    <2> QED BY <2>1 DEF Users, WithNewToken
  <1>5. WithNewPassword(u, r) \in Users
    BY <1>1 DEF Users, WithNewPassword
  <1>3. WithNewToken(u, r).email = u.email /\ WithNewToken(u, r).token = r
    BY <1>1 DEF Users, WithNewToken
  <1>4. WithNewPassword(u, r).email = u.email /\ WithNewPassword(u, r).token = NoToken
    BY <1>1 DEF Users, WithNewPassword
  <1> QED BY <1>2, <1>3, <1>4, <1>5 DEF WithNewToken

-----------------------------------------------------------------------------
(***************************************************************************)
(* Steps that change nothing but the place and the locals of one request   *)
(***************************************************************************)

\* What such a step may not do to what others rely on.
Modest(r, label, l) ==
  /\ pc[r] # "idle" /\ label \in InFlight \union Answered /\ l \in Locals
  /\ Goto(r, label, l)
  /\ label \in Uncommitted => pc[r] \in Uncommitted
  /\ l.inserted => loc[r].inserted \/ OpenOf(r)'
  /\ pc[r] \in Saved => label \in Saved /\ l.id = loc[r].id /\ l.entity = loc[r].entity
  /\ label \in {"mail", "done"} /\ req[r].op = "forgot" => pc[r] = "mail"

LEMMA LocalStep ==
  ASSUME IInv, NEW r \in Requests, NEW label, NEW l, Modest(r, label, l),
         UNCHANGED <<users, wallets, now, req, history>>,
         mail' = mail, delivered' \subseteq Requests,
         PlaceOf(r)', TokensOf(r)'
  PROVE  IInv'
  <1> USE DEF IInv, history
  <1>1. /\ \A q \in Requests : pc'[q] = IF q = r THEN label ELSE pc[q]
        /\ \A q \in Requests : loc'[q] = IF q = r THEN l ELSE loc[q]
    BY Moves DEF Modest
  <1>2. Registered' = Registered /\ \A e : WithEmail(e)' = WithEmail(e)
    BY DEF Registered, WithEmail
  <1>3. TypeInv'
    <2>1. pc' \in [Requests -> {"idle"} \union InFlight \union Answered]
          /\ loc' \in [Requests -> Locals]
      BY DEF Modest, Goto, TypeInv, TypeOK
    <2>2. \A q \in Requests : PlaceOf(q)'
      <3> SUFFICES ASSUME NEW q \in Requests, q # r PROVE PlaceOf(q)'
        OBVIOUS
      <3>1. PlaceOf(q) /\ pc'[q] = pc[q] /\ loc'[q] = loc[q]
        BY <1>1 DEF TypeInv
      <3> QED BY <3>1, <1>2 DEF PlaceOf
    <2>3. TypeOK'
      <3>1. \A q \in Requests :
              /\ pc'[q] # "idle" => req'[q] \in RequestRecords
              /\ loc'[q].entity \in Users \union {NoUser}
              /\ loc'[q].inserted => pc'[q] \in {"pick", "open"}
        BY <1>1, <2>1, <2>2 DEF TypeInv, TypeOK, Modest, Locals, PlaceOf
      <3> QED BY <2>1, <3>1 DEF TypeInv, TypeOK
    <2> QED BY <2>1, <2>2, <2>3 DEF TypeInv
  <1>4. WalletInv'
    <2>1. Owners' /\ UniqueEmails'
      BY <1>2 DEF WalletInv, Owners, UniqueEmails
    <2>2. \A q \in Requests : loc'[q].inserted => loc[q].inserted \/ (q = r /\ OpenOf(r)')
      BY <1>1 DEF Modest
    <2>3. \A q \in Requests : OpenOf(q)'
      <3> SUFFICES ASSUME NEW q \in Requests PROVE OpenOf(q)'
        OBVIOUS
      <3>1. pc'[q] \in Uncommitted => users'[q] = NoUser
        BY <1>1 DEF WalletInv, OpenOf, Modest
      <3>2. loc'[q].inserted => WithEmail(req[q].email) = {}
        BY <1>2, <2>2, <1>1 DEF WalletInv, OpenOf
      <3>3. ASSUME NEW p \in Requests,
                   loc'[q].inserted, loc'[p].inserted, req[p].email = req[q].email
            PROVE  p = q
        BY <2>2, <3>3, <1>1 DEF WalletInv, OpenOf
      <3> QED BY <3>1, <3>2, <3>3, <1>2 DEF OpenOf
    <2> QED BY <2>1, <2>3 DEF WalletInv
  <1>5. \A t, u : MadeFor(t, u) => MadeFor(t, u)'
    BY <1>1 DEF MadeFor, Modest
  <1>6. TokenInv'
    <2>1. \A q \in Requests : TokensOf(q)'
      <3> SUFFICES ASSUME NEW q \in Requests, q # r PROVE TokensOf(q)'
        OBVIOUS
      <3>1. TokensOf(q) /\ pc'[q] = pc[q] /\ loc'[q] = loc[q]
        BY <1>1 DEF TokenInv
      <3>2. Current(q) => Current(q)'
        BY <3>1 DEF Current, Intended, WithNewPassword
      <3> QED BY <3>1, <3>2, <1>5 DEF TokensOf
    <2> QED BY <2>1, <1>2, <1>5 DEF TokenInv
  <1>7. PromiseInv'
    <2>1. \A t \in spent : pc'[t] \in Saved
      BY <1>1 DEF PromiseInv, Modest, TypeInv, TypeOK
    <2>2. SpentTokensGone'
      BY <1>2 DEF PromiseInv, SpentTokensGone
    <2>3. \A t \in Requests : PromiseOf(t)'
      <3> SUFFICES ASSUME NEW t \in Requests PROVE PromiseOf(t)'
        OBVIOUS
      <3>1. pc'[t] \in {"mail", "done"} /\ req[t].op = "forgot" =>
              /\ pc[t] \in {"mail", "done"}
              /\ loc'[t].id = loc[t].id /\ loc'[t].entity = loc[t].entity
        BY <1>1 DEF Modest, Saved
      <3> QED BY <3>1, <1>2 DEF PromiseInv, PromiseOf
    <2> QED BY <2>1, <2>2, <2>3 DEF PromiseInv
  <1> QED BY <1>3, <1>4, <1>6, <1>7

\* A request that gives up: it saves nothing and keeps its locals.
LEMMA GiveUp ==
  ASSUME IInv, NEW r \in Requests, pc[r] \in {"find", "insert", "mail"},
         NEW label \in Answered,
         label = "done" => pc[r] = "mail" \/ req[r].op # "forgot",
         pc[r] = "mail" => label \in Saved,
         Goto(r, label, loc[r]),
         UNCHANGED <<users, wallets, now, req, history>>,
         mail' = mail, delivered' \subseteq Requests
  PROVE  IInv'
  <1> USE DEF IInv
  <1>1. pc'[r] = label /\ loc'[r] = loc[r] /\ loc[r] \in Locals
    BY Moves DEF TypeInv
  <1>2. PlaceOf(r) /\ ~ loc[r].inserted
    BY DEF TypeInv, PlaceOf
  <1>3. PlaceOf(r)'
    BY <1>1, <1>2 DEF PlaceOf, Answered, Saving
  <1>4. TokensOf(r)'
    BY <1>1 DEF TokensOf, Current, Answered, Saving
  <1>5. Modest(r, label, loc[r])
    <2>1. label \notin Uncommitted /\ (label = "done" \/ label \in {"declined", "failed"})
      BY DEF Answered, Uncommitted
    <2>2. pc[r] \in Saved => label \in Saved
      BY <2>1 DEF Saved
    <2> QED BY <1>1, <1>2, <2>1, <2>2 DEF Modest
  <1> QED BY <1>3, <1>4, <1>5, LocalStep

LEMMA FindFreeIInv ==
  ASSUME IInv, NEW r \in Requests, FindFree(r)
  PROVE  IInv'
  <1> USE DEF IInv
  <1> DEFINE row == [email |-> req[r].email, password |-> r,
                     token |-> NoToken, expires |-> 0]
             l == [loc[r] EXCEPT !.id = r, !.entity = row]
  <1>1. /\ pc[r] = "find" /\ req[r].op = "register"
        /\ UNCHANGED <<users, wallets, mail, delivered, now, req, history>>
        /\ delivered' \subseteq Requests /\ loc[r] \in Locals
    BY DEF FindFree, Rest, TypeInv, TypeOK
  <1>2. CASE WithEmail(req[r].email) # {}
    <2>1. Goto(r, "declined", loc[r]) /\ "declined" \in Answered
      BY <1>2 DEF FindFree, Answered
    <2> QED BY <1>1, <2>1, GiveUp
  <1>3. CASE WithEmail(req[r].email) = {}
    <2>1. Goto(r, "insert", l)
      BY <1>3 DEF FindFree
    <2>2. r \in UserIds /\ req[r].email \in Emails
      BY <1>1 DEF UserIds, TypeInv, TypeOK, RequestRecords
    <2>3. row \in Users
      BY <2>2 DEF Users
    <2>4. l \in Locals /\ l.id = r /\ l.entity = row /\ l.inserted = loc[r].inserted
      BY <1>1, <2>2, <2>3 DEF Locals
    <2>9. ~ loc[r].inserted
      BY <1>1 DEF TypeInv, PlaceOf
    <2>5. pc'[r] = "insert" /\ loc'[r] = l /\ ~ loc[r].inserted
      BY <2>1, <2>9, Moves
    <2> HIDE DEF l
    <2>6. PlaceOf(r)'
      BY <1>1, <2>4, <2>5 DEF PlaceOf, Saving
    <2>7. TokensOf(r)'
      BY <2>5 DEF TokensOf, Current, Saving
    <2>8. Modest(r, "insert", l)
      BY <1>1, <2>1, <2>4, <2>5 DEF Modest, Saved, Uncommitted, InFlight
    <2> QED BY <1>1, <2>6, <2>7, <2>8, LocalStep
  <1> QED BY <1>2, <1>3

LEMMA InsertUserIInv ==
  ASSUME IInv, NEW r \in Requests, InsertUser(r)
  PROVE  IInv'
  <1> USE DEF IInv
  <1> DEFINE l == [loc[r] EXCEPT !.inserted = TRUE]
  <1>1. /\ pc[r] = "insert" /\ req[r].op = "register"
        /\ UNCHANGED <<users, wallets, mail, delivered, now, req, history>>
        /\ delivered' \subseteq Requests /\ loc[r] \in Locals
        /\ \A q \in Requests : loc[q].inserted => req[q].email # req[r].email
    BY DEF InsertUser, Rest, TypeInv, TypeOK, PlaceOf
  <1>2. CASE WithEmail(req[r].email) # {}
    <2>1. Goto(r, "failed", loc[r]) /\ "failed" \in Answered
      BY <1>2 DEF InsertUser, Answered
    <2> QED BY <1>1, <2>1, GiveUp
  <1>3. CASE WithEmail(req[r].email) = {}
    <2>1. Goto(r, "pick", l)
      BY <1>3 DEF InsertUser
    <2>2. /\ l \in Locals /\ l.id = loc[r].id /\ l.entity = loc[r].entity /\ l.inserted
      BY <1>1 DEF Locals
    <2>3. /\ \A q \in Requests : pc'[q] = IF q = r THEN "pick" ELSE pc[q]
          /\ \A q \in Requests : loc'[q] = IF q = r THEN l ELSE loc[q]
      BY <2>1, Moves
    <2> HIDE DEF l
    <2>4. PlaceOf(r)'
      BY <1>1, <2>2, <2>3 DEF PlaceOf, Saving, TypeInv
    <2>5. TokensOf(r)'
      BY <2>3 DEF TokensOf, Current, Saving
    <2>6. OpenOf(r)'
      <3>1. users'[r] = NoUser
        BY <1>1 DEF WalletInv, OpenOf, Uncommitted
      <3>2. WithEmail(req[r].email)' = {}
        BY <1>1, <1>3 DEF WithEmail, Registered
      <3>3. \A q \in Requests : loc'[q].inserted /\ req[q].email = req[r].email => q = r
        BY <1>1, <2>3
      <3> QED BY <1>1, <3>1, <3>2, <3>3 DEF OpenOf
    <2>7. Modest(r, "pick", l)
      BY <1>1, <2>1, <2>2, <2>6 DEF Modest, Saved, Uncommitted, InFlight
    <2> QED BY <1>1, <2>4, <2>5, <2>7, LocalStep
  <1> QED BY <1>2, <1>3

LEMMA PickNumberIInv ==
  ASSUME IInv, NEW r \in Requests, PickNumber(r)
  PROVE  IInv'
  <1> USE DEF IInv
  <1>1. PICK n \in Numbers : Goto(r, "open", [loc[r] EXCEPT !.number = n])
    BY DEF PickNumber
  <1> DEFINE l == [loc[r] EXCEPT !.number = n]
  <1>2. /\ pc[r] = "pick"
        /\ UNCHANGED <<users, wallets, mail, delivered, now, req, history>>
        /\ delivered' \subseteq Requests /\ loc[r] \in Locals
    BY DEF PickNumber, Rest, TypeInv, TypeOK
  <1>3. /\ l \in Locals /\ l.id = loc[r].id /\ l.entity = loc[r].entity
        /\ l.inserted = loc[r].inserted /\ l.number = n
    BY <1>2 DEF Locals
  <1>4. pc'[r] = "open" /\ loc'[r] = l /\ Goto(r, "open", l)
    BY <1>1, Moves
  <1> HIDE DEF l
  <1>5. PlaceOf(r)'
    BY <1>2, <1>3, <1>4 DEF PlaceOf, Saving, TypeInv
  <1>6. TokensOf(r)'
    BY <1>4 DEF TokensOf, Current, Saving
  <1>7. Modest(r, "open", l)
    BY <1>2, <1>3, <1>4 DEF Modest, Saved, Uncommitted, InFlight
  <1> QED BY <1>2, <1>5, <1>6, <1>7, LocalStep

\* A token that was made for a user still is when another request moves.
LEMMA MadeForStays ==
  ASSUME IInv, NEW r \in Requests, pc[r] \notin Saved, NEW label, NEW l,
         Goto(r, label, l), req' = req, NEW t, NEW u, MadeFor(t, u)
  PROVE  MadeFor(t, u)'
  <1>1. t \in Requests /\ t # r
    BY DEF MadeFor
  <1>2. pc'[t] = pc[t] /\ loc'[t] = loc[t]
    BY <1>1, Moves DEF IInv
  <1> QED BY <1>1, <1>2 DEF MadeFor

LEMMA FindForgetfulIInv ==
  ASSUME IInv, NEW r \in Requests, FindForgetful(r)
  PROVE  IInv'
  <1> USE DEF IInv
  <1>1. /\ pc[r] = "find" /\ req[r].op = "forgot"
        /\ UNCHANGED <<users, wallets, mail, delivered, now, req, history>>
        /\ delivered' \subseteq Requests /\ loc[r] \in Locals
    BY DEF FindForgetful, Rest, TypeInv, TypeOK
  <1>2. CASE WithEmail(req[r].email) = {}
    <2>1. Goto(r, "declined", loc[r]) /\ "declined" \in Answered
      BY <1>2 DEF FindForgetful, Answered
    <2> QED BY <1>1, <2>1, GiveUp
  <1>3. CASE WithEmail(req[r].email) # {}
    <2>1. PICK u \in WithEmail(req[r].email) :
            Goto(r, "read",
                 [loc[r] EXCEPT !.id = u, !.entity = WithNewToken(users[u], r)])
      BY <1>3 DEF FindForgetful
    <2> DEFINE l == [loc[r] EXCEPT !.id = u, !.entity = WithNewToken(users[u], r)]
    <2>2. u \in Registered /\ u \in UserIds /\ users[u] \in Users
      BY RegisteredUsers DEF WithEmail
    <2>3. /\ WithNewToken(users[u], r) \in Users
          /\ WithNewToken(users[u], r) =
               [users[u] EXCEPT !.token = r, !.expires = now + ValidHours]
          /\ WithNewToken(users[u], r).email = users[u].email
          /\ WithNewToken(users[u], r).token = r
      BY <2>2, WantedRows
    <2>4. ~ loc[r].inserted
      BY <1>1 DEF TypeInv, PlaceOf
    <2>5. /\ l \in Locals /\ l.id = u /\ l.entity = WithNewToken(users[u], r)
          /\ ~ l.inserted
      BY <1>1, <2>2, <2>3, <2>4 DEF Locals
    <2>6. pc'[r] = "read" /\ loc'[r] = l /\ Goto(r, "read", l)
      BY <2>1, Moves
    <2> HIDE DEF l
    <2>7. Registered' = Registered
      BY <1>1 DEF Registered
    <2>8. PlaceOf(r)'
      BY <1>1, <2>2, <2>3, <2>5, <2>6, <2>7 DEF PlaceOf, Saving
    <2>9. TokensOf(r)'
      <3>1. l.entity.expires = now + ValidHours
        BY <2>2, <2>3, <2>5 DEF Users
      <3>2. Intended(r)' = l.entity
        BY <1>1, <2>3, <2>5, <2>6, <3>1 DEF Intended
      <3>3. Current(r)'
        BY <1>1, <2>6, <3>2 DEF Current
      <3> QED BY <1>1, <2>3, <2>5, <2>6, <3>3 DEF TokensOf
    <2>10. Modest(r, "read", l)
      BY <1>1, <2>5, <2>6 DEF Modest, Saved, Uncommitted, InFlight
    <2> QED BY <1>1, <2>8, <2>9, <2>10, LocalStep
  <1> QED BY <1>2, <1>3

LEMMA FindByResetTokenIInv ==
  ASSUME IInv, NEW r \in Requests, FindByResetToken(r)
  PROVE  IInv'
  <1> USE DEF IInv
  <1>1. /\ pc[r] = "find" /\ req[r].op = "reset"
        /\ UNCHANGED <<users, wallets, mail, delivered, now, req, history>>
        /\ delivered' \subseteq Requests /\ loc[r] \in Locals
    BY DEF FindByResetToken, Rest, TypeInv, TypeOK
  <1>2. CASE Goto(r, "declined", loc[r])
    <2>1. "declined" \in Answered
      BY DEF Answered
    <2> QED BY <1>1, <1>2, <2>1, GiveUp
  <1>3. CASE ~ Goto(r, "declined", loc[r])
    <2>1. PICK u \in WithToken(req[r].token) :
            Goto(r, "hash", [loc[r] EXCEPT !.id = u, !.entity = users[u]])
      BY <1>3 DEF FindByResetToken
    <2> DEFINE l == [loc[r] EXCEPT !.id = u, !.entity = users[u]]
    <2>2. /\ u \in Registered /\ u \in UserIds /\ users[u] \in Users
          /\ users[u].token = req[r].token
      BY RegisteredUsers DEF WithToken
    <2>3. ~ loc[r].inserted
      BY <1>1 DEF TypeInv, PlaceOf
    <2>4. l \in Locals /\ l.id = u /\ l.entity = users[u] /\ ~ l.inserted
      BY <1>1, <2>2, <2>3 DEF Locals
    <2>5. pc'[r] = "hash" /\ loc'[r] = l /\ Goto(r, "hash", l)
      BY <2>1, Moves
    <2> HIDE DEF l
    <2>6. Registered' = Registered
      BY <1>1 DEF Registered
    <2>7. PlaceOf(r)'
      BY <1>1, <2>2, <2>4, <2>5, <2>6 DEF PlaceOf, Saving
    <2>8. MadeFor(req[r].token, u)'
      <3>1. req[r] \in RequestRecords
        BY <1>1 DEF TypeInv, TypeOK
      <3>2. req[r].token \in Requests
        BY <1>1, <3>1 DEF RequestRecords
      <3>3. MadeFor(users[u].token, u)
        BY <2>2, <3>2, ConstantsAssumption DEF TokenInv
      <3> QED BY <1>1, <2>2, <2>5, <3>3, MadeForStays DEF Saved
    <2>9. TokensOf(r)'
      BY <1>1, <2>2, <2>4, <2>5, <2>8 DEF TokensOf, Current, Saving
    <2>10. Modest(r, "hash", l)
      BY <1>1, <2>4, <2>5 DEF Modest, Saved, Uncommitted, InFlight
    <2> QED BY <1>1, <2>7, <2>9, <2>10, LocalStep
  <1> QED BY <1>2, <1>3

LEMMA HashIInv ==
  ASSUME IInv, NEW r \in Requests, Hash(r)
  PROVE  IInv'
  <1> USE DEF IInv
  <1> DEFINE l == [loc[r] EXCEPT !.entity = WithNewPassword(loc[r].entity, r)]
  <1>1. /\ pc[r] = "hash" /\ req[r].op = "reset"
        /\ UNCHANGED <<users, wallets, mail, delivered, now, req, history>>
        /\ delivered' \subseteq Requests /\ loc[r] \in Locals
        /\ loc[r].id \in Registered /\ loc[r].entity \in Users
        /\ loc[r].entity.email = users[loc[r].id].email /\ ~ loc[r].inserted
    BY DEF Hash, Rest, TypeInv, TypeOK, PlaceOf, Saving
  <1>2. /\ WithNewPassword(loc[r].entity, r) \in Users
        /\ WithNewPassword(loc[r].entity, r).email = loc[r].entity.email
        /\ WithNewPassword(loc[r].entity, r).token = NoToken
    BY <1>1, WantedRows
  <1>3. /\ l \in Locals /\ l.id = loc[r].id /\ ~ l.inserted
        /\ l.entity = WithNewPassword(loc[r].entity, r)
    BY <1>1, <1>2 DEF Locals
  <1>4. Goto(r, "read", l)
    BY <1>1 DEF Hash, Locals
  <1>5. pc'[r] = "read" /\ loc'[r] = l
    BY <1>4, Moves
  <1> HIDE DEF l
  <1>6. Registered' = Registered
    BY <1>1 DEF Registered
  <1>7. PlaceOf(r)'
    BY <1>1, <1>2, <1>3, <1>5, <1>6 DEF PlaceOf, Saving
  <1>8. TokensOf(r)'
    <2>1. MadeFor(req[r].token, loc[r].id)
      BY <1>1 DEF TokenInv, TokensOf, Saving
    <2>2. MadeFor(req[r].token, loc[r].id)'
      <3>1. PICK t, u : t = req[r].token /\ u = loc[r].id
        OBVIOUS
      <3>2. MadeFor(t, u)'
        BY <1>1, <1>4, <2>1, <3>1, MadeForStays DEF Saved
      <3> QED BY <1>1, <1>3, <1>5, <3>1, <3>2 DEF MadeFor
    <2>3. r \notin overtaken => Current(r)'
      <3> SUFFICES ASSUME r \notin overtaken PROVE Current(r)'
        OBVIOUS
      <3>1. /\ users[loc[r].id].token = req[r].token
            /\ loc[r].entity = users[loc[r].id]
        BY <1>1 DEF TokenInv, TokensOf, Current, Saving
      <3>2. Intended(r)' = l.entity
        BY <1>1, <1>3, <1>5, <3>1 DEF Intended, WithNewPassword
      <3> QED BY <1>1, <1>3, <1>5, <3>1, <3>2 DEF Current
    <2> QED BY <1>1, <1>2, <1>3, <1>5, <2>2, <2>3 DEF TokensOf, history
  <1>9. Modest(r, "read", l)
    BY <1>1, <1>3, <1>4 DEF Modest, Saved, Uncommitted, InFlight
  <1> QED BY <1>1, <1>7, <1>8, <1>9, LocalStep

LEMMA SaveReadsIInv ==
  ASSUME IInv, NEW r \in Requests, SaveReads(r)
  PROVE  IInv'
  <1> USE DEF IInv
  <1> DEFINE l == [loc[r] EXCEPT !.stored = users[loc[r].id]]
  <1>1. /\ pc[r] = "read" /\ req[r].op \in {"forgot", "reset"}
        /\ UNCHANGED <<users, wallets, mail, delivered, now, req, history>>
        /\ delivered' \subseteq Requests /\ loc[r] \in Locals
        /\ loc[r].id \in Registered /\ loc[r].entity \in Users
        /\ loc[r].entity.email = users[loc[r].id].email /\ ~ loc[r].inserted
    BY DEF SaveReads, Rest, TypeInv, TypeOK, PlaceOf, Saving
  <1>2. users[loc[r].id] \in Users
    BY <1>1, RegisteredUsers
  <1>3. /\ l \in Locals /\ l.id = loc[r].id /\ l.entity = loc[r].entity
        /\ ~ l.inserted /\ l.stored = users[loc[r].id]
    BY <1>1, <1>2 DEF Locals
  <1>4. pc'[r] = "write" /\ loc'[r] = l /\ Goto(r, "write", l)
    BY Moves DEF SaveReads
  <1> HIDE DEF l
  <1>5. Registered' = Registered
    BY <1>1 DEF Registered
  <1>6. PlaceOf(r)'
    BY <1>1, <1>2, <1>3, <1>4, <1>5 DEF PlaceOf, Saving
  <1>7. TokensOf(r)'
    <2>1. TokensOf(r)
      BY DEF TokenInv
    <2>2. req[r].op = "reset" => MadeFor(req[r].token, loc[r].id)'
      <3>1. PICK t, u : t = req[r].token /\ u = loc[r].id
        OBVIOUS
      <3>2. req[r].op = "reset" => MadeFor(t, u)'
        BY <1>1, <1>4, <2>1, <3>1, MadeForStays DEF Saved, TokensOf, Saving
      <3> QED BY <1>1, <1>3, <1>4, <3>1, <3>2 DEF MadeFor
    <2>3. r \notin overtaken => Current(r)'
      <3> SUFFICES ASSUME r \notin overtaken PROVE Current(r)'
        OBVIOUS
      <3>1. Current(r)
        BY <2>1 DEF TokensOf
      <3>2. Intended(r)' = Intended(r)
        BY <1>1, <1>3, <1>4 DEF Intended, WithNewPassword
      <3> QED BY <1>1, <1>3, <1>4, <3>1, <3>2 DEF Current, Saving
    <2> QED BY <1>1, <1>3, <1>4, <2>1, <2>2, <2>3 DEF TokensOf, history
  <1>8. Modest(r, "write", l)
    BY <1>1, <1>3, <1>4 DEF Modest, Saved, Uncommitted, InFlight
  <1> QED BY <1>1, <1>6, <1>7, <1>8, LocalStep

LEMMA SendIInv ==
  ASSUME IInv, NEW r \in Requests, SendToken(r) \/ SendConfirmation(r)
  PROVE  IInv'
  <1> USE DEF IInv
  <1>1. /\ pc[r] = "mail"
        /\ UNCHANGED <<users, wallets, mail, now, req, history>>
        /\ delivered' \subseteq Requests
    BY DEF SendToken, SendConfirmation, Rest, TypeInv, TypeOK
  <1>2. PICK label \in {"failed", "done"} : Goto(r, label, loc[r])
    BY DEF SendToken, SendConfirmation
  <1>3. label \in Answered /\ label \in Saved
    BY DEF Answered, Saved
  <1> QED BY <1>1, <1>2, <1>3, GiveUp

-----------------------------------------------------------------------------
(***************************************************************************)
(* Steps that change a table                                               *)
(***************************************************************************)

LEMMA OpenWalletIInv ==
  ASSUME IInv, NEW r \in Requests, OpenWallet(r)
  PROVE  IInv'
  <1> DEFINE l == [loc[r] EXCEPT !.inserted = FALSE]
             n == loc[r].number
  <1>1. /\ pc[r] = "open" /\ req[r].op = "register"
        /\ UNCHANGED <<mail, delivered, now, req, history>>
        /\ delivered' \subseteq Requests /\ loc[r] \in Locals
        /\ n \in Numbers /\ r \in UserIds /\ users[r] = NoUser
        /\ loc[r].inserted /\ loc[r].id = r
        /\ loc[r].entity = [email |-> req[r].email, password |-> r,
                            token |-> NoToken, expires |-> 0]
    BY DEF OpenWallet, Rest, IInv, TypeInv, TypeOK, PlaceOf, WalletInv, OpenOf,
           Uncommitted, UserIds
  <1>2. /\ l \in Locals /\ l.id = loc[r].id /\ l.entity = loc[r].entity
        /\ ~ l.inserted
    BY <1>1 DEF Locals
  <1>3. CASE wallets[n] # NoOwner
    <2>1. Goto(r, "failed", l) /\ UNCHANGED <<users, wallets>>
      BY <1>3 DEF OpenWallet
    <2>2. pc'[r] = "failed" /\ loc'[r] = l
      BY <2>1, Moves DEF IInv
    <2> HIDE DEF l
    <2>3. PlaceOf(r)'
      BY <1>2, <2>2 DEF PlaceOf, Saving
    <2>4. TokensOf(r)'
      BY <2>2 DEF TokensOf, Current, Saving
    <2>5. Modest(r, "failed", l)
      BY <1>1, <1>2, <2>1 DEF Modest, Saved, Uncommitted, Answered
    <2> QED BY <1>1, <2>1, <2>3, <2>4, <2>5, LocalStep
  <1>4. CASE wallets[n] = NoOwner
    <2>1. /\ users' = [users EXCEPT ![r] = loc[r].entity]
          /\ wallets' = [wallets EXCEPT ![n] = r]
          /\ Goto(r, "done", l)
      BY <1>4 DEF OpenWallet
    <2>2. /\ \A q \in Requests : pc'[q] = IF q = r THEN "done" ELSE pc[q]
          /\ \A q \in Requests : loc'[q] = IF q = r THEN l ELSE loc[q]
      BY <2>1, Moves DEF IInv
    <2> HIDE DEF l, n
    <2>3. req[r].email \in Emails /\ loc[r].entity \in Users
      <3>1. req[r] \in RequestRecords
        BY <1>1 DEF IInv, TypeInv, TypeOK
      <3>2. req[r].email \in Emails
        BY <1>1, <3>1 DEF RequestRecords
      <3> QED BY <1>1, <3>2 DEF Users
    <2>4. /\ users' \in [UserIds -> Users \union {NoUser}]
          /\ \A u \in UserIds : users'[u] = IF u = r THEN loc[r].entity ELSE users[u]
      BY <1>1, <2>1, <2>3 DEF IInv, TypeInv, TypeOK
    <2>5. r \notin Registered /\ Registered' = Registered \union {r}
      BY <1>1, <2>3, <2>4, ConstantsAssumption DEF Registered
    <2>6. \A u \in Registered : users'[u] = users[u]
      BY <2>4, <2>5 DEF Registered
    <2>7. WithEmail(req[r].email) = {}
      BY <1>1 DEF IInv, WalletInv, OpenOf
    <2>8. TypeInv'
      <3>1. /\ wallets' \in [Numbers -> UserIds \union {NoOwner}]
            /\ pc' \in [Requests -> {"idle"} \union InFlight \union Answered]
            /\ loc' \in [Requests -> Locals]
        BY <1>1, <1>2, <2>1 DEF IInv, TypeInv, TypeOK, Goto, Answered
      <3>2. \A q \in Requests : PlaceOf(q)'
        <4> SUFFICES ASSUME NEW q \in Requests PROVE PlaceOf(q)'
          OBVIOUS
        <4>1. CASE q = r
          BY <4>1, <1>2, <2>2 DEF PlaceOf, Saving
        <4>2. CASE q # r
          <5>1. PlaceOf(q) /\ pc'[q] = pc[q] /\ loc'[q] = loc[q] /\ req' = req
            BY <4>2, <1>1, <2>2 DEF IInv, TypeInv
          <5> QED BY <5>1, <2>5, <2>6 DEF PlaceOf, Saving
        <4> QED BY <4>1, <4>2
      <3>3. \A q \in Requests :
              /\ pc'[q] # "idle" => req'[q] \in RequestRecords
              /\ loc'[q].entity \in Users \union {NoUser}
              /\ loc'[q].inserted => pc'[q] \in {"pick", "open"}
        BY <1>1, <2>2, <3>1, <3>2 DEF IInv, TypeInv, TypeOK, Locals, PlaceOf
      <3> QED BY <1>1, <2>4, <3>1, <3>2, <3>3 DEF IInv, TypeInv, TypeOK, history
    <2>9. WalletInv'
      <3>1. \A m \in Numbers : wallets'[m] = IF m = n THEN r ELSE wallets[m]
        BY <2>1 DEF IInv, TypeInv, TypeOK
      <3>2. Owners'
        <4>1. r # NoOwner /\ \A m \in Numbers : wallets[m] # r
          BY <1>1, <2>5, ConstantsAssumption DEF IInv, WalletInv, Owners
        <4>2. \A u \in Registered' : \E m \in Numbers : wallets'[m] = u
          <5> SUFFICES ASSUME NEW u \in Registered \union {r}
                       PROVE  \E m \in Numbers : wallets'[m] = u
            BY <2>5
          <5>1. CASE u = r
            BY <5>1, <1>1, <3>1
          <5>2. CASE u \in Registered
            <6>1. PICK m \in Numbers : wallets[m] = u
              BY <5>2 DEF IInv, WalletInv, Owners
            <6>2. m # n
              BY <6>1, <5>2, <1>4, ConstantsAssumption DEF Registered
            <6> QED BY <6>1, <6>2, <3>1
          <5> QED BY <5>1, <5>2
        <4>3. \A m \in Numbers : wallets'[m] # NoOwner => wallets'[m] \in Registered'
          BY <3>1, <2>5 DEF IInv, WalletInv, Owners
        <4>4. \A m, k \in Numbers :
                wallets'[m] = wallets'[k] /\ wallets'[k] # NoOwner => m = k
          BY <3>1, <4>1 DEF IInv, WalletInv, Owners
        <4> QED BY <4>2, <4>3, <4>4 DEF Owners
      <3>3. UniqueEmails'
        <4>1. \A u \in Registered : users[u].email # req[r].email
          BY <2>7 DEF WithEmail
        <4>2. users'[r].email = req[r].email
          BY <1>1, <2>4
        <4> QED BY <4>1, <4>2, <2>5, <2>6 DEF IInv, WalletInv, UniqueEmails
      <3>4. ASSUME NEW q \in Requests PROVE OpenOf(q)'
        <4>1. CASE q = r
          BY <4>1, <1>2, <2>2 DEF OpenOf, Uncommitted
        <4>2. CASE q # r
          <5>1. /\ pc'[q] = pc[q] /\ loc'[q] = loc[q] /\ req' = req
                /\ q \in UserIds /\ users'[q] = users[q] /\ OpenOf(q)
            BY <4>2, <1>1, <2>2, <2>4 DEF IInv, WalletInv, UserIds
          <5>2. ASSUME loc[q].inserted PROVE WithEmail(req[q].email)' = {}
            <6>1. WithEmail(req[q].email) = {} /\ req[q].email # req[r].email
              BY <5>1, <5>2, <4>2, <1>1 DEF OpenOf
            <6>2. users'[r].email = req[r].email
              BY <1>1, <2>4
            <6> QED BY <5>1, <6>1, <6>2, <2>5, <2>6 DEF WithEmail
          <5>3. ASSUME loc[q].inserted, NEW p \in Requests,
                       loc'[p].inserted, req[p].email = req[q].email
                PROVE  p = q
            BY <5>1, <5>3, <1>2, <2>2 DEF OpenOf
          <5> QED BY <5>1, <5>2, <5>3 DEF OpenOf
        <4> QED BY <4>1, <4>2
      <3> QED BY <3>2, <3>3, <3>4 DEF WalletInv
    <2>10. \A t, u : MadeFor(t, u) => MadeFor(t, u)'
      BY <1>1, <2>1, MadeForStays DEF Saved
    <2>11. TokenInv'
      <3>1. ASSUME NEW u \in Registered', users'[u].token # NoToken
            PROVE  MadeFor(users[u].token, u)'
        <4>1. u \in Registered /\ users'[u] = users[u]
          BY <3>1, <1>1, <2>4, <2>5, <2>6
        <4>2. MadeFor(users[u].token, u)
          BY <3>1, <4>1 DEF IInv, TokenInv
        <4>3. PICK t : t = users[u].token
          OBVIOUS
        <4>4. MadeFor(t, u)'
          BY <4>2, <4>3, <2>10
        <4> QED BY <4>1, <4>3, <4>4 DEF MadeFor
      <3>2. ASSUME NEW q \in Requests PROVE TokensOf(q)'
        <4>1. CASE q = r
          BY <4>1, <2>2 DEF TokensOf, Current, Saving
        <4>2. CASE q # r
          <5>1. /\ pc'[q] = pc[q] /\ loc'[q] = loc[q] /\ req' = req
                /\ TokensOf(q) /\ PlaceOf(q)
            BY <4>2, <1>1, <2>2 DEF IInv, TokenInv, TypeInv
          <5>2. pc[q] \in Saving => users'[loc[q].id] = users[loc[q].id]
            BY <5>1, <2>6 DEF PlaceOf
          <5>3. Current(q) => Current(q)'
            BY <5>1, <5>2 DEF Current, Intended, WithNewPassword, Saving
          <5>4. /\ pc[q] \in Saving /\ req[q].op = "reset" =>
                     MadeFor(req[q].token, loc[q].id)'
            <6>1. PICK t, u : t = req[q].token /\ u = loc[q].id
              OBVIOUS
            <6>2. pc[q] \in Saving /\ req[q].op = "reset" => MadeFor(t, u)'
              BY <5>1, <6>1, <2>10 DEF TokensOf
            <6> QED BY <5>1, <6>1, <6>2 DEF MadeFor
          <5> QED BY <5>1, <5>3, <5>4, <1>1 DEF TokensOf, history
        <4> QED BY <4>1, <4>2
      <3> QED BY <3>1, <3>2 DEF TokenInv
    <2>12. PromiseInv'
      <3>1. \A t \in spent' : pc'[t] \in Saved
        BY <1>1, <2>2 DEF IInv, PromiseInv, TypeInv, TypeOK, Saved, history
      <3>2. SpentTokensGone'
        <4>1. NoToken \notin spent
          BY ConstantsAssumption DEF IInv, TypeInv, TypeOK
        <4>2. users'[r].token = NoToken
          BY <1>1, <2>4
        <4> QED BY <4>1, <4>2, <1>1, <2>5, <2>6
              DEF IInv, PromiseInv, SpentTokensGone, history
      <3>3. ASSUME NEW t \in Requests PROVE PromiseOf(t)'
        <4>1. CASE t = r
          BY <4>1, <1>1 DEF PromiseOf
        <4>2. CASE t # r
          <5>1. pc'[t] = pc[t] /\ loc'[t] = loc[t] /\ req' = req /\ PromiseOf(t)
            BY <4>2, <1>1, <2>2 DEF IInv, PromiseInv
          <5> QED BY <5>1, <1>1, <2>5, <2>6 DEF PromiseOf, history
        <4> QED BY <4>1, <4>2
      <3> QED BY <3>1, <3>2, <3>3 DEF PromiseInv
    <2> QED BY <2>8, <2>9, <2>11, <2>12 DEF IInv
  <1> QED BY <1>3, <1>4

LEMMA SaveWritesIInv ==
  ASSUME IInv, NEW r \in Requests, SaveWrites(r)
  PROVE  IInv'
  <1> DEFINE l == loc[r]
             u == l.id
             row == users[u]
             new == [col \in DOMAIN row |-> IF l.entity[col] # l.stored[col]
                                            THEN l.entity[col] ELSE row[col]]
  <1>1. /\ pc[r] = "write" /\ req[r].op \in {"forgot", "reset"}
        /\ UNCHANGED <<wallets, mail, delivered, now, req>>
        /\ l \in Locals /\ u \in Registered /\ l.entity \in Users
        /\ l.stored \in Users /\ l.entity.email = row.email
        /\ l.stored.email = row.email /\ ~ l.inserted
        /\ TokensOf(r)
    BY DEF SaveWrites, Rest, IInv, TypeInv, TypeOK, PlaceOf, Saving, TokenInv
  <1>2. u \in UserIds /\ row \in Users
    BY <1>1, RegisteredUsers DEF IInv
  <1>3. /\ new \in Users /\ new.email = row.email
        /\ new.token = IF l.entity.token # l.stored.token
                       THEN l.entity.token ELSE row.token
        /\ new.expires = IF l.entity.expires # l.stored.expires
                         THEN l.entity.expires ELSE row.expires
    BY <1>1, <1>2, SavedRow
  <1>4. /\ users' = [users EXCEPT ![u] = new]
        /\ Goto(r, "mail", l)
        /\ overtaken' =
             IF new = row THEN overtaken
             ELSE overtaken \union {q \in Requests \ {r} : /\ pc[q] \in Saving
                                                           /\ loc[q].id = u}
        /\ stale' = (stale \/ r \in overtaken)
        /\ spent' = IF req[r].op = "reset" THEN spent \union {req[r].token}
                    ELSE spent
        /\ superseded' = IF req[r].op = "forgot"
                         THEN (superseded \union {row.token}) \ {NoToken}
                         ELSE superseded
    BY DEF SaveWrites, Saving
  <1> HIDE DEF new
  <1>5. /\ \A q \in Requests : pc'[q] = IF q = r THEN "mail" ELSE pc[q]
        /\ \A q \in Requests : loc'[q] = loc[q]
    BY <1>4, Moves DEF IInv
  <1>6. /\ users' \in [UserIds -> Users \union {NoUser}]
        /\ \A v \in UserIds : users'[v] = IF v = u THEN new ELSE users[v]
    BY <1>2, <1>3, <1>4 DEF IInv, TypeInv, TypeOK
  <1>7. Registered' = Registered
    BY <1>1, <1>3, <1>6, ConstantsAssumption DEF Registered
  <1>8. \A v \in Registered :
          users'[v].email = users[v].email /\ (v # u => users'[v] = users[v])
    BY <1>3, <1>6 DEF Registered
  <1>9. \A e : WithEmail(e)' = WithEmail(e)
    BY <1>7, <1>8 DEF WithEmail
  <1>10. req[r].op = "reset" => req[r].token \in Requests /\ MadeFor(req[r].token, u)
    BY <1>1 DEF TokensOf, MadeFor, Saving
  <1>11. \A t, v : MadeFor(t, v) => MadeFor(t, v)'
    BY <1>1, <1>4, MadeForStays DEF Saved
  <1>12. TypeInv'
    <2>1. /\ pc' \in [Requests -> {"idle"} \union InFlight \union Answered]
          /\ loc' \in [Requests -> Locals]
      BY <1>1, <1>4 DEF IInv, TypeInv, TypeOK, Goto, InFlight
    <2>2. ASSUME NEW q \in Requests PROVE PlaceOf(q)'
      <3>1. loc'[q] = loc[q] /\ req' = req /\ PlaceOf(q)
        BY <1>1, <1>5 DEF IInv, TypeInv
      <3>2. CASE q = r
        BY <3>1, <3>2, <1>1, <1>5 DEF PlaceOf, Saving
      <3>3. CASE q # r
        <4>1. pc'[q] = pc[q]
          BY <3>3, <1>5
        <4> QED BY <3>1, <4>1, <1>7, <1>8 DEF PlaceOf, Saving
      <3> QED BY <3>2, <3>3
    <2>3. \A q \in Requests :
            /\ pc'[q] # "idle" => req'[q] \in RequestRecords
            /\ loc'[q].entity \in Users \union {NoUser}
            /\ loc'[q].inserted => pc'[q] \in {"pick", "open"}
      BY <1>1, <1>5, <2>1, <2>2 DEF IInv, TypeInv, TypeOK, Locals, PlaceOf
    <2>4. /\ overtaken' \subseteq Requests /\ spent' \subseteq Requests
          /\ stale' \in BOOLEAN
      BY <1>4, <1>10 DEF IInv, TypeInv, TypeOK
    <2>5. superseded' \subseteq Requests
      BY <1>2, <1>4, UserColumns DEF IInv, TypeInv, TypeOK
    <2> QED BY <1>1, <1>6, <2>1, <2>2, <2>3, <2>4, <2>5 DEF IInv, TypeInv, TypeOK
  <1>13. WalletInv'
    <2>1. Owners' /\ UniqueEmails'
      BY <1>1, <1>7, <1>8 DEF IInv, WalletInv, Owners, UniqueEmails
    <2>2. ASSUME NEW q \in Requests PROVE OpenOf(q)'
      <3>1. pc'[q] \in Uncommitted => pc[q] \in Uncommitted /\ users'[q] = users[q]
        <4>1. q \in UserIds /\ (pc'[q] \in Uncommitted => q # r)
          BY <1>5 DEF UserIds, Uncommitted
        <4>2. pc[q] \in Uncommitted => q # u
          BY <1>1 DEF IInv, WalletInv, OpenOf, Registered
        <4> QED BY <4>1, <4>2, <1>5, <1>6
      <3> QED BY <3>1, <1>1, <1>5, <1>9 DEF IInv, WalletInv, OpenOf
    <2> QED BY <2>1, <2>2 DEF WalletInv
  <1>14. TokenInv'
    <2>1. ASSUME NEW v \in Registered', users'[v].token # NoToken
          PROVE  MadeFor(users[v].token, v)'
      <3>1. v \in Registered
        BY <1>7
      <3>2. CASE users'[v].token = users[v].token
        <4>1. PICK t : t = users[v].token
          OBVIOUS
        <4>2. MadeFor(t, v)'
          BY <2>1, <3>1, <3>2, <4>1, <1>11 DEF IInv, TokenInv
        <4> QED BY <3>2, <4>1, <4>2 DEF MadeFor
      <3>3. CASE users'[v].token # users[v].token
        <4>1. v = u /\ users'[v] = new
          BY <3>1, <3>3, <1>6, <1>8 DEF Registered
        <4>2. new.token = l.entity.token
          BY <3>3, <4>1, <1>3
        <4>3. req[r].op = "forgot" /\ new.token = r
          BY <2>1, <4>1, <4>2, <1>1 DEF TokensOf
        <4> QED BY <4>1, <4>3, <1>1, <1>5 DEF MadeFor, Saved
      <3> QED BY <3>2, <3>3
    <2>2. ASSUME NEW q \in Requests PROVE TokensOf(q)'
      <3>1. CASE q = r
        BY <3>1, <1>5 DEF TokensOf, Current, Saving
      <3>2. CASE q # r
        <4>1. /\ pc'[q] = pc[q] /\ loc'[q] = loc[q] /\ req' = req
              /\ TokensOf(q) /\ PlaceOf(q)
          BY <3>2, <1>1, <1>5 DEF IInv, TokenInv, TypeInv
        <4>2. pc[q] \in Saving /\ req[q].op = "reset" =>
                MadeFor(req[q].token, loc[q].id)'
          <5>1. PICK t, v : t = req[q].token /\ v = loc[q].id
            OBVIOUS
          <5>2. pc[q] \in Saving /\ req[q].op = "reset" => MadeFor(t, v)'
            BY <4>1, <5>1, <1>11 DEF TokensOf
          <5> QED BY <4>1, <5>1, <5>2 DEF MadeFor
        <4>3. ASSUME q \notin overtaken' PROVE Current(q)'
          <5>1. Current(q)
            BY <4>1, <4>3, <1>4 DEF TokensOf
          <5>2. pc[q] \in Saving => users'[loc[q].id] = users[loc[q].id]
            <6> SUFFICES ASSUME pc[q] \in Saving
                         PROVE  users'[loc[q].id] = users[loc[q].id]
              OBVIOUS
            <6>1. loc[q].id \in Registered /\ loc[q].id \in UserIds
              BY <4>1 DEF PlaceOf, Registered
            <6>2. new = row \/ loc[q].id # u
              BY <3>2, <4>3, <1>4
            <6> QED BY <6>1, <6>2, <1>6
          <5> QED BY <4>1, <5>1, <5>2
                DEF Current, Intended, WithNewPassword, Saving
        <4> QED BY <4>1, <4>2, <4>3 DEF TokensOf
      <3> QED BY <3>1, <3>2
    <2> QED BY <2>1, <2>2 DEF TokenInv
  <1>15. ASSUME ~ stale'
         PROVE  /\ ~ stale
                /\ l.entity = Intended(r) /\ l.stored = row
                /\ new.token = l.entity.token /\ new.expires = l.entity.expires
                /\ req[r].op = "reset" => /\ row.token = req[r].token
                                          /\ new.token = NoToken
                /\ req[r].op = "forgot" => new.token = r
    <2>1. ~ stale /\ r \notin overtaken
      BY <1>4, <1>15
    <2>2. /\ l.entity = Intended(r) /\ l.stored = row
          /\ req[r].op = "reset" => row.token = req[r].token
      BY <2>1, <1>1 DEF TokensOf, Current, Saving
    <2>3. new.token = l.entity.token /\ new.expires = l.entity.expires
      BY <2>2, <1>3
    <2> QED BY <2>1, <2>2, <2>3, <1>1 DEF TokensOf
  <1>16. PromiseInv'
    <2>1. \A t \in spent' : pc'[t] \in Saved
      <3>1. \A t \in spent : pc'[t] \in Saved
        BY <1>1, <1>5 DEF IInv, PromiseInv, TypeInv, TypeOK, Saved
      <3>2. req[r].op = "reset" => pc'[req[r].token] \in Saved
        BY <1>5, <1>10 DEF MadeFor, Saved
      <3> QED BY <3>1, <3>2, <1>4
    <2>2. ASSUME ~ stale', NEW v \in Registered' PROVE users'[v].token \notin spent'
      <3>1. v \in Registered /\ users[v].token \notin spent
        BY <2>2, <1>7, <1>15 DEF IInv, PromiseInv, SpentTokensGone
      <3>2. CASE v = u
        <4>1. users'[v] = new
          BY <3>2, <1>2, <1>6
        <4>2. CASE req[r].op = "reset"
          BY <4>1, <4>2, <2>2, <1>15, <1>12, ConstantsAssumption DEF TypeInv, TypeOK
        <4>3. CASE req[r].op = "forgot"
          BY <4>1, <4>3, <2>2, <1>1, <1>4, <1>15 DEF IInv, PromiseInv, Saved
        <4> QED BY <4>2, <4>3, <1>1
      <3>3. CASE v # u
        <4>1. users'[v] = users[v]
          BY <3>1, <3>3, <1>8
        <4>2. req[r].op = "reset" => users[v].token # req[r].token
          BY <3>1, <3>3, <1>10, ConstantsAssumption DEF IInv, TokenInv, MadeFor
        <4> QED BY <3>1, <4>1, <4>2, <1>4
      <3> QED BY <3>2, <3>3
    <2>3. ASSUME NEW t \in Requests PROVE PromiseOf(t)'
      <3> SUFFICES ASSUME ~ stale', t \notin spent' \union superseded',
                          pc'[t] \in {"mail", "done"}, req'[t].op = "forgot"
                   PROVE  /\ loc'[t].id \in Registered'
                          /\ users'[loc'[t].id].token = t
                          /\ users'[loc'[t].id].expires = loc'[t].entity.expires
        BY DEF PromiseOf
      <3>1. loc'[t] = loc[t] /\ req' = req
        BY <1>1, <1>5
      <3>2. CASE t = r
        <4>1. users'[u] = new
          BY <1>2, <1>6
        <4> QED BY <3>1, <3>2, <4>1, <1>1, <1>7, <1>15
      <3>3. CASE t # r
        <4>1. /\ loc[t].id \in Registered /\ users[loc[t].id].token = t
              /\ users[loc[t].id].expires = loc[t].entity.expires
          <5>1. t \notin spent \union superseded
            BY <1>4, ConstantsAssumption
          <5>2. pc[t] \in {"mail", "done"} /\ req[t].op = "forgot"
            BY <3>1, <3>3, <1>5
          <5> QED BY <5>1, <5>2, <1>15 DEF IInv, PromiseInv, PromiseOf
        <4>2. loc[t].id # u
          <5>1. req[r].op = "reset" => row.token # t
            BY <1>4, <1>15
          <5>2. req[r].op = "forgot" => row.token # t
            BY <1>4, ConstantsAssumption
          <5> QED BY <4>1, <5>1, <5>2, <1>1
        <4> QED BY <3>1, <4>1, <4>2, <1>7, <1>8
      <3> QED BY <3>2, <3>3
    <2> QED BY <2>1, <2>2, <2>3 DEF PromiseInv, SpentTokensGone
  <1> QED BY <1>12, <1>13, <1>14, <1>16 DEF IInv

-----------------------------------------------------------------------------
(***************************************************************************)
(* The other steps                                                         *)
(***************************************************************************)

LEMMA SubmitIInv ==
  ASSUME IInv, NEW r \in Requests, Submit(r)
  PROVE  IInv'
  <1>1. /\ pc[r] = "idle" /\ Goto(r, "find", EmptyLoc)
        /\ UNCHANGED <<users, wallets, mail, delivered, now, history>>
    BY DEF Submit
  <1>2. /\ \A q \in Requests : pc'[q] = IF q = r THEN "find" ELSE pc[q]
        /\ \A q \in Requests : loc'[q] = IF q = r THEN EmptyLoc ELSE loc[q]
    BY <1>1, Moves DEF IInv
  <1>3. PICK c \in RequestRecords : req' = [req EXCEPT ![r] = c]
    BY DEF Submit
  <1>4. /\ req' \in [Requests -> RequestRecords \union {Nothing}]
        /\ \A q \in Requests : req'[q] = IF q = r THEN c ELSE req[q]
    BY <1>3 DEF IInv, TypeInv
  <1>5. EmptyLoc \in Locals /\ ~ EmptyLoc.inserted
    BY DEF EmptyLoc, Locals
  <1>6. Registered' = Registered /\ \A e : WithEmail(e)' = WithEmail(e)
    BY <1>1 DEF Registered, WithEmail
  <1>7. TypeInv'
    <2>1. /\ pc' \in [Requests -> {"idle"} \union InFlight \union Answered]
          /\ loc' \in [Requests -> Locals]
      BY <1>1, <1>5 DEF IInv, TypeInv, TypeOK, Goto, InFlight
    <2>2. ASSUME NEW q \in Requests PROVE PlaceOf(q)'
      <3>1. CASE q = r
        BY <3>1, <1>2, <1>5 DEF PlaceOf, Saving
      <3>2. CASE q # r
        <4>1. PlaceOf(q) /\ pc'[q] = pc[q] /\ loc'[q] = loc[q] /\ req'[q] = req[q]
          BY <3>2, <1>2, <1>4 DEF IInv, TypeInv
        <4> QED BY <4>1, <1>1, <1>6 DEF PlaceOf
      <3> QED BY <3>1, <3>2
    <2>3. ASSUME NEW q \in Requests
          PROVE  /\ pc'[q] # "idle" => req'[q] \in RequestRecords
                 /\ loc'[q].entity \in Users \union {NoUser}
                 /\ loc'[q].inserted => pc'[q] \in {"pick", "open"}
      <3>1. pc'[q] # "idle" => req'[q] \in RequestRecords
        BY <1>2, <1>4 DEF IInv, TypeInv, TypeOK
      <3>2. loc'[q].entity \in Users \union {NoUser}
        BY <2>1 DEF Locals
      <3>3. loc'[q].inserted => pc'[q] \in {"pick", "open"}
        BY <2>2 DEF PlaceOf
      <3> QED BY <3>1, <3>2, <3>3
    <2> QED BY <1>1, <1>4, <2>1, <2>2, <2>3 DEF IInv, TypeInv, TypeOK, history
  <1>8. WalletInv'
    <2>1. Owners' /\ UniqueEmails'
      BY <1>1, <1>6 DEF IInv, WalletInv, Owners, UniqueEmails
    <2>2. ASSUME NEW q \in Requests PROVE OpenOf(q)'
      <3>1. pc'[q] \in Uncommitted => users'[q] = NoUser
        BY <1>1, <1>2 DEF IInv, WalletInv, OpenOf, Uncommitted
      <3>2. \A p \in Requests : loc'[p].inserted =>
              p # r /\ loc[p].inserted /\ req'[p] = req[p]
        BY <1>2, <1>4, <1>5
      <3> QED BY <3>1, <3>2, <1>6 DEF IInv, WalletInv, OpenOf
    <2> QED BY <2>1, <2>2 DEF WalletInv
  <1>9. \A t, u : MadeFor(t, u) => MadeFor(t, u)'
    BY <1>1, <1>2, <1>4 DEF MadeFor, Saved
  <1>10. TokenInv'
    <2>1. \A u \in Registered : users[u].token # NoToken => MadeFor(users[u].token, u)
      BY DEF IInv, TokenInv
    <2>2. ASSUME NEW q \in Requests PROVE TokensOf(q)'
      <3>1. CASE q = r
        BY <3>1, <1>2 DEF TokensOf, Current, Saving
      <3>2. CASE q # r
        <4>1. /\ pc'[q] = pc[q] /\ loc'[q] = loc[q] /\ req'[q] = req[q]
              /\ TokensOf(q)
          BY <3>2, <1>2, <1>4 DEF IInv, TokenInv
        <4>2. Current(q) => Current(q)'
          BY <4>1, <1>1 DEF Current, Intended, WithNewPassword
        <4>3. MadeFor(req[q].token, loc[q].id) => MadeFor(req[q].token, loc[q].id)'
          <5>1. PICK t, u : t = req[q].token /\ u = loc[q].id
            OBVIOUS
          <5> QED BY <5>1, <4>1, <1>9 DEF MadeFor
        <4> QED BY <4>1, <4>2, <4>3, <1>1 DEF TokensOf, history
      <3> QED BY <3>1, <3>2
    <2>3. ASSUME NEW u \in Registered, users[u].token # NoToken
          PROVE  MadeFor(users[u].token, u)'
      <3>1. PICK t : t = users[u].token
        OBVIOUS
      <3>2. MadeFor(t, u)'
        BY <2>1, <2>3, <3>1, <1>9
      <3> QED BY <3>1, <3>2, <1>1 DEF MadeFor
    <2> QED BY <2>2, <2>3, <1>1, <1>6 DEF TokenInv
  <1>11. PromiseInv'
    <2>1. \A t \in spent' : pc'[t] \in Saved
      BY <1>1, <1>2 DEF IInv, PromiseInv, TypeInv, TypeOK, history, Saved
    <2>2. SpentTokensGone'
      BY <1>1, <1>6 DEF IInv, PromiseInv, SpentTokensGone, history
    <2>3. \A t \in Requests : PromiseOf(t)'
      BY <1>1, <1>2, <1>4, <1>6 DEF IInv, PromiseInv, PromiseOf, history
    <2> QED BY <2>1, <2>2, <2>3 DEF PromiseInv
  <1> QED BY <1>7, <1>8, <1>10, <1>11 DEF IInv

\* Nobody is in flight any more, and the tables are as they were.
LEMMA CrashIInv ==
  ASSUME IInv, Crash
  PROVE  IInv'
  <1>1. /\ UNCHANGED <<users, wallets, delivered, now, req, history>>
        /\ mail' \in {"smtp", "ethereal", "json"}
    BY DEF Crash
  <1>2. \A q \in Requests :
          pc'[q] = IF pc[q] \in InFlight THEN "failed" ELSE pc[q]
    BY DEF Crash
  <1>3. \A q \in Requests :
          /\ loc'[q] \in Locals /\ loc[q] \in Locals /\ ~ loc'[q].inserted
          /\ loc'[q].id = loc[q].id /\ loc'[q].entity = loc[q].entity
    <2> SUFFICES ASSUME NEW q \in Requests
                 PROVE  /\ loc'[q] \in Locals /\ loc[q] \in Locals
                        /\ ~ loc'[q].inserted
                        /\ loc'[q].id = loc[q].id /\ loc'[q].entity = loc[q].entity
      OBVIOUS
    <2>1. loc[q] \in Locals /\ loc'[q] = [loc[q] EXCEPT !.inserted = FALSE]
      BY DEF Crash, IInv, TypeInv
    <2> QED BY <2>1 DEF Locals
  <1>4. \A q \in Requests :
          pc[q] \in {"idle"} \union InFlight \union Answered
          /\ pc'[q] \in {"idle"} \union Answered
    BY <1>2 DEF IInv, TypeInv, TypeOK, Answered
  <1>5. Registered' = Registered /\ \A e : WithEmail(e)' = WithEmail(e)
    BY <1>1 DEF Registered, WithEmail
  <1>6. TypeInv'
    <2>1. /\ pc' \in [Requests -> {"idle"} \union InFlight \union Answered]
          /\ loc' \in [Requests -> Locals]
      <3>1. DOMAIN pc' = Requests /\ DOMAIN loc' = Requests
            /\ pc' = [q \in Requests |-> pc'[q]] /\ loc' = [q \in Requests |-> loc'[q]]
        BY DEF Crash
      <3> QED BY <3>1, <1>3, <1>4
    <2>2. \A q \in Requests : PlaceOf(q)'
      BY <1>3, <1>4 DEF PlaceOf, Saving, Answered
    <2>3. \A q \in Requests :
            /\ pc'[q] # "idle" => req'[q] \in RequestRecords
            /\ loc'[q].entity \in Users \union {NoUser}
            /\ loc'[q].inserted => pc'[q] \in {"pick", "open"}
      BY <1>1, <1>2, <1>3 DEF IInv, TypeInv, TypeOK, InFlight
    <2> QED BY <1>1, <2>1, <2>2, <2>3 DEF IInv, TypeInv, TypeOK, history
  <1>7. WalletInv'
    <2>1. Owners' /\ UniqueEmails'
      BY <1>1, <1>5 DEF IInv, WalletInv, Owners, UniqueEmails
    <2>2. \A q \in Requests : OpenOf(q)'
      BY <1>1, <1>2, <1>3 DEF IInv, WalletInv, OpenOf, Uncommitted
    <2> QED BY <2>1, <2>2 DEF WalletInv
  <1>8. \A t, u : MadeFor(t, u) => MadeFor(t, u)'
    BY <1>1, <1>2, <1>3 DEF MadeFor, Saved
  <1>9. TokenInv'
    <2>1. ASSUME NEW u \in Registered, users[u].token # NoToken
          PROVE  MadeFor(users[u].token, u)'
      <3>1. PICK t : t = users[u].token
        OBVIOUS
      <3>2. MadeFor(t, u)'
        BY <2>1, <3>1, <1>8 DEF IInv, TokenInv
      <3> QED BY <3>1, <3>2, <1>1 DEF MadeFor
    <2>2. \A q \in Requests : TokensOf(q)'
      BY <1>4 DEF TokensOf, Current, Saving, Answered
    <2> QED BY <2>1, <2>2, <1>1, <1>5 DEF TokenInv
  <1>10. PromiseInv'
    <2>1. \A t \in spent' : pc'[t] \in Saved
      BY <1>1, <1>2 DEF IInv, PromiseInv, TypeInv, TypeOK, history, Saved
    <2>2. SpentTokensGone'
      BY <1>1, <1>5 DEF IInv, PromiseInv, SpentTokensGone, history
    <2>3. \A t \in Requests : PromiseOf(t)'
      <3>1. \A t \in Requests : pc'[t] \in {"mail", "done"} => pc'[t] = pc[t]
        BY <1>2
      <3> QED BY <3>1, <1>1, <1>3, <1>5 DEF IInv, PromiseInv, PromiseOf, history
    <2> QED BY <2>1, <2>2, <2>3 DEF PromiseInv
  <1> QED BY <1>6, <1>7, <1>9, <1>10 DEF IInv

\* The clock is only in the types.
LEMMA QuietIInv ==
  ASSUME IInv, UNCHANGED <<users, wallets, pc, req, loc, history>>,
         mail' = mail, delivered' = delivered, now' \in 0 .. LastHour
  PROVE  IInv'
  <1>1. Registered' = Registered /\ \A e : WithEmail(e)' = WithEmail(e)
    BY DEF Registered, WithEmail
  <1>2. \A t, u : MadeFor(t, u)' <=> MadeFor(t, u)
    BY DEF MadeFor
  <1>3. TypeInv'
    <2>1. \A q \in Requests : PlaceOf(q)'
      BY <1>1 DEF IInv, TypeInv, PlaceOf
    <2> QED BY <2>1 DEF IInv, TypeInv, TypeOK, history
  <1>4. WalletInv'
    <2>1. \A q \in Requests : OpenOf(q)'
      BY <1>1 DEF IInv, WalletInv, OpenOf
    <2> QED BY <1>1, <2>1 DEF IInv, WalletInv, Owners, UniqueEmails
  <1>5. TokenInv'
    <2>1. ASSUME NEW q \in Requests PROVE TokensOf(q)'
      <3>1. TokensOf(q)
        BY DEF IInv, TokenInv
      <3>2. Current(q) => Current(q)'
        BY DEF Current, Intended, WithNewPassword
      <3>3. MadeFor(req[q].token, loc[q].id) => MadeFor(req[q].token, loc[q].id)'
        BY DEF MadeFor
      <3> QED BY <3>1, <3>2, <3>3 DEF TokensOf, history
    <2>2. \A u \in Registered : MadeFor(users[u].token, u) => MadeFor(users[u].token, u)'
      BY DEF MadeFor
    <2> QED BY <1>1, <2>1, <2>2 DEF IInv, TokenInv
  <1>6. PromiseInv'
    <2>1. \A t \in Requests : PromiseOf(t)'
      BY <1>1 DEF IInv, PromiseInv, PromiseOf, history
    <2> QED BY <1>1, <2>1 DEF IInv, PromiseInv, SpentTokensGone, history
  <1> QED BY <1>3, <1>4, <1>5, <1>6 DEF IInv

LEMMA InitIInv == Init => IInv
  <1> SUFFICES ASSUME Init PROVE IInv
    OBVIOUS
  <1> DEFINE first == [email |-> InitialEmail, password |-> Initial,
                       token |-> NoToken, expires |-> 0]
  <1>1. first \in Users /\ first # NoUser /\ Initial \in UserIds
    BY ConstantsAssumption DEF Users, UserIds
  <1>2. /\ users \in [UserIds -> Users \union {NoUser}]
        /\ \A u \in UserIds : users[u] = IF u = Initial THEN first ELSE NoUser
    BY <1>1 DEF Init
  <1> HIDE DEF first
  <1>3. Registered = {Initial}
    BY <1>1, <1>2 DEF Registered
  <1>4. \A r \in Requests : /\ pc[r] = "idle" /\ loc[r] = EmptyLoc
                            /\ loc[r] \in Locals /\ ~ loc[r].inserted
    BY DEF Init, EmptyLoc, Locals
  <1>5. TypeInv
    <2>1. TypeOK
      <3>1. wallets \in [Numbers -> UserIds \union {NoOwner}]
        BY <1>1 DEF Init
      <3>2. \A r \in Requests :
              /\ pc[r] # "idle" => req[r] \in RequestRecords
              /\ loc[r].entity \in Users \union {NoUser}
              /\ loc[r].inserted => pc[r] \in {"pick", "open"}
        BY <1>4 DEF Locals
      <3>3. mail \in {"smtp", "ethereal", "json"} /\ now \in 0 .. LastHour
        BY ConstantsAssumption DEF Init
      <3>4. /\ pc \in [Requests -> {"idle"} \union InFlight \union Answered]
            /\ delivered \union overtaken \union spent \union superseded \subseteq Requests
            /\ stale \in BOOLEAN
        BY DEF Init
      <3> QED BY <1>2, <3>1, <3>2, <3>3, <3>4 DEF TypeOK
    <2>2. req \in [Requests -> RequestRecords \union {Nothing}]
      BY DEF Init
    <2>3. loc \in [Requests -> Locals]
      BY <1>4 DEF Init
    <2>4. \A r \in Requests : PlaceOf(r)
      BY <1>4 DEF PlaceOf, Saving
    <2> QED BY <2>1, <2>2, <2>3, <2>4 DEF TypeInv
  <1>6. WalletInv
    <2>1. Owners
      BY <1>3, ConstantsAssumption DEF Init, Owners
    <2>2. UniqueEmails
      BY <1>3 DEF UniqueEmails
    <2>3. \A r \in Requests : OpenOf(r)
      BY <1>2, <1>4, ConstantsAssumption DEF OpenOf, UserIds
    <2> QED BY <2>1, <2>2, <2>3 DEF WalletInv
  <1>7. users[Initial].token = NoToken
    BY <1>1, <1>2 DEF first
  <1>8. TokenInv
    <2>1. \A r \in Requests : TokensOf(r)
      BY <1>4 DEF TokensOf, Current, Saving
    <2> QED BY <2>1, <1>3, <1>7 DEF TokenInv
  <1>9. PromiseInv
    BY <1>4 DEF Init, PromiseInv, SpentTokensGone, PromiseOf
  <1> QED BY <1>5, <1>6, <1>8, <1>9 DEF IInv

LEMMA StepIInv == IInv /\ [Next]_vars => IInv'
  <1> SUFFICES ASSUME IInv, [Next]_vars PROVE IInv'
    OBVIOUS
  <1>1. ASSUME NEW r \in Requests, Submit(r) PROVE IInv'
    BY <1>1, SubmitIInv
  <1>2. ASSUME NEW r \in Requests, Serve(r) PROVE IInv'
    BY <1>2, FindFreeIInv, InsertUserIInv, PickNumberIInv, OpenWalletIInv,
       FindForgetfulIInv, FindByResetTokenIInv, HashIInv, SaveReadsIInv,
       SaveWritesIInv, SendIInv DEF Serve
  <1>3. CASE Crash
    BY <1>3, CrashIInv
  <1>4. CASE NextHour
    <2>1. now' \in 0 .. LastHour
      BY <1>4, ConstantsAssumption DEF NextHour, IInv, TypeInv, TypeOK
    <2> QED BY <1>4, <2>1, QuietIInv DEF NextHour
  <1>5. CASE UNCHANGED vars
    BY <1>5, QuietIInv DEF vars, IInv, TypeInv, TypeOK
  <1> QED BY <1>1, <1>2, <1>3, <1>4, <1>5 DEF Next, Terminating

LEMMA AlwaysIInv == Spec => []IInv
  BY InitIInv, StepIInv, PTL DEF Spec

-----------------------------------------------------------------------------
(***************************************************************************)
(* What the invariant says                                                 *)
(***************************************************************************)

\* The rows, the places of the requests and what they work with have their
\* types (register, forgotPassword, resetPassword).
THEOREM AuthTypeCorrect == Spec => []TypeOK
  <1>1. IInv => TypeOK
    BY DEF IInv, TypeInv
  <1> QED BY <1>1, AlwaysIInv, PTL

LEMMA OwnersMeanOneWallet == IInv => OneWalletPerUser
  <1> SUFFICES ASSUME IInv PROVE OneWalletPerUser
    OBVIOUS
  <1>1. ASSUME NEW u \in UserIds
        PROVE  Cardinality({n \in Numbers : wallets[n] = u}) =
                 IF users[u] = NoUser THEN 0 ELSE 1
    <2>1. u # NoOwner
      BY ConstantsAssumption
    <2>2. CASE users[u] = NoUser
      <3>1. {n \in Numbers : wallets[n] = u} = {}
        BY <2>1, <2>2 DEF IInv, WalletInv, Owners, Registered
      <3> QED BY <2>2, <3>1, FS_EmptySet
    <2>3. CASE users[u] # NoUser
      <3>1. PICK n \in Numbers : wallets[n] = u
        BY <2>3 DEF IInv, WalletInv, Owners, Registered
      <3>2. {m \in Numbers : wallets[m] = u} = {n}
        BY <2>1, <3>1 DEF IInv, WalletInv, Owners
      <3> QED BY <2>3, <3>2, FS_Singleton
    <2> QED BY <2>2, <2>3
  <1>2. \A u, v \in Registered : users[u].email = users[v].email => u = v
    BY DEF IInv, WalletInv, UniqueEmails
  <1> QED BY <1>1, <1>2 DEF OneWalletPerUser

\* register leaves every user with one wallet, every wallet with a user and every
\* email with one user, however many registrations race for an email or a number
\* and wherever the process dies in one.
THEOREM RegistrationsAreWhole == Spec => []OneWalletPerUser
  BY OwnersMeanOneWallet, AlwaysIInv, PTL

\* A token resetPassword has used is on no row, as long as nobody has saved a
\* user somebody else had changed since it was read.
THEOREM TokensAreSpentOnce == Spec => []SpentTokensGone
  <1>1. IInv => SpentTokensGone
    BY DEF IInv, PromiseInv
  <1> QED BY <1>1, AlwaysIInv, PTL

\* A step of a request leaves the place of every other one.
LEMMA ServeMovesOne ==
  ASSUME TypeInv, NEW r \in Requests, Serve(r), NEW q \in Requests, q # r
  PROVE  pc'[q] = pc[q]
  <1>1. \E label, l : Goto(r, label, l)
    BY DEF Serve, FindFree, InsertUser, PickNumber, OpenWallet, FindForgetful,
           FindByResetToken, Hash, SaveReads, SaveWrites, SendToken,
           SendConfirmation
  <1> QED BY <1>1, Moves

LEMMA InitSent == Init => SentMeansDelivered
  BY DEF Init, SentMeansDelivered

\* Only forgotPassword's own mail makes it answer that the mail was sent.
LEMMA StepSent == IInv /\ SentMeansDelivered /\ [Next]_vars => SentMeansDelivered'
  <1> SUFFICES ASSUME IInv, SentMeansDelivered, [Next]_vars,
                      NEW r \in Requests, pc'[r] = "done", req'[r].op = "forgot"
               PROVE  r \in delivered' \/ mail' # "smtp"
    BY DEF SentMeansDelivered
  <1> USE DEF IInv
  <1>1. ASSUME pc[r] = "done", req'[r] = req[r], delivered \subseteq delivered',
               mail' = "smtp" => mail = "smtp"
        PROVE  r \in delivered' \/ mail' # "smtp"
    BY <1>1 DEF SentMeansDelivered
  <1>2. ASSUME NEW q \in Requests, Submit(q) PROVE r \in delivered' \/ mail' # "smtp"
    <2>1. q # r /\ pc'[r] = pc[r]
      BY <1>2, Moves DEF Submit
    <2> QED BY <1>1, <1>2, <2>1 DEF Submit, TypeInv
  <1>3. ASSUME NEW q \in Requests, Serve(q) PROVE r \in delivered' \/ mail' # "smtp"
    <2>1. req' = req /\ mail' = mail /\ delivered \subseteq delivered'
      BY <1>3 DEF Serve, FindFree, InsertUser, PickNumber, OpenWallet,
                  FindForgetful, FindByResetToken, Hash, SaveReads, SaveWrites,
                  SendToken, SendConfirmation, Rest
    <2>2. CASE q # r
      BY <1>1, <1>3, <2>1, <2>2, ServeMovesOne
    <2>3. CASE q = r /\ ~ SendToken(q)
      <3>1. SUFFICES FALSE
        OBVIOUS
      <3> DEFINE Elsewhere(label) == label # "done" /\ \E l : Goto(r, label, l)
      <3>2. CASE FindFree(r) \/ FindForgetful(r) \/ FindByResetToken(r)
        <4>1. CASE FindFree(r)
          <5>1. Elsewhere("declined") \/ Elsewhere("insert")
            BY <4>1 DEF FindFree
          <5> QED BY <5>1, Moves
        <4>2. CASE FindForgetful(r)
          <5>1. Elsewhere("declined") \/ Elsewhere("read")
            BY <4>2 DEF FindForgetful
          <5> QED BY <5>1, Moves
        <4>3. CASE FindByResetToken(r)
          <5>1. Elsewhere("declined") \/ Elsewhere("hash")
            BY <4>3 DEF FindByResetToken
          <5> QED BY <5>1, Moves
        <4> QED BY <3>2, <4>1, <4>2, <4>3
      <3>3. CASE InsertUser(r) \/ PickNumber(r) \/ Hash(r) \/ SaveReads(r)
                 \/ SaveWrites(r)
        <4>1. CASE InsertUser(r)
          <5>1. Elsewhere("failed") \/ Elsewhere("pick")
            BY <4>1 DEF InsertUser
          <5> QED BY <5>1, Moves
        <4>2. CASE PickNumber(r) \/ Hash(r)
          <5>1. Elsewhere("open") \/ Elsewhere("read")
            BY <4>2 DEF PickNumber, Hash
          <5> QED BY <5>1, Moves
        <4>3. CASE SaveReads(r) \/ SaveWrites(r)
          <5>1. Elsewhere("write") \/ Elsewhere("mail")
            BY <4>3 DEF SaveReads, SaveWrites
          <5> QED BY <5>1, Moves
        <4> QED BY <3>3, <4>1, <4>2, <4>3
      <3>4. CASE OpenWallet(r) \/ SendConfirmation(r)
        BY <3>4, <2>1 DEF OpenWallet, SendConfirmation, TypeInv, PlaceOf
      <3> QED BY <1>3, <2>3, <3>2, <3>3, <3>4 DEF Serve
    <2>4. CASE q = r /\ SendToken(r)
      <3>1. PICK outcome \in Outcomes :
              /\ Goto(r, IF outcome = "error" THEN "failed" ELSE "done", loc[r])
              /\ delivered' = IF outcome = "delivered"
                              THEN delivered \union {r} ELSE delivered
        BY <2>4 DEF SendToken
      <3>2. outcome # "error"
        BY <3>1, Moves
      <3>3. mail = "smtp" => outcome = "delivered"
        BY <3>2 DEF Outcomes
      <3> QED BY <2>1, <3>1, <3>3
    <2> QED BY <1>3, <2>2, <2>3, <2>4
  <1>4. CASE Crash
    BY <1>1, <1>4 DEF Crash
  <1>5. CASE NextHour \/ UNCHANGED vars
    BY <1>1, <1>5 DEF NextHour, vars
  <1> QED BY <1>2, <1>3, <1>4, <1>5 DEF Next, Terminating

\* Whoever forgotPassword tells that the mail is on its way has been sent it, in a
\* process that has an SMTP server.
THEOREM SentIsDelivered == Spec => []SentMeansDelivered
  BY InitSent, StepSent, AlwaysIInv, PTL DEF Spec

-----------------------------------------------------------------------------
(***************************************************************************)
(* What a step may not do                                                  *)
(***************************************************************************)

LEMMA UsersChangeBy ==
  ASSUME IInv, [Next]_vars
  PROVE  \/ users' = users
         \/ \E r \in Requests : OpenWallet(r) \/ SaveWrites(r)
  <1>1. ASSUME NEW r \in Requests, Serve(r)
        PROVE  users' = users \/ OpenWallet(r) \/ SaveWrites(r)
    BY <1>1 DEF Serve, FindFree, InsertUser, PickNumber, FindForgetful,
                FindByResetToken, Hash, SaveReads, SendToken, SendConfirmation
  <1> QED BY <1>1 DEF Next, Submit, Crash, NextHour, Terminating, vars

LEMMA StepPassword ==
  ASSUME IInv, [Next]_vars, NEW u \in Registered,
         users'[u].password # users[u].password, ~ stale'
  PROVE  \E r \in Requests : /\ pc[r] = "write" /\ req[r].op = "reset"
                             /\ users[u].token = req[r].token
  <1>1. PICK r \in Requests : OpenWallet(r) \/ SaveWrites(r)
    BY UsersChangeBy
  <1>2. ~ OpenWallet(r)
    <2> SUFFICES ASSUME OpenWallet(r) PROVE FALSE
      OBVIOUS
    <2>1. r # u
      BY DEF OpenWallet, IInv, WalletInv, OpenOf, Uncommitted, Registered
    <2> QED BY <2>1 DEF OpenWallet, IInv, TypeInv, TypeOK, Registered
  <1> DEFINE l == loc[r]
             row == users[l.id]
             new == [col \in DOMAIN row |-> IF l.entity[col] # l.stored[col]
                                            THEN l.entity[col] ELSE row[col]]
  <1>3. /\ pc[r] = "write" /\ r \notin overtaken
        /\ users' = [users EXCEPT ![l.id] = new]
    BY <1>1, <1>2 DEF SaveWrites
  <1>4. /\ req[r].op \in {"forgot", "reset"} /\ Current(r)
        /\ l.id \in Registered /\ l.entity \in Users /\ l.stored \in Users
    BY <1>3 DEF IInv, TokenInv, TokensOf, TypeInv, PlaceOf, Saving
  <1>5. l.id \in UserIds /\ row \in Users
    BY <1>4, RegisteredUsers DEF IInv
  <1>6. new.password = IF l.entity.password # l.stored.password
                       THEN l.entity.password ELSE row.password
    BY <1>4, <1>5, SavedRow
  <1> HIDE DEF new
  <1>7. l.id = u /\ new.password # row.password
    BY <1>3, <1>5 DEF IInv, TypeInv, TypeOK, Registered
  <1>8. l.entity = Intended(r) /\ l.stored = row
        /\ (req[r].op = "reset" => row.token = req[r].token)
    BY <1>3, <1>4 DEF Current, Saving
  <1>9. req[r].op = "reset"
    <2> SUFFICES ASSUME req[r].op = "forgot" PROVE FALSE
      BY <1>4
    <2>1. Intended(r).password = row.password
      BY <1>5 DEF Intended, Users
    <2> QED BY <1>6, <1>7, <1>8, <2>1
  <1> QED BY <1>3, <1>7, <1>8, <1>9

\* resetPassword changes a password only with the token the row holds when it is
\* written, unless it saves a user that has changed since it was read.
THEOREM PasswordsChangeByToken == Spec => PasswordChangesByToken
  <1>1. IInv /\ [Next]_vars =>
          \A u \in Registered :
            users'[u].password # users[u].password =>
              \/ stale'
              \/ \E r \in Requests :
                   /\ pc[r] = "write" /\ req[r].op = "reset"
                   /\ users[u].token = req[r].token
    BY StepPassword
  <1> QED BY <1>1, AlwaysIInv, PTL DEF Spec, PasswordChangesByToken

\* Only resetPassword's own search declines it.
LEMMA DeclinedBySearch ==
  ASSUME IInv, [Next]_vars, NEW r \in Requests,
         pc[r] = "find", pc'[r] = "declined", req[r].op = "reset"
  PROVE  FindByResetToken(r)
  <1>1. ASSUME NEW q \in Requests, Submit(q) PROVE FALSE
    BY <1>1, Moves DEF Submit, IInv
  <1>2. ASSUME NEW q \in Requests, Serve(q) PROVE FindByResetToken(r)
    <2>1. q = r
      BY <1>2, ServeMovesOne DEF IInv
    <2> QED BY <1>2, <2>1 DEF Serve, FindFree, InsertUser, PickNumber, OpenWallet,
               FindForgetful, Hash, SaveReads, SaveWrites, SendToken,
               SendConfirmation
  <1>3. ~ Crash
    BY DEF Crash, InFlight
  <1>4. ~ NextHour /\ ~ UNCHANGED vars
    BY DEF NextHour, vars
  <1> QED BY <1>1, <1>2, <1>3, <1>4 DEF Next, Terminating

LEMMA StepPromised ==
  ASSUME IInv, [Next]_vars, NEW r \in Requests, NEW t \in Requests,
         pc[r] = "find", pc'[r] = "declined", req[r].op = "reset",
         req[r].token = t, pc[t] = "done", req[t].op = "forgot",
         t \notin spent \union superseded, ~ stale
  PROVE  now > loc[t].entity.expires
  <1> DEFINE v == loc[t].id
  <1>1. FindByResetToken(r)
    BY DeclinedBySearch
  <1>2. /\ v \in Registered /\ users[v].token = t
        /\ users[v].expires = loc[t].entity.expires
    BY DEF IInv, PromiseInv, PromiseOf
  <1>3. WithToken(t) = {v}
    <2>1. v \in WithToken(t)
      BY <1>2 DEF WithToken
    <2>2. ASSUME NEW u \in WithToken(t) PROVE u = v
      <3>1. u \in Registered /\ users[u].token = t /\ t # NoToken
        BY ConstantsAssumption DEF WithToken
      <3> QED BY <3>1 DEF IInv, TokenInv, MadeFor
    <2> QED BY <2>1, <2>2
  <1>4. Expired(users[v])
    <2>1. PICK u \in WithToken(t) :
            IF Expired(users[u]) THEN Goto(r, "declined", loc[r])
            ELSE Goto(r, "hash", [loc[r] EXCEPT !.id = u, !.entity = users[u]])
      BY <1>1, <1>3 DEF FindByResetToken
    <2>2. u = v
      BY <1>3
    <2>3. ~ Goto(r, "hash", [loc[r] EXCEPT !.id = u, !.entity = users[u]])
      BY Moves DEF IInv
    <2> QED BY <2>1, <2>2, <2>3
  <1>5. users[v].expires \in Nat /\ now \in Nat
    BY <1>2, RegisteredUsers, UserColumns, ConstantsAssumption
    DEF IInv, TypeInv, TypeOK
  <1> QED BY <1>2, <1>4, <1>5 DEF Expired

\* A token forgotPassword has promised lets its customer reset the password until
\* it expires, is spent or is replaced, as long as nobody has saved a user that had
\* changed since it was read.
THEOREM PromisesAreKept == Spec => PromisedTokensWork
  <1>1. IInv /\ [Next]_vars =>
          \A r, t \in Requests :
            ( /\ pc[r] = "find" /\ pc'[r] = "declined" /\ req[r].op = "reset"
              /\ req[r].token = t /\ pc[t] = "done" /\ req[t].op = "forgot" )
            => \/ now > loc[t].entity.expires
               \/ t \in spent \union superseded
               \/ stale
    BY StepPromised
  <1> QED BY <1>1, AlwaysIInv, PTL DEF Spec, PromisedTokensWork

=============================================================================
