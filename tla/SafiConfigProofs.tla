-------------------------- MODULE SafiConfigProofs --------------------------
(***************************************************************************)
(* Proofs about SafiConfigService, for any number of calls and entries,    *)
(* any DTOs, amounts and limits.  The inductive invariant has two halves:  *)
(*   TypeInv, RowInv  what holds whatever is saved over what: the types,   *)
(*           where each request is, and what every row has in common;      *)
(*   Clean   what holds until a request saves a row somebody else has      *)
(*           changed since it read it.  Its core is FlightOf: the entity   *)
(*           of a call nobody has overtaken is the row itself with that    *)
(*           call's own changes, so that what it saves is what it meant.   *)
(***************************************************************************)
EXTENDS SafiConfigService, FiniteSetTheorems, TLAPS

-----------------------------------------------------------------------------
(***************************************************************************)
(* What holds always                                                       *)
(***************************************************************************)

\* A call here has read the row and not answered yet.
Live == {"close", "override", "read", "write"}

\* The answer of a call that looked at the row would be current.
NotDue(l) ==
  l.entity.isPaused /\ l.entity.pauseStartedAt # NoPause =>
    l.startedAt - l.entity.pauseStartedAt < WatchdogDays

Reached(l) == l.entity.expiresAt > l.startedAt \/ l.closed = MaxRollovers

Looks(r) == req[r].op \notin {"create", "deactivate"}

CallPlace(r) ==
  /\ pc[r] \in {"idle", "find", "wallet", "insert", "delete"} \union Live \union Answered
  /\ pc[r] \in {"idle", "find"} => loc[r] = EmptyLoc
  /\ pc[r] \in {"wallet", "insert"} => req[r].op = "create"
  /\ pc[r] = "wallet" => loc[r] = EmptyLoc
  /\ pc[r] = "insert" => loc[r].entity \in Rows /\ loc[r].entity.id = r
  /\ pc[r] = "delete" => req[r].op = "deactivate"
  /\ pc[r] \in {"insert", "delete"} => loc[r].closed = 0
  /\ pc[r] \in Live \union {"done"} /\ (pc[r] = "done" => Looks(r)) =>
       /\ Looks(r)
       /\ loc[r].entity \in Rows
       /\ loc[r].startedAt =< now
       /\ NotDue(loc[r])
  /\ pc[r] = "close" => Rolling(loc[r])
  /\ pc[r] = "override" => req[r].op = "override" /\ Reached(loc[r])
  /\ pc[r] \in {"read", "write"} =>
       \/ loc[r].stage = "watchdog" /\ ~ loc[r].entity.isPaused /\ loc[r].closed = 0
       \/ loc[r].stage = "rollover" /\ Reached(loc[r]) /\ loc[r].closed > 0
       \/ loc[r].stage = "own" /\ Reached(loc[r])
  /\ pc[r] = "done" /\ Looks(r) => Reached(loc[r])
  /\ loc[r].closed = 0 => \A c \in cycles : c.by # r

\* An entry past the check of its balance holds the wallet.
EntryPlace(e) ==
  /\ pc[e] \in {"idle", "lock", "record", "commit"} \union Answered
  /\ pc[e] \in {"record", "commit"} => walletLock = e /\ BalanceAfter(e) \in Nat

TypeInv ==
  /\ TypeOK
  /\ req \in [Requests -> CallRequests \union EntryRequests \union {NoRequest}]
  /\ \A r \in Calls : CallPlace(r)
  /\ \A e \in Entries : EntryPlace(e)

\* A call that may still create a row is nobody's id yet.
FreshOf(r) ==
  pc[r] \in {"idle", "find", "wallet", "insert"} =>
    /\ row # NoConfig => row.id # r
    /\ \A q \in Calls \ {r} : loc[q].entity # NoConfig => loc[q].entity.id # r
    /\ \A c \in cycles : c.id # r

\* Every row somebody may still save has its override and its baseline.
Flagged(c) == c.overrideActive => overrides # {}

Unmoved == ~ unrecorded /\ latest = NoRow

Based(c) == Unmoved => c.baselineBalance = OpeningBalance

KeepsOf(r) ==
  /\ pc[r] \in {"insert"} \union (Live \ {"override"}) => Flagged(loc[r].entity)
  /\ pc[r] \in {"insert"} \union Live => Based(loc[r].entity)

RowInv ==
  /\ \A r \in Calls : FreshOf(r) /\ KeepsOf(r)
  /\ row # NoConfig => Flagged(row) /\ Based(row)
  /\ Unmoved => balance = OpeningBalance
  /\ ~ unrecorded /\ latest # NoRow => latest = balance

-----------------------------------------------------------------------------
(***************************************************************************)
(* What holds until a stale save                                           *)
(***************************************************************************)

\* The start of the window a row is in.
Start(c) == c.expiresAt - c.cycleDays

Sound(c) ==
  /\ c.isPaused => c.pauseStartedAt # NoPause
  /\ Start(c) =< now

\* What a call is going to save gives the buffer back for a cause.
Renews(r) ==
  \/ loc[r].stage # "watchdog" /\ loc[r].closed > 0
  \/ /\ loc[r].stage = "own" /\ req[r].op = "update"
     /\ "bufferAmount" \in DOMAIN req[r].dto

Counts(r) == pc[r] \in {"read", "write"} /\ loc[r].stage = "own" /\ req[r].op = "pause"

\* The windows a call has closed are saved, or it is not going to say so.
Settled(r) ==
  \/ pc[r] \in {"override", "done"}
  \/ pc[r] \in {"read", "write"} /\ loc[r].stage = "own"

FlightOf(r) ==
  LET e == loc[r].entity IN
  r \notin overtaken /\ pc[r] \in Live =>
    /\ row # NoConfig /\ row.id = e.id
    /\ pc[r] = "write" => loc[r].stored = row
    /\ e.pauseCountThisYear = row.pauseCountThisYear + (IF Counts(r) THEN 1 ELSE 0)
    /\ \/ e.remainingBuffer =< row.remainingBuffer
       \/ pc[r] \in {"read", "write"} /\ Renews(r)
    /\ Start(row) =< Start(e)
    /\ ~ Settled(r) =>
         \A c \in cycles :
           c.by = r => c.id = e.id /\ Start(row) =< c.start /\ c.end =< Start(e)

\* The pauses a config has granted are counted in its row, as long as it has one.
PausesCounted ==
  \A i \in Ids :
    /\ IsFiniteSet(GrantedPauses(i))
    /\ Cardinality(GrantedPauses(i)) =< MaxPauses
    /\ row # NoConfig /\ row.id = i =>
         Cardinality(GrantedPauses(i)) =< row.pauseCountThisYear

\* The windows of settled calls lie before the row's, and one after the other.
WindowsInOrder ==
  /\ \A c \in cycles :
       Settled(c.by) /\ row # NoConfig /\ c.id = row.id => c.end =< Start(row)
  /\ \A c, d \in cycles :
       Settled(c.by) /\ Settled(d.by) /\ c.by # d.by /\ c.id = d.id =>
         c.end =< d.start \/ d.end =< c.start

SoundOf(r) == pc[r] \in {"insert"} \union Live => Sound(loc[r].entity)

SeenBy(e) == e \notin overtaken /\ pc[e] = "commit" => loc[e].entity = row

Calm ==
  /\ row # NoConfig => Sound(row)
  /\ \A r \in Calls : SoundOf(r) /\ FlightOf(r)
  /\ \A e \in Entries : SeenBy(e)
  /\ PausesCounted
  /\ WindowsInOrder

Clean == ~ staleSave => Calm

IInv == TypeInv /\ RowInv /\ Clean

-----------------------------------------------------------------------------
(***************************************************************************)
(* Facts about rows                                                        *)
(***************************************************************************)

LEMMA LimitTypes ==
  /\ OpeningBalance \in Nat /\ MaxPauses \in Nat /\ MaxNow \in Nat
  /\ WatchdogDays \in Nat \ {0} /\ MaxRollovers \in Nat
  /\ NoConfig \notin Rows
BY ConstantsAssumption

\* What an UPDATE leaves of a row: each column is the row's or the entity's,
\* and it is the entity when nothing has changed since the SELECT.
LEMMA DifferingRow ==
  ASSUME NEW c \in Rows, NEW e \in Rows, NEW s \in Rows
  PROVE  LET d == Differing(c, e, s) IN
         /\ d \in Rows
         /\ d.id \in {c.id, e.id}
         /\ d.baselineBalance \in {c.baselineBalance, e.baselineBalance}
         /\ d.overrideActive \in {c.overrideActive, e.overrideActive}
         /\ s = c => d = e
<1>1. Differing(c, e, s) \in Rows
  BY DEF Differing, Rows
<1>2. s = c => Differing(c, e, s) = e
  BY DEF Differing, Rows
<1> QED
  BY <1>1, <1>2 DEF Differing, Rows

\* The DTO of a call on a row.
LEMMA DtoOf ==
  ASSUME NEW r \in Requests, req[r] \in CallRequests, req[r].op = "update"
  PROVE  req[r].dto \in UpdateDtos
BY DEF CallRequests, CallOps

\* What `update` makes of an entity.
LEMMA UpdatedRow ==
  ASSUME NEW e \in Rows, NEW dto \in UpdateDtos, now \in Days
  PROVE  LET d == Updated(e, dto) IN
         /\ d \in Rows
         /\ d.id = e.id /\ d.baselineBalance = e.baselineBalance
         /\ d.overrideActive = e.overrideActive
         /\ d.isPaused = e.isPaused /\ d.pauseStartedAt = e.pauseStartedAt
         /\ d.pauseCountThisYear = e.pauseCountThisYear
         /\ "bufferAmount" \in DOMAIN dto \/ d.remainingBuffer = e.remainingBuffer
         /\ \/ d.expiresAt = now + d.cycleDays
            \/ d.expiresAt = e.expiresAt /\ d.cycleDays = e.cycleDays
<1> USE LimitTypes
<1>1. Merged(e, dto) \in Rows
  BY DtosAssumption DEF Merged, Rows
<1>2. \A col \in DOMAIN e : Merged(e, dto)[col] = IF col \in DOMAIN dto THEN dto[col] ELSE e[col]
  BY DEF Merged
<1>3. /\ DOMAIN e = {"id", "income", "protectedSum", "baselineBalance", "governanceMode",
                     "cycleDays", "expiresAt", "cardBehaviour", "bufferAmount",
                     "remainingBuffer", "isPaused", "pauseCountThisYear",
                     "pauseStartedAt", "overrideActive"}
  BY DEF Rows
<1>4. Updated(e, dto) \in Rows
  <2> DEFINE x == IF "cycleDays" \in DOMAIN dto THEN now + dto.cycleDays
                 ELSE Merged(e, dto).expiresAt
             y == IF "bufferAmount" \in DOMAIN dto THEN dto.bufferAmount
                 ELSE Merged(e, dto).remainingBuffer
  <2>1. x \in Nat /\ y \in Nat
    BY <1>1, DtosAssumption DEF Rows, Days
  <2>2. Updated(e, dto) = [Merged(e, dto) EXCEPT !.expiresAt = x, !.remainingBuffer = y]
    BY DEF Updated
  <2> HIDE DEF x, y
  <2> QED
    BY <1>1, <2>1, <2>2 DEF Rows
<1> QED
  BY <1>1, <1>2, <1>3, <1>4, DtosAssumption DEF Updated, Rows, Days

LEMMA PausedRow ==
  ASSUME NEW e \in Rows, MayPause(e), now \in Days
  PROVE  LET d == Paused(e) IN
         /\ d \in Rows
         /\ d.id = e.id /\ d.baselineBalance = e.baselineBalance
         /\ d.overrideActive = e.overrideActive
         /\ d.pauseStartedAt = now
         /\ d.pauseCountThisYear = e.pauseCountThisYear + 1
         /\ d.remainingBuffer = e.remainingBuffer
         /\ d.expiresAt = e.expiresAt /\ d.cycleDays = e.cycleDays
<1>1. e.pauseCountThisYear + 1 \in 0 .. MaxPauses
  BY LimitTypes DEF MayPause, Rows
<1>2. now \in Days \union {NoPause}
  OBVIOUS
<1>3. Paused(e) = [e EXCEPT !.isPaused = TRUE, !.pauseStartedAt = now,
                            !.pauseCountThisYear = e.pauseCountThisYear + 1]
  BY DEF Paused
<1> QED
  BY <1>1, <1>2, <1>3 DEF Rows

LEMMA ResumedRow ==
  ASSUME NEW e \in Rows
  PROVE  LET d == Resumed(e) IN
         /\ d \in Rows
         /\ d.id = e.id /\ d.baselineBalance = e.baselineBalance
         /\ d.overrideActive = e.overrideActive
         /\ ~ d.isPaused
         /\ d.pauseCountThisYear = e.pauseCountThisYear
         /\ d.remainingBuffer = e.remainingBuffer
         /\ d.expiresAt = e.expiresAt /\ d.cycleDays = e.cycleDays
BY DEF Resumed, Rows

LEMMA RenewedRow ==
  ASSUME NEW e \in Rows
  PROVE  LET d == Renewed(e) IN
         /\ d \in Rows
         /\ d.id = e.id /\ d.baselineBalance = e.baselineBalance
         /\ ~ d.overrideActive
         /\ d.isPaused = e.isPaused /\ d.pauseStartedAt = e.pauseStartedAt
         /\ d.pauseCountThisYear = e.pauseCountThisYear
         /\ d.expiresAt = e.expiresAt /\ d.cycleDays = e.cycleDays
BY DEF Renewed, Rows

LEMMA RaisedRow ==
  ASSUME NEW e \in Rows
  PROVE  LET d == [e EXCEPT !.overrideActive = TRUE] IN
         /\ d \in Rows
         /\ d.id = e.id /\ d.baselineBalance = e.baselineBalance
         /\ d.isPaused = e.isPaused /\ d.pauseStartedAt = e.pauseStartedAt
         /\ d.pauseCountThisYear = e.pauseCountThisYear
         /\ d.remainingBuffer = e.remainingBuffer
         /\ d.expiresAt = e.expiresAt /\ d.cycleDays = e.cycleDays
BY DEF Rows

LEMMA AdvancedRow ==
  ASSUME NEW e \in Rows
  PROVE  LET d == [e EXCEPT !.expiresAt = @ + e.cycleDays] IN
         /\ d \in Rows
         /\ d.id = e.id /\ d.baselineBalance = e.baselineBalance
         /\ d.overrideActive = e.overrideActive
         /\ d.isPaused = e.isPaused /\ d.pauseStartedAt = e.pauseStartedAt
         /\ d.pauseCountThisYear = e.pauseCountThisYear
         /\ d.remainingBuffer = e.remainingBuffer
         /\ d.expiresAt = e.expiresAt + e.cycleDays /\ d.cycleDays = e.cycleDays
BY DEF Rows

LEMMA CreatedRow ==
  ASSUME NEW r \in Calls, NEW dto \in CreateDtos, NEW n \in Nat, now \in Days
  PROVE  LET d == Created(r, dto, n) IN
         /\ d \in Rows
         /\ d.id = r /\ d.baselineBalance = n
         /\ ~ d.overrideActive /\ ~ d.isPaused
         /\ d.expiresAt = now + d.cycleDays
<1>1. dto \in Dtos
  BY DtosAssumption
<1> QED
  BY <1>1, LimitTypes DEF Created, Dtos, Rows, Ids, Days, NoPause

\* A debit never gives a buffer back, and of the other columns it touches only
\* the card behaviour and the override flag.
LEMMA RowAfterDebit ==
  ASSUME NEW c \in Rows, NEW s \in Rows, NEW a \in Nat, NEW b \in Nat
  PROVE  LET d == ConfigAfterDebit(c, s, a, b, 0) IN
         /\ d \in Rows
         /\ d.id = c.id /\ d.baselineBalance = c.baselineBalance
         /\ d.isPaused = c.isPaused /\ d.pauseStartedAt = c.pauseStartedAt
         /\ d.pauseCountThisYear = c.pauseCountThisYear
         /\ d.expiresAt = c.expiresAt /\ d.cycleDays = c.cycleDays
         /\ s = c => d.remainingBuffer =< c.remainingBuffer
         /\ d.overrideActive => c.overrideActive \/ TriggersOverride(s, b, 0)
<1> DEFINE left == BufferLeft(s, a, b)
           draws == DrawsOnBuffer(s, b)
           x == IF draws /\ (IF left > 0 THEN left ELSE 0) # s.remainingBuffer
                THEN (IF left > 0 THEN left ELSE 0) ELSE c.remainingBuffer
           y == IF draws /\ left =< 0 THEN "hard_decline" ELSE c.cardBehaviour
           z == c.overrideActive \/ ( /\ ~ s.overrideActive
                                      /\ TriggersOverride(s, b, 0) )
<1>1. ConfigAfterDebit(c, s, a, b, 0) =
        [c EXCEPT !.remainingBuffer = x, !.cardBehaviour = y, !.overrideActive = z]
  BY DEF ConfigAfterDebit
<1>2. draws => left \in Int /\ left =< s.remainingBuffer
  BY DEF DrawsOnBuffer, BufferLeft, BufferUsed, BreachesReserve, Rows
<1>3. x \in Nat /\ (s = c => x =< c.remainingBuffer)
  <2> HIDE DEF left, draws
  <2> QED
    BY <1>2 DEF Rows
<1>4. y \in CardBehaviours
  BY DEF Rows, CardBehaviours
<1>5. z \in BOOLEAN /\ (z => c.overrideActive \/ TriggersOverride(s, b, 0))
  BY Zenon DEF Rows
<1> HIDE DEF x, y, z
<1>6. ConfigAfterDebit(c, s, a, b, 0) \in Rows
  BY <1>1, <1>3, <1>4, <1>5 DEF Rows
<1> QED
  BY <1>1, <1>3, <1>5, <1>6 DEF Rows

-----------------------------------------------------------------------------
(***************************************************************************)
(* Where a call goes from a row it holds                                   *)
(***************************************************************************)

\* Call r may go on from the local variables l.
Ready(r, l) ==
  /\ r \in Calls /\ req[r] \in CallRequests /\ now \in Days
  /\ l \in Locals /\ l.entity \in Rows
  /\ l.startedAt =< now

Buffered(r, k) ==
  \/ k.stage # "watchdog" /\ k.closed > 0
  \/ /\ k.stage = "own" /\ req[r].op = "update"
     /\ "bufferAmount" \in DOMAIN req[r].dto

\* The place label suits the local variables k.
Suits(r, label, k) ==
  \/ label = "close" /\ Rolling(k)
  \/ label = "override" /\ req[r].op = "override" /\ Reached(k)
  \/ /\ label = "read"
     /\ \/ k.stage = "watchdog" /\ ~ k.entity.isPaused /\ k.closed = 0
        \/ k.stage = "rollover" /\ Reached(k) /\ k.closed > 0
        \/ k.stage = "own" /\ Reached(k)
  \/ label = "done" /\ Reached(k)
  \/ label = "declined"

\* What k, at its new place, has in common with l.
Follows(r, l, label, k) ==
  /\ k.entity.id = l.entity.id
  /\ k.entity.baselineBalance = l.entity.baselineBalance
  /\ k.startedAt = l.startedAt /\ k.closed = l.closed
  /\ label # "override" /\ k.entity.overrideActive => l.entity.overrideActive

\* What k makes of a row that is sound.
Betters(r, l, label, k) ==
  /\ Sound(l.entity) => Sound(k.entity) /\ Start(l.entity) =< Start(k.entity)
  /\ k.entity.pauseCountThisYear =
       l.entity.pauseCountThisYear +
         (IF label = "read" /\ k.stage = "own" /\ req[r].op = "pause" THEN 1 ELSE 0)
  /\ \/ k.entity.remainingBuffer =< l.entity.remainingBuffer
     \/ label = "read" /\ Buffered(r, k)

Outcome(r, l, label, k) ==
  /\ k \in Locals /\ k.entity \in Rows /\ NotDue(k)
  /\ Suits(r, label, k)
  /\ Follows(r, l, label, k)
  /\ Betters(r, l, label, k)

SettledAt(label, k) ==
  \/ label \in {"override", "done", "declined"}
  \/ label = "read" /\ k.stage = "own"

LEMMA Kept ==
  ASSUME NEW r, NEW l, NEW label,
         Ready(r, l), NotDue(l), Suits(r, label, l), label # "read"
  PROVE  Outcome(r, l, label, l)
<1>1. l.entity.pauseCountThisYear \in Int /\ l.entity.remainingBuffer \in Nat
  BY LimitTypes DEF Ready, Rows
<1>2. Start(l.entity) \in Int
  BY DEF Ready, Rows, Start
<1> QED
  BY <1>1, <1>2 DEF Ready, Outcome, Follows, Betters

\* getByAccountNumber's caller: get, update, pause, resume or override.
LEMMA OwnOutcome ==
  ASSUME NEW r, NEW l, Ready(r, l), NotDue(l), Reached(l), Own(r, l)
  PROVE  \E label, k :
           /\ Goto(r, label, k) /\ Outcome(r, l, label, k) /\ SettledAt(label, k)
           /\ label = "done" => req[r].op = "get"
<1> USE LimitTypes
<1> DEFINE e == l.entity
<1>1. CASE req[r].op = "get" /\ Goto(r, "done", l)
  <2>1. Suits(r, "done", l) /\ SettledAt("done", l)
    BY DEF Suits, SettledAt
  <2>2. Outcome(r, l, "done", l)
    BY <2>1, Kept
  <2> QED
    BY <1>1, <2>1, <2>2
<1>2. CASE Goto(r, "declined", l)
  <2>1. Suits(r, "declined", l) /\ SettledAt("declined", l)
    BY DEF Suits, SettledAt
  <2>2. Outcome(r, l, "declined", l)
    BY <2>1, Kept
  <2> QED
    BY <1>2, <2>1, <2>2
<1>3. ASSUME NEW d \in Rows, SaveEntity(r, l, d, "own"),
             d.id = e.id /\ d.baselineBalance = e.baselineBalance,
             d.overrideActive = e.overrideActive,
             NotDue([l EXCEPT !.entity = d, !.stage = "own"]),
             d.expiresAt > l.startedAt \/ d.expiresAt = e.expiresAt,
             Betters(r, l, "read", [l EXCEPT !.entity = d, !.stage = "own"])
      PROVE  \E label, k :
               /\ Goto(r, label, k) /\ Outcome(r, l, label, k) /\ SettledAt(label, k)
               /\ label = "done" => req[r].op = "get"
  <2> DEFINE k == [l EXCEPT !.entity = d, !.stage = "own"]
  <2>1. /\ k \in Locals /\ k.entity = d /\ k.stage = "own"
        /\ k.startedAt = l.startedAt /\ k.closed = l.closed
    BY DEF Ready, Locals
  <2>2. Reached(k)
    BY <1>3, <2>1 DEF Reached
  <2> HIDE DEF k
  <2>3. Outcome(r, l, "read", k)
    BY <1>3, <2>1, <2>2 DEF Outcome, Suits, Follows, k
  <2>4. Goto(r, "read", k) /\ SettledAt("read", k)
    BY <1>3, <2>1 DEF SaveEntity, SettledAt, k
  <2> QED
    BY <1>3, <2>1, <2>3, <2>4
<1>4. CASE req[r].op = "update" /\ SaveEntity(r, l, Updated(e, req[r].dto), "own")
  <2> DEFINE d == Updated(e, req[r].dto)
             k == [l EXCEPT !.entity = d, !.stage = "own"]
  <2>1. req[r].dto \in UpdateDtos
    BY <1>4, DtoOf DEF Ready, Requests
  <2>2. /\ d \in Rows
        /\ d.id = e.id /\ d.baselineBalance = e.baselineBalance
        /\ d.overrideActive = e.overrideActive
        /\ d.isPaused = e.isPaused /\ d.pauseStartedAt = e.pauseStartedAt
        /\ d.pauseCountThisYear = e.pauseCountThisYear
        /\ "bufferAmount" \in DOMAIN req[r].dto \/ d.remainingBuffer = e.remainingBuffer
        /\ \/ d.expiresAt = now + d.cycleDays
           \/ d.expiresAt = e.expiresAt /\ d.cycleDays = e.cycleDays
    BY <2>1, UpdatedRow DEF Ready
  <2> HIDE DEF d
  <2>3. k.entity = d /\ k.stage = "own" /\ k.startedAt = l.startedAt
    BY DEF Ready, Locals
  <2>4. /\ e.expiresAt \in Nat /\ d.expiresAt \in Nat
        /\ e.cycleDays \in Nat \ {0} /\ d.cycleDays \in Nat \ {0}
        /\ e.pauseCountThisYear \in Nat /\ e.remainingBuffer \in Nat
        /\ now \in Nat /\ l.startedAt \in Nat /\ l.startedAt =< now
    BY <2>2 DEF Ready, Rows, Locals, Days
  <2>5. d.expiresAt > l.startedAt \/ d.expiresAt = e.expiresAt
    BY <2>2, <2>4
  <2>6. NotDue(k)
    BY <2>2, <2>3 DEF NotDue, Ready
  <2>7. Sound(e) => Sound(d) /\ Start(e) =< Start(d)
    BY <2>2, <2>4 DEF Sound, Start
  <2>8. Betters(r, l, "read", k)
    BY <1>4, <2>2, <2>3, <2>4, <2>7 DEF Betters, Buffered
  <2>9. SaveEntity(r, l, d, "own")
    BY <1>4 DEF d
  <2> QED
    BY <1>3, <2>2, <2>5, <2>6, <2>8, <2>9
<1>5. CASE req[r].op = "pause" /\ MayPause(e) /\ SaveEntity(r, l, Paused(e), "own")
  <2> DEFINE d == Paused(e)
             k == [l EXCEPT !.entity = d, !.stage = "own"]
  <2>1. /\ d \in Rows
        /\ d.id = e.id /\ d.baselineBalance = e.baselineBalance
        /\ d.overrideActive = e.overrideActive
        /\ d.pauseStartedAt = now
        /\ d.pauseCountThisYear = e.pauseCountThisYear + 1
        /\ d.remainingBuffer = e.remainingBuffer
        /\ d.expiresAt = e.expiresAt /\ d.cycleDays = e.cycleDays
    BY <1>5, PausedRow DEF Ready
  <2> HIDE DEF d
  <2>2. k.entity = d /\ k.stage = "own" /\ k.startedAt = l.startedAt
    BY DEF Ready, Locals
  <2>3. /\ e.expiresAt \in Nat /\ e.cycleDays \in Nat
        /\ e.remainingBuffer \in Nat
        /\ now \in Nat /\ l.startedAt \in Nat /\ l.startedAt =< now
    BY DEF Ready, Rows, Locals, Days
  <2>4. NotDue(k)
    BY <2>1, <2>2, <2>3 DEF NotDue
  <2>5. Sound(e) => Sound(d) /\ Start(e) =< Start(d)
    BY <2>1, <2>3 DEF Sound, Start, NoPause
  <2>6. Betters(r, l, "read", k)
    BY <1>5, <2>1, <2>2, <2>3, <2>5 DEF Betters
  <2>7. SaveEntity(r, l, d, "own")
    BY <1>5 DEF d
  <2> QED
    BY <1>3, <2>1, <2>4, <2>6, <2>7
<1>6. CASE req[r].op = "resume" /\ SaveEntity(r, l, Resumed(e), "own")
  <2> DEFINE d == Resumed(e)
             k == [l EXCEPT !.entity = d, !.stage = "own"]
  <2>1. /\ d \in Rows
        /\ d.id = e.id /\ d.baselineBalance = e.baselineBalance
        /\ d.overrideActive = e.overrideActive
        /\ ~ d.isPaused
        /\ d.pauseCountThisYear = e.pauseCountThisYear
        /\ d.remainingBuffer = e.remainingBuffer
        /\ d.expiresAt = e.expiresAt /\ d.cycleDays = e.cycleDays
    BY ResumedRow DEF Ready
  <2> HIDE DEF d
  <2>2. k.entity = d /\ k.stage = "own" /\ k.startedAt = l.startedAt
    BY DEF Ready, Locals
  <2>3. /\ e.expiresAt \in Nat /\ e.cycleDays \in Nat
        /\ e.remainingBuffer \in Nat /\ e.pauseCountThisYear \in Nat
    BY DEF Ready, Rows
  <2>4. NotDue(k)
    BY <2>1, <2>2 DEF NotDue
  <2>5. Sound(e) => Sound(d) /\ Start(e) =< Start(d)
    BY <2>1, <2>3 DEF Sound, Start
  <2>6. Betters(r, l, "read", k)
    BY <1>6, <2>1, <2>2, <2>3, <2>5 DEF Betters
  <2>7. SaveEntity(r, l, d, "own")
    BY <1>6 DEF d
  <2> QED
    BY <1>3, <2>1, <2>4, <2>6, <2>7
<1>7. CASE /\ req[r].op = "override"
           /\ Goto(r, "override", [l EXCEPT !.entity.overrideActive = TRUE])
  <2> DEFINE d == [e EXCEPT !.overrideActive = TRUE]
             k == [l EXCEPT !.entity = d]
  <2>1. /\ d \in Rows
        /\ d.id = e.id /\ d.baselineBalance = e.baselineBalance
        /\ d.isPaused = e.isPaused /\ d.pauseStartedAt = e.pauseStartedAt
        /\ d.pauseCountThisYear = e.pauseCountThisYear
        /\ d.remainingBuffer = e.remainingBuffer
        /\ d.expiresAt = e.expiresAt /\ d.cycleDays = e.cycleDays
    BY RaisedRow DEF Ready
  <2>2. [l EXCEPT !.entity.overrideActive = TRUE] = k
    BY DEF Ready, Locals
  <2> HIDE DEF d
  <2>3. /\ k \in Locals /\ k.entity = d
        /\ k.startedAt = l.startedAt /\ k.closed = l.closed
    BY <2>1 DEF Ready, Locals
  <2>4. /\ e.expiresAt \in Nat /\ e.cycleDays \in Nat
        /\ e.remainingBuffer \in Nat /\ e.pauseCountThisYear \in Nat
    BY DEF Ready, Rows
  <2>5. NotDue(k) /\ Reached(k)
    BY <2>1, <2>3 DEF NotDue, Reached, Ready
  <2>6. Sound(e) => Sound(d) /\ Start(e) =< Start(d)
    BY <2>1, <2>4 DEF Sound, Start
  <2> HIDE DEF k
  <2>7. Betters(r, l, "override", k)
    BY <2>1, <2>3, <2>4, <2>6 DEF Betters
  <2>8. Outcome(r, l, "override", k)
    BY <1>7, <2>1, <2>3, <2>5, <2>7 DEF Outcome, Suits, Follows
  <2>9. Goto(r, "override", k) /\ SettledAt("override", k)
    BY <1>7, <2>2 DEF SettledAt
  <2> QED
    BY <2>8, <2>9
<1> QED
  BY <1>1, <1>2, <1>4, <1>5, <1>6, <1>7 DEF Own

\* The loop of ensureCurrentCycle; a call that has closed a cycle saves its
\* row before it does anything else.
LEMMA LoopOutcome ==
  ASSUME NEW r, NEW l, Ready(r, l), NotDue(l), Loop(r, l)
  PROVE  \E label, k : /\ Goto(r, label, k) /\ Outcome(r, l, label, k)
                       /\ SettledAt(label, k) => l.closed = 0
                       /\ label = "done" => req[r].op = "get"
<1> USE LimitTypes
<1>0. /\ l.entity.expiresAt \in Nat /\ l.startedAt \in Nat
      /\ l.closed \in 0 .. MaxRollovers
  BY DEF Ready, Rows, Locals, Days
<1>1. CASE Rolling(l) /\ Goto(r, "close", l)
  <2>1. Suits(r, "close", l) /\ ~ SettledAt("close", l)
    BY <1>1 DEF Suits, SettledAt
  <2>2. Outcome(r, l, "close", l)
    BY <2>1, Kept
  <2> QED
    BY <1>1, <2>1, <2>2
<1>2. CASE /\ ~ Rolling(l) /\ l.closed > 0
           /\ SaveEntity(r, l, Renewed(l.entity), "rollover")
  <2> DEFINE e == l.entity
             d == Renewed(e)
             k == [l EXCEPT !.entity = d, !.stage = "rollover"]
  <2>1. /\ d \in Rows
        /\ d.id = e.id /\ d.baselineBalance = e.baselineBalance
        /\ ~ d.overrideActive
        /\ d.isPaused = e.isPaused /\ d.pauseStartedAt = e.pauseStartedAt
        /\ d.pauseCountThisYear = e.pauseCountThisYear
        /\ d.expiresAt = e.expiresAt /\ d.cycleDays = e.cycleDays
    BY RenewedRow DEF Ready
  <2> HIDE DEF d
  <2>2. /\ k \in Locals /\ k.entity = d /\ k.stage = "rollover"
        /\ k.startedAt = l.startedAt /\ k.closed = l.closed
    BY <2>1 DEF Ready, Locals
  <2> HIDE DEF k
  <2>3. Reached(k) /\ NotDue(k)
    BY <1>0, <1>2, <2>1, <2>2 DEF Reached, Rolling, NotDue, Ready
  <2>4. e.cycleDays \in Nat /\ e.pauseCountThisYear \in Nat
    BY DEF Ready, Rows
  <2>5. Sound(e) => Sound(d) /\ Start(e) =< Start(d)
    BY <1>0, <2>1, <2>4 DEF Sound, Start
  <2>6. Betters(r, l, "read", k)
    BY <1>2, <2>1, <2>2, <2>4, <2>5 DEF Betters, Buffered
  <2>7. Outcome(r, l, "read", k)
    BY <1>2, <2>1, <2>2, <2>3, <2>6 DEF Outcome, Suits, Follows
  <2>8. Goto(r, "read", k) /\ ~ SettledAt("read", k)
    BY <1>2, <2>2 DEF SaveEntity, SettledAt, k, d
  <2> QED
    BY <2>7, <2>8
<1>3. CASE ~ Rolling(l) /\ l.closed = 0 /\ Own(r, l)
  <2>1. Reached(l)
    BY <1>0, <1>3 DEF Reached, Rolling
  <2> QED
    BY <1>3, <2>1, OwnOutcome
<1> QED
  BY <1>1, <1>2, <1>3 DEF Loop

\* findByAccountNumber has found a row.
LEMMA FindOutcome ==
  ASSUME NEW r \in Calls, TypeInv, Find(r)
  PROVE  \/ pc[r] = "find" /\ req[r].op = "create" /\ Goto(r, "declined", loc[r])
         \/ pc[r] = "find" /\ req[r].op = "deactivate" /\ Goto(r, "delete", loc[r])
         \/ \E l, label, k :
              /\ pc[r] = "find" /\ Looks(r)
              /\ Ready(r, l) /\ l.entity = row /\ l.closed = 0
              /\ Goto(r, label, k) /\ Outcome(r, l, label, k)
              /\ label = "done" => req[r].op = "get"
<1> USE LimitTypes
<1> DEFINE l == [loc[r] EXCEPT !.entity = row, !.startedAt = now]
<1>0. /\ pc[r] = "find" /\ row \in Rows /\ now \in Days /\ r \in Requests
      /\ req[r] \in CallRequests /\ loc[r] = EmptyLoc /\ loc[r] \in Locals
  BY DEF TypeInv, TypeOK, CallPlace, Find, Requests
<1>e. loc[r].closed = 0
  BY <1>0 DEF EmptyLoc
<1>1. CASE req[r].op = "create"
  BY <1>0, <1>1 DEF Find, Answer
<1>2. CASE req[r].op = "deactivate"
  BY <1>0, <1>2 DEF Find, Answer
<1>3. CASE Looks(r)
  <2>1. CASE WatchdogDue(row) /\ SaveEntity(r, l, Resumed(row), "watchdog")
    <3> DEFINE d == Resumed(row)
               k == [l EXCEPT !.entity = d, !.stage = "watchdog"]
    <3>1. /\ d \in Rows
          /\ d.id = row.id /\ d.baselineBalance = row.baselineBalance
          /\ d.overrideActive = row.overrideActive
          /\ ~ d.isPaused
          /\ d.pauseCountThisYear = row.pauseCountThisYear
          /\ d.remainingBuffer = row.remainingBuffer
          /\ d.expiresAt = row.expiresAt /\ d.cycleDays = row.cycleDays
      BY <1>0, ResumedRow
    <3> HIDE DEF d
    <3>2. /\ k \in Locals /\ k.entity = d /\ k.stage = "watchdog"
          /\ k.startedAt = now /\ k.closed = 0
      BY <1>0, <1>e, <3>1 DEF Locals
    <3>3. /\ row.expiresAt \in Nat /\ row.cycleDays \in Nat
          /\ row.remainingBuffer \in Nat /\ row.pauseCountThisYear \in Nat
      BY <1>0 DEF Rows
    <3>4. /\ l \in Locals /\ l.entity = row /\ l.startedAt = now /\ l.closed = 0
      BY <1>0, <1>e DEF Locals
    <3>5. SaveEntity(r, l, d, "watchdog")
      BY <2>1 DEF d
    <3>6. Goto(r, "read", k)
      BY <3>5 DEF SaveEntity
    <3> HIDE DEF k, l
    <3>7. Sound(row) => Sound(d) /\ Start(row) =< Start(d)
      BY <3>1, <3>3 DEF Sound, Start
    <3>8. Betters(r, l, "read", k)
      BY <3>1, <3>2, <3>3, <3>4, <3>7 DEF Betters
    <3>9. Outcome(r, l, "read", k)
      BY <3>1, <3>2, <3>4, <3>8 DEF Outcome, Suits, Follows, NotDue
    <3>10. Ready(r, l)
      BY <1>0, <3>4 DEF Ready, Days
    <3> QED
      BY <1>0, <1>3, <3>4, <3>6, <3>9, <3>10
  <2>2. CASE ~ WatchdogDue(row) /\ Loop(r, l)
    <3>1. /\ l \in Locals /\ l.entity = row /\ l.startedAt = now /\ l.closed = 0
      BY <1>0, <1>e DEF Locals
    <3> HIDE DEF l
    <3>2. NotDue(l)
      BY <1>0, <2>2, <3>1 DEF NotDue, WatchdogDue, Rows, Days, NoPause
    <3>3. Ready(r, l)
      BY <1>0, <3>1, <3>2 DEF Ready, Days
    <3>4. PICK label, k : /\ Goto(r, label, k) /\ Outcome(r, l, label, k)
                          /\ label = "done" => req[r].op = "get"
      BY <2>2, <3>2, <3>3, LoopOutcome
    <3> QED
      BY <1>0, <1>3, <3>1, <3>3, <3>4
  <2> QED
    BY <1>0, <1>3, <2>1, <2>2 DEF Find, Looks
<1> QED
  BY <1>1, <1>2, <1>3 DEF Looks

-----------------------------------------------------------------------------
(***************************************************************************)
(* What a step of one call leaves alone                                    *)
(***************************************************************************)

\* Call r moves to label with k; what else it changes is typed.
CallStep(r, label, k) ==
  /\ r \in Calls /\ Goto(r, label, k)
  /\ label \in InFlight \union Answered /\ k \in Locals
  /\ UNCHANGED <<ledger, now, unrecorded>>
  /\ req' \in [Requests -> CallRequests \union EntryRequests \union {NoRequest}]
  /\ req'[r] \in CallRequests
  /\ \A q \in Requests \ {r} : req'[q] = req[q]
  /\ row' \in Rows \union {NoConfig}
  /\ overrides \subseteq overrides' /\ overrides' \subseteq Requests
  /\ overtaken' \subseteq Requests /\ staleSave' \in BOOLEAN
  /\ cycles \subseteq cycles'
  /\ cycles' \subseteq [by : Calls, id : Ids, start : Int, end : Days]
  /\ \A c \in cycles' : c \in cycles \/ c.by = r

LEMMA Moves ==
  ASSUME TypeInv, NEW r \in Requests, NEW label \in InFlight \union Answered,
         NEW k \in Locals, Goto(r, label, k)
  PROVE  /\ pc' \in [Requests -> {"idle"} \union InFlight \union Answered]
         /\ loc' \in [Requests -> Locals]
         /\ pc'[r] = label /\ loc'[r] = k
         /\ \A q \in Requests \ {r} : pc'[q] = pc[q] /\ loc'[q] = loc[q]
BY DEF TypeInv, TypeOK, Goto

\* What others are doing does not depend on r.
LEMMA CallTypes ==
  ASSUME TypeInv, NEW r, NEW label, NEW k, CallStep(r, label, k), CallPlace(r)'
  PROVE  TypeInv'
<1> USE DEF CallStep
<1>1. /\ r \in Requests /\ r \notin Entries
      /\ pc' \in [Requests -> {"idle"} \union InFlight \union Answered]
      /\ loc' \in [Requests -> Locals]
      /\ pc'[r] = label /\ loc'[r] = k
      /\ \A q \in Requests \ {r} : pc'[q] = pc[q] /\ loc'[q] = loc[q]
  BY Moves, ConstantsAssumption DEF Requests
<1>2. \A q \in Requests :
        pc'[q] # "idle" => req'[q] \in IF q \in Calls THEN CallRequests
                                                     ELSE EntryRequests
  BY <1>1 DEF TypeInv, TypeOK
<1>3. TypeOK'
  BY <1>1, <1>2 DEF TypeInv, TypeOK, ledger
<1>4. ASSUME NEW q \in Calls \ {r}
      PROVE  CallPlace(q)'
  <2>1. CallPlace(q) /\ q \in Requests /\ pc'[q] = pc[q] /\ loc'[q] = loc[q] /\ req'[q] = req[q]
    BY <1>1 DEF TypeInv, Requests
  <2>2. now' = now /\ \A c \in cycles' : c.by = q => c \in cycles
    OBVIOUS
  <2> QED
    BY <2>1, <2>2 DEF CallPlace, Looks, Reached, NotDue, Rolling
<1>5. ASSUME NEW e \in Entries
      PROVE  EntryPlace(e)'
  <2>1. EntryPlace(e) /\ pc'[e] = pc[e] /\ req'[e] = req[e]
    BY <1>1 DEF TypeInv, Requests
  <2> QED
    BY <2>1 DEF EntryPlace, BalanceAfter, ledger
<1> QED
  BY <1>3, <1>4, <1>5 DEF TypeInv

\* The ids of the rows call r has in sight.
Known(r) == {c.id : c \in {row, loc[r].entity} \ {NoConfig}}

\* Whatever rows a step of r handles are rows it knew, or its own.
FreshStep(r, k) ==
  /\ row' # NoConfig => row'.id \in Known(r)
  /\ k.entity # NoConfig => k.entity.id \in Known(r) \union {r}
  /\ \A c \in cycles' : c \in cycles \/ c.id \in Known(r)

LEMMA CallRows ==
  ASSUME TypeInv, RowInv, NEW r, NEW label, NEW k, CallStep(r, label, k),
         FreshStep(r, k), FreshOf(r)', KeepsOf(r)',
         (row # NoConfig => Flagged(row) /\ Based(row))'
  PROVE  RowInv'
<1> USE DEF CallStep
<1>1. /\ r \in Requests
      /\ pc'[r] = label /\ loc'[r] = k
      /\ \A q \in Requests \ {r} : pc'[q] = pc[q] /\ loc'[q] = loc[q]
  BY Moves DEF Requests
<1>2. Unmoved' = Unmoved /\ balance' = balance /\ latest' = latest /\ unrecorded' = unrecorded
  BY DEF Unmoved, ledger
<1>3. ASSUME NEW q \in Calls \ {r}
      PROVE  FreshOf(q)'
  <2>1. SUFFICES ASSUME pc[q] \in {"idle", "find", "wallet", "insert"}
                 PROVE  /\ row' # NoConfig => row'.id # q
                        /\ \A p \in Calls \ {q} : loc'[p].entity # NoConfig => loc'[p].entity.id # q
                        /\ \A c \in cycles' : c.id # q
    BY <1>1 DEF FreshOf, Requests
  <2>2. /\ row # NoConfig => row.id # q
        /\ \A p \in Calls \ {q} : loc[p].entity # NoConfig => loc[p].entity.id # q
        /\ \A c \in cycles : c.id # q
    BY <2>1 DEF RowInv, FreshOf
  <2>3. q \notin Known(r)
    BY <2>2 DEF Known
  <2> QED
    BY <1>1, <2>2, <2>3 DEF FreshStep, Requests
<1>4. ASSUME NEW q \in Calls \ {r}
      PROVE  KeepsOf(q)'
  <2>1. KeepsOf(q) /\ pc'[q] = pc[q] /\ loc'[q] = loc[q]
    BY <1>1 DEF RowInv, Requests
  <2>2. \A c : Flagged(c) => Flagged(c)'
    BY DEF Flagged
  <2>3. \A c : Based(c) => Based(c)'
    BY <1>2 DEF Based
  <2> QED
    BY <2>1, <2>2, <2>3 DEF KeepsOf, Flagged, Based
<1> QED
  BY <1>2, <1>3, <1>4 DEF RowInv

\* A call that goes on from a row it holds arrives where the invariant wants it.
LEMMA Arrives ==
  ASSUME TypeInv, NEW r, NEW l, NEW label, NEW k,
         Ready(r, l), Outcome(r, l, label, k), CallStep(r, label, k),
         req' = req, Looks(r),
         l.closed = 0 => \A c \in cycles' : c.by # r,
         l.entity.overrideActive => overrides' # {}, Based(l.entity)
  PROVE  CallPlace(r)' /\ FreshOf(r)' /\ KeepsOf(r)'
<1> USE DEF CallStep
<1>1. pc'[r] = label /\ loc'[r] = k /\ now' = now /\ Unmoved' = Unmoved
  BY Moves DEF Requests, Unmoved, ledger
<1>2. /\ k \in Locals /\ k.entity \in Rows /\ NotDue(k) /\ Suits(r, label, k)
      /\ k.entity.baselineBalance = l.entity.baselineBalance
      /\ k.startedAt = l.startedAt /\ k.closed = l.closed
      /\ label # "override" /\ k.entity.overrideActive => l.entity.overrideActive
  BY DEF Outcome, Follows
<1>3. l.startedAt =< now
  BY DEF Ready
<1>4. label \in Live \union {"done", "declined"}
  BY <1>2 DEF Suits, Live
<1>5. CallPlace(r)'
  <2>1. Looks(r)' /\ NotDue(loc[r])' /\ (Reached(loc[r])' <=> Reached(k)) /\ (Rolling(loc[r])' <=> Rolling(k))
    BY <1>1, <1>2 DEF Looks, NotDue, Reached, Rolling
  <2>2. loc'[r].closed = 0 => \A c \in cycles' : c.by # r
    BY <1>1, <1>2
  <2>3. pc'[r] \in {"read", "write"} =>
          \/ loc'[r].stage = "watchdog" /\ ~ loc'[r].entity.isPaused /\ loc'[r].closed = 0
          \/ loc'[r].stage = "rollover" /\ Reached(loc[r])' /\ loc'[r].closed > 0
          \/ loc'[r].stage = "own" /\ Reached(loc[r])'
    BY <1>1, <1>2, <1>4, <2>1 DEF Suits, Live
  <2> QED
    BY <1>1, <1>2, <1>3, <1>4, <2>1, <2>2, <2>3 DEF CallPlace, Live, Suits, Answered
<1>6. FreshOf(r)'
  BY <1>1, <1>4 DEF FreshOf, Live
<1>7. KeepsOf(r)'
  <2>1. Flagged(loc[r].entity)' \/ label = "override"
    BY <1>1, <1>2 DEF Flagged
  <2>2. Based(loc[r].entity)'
    BY <1>1, <1>2 DEF Based
  <2>3. label # "insert"
    BY <1>4 DEF Live
  <2> QED
    BY <1>1, <2>1, <2>2, <2>3 DEF KeepsOf
<1> QED
  BY <1>5, <1>6, <1>7

\* What saving a row does to the history.
LEMMA Writes ==
  ASSUME TypeInv, NEW r \in Requests, NEW d, Write(r, d)
  PROVE  row' = d /\ overtaken' \subseteq Requests /\ staleSave' \in BOOLEAN
BY DEF TypeInv, TypeOK, Write

LEMMA Keeps ==
  ASSUME TypeInv, NotWritten
  PROVE  /\ row' = row /\ row' \in Rows \union {NoConfig}
         /\ overtaken' \subseteq Requests /\ staleSave' \in BOOLEAN
BY DEF TypeInv, TypeOK, NotWritten

\* The types that hold of any row in sight.
LEMMA Typed ==
  ASSUME TypeInv, NEW r \in Calls
  PROVE  /\ r \in Requests /\ CallPlace(r) /\ loc[r] \in Locals
         /\ row \in Rows \union {NoConfig} /\ overrides \subseteq Requests
         /\ cycles \subseteq [by : Calls, id : Ids, start : Int, end : Days]
         /\ now \in Days
         /\ req \in [Requests -> CallRequests \union EntryRequests \union {NoRequest}]
         /\ pc[r] # "idle" => req[r] \in CallRequests
BY DEF TypeInv, TypeOK, Requests

\* The invariant of rows and types after a step of one call.
StepOf(r) ==
  \E label, k :
    /\ CallStep(r, label, k) /\ FreshStep(r, k)
    /\ (CallPlace(r) /\ FreshOf(r) /\ KeepsOf(r))'
    /\ (row # NoConfig => Flagged(row) /\ Based(row))'

LEMMA StepKeeps ==
  ASSUME TypeInv, RowInv, NEW r, StepOf(r)
  PROVE  TypeInv' /\ RowInv'
<1>1. PICK label, k :
        /\ CallStep(r, label, k) /\ FreshStep(r, k)
        /\ (CallPlace(r) /\ FreshOf(r) /\ KeepsOf(r))'
        /\ (row # NoConfig => Flagged(row) /\ Based(row))'
  BY DEF StepOf
<1>2. TypeInv'
  BY <1>1, CallTypes
<1>3. RowInv'
  BY <1>1, CallRows
<1> QED
  BY <1>2, <1>3

\* An answer, or another step that leaves the entity and the tables alone.
LEMMA Passes ==
  ASSUME TypeInv, RowInv, NEW r \in Calls, NEW label \in InFlight \union Answered,
         Goto(r, label, loc[r]), NotWritten,
         UNCHANGED <<ledger, overrides, cycles, now, unrecorded>>,
         req' \in [Requests -> CallRequests \union EntryRequests \union {NoRequest}],
         req'[r] \in CallRequests,
         \A q \in Requests \ {r} : req'[q] = req[q]
  PROVE  /\ CallStep(r, label, loc[r]) /\ FreshStep(r, loc[r])
         /\ (row # NoConfig => Flagged(row) /\ Based(row))'
<1>1. CallStep(r, label, loc[r])
  BY Typed, Keeps DEF CallStep
<1>2. FreshStep(r, loc[r])
  BY Typed, Keeps DEF FreshStep, Known
<1>3. (row # NoConfig => Flagged(row) /\ Based(row))'
  BY Keeps DEF RowInv, Flagged, Based, Unmoved, ledger
<1> QED
  BY <1>1, <1>2, <1>3

-----------------------------------------------------------------------------
(***************************************************************************)
(* The calls, step by step                                                 *)
(***************************************************************************)

LEMMA SubmitStep ==
  ASSUME TypeInv, RowInv, NEW r \in Calls, Submit(r)
  PROVE  StepOf(r)
<1>1. /\ pc[r] = "idle" /\ Goto(r, "find", loc[r]) /\ loc[r] \in Locals
      /\ r \in Requests /\ CallPlace(r) /\ loc[r] = EmptyLoc
      /\ cycles' = cycles /\ row' = row
  BY Typed DEF Submit, Answer, CallPlace, NotWritten
<1>2. /\ req' \in [Requests -> CallRequests \union EntryRequests \union {NoRequest}]
      /\ req'[r] \in CallRequests
      /\ \A q \in Requests \ {r} : req'[q] = req[q]
  BY <1>1, Typed DEF Submit
<1>3. /\ CallStep(r, "find", loc[r]) /\ FreshStep(r, loc[r])
      /\ (row # NoConfig => Flagged(row) /\ Based(row))'
  BY <1>1, <1>2, Passes DEF Submit, InFlight
<1>4. pc'[r] = "find" /\ loc'[r] = loc[r] /\ \A q \in Requests \ {r} : loc'[q] = loc[q]
  BY <1>1, Moves DEF InFlight
<1>5. CallPlace(r)'
  BY <1>1, <1>4 DEF CallPlace, Live
<1>6. FreshOf(r)'
  BY <1>1, <1>4 DEF RowInv, FreshOf, Requests
<1>7. KeepsOf(r)'
  BY <1>4 DEF KeepsOf, Live
<1> QED
  BY <1>3, <1>5, <1>6, <1>7 DEF StepOf

\* A call gives up, or goes on with nothing in hand.
LEMMA AnswerStep ==
  ASSUME TypeInv, RowInv, NEW r \in Calls, NEW label \in InFlight \union Answered,
         Answer(r, label), pc[r] # "idle", NotWritten,
         UNCHANGED <<ledger, overrides, cycles, now, req, unrecorded>>,
         \/ label \in {"declined", "failed"}
         \/ label = "wallet" /\ pc[r] = "find" /\ req[r].op = "create"
         \/ label = "delete" /\ pc[r] = "find" /\ req[r].op = "deactivate"
  PROVE  StepOf(r)
<1>1. /\ Goto(r, label, loc[r]) /\ loc[r] \in Locals
      /\ r \in Requests /\ CallPlace(r)
      /\ cycles' = cycles /\ row' = row
  BY Typed DEF Answer, NotWritten
<1>2. /\ CallStep(r, label, loc[r]) /\ FreshStep(r, loc[r])
      /\ (row # NoConfig => Flagged(row) /\ Based(row))'
  BY <1>1, Typed, Passes
<1>3. pc'[r] = label /\ loc'[r] = loc[r] /\ \A q \in Requests \ {r} : loc'[q] = loc[q]
  BY <1>1, Moves
<1>4. CallPlace(r)'
  BY <1>1, <1>3 DEF CallPlace, Live, Answered, EmptyLoc
<1>5. FreshOf(r)'
  BY <1>1, <1>3 DEF RowInv, FreshOf, Requests
<1>6. KeepsOf(r)'
  BY <1>3 DEF KeepsOf, Live
<1> QED
  BY <1>2, <1>4, <1>5, <1>6 DEF StepOf

LEMMA FindNothingStep ==
  ASSUME TypeInv, RowInv, NEW r \in Calls, FindNothing(r)
  PROVE  StepOf(r)
<1>1. CASE req[r].op = "create"
  BY <1>1, AnswerStep DEF FindNothing, InFlight
<1>2. CASE req[r].op # "create"
  BY <1>2, AnswerStep DEF FindNothing, Answered
<1> QED
  BY <1>1, <1>2

\* A step on a row the call holds, that writes nothing.
LEMMA HeldStep ==
  ASSUME TypeInv, RowInv, NEW r \in Calls, NEW l, NEW label, NEW k,
         Ready(r, l), Outcome(r, l, label, k), Goto(r, label, k), Looks(r),
         NotWritten, UNCHANGED <<ledger, now, req, unrecorded>>,
         overrides \subseteq overrides', overrides' \subseteq Requests,
         cycles \subseteq cycles',
         cycles' \subseteq [by : Calls, id : Ids, start : Int, end : Days],
         \A c \in cycles' : c \in cycles \/ (c.by = r /\ c.id \in Known(r)),
         l.closed = 0 => \A c \in cycles' : c.by # r,
         l.entity.overrideActive => overrides' # {}, Based(l.entity),
         l.entity.id \in Known(r)
  PROVE  StepOf(r)
<1>1. label \in InFlight \union Answered /\ k \in Locals /\ k.entity.id = l.entity.id
  BY DEF Outcome, Suits, Follows, InFlight, Answered
<1>2. CallStep(r, label, k)
  BY <1>1, Typed, Keeps DEF CallStep, Ready
<1>3. CallPlace(r)' /\ FreshOf(r)' /\ KeepsOf(r)'
  BY <1>2, Arrives
<1>4. FreshStep(r, k)
  BY <1>1, Keeps DEF FreshStep, Known
<1>5. (row # NoConfig => Flagged(row) /\ Based(row))'
  BY Keeps DEF RowInv, Flagged, Based, Unmoved, ledger
<1> QED
  BY <1>2, <1>3, <1>4, <1>5 DEF StepOf

LEMMA FindStep ==
  ASSUME TypeInv, RowInv, NEW r \in Calls, Find(r)
  PROVE  StepOf(r)
<1>0. /\ NotWritten /\ UNCHANGED <<ledger, overrides, cycles, now, req, unrecorded>>
      /\ row # NoConfig
  BY DEF Find
<1>1. CASE /\ pc[r] = "find" /\ req[r].op \in {"create", "deactivate"}
           /\ Answer(r, IF req[r].op = "create" THEN "declined" ELSE "delete")
  <2>1. CASE req[r].op = "create"
    BY <1>0, <1>1, <2>1, AnswerStep DEF Answered
  <2>2. CASE req[r].op = "deactivate"
    BY <1>0, <1>1, <2>2, AnswerStep DEF InFlight
  <2> QED
    BY <1>1, <2>1, <2>2
<1>2. ASSUME NEW l, NEW label, NEW k, pc[r] = "find", Looks(r),
             Ready(r, l), l.entity = row, l.closed = 0,
             Goto(r, label, k), Outcome(r, l, label, k)
      PROVE  StepOf(r)
  <2>1. \A c \in cycles' : c.by # r
    <3>1. loc[r] = EmptyLoc /\ CallPlace(r)
      BY <1>2, Typed DEF CallPlace
    <3> QED
      BY <1>0, <3>1 DEF CallPlace, EmptyLoc
  <2>2. l.entity.overrideActive => overrides' # {}
    BY <1>0, <1>2 DEF RowInv, Flagged
  <2>3. Based(l.entity) /\ l.entity.id \in Known(r)
    BY <1>0, <1>2 DEF RowInv, Known
  <2> QED
    BY <1>0, <1>2, <2>1, <2>2, <2>3, HeldStep, Typed
<1> QED
  BY <1>1, <1>2, FindOutcome DEF Answer

LEMMA ReadWalletStep ==
  ASSUME TypeInv, RowInv, NEW r \in Calls, ReadWallet(r)
  PROVE  StepOf(r)
<1>0. /\ NotWritten /\ UNCHANGED <<ledger, overrides, cycles, now, req, unrecorded>>
      /\ pc[r] = "wallet"
  BY DEF ReadWallet
<1>1. CASE Answer(r, "declined")
  BY <1>0, <1>1, AnswerStep DEF Answered
<1>2. CASE Goto(r, "insert", [loc[r] EXCEPT !.entity = Created(r, req[r].dto, balance)])
  <2> DEFINE d == Created(r, req[r].dto, balance)
             k == [loc[r] EXCEPT !.entity = d]
  <2>1. /\ CallPlace(r) /\ r \in Requests /\ req[r].op = "create"
        /\ loc[r] \in Locals /\ loc[r] = EmptyLoc /\ req[r] \in CallRequests
    BY <1>0, Typed DEF CallPlace
  <2>2. req[r].dto \in CreateDtos
    BY <2>1 DEF CallRequests, CallOps
  <2>3. balance \in Nat
    BY DEF TypeInv, TypeOK
  <2>4. d \in Rows /\ d.id = r /\ d.baselineBalance = balance /\ ~ d.overrideActive
    BY <2>2, <2>3, CreatedRow, Typed
  <2> HIDE DEF d
  <2>5. k \in Locals /\ k.entity = d /\ k.closed = loc[r].closed
    BY <2>1, <2>4 DEF Locals
  <2>6. Goto(r, "insert", k)
    BY <1>2 DEF d
  <2> HIDE DEF k
  <2>7. CallStep(r, "insert", k)
    BY <1>0, <2>1, <2>5, <2>6, Typed, Keeps DEF CallStep, InFlight
  <2>8. FreshStep(r, k)
    BY <1>0, <2>4, <2>5, Keeps DEF FreshStep, Known
  <2>9. pc'[r] = "insert" /\ loc'[r] = k /\ \A q \in Requests \ {r} : loc'[q] = loc[q]
    BY <2>1, <2>5, <2>6, Moves DEF InFlight
  <2>10. CallPlace(r)'
    BY <1>0, <2>1, <2>4, <2>5, <2>9 DEF CallPlace, Live, EmptyLoc
  <2>11. FreshOf(r)'
    BY <1>0, <2>9, Keeps DEF RowInv, FreshOf, Requests
  <2>12. KeepsOf(r)'
    <3>1. Unmoved' = Unmoved
      BY <1>0 DEF Unmoved, ledger
    <3>2. Unmoved => balance = OpeningBalance
      BY DEF RowInv
    <3> QED
      BY <2>4, <2>5, <2>9, <3>1, <3>2 DEF KeepsOf, Flagged, Based, Live
  <2>13. (row # NoConfig => Flagged(row) /\ Based(row))'
    BY <1>0, Keeps DEF RowInv, Flagged, Based, Unmoved, ledger
  <2> QED
    BY <2>7, <2>8, <2>10, <2>11, <2>12, <2>13 DEF StepOf
<1> QED
  BY <1>1, <1>2 DEF ReadWallet

\* A row one call has created is nobody else's to create.
LEMMA InsertStep ==
  ASSUME TypeInv, RowInv, NEW r \in Calls, Insert(r)
  PROVE  StepOf(r)
<1>0. /\ pc[r] = "insert" /\ UNCHANGED <<ledger, overrides, cycles, now, req, unrecorded>>
      /\ CallPlace(r) /\ loc[r] \in Locals /\ r \in Requests
      /\ req[r] \in CallRequests /\ req[r].op = "create"
      /\ loc[r].entity \in Rows /\ loc[r].entity.id = r
      /\ loc[r].entity # NoConfig
  BY Typed, LimitTypes DEF Insert, CallPlace
<1>1. CASE row # NoConfig
  BY <1>0, <1>1, AnswerStep DEF Insert, Answered
<1>2. CASE row = NoConfig
  <2>1. Write(r, loc[r].entity) /\ Goto(r, "done", loc[r])
    BY <1>2 DEF Insert, Answer
  <2>2. row' = loc[r].entity /\ overtaken' \subseteq Requests /\ staleSave' \in BOOLEAN
    BY <1>0, <2>1, Writes
  <2>3. CallStep(r, "done", loc[r])
    BY <1>0, <2>1, <2>2, Typed DEF CallStep, Answered
  <2>4. FreshStep(r, loc[r])
    BY <1>0, <2>2 DEF FreshStep, Known
  <2>5. pc'[r] = "done" /\ loc'[r] = loc[r]
    BY <1>0, <2>1, Moves DEF Answered
  <2>6. CallPlace(r)' /\ FreshOf(r)' /\ KeepsOf(r)'
    BY <1>0, <2>5 DEF CallPlace, FreshOf, KeepsOf, Live, Answered, Looks
  <2>7. (row # NoConfig => Flagged(row) /\ Based(row))'
    BY <1>0, <2>2 DEF RowInv, KeepsOf, Flagged, Based, Unmoved, ledger
  <2> QED
    BY <2>3, <2>4, <2>6, <2>7 DEF StepOf
<1> QED
  BY <1>1, <1>2

LEMMA DeleteStep ==
  ASSUME TypeInv, RowInv, NEW r \in Calls, Delete(r)
  PROVE  StepOf(r)
<1>0. /\ pc[r] = "delete" /\ UNCHANGED <<ledger, overrides, cycles, now, req, unrecorded>>
      /\ CallPlace(r) /\ loc[r] \in Locals /\ r \in Requests
      /\ req[r] \in CallRequests /\ req[r].op = "deactivate"
      /\ Goto(r, "done", loc[r])
  BY Typed DEF Delete, CallPlace, Answer
<1>1. row' = NoConfig /\ overtaken' \subseteq Requests /\ staleSave' \in BOOLEAN
  BY <1>0, Writes DEF Delete
<1>2. CallStep(r, "done", loc[r])
  BY <1>0, <1>1, Typed DEF CallStep, Answered
<1>3. FreshStep(r, loc[r])
  BY <1>0, <1>1 DEF FreshStep, Known
<1>4. pc'[r] = "done" /\ loc'[r] = loc[r]
  BY <1>0, Moves DEF Answered
<1>5. CallPlace(r)' /\ FreshOf(r)' /\ KeepsOf(r)'
  BY <1>0, <1>4 DEF CallPlace, FreshOf, KeepsOf, Live, Answered, Looks
<1> QED
  BY <1>1, <1>2, <1>3, <1>5 DEF StepOf

\* What the invariant says of a call that holds a row.
LEMMA Holding ==
  ASSUME TypeInv, RowInv, NEW r \in Calls, pc[r] \in Live
  PROVE  /\ Ready(r, loc[r]) /\ NotDue(loc[r]) /\ Looks(r)
         /\ Based(loc[r].entity) /\ loc[r].entity.id \in Known(r)
         /\ pc[r] # "override" => Flagged(loc[r].entity)
         /\ loc[r].closed = 0 => \A c \in cycles : c.by # r
         /\ req[r] \in CallRequests
<1>1. CallPlace(r) /\ KeepsOf(r) /\ req[r] \in CallRequests /\ now \in Days /\ loc[r] \in Locals
  BY Typed DEF RowInv, Live
<1>2. loc[r].entity \in Rows /\ NotDue(loc[r]) /\ Looks(r) /\ loc[r].startedAt =< now
  BY <1>1 DEF CallPlace, Live
<1>3. loc[r].entity.id \in Known(r)
  BY <1>2, LimitTypes DEF Known
<1> QED
  BY <1>1, <1>2, <1>3 DEF Ready, KeepsOf, CallPlace, Live

\* The window closeCycle closes, and the local variables it leaves.
Advanced(r) == [loc[r] EXCEPT !.entity.expiresAt = @ + loc[r].entity.cycleDays,
                              !.closed = @ + 1]

LEMMA AdvancedLoc ==
  ASSUME TypeInv, RowInv, NEW r \in Calls, pc[r] = "close"
  PROVE  /\ Ready(r, Advanced(r)) /\ NotDue(Advanced(r))
         /\ Advanced(r).closed = loc[r].closed + 1 /\ Advanced(r).closed > 0
         /\ LET d == Advanced(r).entity
                e == loc[r].entity IN
            /\ d \in Rows /\ e \in Rows
            /\ d.id = e.id /\ d.baselineBalance = e.baselineBalance
            /\ d.overrideActive = e.overrideActive
            /\ d.isPaused = e.isPaused /\ d.pauseStartedAt = e.pauseStartedAt
            /\ d.pauseCountThisYear = e.pauseCountThisYear
            /\ d.remainingBuffer = e.remainingBuffer
            /\ d.expiresAt = e.expiresAt + e.cycleDays /\ d.cycleDays = e.cycleDays
            /\ Start(d) = e.expiresAt /\ e.expiresAt =< now
<1> DEFINE l == loc[r]
           e == l.entity
           d == [e EXCEPT !.expiresAt = @ + e.cycleDays]
<1> USE LimitTypes
<1>1. Ready(r, l) /\ NotDue(l) /\ Rolling(l)
  BY Holding, Typed DEF Live, CallPlace
<1>2. /\ d \in Rows
      /\ d.id = e.id /\ d.baselineBalance = e.baselineBalance
      /\ d.overrideActive = e.overrideActive
      /\ d.isPaused = e.isPaused /\ d.pauseStartedAt = e.pauseStartedAt
      /\ d.pauseCountThisYear = e.pauseCountThisYear
      /\ d.remainingBuffer = e.remainingBuffer
      /\ d.expiresAt = e.expiresAt + e.cycleDays /\ d.cycleDays = e.cycleDays
  BY <1>1, AdvancedRow DEF Ready
<1>3. Advanced(r) = [l EXCEPT !.entity = d, !.closed = l.closed + 1]
  BY <1>1 DEF Advanced, Ready, Locals
<1>4. /\ e.expiresAt \in Nat /\ e.cycleDays \in Nat /\ l.startedAt \in Nat /\ now \in Nat
      /\ l.closed \in 0 .. MaxRollovers /\ l.startedAt =< now /\ e \in Rows
  BY <1>1 DEF Ready, Rows, Locals, Days
<1>5. l.closed + 1 \in 0 .. MaxRollovers
  BY <1>1, <1>4 DEF Rolling
<1> HIDE DEF d
<1>6. /\ Advanced(r) \in Locals /\ Advanced(r).entity = d
      /\ Advanced(r).closed = l.closed + 1 /\ Advanced(r).startedAt = l.startedAt
  BY <1>1, <1>2, <1>3, <1>5 DEF Ready, Locals
<1>7. NotDue(Advanced(r))
  BY <1>1, <1>2, <1>6 DEF NotDue
<1>8. Ready(r, Advanced(r))
  BY <1>1, <1>2, <1>6 DEF Ready
<1>9. Start(d) = e.expiresAt /\ e.expiresAt =< now
  BY <1>1, <1>2, <1>4 DEF Start, Rolling
<1> QED
  BY <1>2, <1>4, <1>6, <1>7, <1>8, <1>9

LEMMA CloseStep ==
  ASSUME TypeInv, RowInv, NEW r \in Calls, CloseCycle(r)
  PROVE  StepOf(r)
<1> DEFINE e == loc[r].entity
           w == [by |-> r, id |-> e.id, start |-> e.expiresAt - e.cycleDays,
                 end |-> e.expiresAt]
<1>0. /\ pc[r] = "close" /\ NotWritten /\ UNCHANGED <<ledger, overrides, now, req, unrecorded>>
      /\ cycles' = cycles \union {w} /\ Loop(r, Advanced(r))
  BY DEF CloseCycle, Advanced
<1>1. /\ Ready(r, Advanced(r)) /\ NotDue(Advanced(r)) /\ Advanced(r).closed > 0
      /\ Advanced(r).entity \in Rows /\ e \in Rows
      /\ Advanced(r).entity.id = e.id
      /\ Advanced(r).entity.baselineBalance = e.baselineBalance
      /\ Advanced(r).entity.overrideActive = e.overrideActive
      /\ e.expiresAt =< now
  BY <1>0, AdvancedLoc
<1>2. PICK label, k : Goto(r, label, k) /\ Outcome(r, Advanced(r), label, k)
  BY <1>0, <1>1, LoopOutcome
<1>3. Looks(r) /\ Based(e) /\ Flagged(e) /\ e.id \in Known(r)
  BY <1>0, Holding DEF Live
<1>4. w \in [by : Calls, id : Ids, start : Int, end : Days]
  <2>1. e.expiresAt \in Nat /\ e.cycleDays \in Nat /\ e.id \in Ids
    BY <1>1 DEF Rows
  <2>2. e.expiresAt \in Days
    BY <1>1, <2>1, LimitTypes, Typed DEF Days
  <2> HIDE DEF e
  <2> QED
    BY <2>1, <2>2
<1>5. Advanced(r).entity.overrideActive => overrides' # {}
  BY <1>0, <1>1, <1>3 DEF Flagged
<1>6. Based(Advanced(r).entity)
  BY <1>1, <1>3 DEF Based
<1>7. \A c \in cycles' : c \in cycles \/ (c.by = r /\ c.id \in Known(r))
  BY <1>0, <1>3
<1>8. cycles \subseteq cycles' /\ cycles' \subseteq [by : Calls, id : Ids, start : Int, end : Days]
  BY <1>0, <1>4, Typed
<1> HIDE DEF e, w
<1> QED
  BY <1>0, <1>1, <1>2, <1>3, <1>5, <1>6, <1>7, <1>8, HeldStep, Typed

LEMMA InsertOverrideStep ==
  ASSUME TypeInv, RowInv, NEW r \in Calls, InsertOverride(r)
  PROVE  StepOf(r)
<1> DEFINE l == loc[r]
           k == [l EXCEPT !.entity = l.entity, !.stage = "own"]
<1>0. /\ pc[r] = "override" /\ NotWritten /\ UNCHANGED <<ledger, cycles, now, req, unrecorded>>
      /\ overrides' = overrides \union {r} /\ Goto(r, "read", k)
  BY DEF InsertOverride, SaveEntity
<1>1. /\ Ready(r, l) /\ NotDue(l) /\ Looks(r) /\ Based(l.entity) /\ l.entity.id \in Known(r)
      /\ l.closed = 0 => \A c \in cycles : c.by # r
      /\ Reached(l) /\ req[r].op = "override" /\ r \in Requests
  BY <1>0, Holding, Typed DEF Live, CallPlace
<1>2. /\ k \in Locals /\ k.entity = l.entity /\ k.stage = "own"
      /\ k.startedAt = l.startedAt /\ k.closed = l.closed
  BY <1>1 DEF Ready, Locals
<1> HIDE DEF k
<1>3. /\ l.entity.remainingBuffer \in Nat /\ l.entity.pauseCountThisYear \in Int
      /\ Start(l.entity) \in Int
  BY <1>1, LimitTypes DEF Ready, Rows, Start
<1>4. Betters(r, l, "read", k)
  BY <1>1, <1>2, <1>3 DEF Betters
<1>5. Outcome(r, l, "read", k)
  BY <1>1, <1>2, <1>4 DEF Outcome, Suits, Follows, Ready, NotDue, Reached
<1> QED
  BY <1>0, <1>1, <1>5, HeldStep, Typed

\* save's SELECT changes no more than what the call remembers.
LEMMA SaveReadsStep ==
  ASSUME TypeInv, RowInv, NEW r \in Calls, SaveReads(r)
  PROVE  StepOf(r)
<1> DEFINE l == loc[r]
           found == row # NoConfig /\ row.id = l.entity.id
           k == [l EXCEPT !.stored = IF found THEN row ELSE NoConfig]
<1>0. /\ pc[r] = "read" /\ NotWritten
      /\ UNCHANGED <<ledger, overrides, cycles, now, req, unrecorded>>
      /\ Goto(r, "write", k)
  BY DEF SaveReads
<1>1. /\ Ready(r, l) /\ NotDue(l) /\ Looks(r) /\ Based(l.entity) /\ Flagged(l.entity)
      /\ l.closed = 0 => \A c \in cycles : c.by # r
      /\ r \in Requests /\ CallPlace(r) /\ l.entity.id \in Known(r)
  BY <1>0, Holding, Typed DEF Live
<1>2. /\ k \in Locals /\ k.entity = l.entity /\ k.stage = l.stage
      /\ k.startedAt = l.startedAt /\ k.closed = l.closed
  BY <1>1, Typed DEF Ready, Locals
<1> HIDE DEF k
<1>3. CallStep(r, "write", k)
  BY <1>0, <1>1, <1>2, Typed, Keeps DEF CallStep, InFlight, Ready
<1>4. FreshStep(r, k)
  BY <1>0, <1>1, <1>2, Typed, Keeps DEF FreshStep, Known
<1>5. pc'[r] = "write" /\ loc'[r] = k
  BY <1>0, <1>1, <1>2, Moves DEF InFlight
<1>6. CallPlace(r)'
  BY <1>0, <1>1, <1>2, <1>5 DEF CallPlace, Live, NotDue, Reached, Looks, Ready
<1>7. FreshOf(r)'
  BY <1>5 DEF FreshOf
<1>8. KeepsOf(r)'
  BY <1>0, <1>1, <1>2, <1>5 DEF KeepsOf, Flagged, Based, Unmoved, ledger
<1>9. (row # NoConfig => Flagged(row) /\ Based(row))'
  BY <1>0, Keeps DEF RowInv, Flagged, Based, Unmoved, ledger
<1> QED
  BY <1>3, <1>4, <1>6, <1>7, <1>8, <1>9 DEF StepOf

\* What follows a save: with the rollover's behind it, a call has reached the
\* current cycle.
LEMMA AfterSaveOutcome ==
  ASSUME TypeInv, RowInv, NEW r \in Calls, pc[r] = "write", AfterSave(r, loc[r])
  PROVE  \E label, k :
           /\ Goto(r, label, k) /\ Outcome(r, loc[r], label, k)
           /\ loc[r].stage = "own" => k = loc[r] /\ label = "done"
           /\ SettledAt(label, k) \/ loc[r].stage = "watchdog"
           /\ label = "done" => loc[r].stage = "own" \/ req[r].op = "get"
<1> DEFINE l == loc[r]
<1>1. Ready(r, l) /\ NotDue(l) /\ CallPlace(r)
  BY Holding, Typed DEF Live
<1>2. CASE l.stage = "watchdog" /\ Loop(r, l)
  <2>1. PICK label, k : /\ Goto(r, label, k) /\ Outcome(r, l, label, k)
                        /\ SettledAt(label, k) => l.closed = 0
                        /\ label = "done" => req[r].op = "get"
    BY <1>1, <1>2, LoopOutcome
  <2> QED
    BY <1>2, <2>1
<1>3. CASE l.stage = "rollover" /\ Own(r, l)
  <2>1. Reached(l)
    BY <1>1, <1>3 DEF CallPlace
  <2>2. PICK label, k : /\ Goto(r, label, k) /\ Outcome(r, l, label, k)
                        /\ SettledAt(label, k)
                        /\ label = "done" => req[r].op = "get"
    BY <1>1, <1>3, <2>1, OwnOutcome
  <2> QED
    BY <1>3, <2>2
<1>4. CASE l.stage = "own" /\ Goto(r, "done", l)
  <2>1. Suits(r, "done", l)
    BY <1>1, <1>4 DEF CallPlace, Suits
  <2>2. Outcome(r, l, "done", l) /\ SettledAt("done", l)
    BY <1>1, <2>1, Kept DEF SettledAt
  <2> QED
    BY <1>4, <2>2
<1> QED
  BY <1>2, <1>3, <1>4 DEF AfterSave

\* A save of the entity, in full or in the columns that differ.
LEMMA SavedStep ==
  ASSUME TypeInv, RowInv, NEW r \in Calls, pc[r] = "write",
         AfterSave(r, loc[r]),
         UNCHANGED <<ledger, overrides, cycles, now, req, unrecorded>>,
         NEW d, Write(r, d), d \in Rows \union {NoConfig},
         d # NoConfig => d.id \in Known(r) /\ Flagged(d) /\ Based(d)
  PROVE  StepOf(r)
<1>1. /\ Ready(r, loc[r]) /\ Looks(r) /\ Based(loc[r].entity) /\ Flagged(loc[r].entity)
      /\ loc[r].closed = 0 => \A c \in cycles : c.by # r
      /\ loc[r].entity.id \in Known(r) /\ r \in Requests
  BY Holding, Typed DEF Live
<1>2. PICK label, k : Goto(r, label, k) /\ Outcome(r, loc[r], label, k)
  BY AfterSaveOutcome
<1>3. label \in InFlight \union Answered /\ k \in Locals /\ k.entity.id = loc[r].entity.id
  BY <1>2 DEF Outcome, Suits, Follows, InFlight, Answered
<1>4. row' = d /\ overtaken' \subseteq Requests /\ staleSave' \in BOOLEAN
  BY <1>1, Writes
<1>5. CallStep(r, label, k)
  BY <1>1, <1>2, <1>3, <1>4, Typed DEF CallStep, Ready
<1>6. CallPlace(r)' /\ FreshOf(r)' /\ KeepsOf(r)'
  BY <1>1, <1>2, <1>5, Arrives DEF Flagged
<1>7. FreshStep(r, k)
  BY <1>1, <1>3, <1>4 DEF FreshStep
<1>8. (row # NoConfig => Flagged(row) /\ Based(row))'
  BY <1>4 DEF Flagged, Based, Unmoved, ledger
<1> QED
  BY <1>5, <1>6, <1>7, <1>8 DEF StepOf

LEMMA SaveInsertsStep ==
  ASSUME TypeInv, RowInv, NEW r \in Calls, SaveInserts(r)
  PROVE  StepOf(r)
<1>0. /\ pc[r] = "write"
      /\ UNCHANGED <<ledger, overrides, cycles, now, req, unrecorded>>
  BY DEF SaveInserts
<1>1. CASE row # NoConfig
  BY <1>0, <1>1, AnswerStep DEF SaveInserts, Answered
<1>2. CASE row = NoConfig
  <2>1. Write(r, loc[r].entity) /\ AfterSave(r, loc[r])
    BY <1>2 DEF SaveInserts
  <2>2. /\ loc[r].entity \in Rows /\ loc[r].entity.id \in Known(r)
        /\ Flagged(loc[r].entity) /\ Based(loc[r].entity)
    BY <1>0, Holding DEF Live, Ready
  <2> QED
    BY <1>0, <2>1, <2>2, SavedStep
<1> QED
  BY <1>1, <1>2

LEMMA SaveUpdatesStep ==
  ASSUME TypeInv, RowInv, NEW r \in Calls, SaveUpdates(r)
  PROVE  StepOf(r)
<1>0. /\ pc[r] = "write" /\ AfterSave(r, loc[r]) /\ loc[r].stored # NoConfig
      /\ UNCHANGED <<ledger, overrides, cycles, now, req, unrecorded>>
  BY DEF SaveUpdates
<1>1. CASE Write(r, row)
  BY <1>0, <1>1, SavedStep, Typed DEF RowInv, Known
<1>2. CASE /\ row # NoConfig /\ row.id = loc[r].entity.id
           /\ Write(r, Differing(row, loc[r].entity, loc[r].stored))
  <2> DEFINE e == loc[r].entity
             d == Differing(row, e, loc[r].stored)
  <2>1. /\ e \in Rows /\ loc[r].stored \in Rows /\ row \in Rows
        /\ Flagged(e) /\ Based(e) /\ Flagged(row) /\ Based(row)
    BY <1>0, <1>2, Holding, Typed DEF Live, Ready, Locals, RowInv
  <2>2. /\ d \in Rows /\ d.id \in {row.id, e.id}
        /\ d.baselineBalance \in {row.baselineBalance, e.baselineBalance}
        /\ d.overrideActive \in {row.overrideActive, e.overrideActive}
    BY <2>1, DifferingRow
  <2> HIDE DEF d
  <2>3. d.id \in Known(r)
    BY <1>0, <1>2, <2>2, Holding DEF Live
  <2>4. Flagged(d) /\ Based(d)
    BY <2>1, <2>2 DEF Flagged, Based
  <2>5. Write(r, d)
    BY <1>2 DEF d
  <2> QED
    BY <1>0, <2>2, <2>3, <2>4, <2>5, SavedStep
<1> QED
  BY <1>1, <1>2 DEF SaveUpdates

LEMMA ServeStep ==
  ASSUME TypeInv, RowInv, NEW r \in Calls, Serve(r)
  PROVE  StepOf(r)
BY FindNothingStep, FindStep, ReadWalletStep, InsertStep, DeleteStep, CloseStep,
   InsertOverrideStep, SaveReadsStep, SaveInsertsStep, SaveUpdatesStep DEF Serve

-----------------------------------------------------------------------------
(***************************************************************************)
(* The entries, the clock and the crash                                    *)
(***************************************************************************)

\* Request e moves to label with k; the calls are where they were.
EntryStep(e, label, k) ==
  /\ e \in Entries /\ Goto(e, label, k)
  /\ label \in {"lock", "record", "commit"} \union Answered /\ k \in Locals
  /\ UNCHANGED <<cycles, now>>
  /\ req' \in [Requests -> CallRequests \union EntryRequests \union {NoRequest}]
  /\ req'[e] \in EntryRequests
  /\ \A q \in Requests \ {e} : req'[q] = req[q]
  /\ row' \in Rows \union {NoConfig}
  /\ row' # NoConfig => row # NoConfig /\ row'.id = row.id
  /\ overrides \subseteq overrides' /\ overrides' \subseteq Requests
  /\ overtaken' \subseteq Requests /\ {staleSave, unrecorded}' \subseteq BOOLEAN
  /\ balance' \in Nat /\ latest' \in Nat \union {NoRow}
  /\ walletLock' \in Entries \union {NoRequest}
  /\ Unmoved' => Unmoved

LEMMA EntryKeeps ==
  ASSUME TypeInv, RowInv, NEW e, NEW label, NEW k, EntryStep(e, label, k),
         \A q \in Entries : EntryPlace(q)',
         (row # NoConfig => Flagged(row) /\ Based(row))',
         (Unmoved => balance = OpeningBalance)',
         (~ unrecorded /\ latest # NoRow => latest = balance)'
  PROVE  TypeInv' /\ RowInv'
<1> USE DEF EntryStep
<1>1. /\ e \in Requests /\ e \notin Calls
      /\ pc' \in [Requests -> {"idle"} \union InFlight \union Answered]
      /\ loc' \in [Requests -> Locals]
      /\ pc'[e] = label /\ loc'[e] = k
      /\ \A q \in Requests \ {e} : pc'[q] = pc[q] /\ loc'[q] = loc[q]
  BY Moves, ConstantsAssumption DEF Requests, InFlight
<1>2. \A q \in Requests :
        pc'[q] # "idle" => req'[q] \in IF q \in Calls THEN CallRequests
                                                     ELSE EntryRequests
  BY <1>1 DEF TypeInv, TypeOK
<1>3. TypeOK'
  BY <1>1, <1>2 DEF TypeInv, TypeOK
<1>4. ASSUME NEW q \in Calls
      PROVE  CallPlace(q)' /\ FreshOf(q)' /\ KeepsOf(q)'
  <2>1. /\ CallPlace(q) /\ FreshOf(q) /\ KeepsOf(q)
        /\ q \in Requests /\ pc'[q] = pc[q] /\ loc'[q] = loc[q] /\ req'[q] = req[q]
    BY <1>1 DEF TypeInv, RowInv, Requests
  <2>2. CallPlace(q)'
    BY <2>1 DEF CallPlace, Looks, Reached, NotDue, Rolling
  <2>3. FreshOf(q)'
    BY <1>1, <2>1 DEF FreshOf, Requests
  <2>4. KeepsOf(q)'
    BY <2>1 DEF KeepsOf, Flagged, Based
  <2> QED
    BY <2>2, <2>3, <2>4
<1>5. TypeInv'
  BY <1>3, <1>4 DEF TypeInv
<1>6. RowInv'
  BY <1>4 DEF RowInv
<1> QED
  BY <1>5, <1>6

\* A step of an entry that leaves the tables alone.
LEMMA EntryPasses ==
  ASSUME TypeInv, RowInv, NEW e \in Entries, NEW label, NEW k,
         Goto(e, label, k), NotWritten,
         label \in {"lock", "record", "commit"} \union Answered, k \in Locals,
         UNCHANGED <<balance, latest, overrides, cycles, now, unrecorded>>,
         req' \in [Requests -> CallRequests \union EntryRequests \union {NoRequest}],
         req'[e] \in EntryRequests,
         \A q \in Requests \ {e} : req'[q] = req[q],
         walletLock' \in Entries \union {NoRequest},
         \A q \in Entries \ {e} :
           pc[q] \in {"record", "commit"} => walletLock' = walletLock,
         label \in {"record", "commit"} =>
           walletLock' = e /\ BalanceAfter(e)' \in Nat
  PROVE  TypeInv' /\ RowInv'
<1>1. Unmoved' = Unmoved
  BY DEF Unmoved
<1>2. EntryStep(e, label, k)
  BY <1>1, Keeps DEF EntryStep, TypeInv, TypeOK
<1>3. ASSUME NEW q \in Entries
      PROVE  EntryPlace(q)'
  <2>1. /\ q \in Requests /\ e \in Requests /\ EntryPlace(q)
        /\ pc'[e] = label /\ (q # e => pc'[q] = pc[q] /\ req'[q] = req[q])
    BY Moves DEF Requests, TypeInv, InFlight
  <2>2. q # e => BalanceAfter(q)' = BalanceAfter(q)
    BY <2>1 DEF BalanceAfter
  <2> QED
    BY <2>1, <2>2 DEF EntryPlace
<1>4. (row # NoConfig => Flagged(row) /\ Based(row))'
  BY <1>1, Keeps DEF RowInv, Flagged, Based
<1>5. /\ (Unmoved => balance = OpeningBalance)'
      /\ (~ unrecorded /\ latest # NoRow => latest = balance)'
  BY <1>1 DEF RowInv
<1> QED
  BY <1>2, <1>3, <1>4, <1>5, EntryKeeps

\* The types that hold of an entry.
LEMMA EntryTyped ==
  ASSUME TypeInv, NEW e \in Entries
  PROVE  /\ e \in Requests /\ EntryPlace(e) /\ loc[e] \in Locals
         /\ row \in Rows \union {NoConfig} /\ overrides \subseteq Requests
         /\ walletLock \in Entries \union {NoRequest}
         /\ balance \in Nat /\ latest \in Nat \union {NoRow}
         /\ req \in [Requests -> CallRequests \union EntryRequests \union {NoRequest}]
         /\ pc[e] # "idle" => req[e] \in EntryRequests /\ req[e].amount \in Nat
<1>1. e \in Requests /\ e \notin Calls
  BY ConstantsAssumption DEF Requests
<1>2. pc[e] # "idle" => req[e] \in EntryRequests /\ req[e].amount \in Nat
  BY <1>1, ConstantsAssumption DEF TypeInv, TypeOK, EntryRequests
<1> QED
  BY <1>1, <1>2 DEF TypeInv, TypeOK

LEMMA SubmitEntryKeeps ==
  ASSUME TypeInv, RowInv, NEW e \in Entries, SubmitEntry(e)
  PROVE  TypeInv' /\ RowInv'
<1>1. /\ req' \in [Requests -> CallRequests \union EntryRequests \union {NoRequest}]
      /\ req'[e] \in EntryRequests
      /\ \A q \in Requests \ {e} : req'[q] = req[q]
  BY EntryTyped DEF SubmitEntry
<1> QED
  BY <1>1, EntryTyped, EntryPasses DEF SubmitEntry, Answer, ledger

LEMMA EnterKeeps ==
  ASSUME TypeInv, RowInv, NEW e \in Entries, Enter(e)
  PROVE  TypeInv' /\ RowInv'
<1>0. /\ pc[e] = "lock" /\ walletLock = NoRequest /\ NotWritten
      /\ UNCHANGED <<balance, latest, overrides, cycles, now, req, unrecorded>>
      /\ req[e] \in EntryRequests /\ req[e].amount \in Nat /\ balance \in Nat
  BY EntryTyped DEF Enter
<1>1. \A q \in Entries : pc[q] \notin {"record", "commit"}
  BY <1>0, EntryTyped, ConstantsAssumption DEF EntryPlace
<1>2. CASE Answer(e, "declined") /\ UNCHANGED walletLock
  BY <1>0, <1>1, <1>2, EntryTyped, EntryPasses DEF Answer, Answered
<1>3. CASE /\ Answer(e, "record") /\ walletLock' = e
           /\ req[e].op = "debit" => BalanceAfter(e) >= 0
  <2>1. BalanceAfter(e) \in Nat
    BY <1>0, <1>3 DEF BalanceAfter, EntryRequests
  <2>2. BalanceAfter(e)' = BalanceAfter(e)
    BY <1>0 DEF BalanceAfter
  <2> QED
    BY <1>0, <1>1, <1>3, <2>1, <2>2, EntryTyped, EntryPasses DEF Answer
<1> QED
  BY <1>2, <1>3 DEF Enter

LEMMA SnapshotKeeps ==
  ASSUME TypeInv, RowInv, NEW e \in Entries, Snapshot(e)
  PROVE  TypeInv' /\ RowInv'
<1> DEFINE k == [loc[e] EXCEPT !.entity = row]
<1>0. /\ pc[e] = "record" /\ NotWritten /\ Goto(e, "commit", k)
      /\ UNCHANGED <<ledger, overrides, cycles, now, req, unrecorded>>
      /\ req[e] \in EntryRequests /\ walletLock = e /\ BalanceAfter(e) \in Nat
  BY EntryTyped DEF Snapshot, EntryPlace
<1>1. k \in Locals
  BY EntryTyped DEF Locals
<1>2. BalanceAfter(e)' = BalanceAfter(e)
  BY <1>0 DEF BalanceAfter, ledger
<1> HIDE DEF k
<1> QED
  BY <1>0, <1>1, <1>2, EntryTyped, EntryPasses DEF ledger

\* The row an entry saves, when it saves one.
SavedRow(e) ==
  IF row # NoConfig /\ row.id = loc[e].entity.id
  THEN ConfigAfterDebit(row, loc[e].entity, req[e].amount, BalanceAfter(e), 0)
  ELSE row

LEMMA SavedRowFacts ==
  ASSUME TypeInv, RowInv, NEW e \in Entries, pc[e] = "commit", Polices(e)
  PROVE  /\ SavedRow(e) \in Rows \union {NoConfig}
         /\ row = NoConfig <=> SavedRow(e) = NoConfig
         /\ row # NoConfig =>
              LET d == SavedRow(e) IN
              /\ d \in Rows /\ row \in Rows
              /\ d.id = row.id /\ d.baselineBalance = row.baselineBalance
              /\ d.isPaused = row.isPaused /\ d.pauseStartedAt = row.pauseStartedAt
              /\ d.pauseCountThisYear = row.pauseCountThisYear
              /\ d.expiresAt = row.expiresAt /\ d.cycleDays = row.cycleDays
              /\ loc[e].entity = row => d.remainingBuffer =< row.remainingBuffer
              /\ d.overrideActive => \/ row.overrideActive
                                     \/ TriggersOverride(loc[e].entity, BalanceAfter(e), 0)
<1>1. /\ loc[e].entity \in Rows /\ req[e].amount \in Nat /\ BalanceAfter(e) \in Nat
      /\ row \in Rows \union {NoConfig}
  BY EntryTyped DEF Polices, Records, Locals, EntryPlace
<1>2. CASE row # NoConfig /\ row.id = loc[e].entity.id
  <2>1. row \in Rows
    BY <1>1, <1>2
  <2>2. SavedRow(e) = ConfigAfterDebit(row, loc[e].entity, req[e].amount, BalanceAfter(e), 0)
    BY <1>2 DEF SavedRow
  <2> DEFINE d == ConfigAfterDebit(row, loc[e].entity, req[e].amount, BalanceAfter(e), 0)
  <2>3. /\ d \in Rows
        /\ d.id = row.id /\ d.baselineBalance = row.baselineBalance
        /\ d.isPaused = row.isPaused /\ d.pauseStartedAt = row.pauseStartedAt
        /\ d.pauseCountThisYear = row.pauseCountThisYear
        /\ d.expiresAt = row.expiresAt /\ d.cycleDays = row.cycleDays
        /\ loc[e].entity = row => d.remainingBuffer =< row.remainingBuffer
        /\ d.overrideActive => \/ row.overrideActive
                               \/ TriggersOverride(loc[e].entity, BalanceAfter(e), 0)
    BY <1>1, <2>1, RowAfterDebit
  <2> HIDE DEF d
  <2>4. SavedRow(e) = d
    BY <2>2 DEF d
  <2>5. d # NoConfig
    BY <2>3, LimitTypes
  <2> QED
    BY <1>2, <2>1, <2>3, <2>4, <2>5
<1>3. CASE ~ (row # NoConfig /\ row.id = loc[e].entity.id)
  <2>1. SavedRow(e) = row
    BY <1>3 DEF SavedRow
  <2>2. row # NoConfig => row \in Rows /\ row.remainingBuffer \in Nat
    BY <1>1 DEF Rows
  <2> QED
    BY <1>1, <2>1, <2>2
<1> QED
  BY <1>2, <1>3

LEMMA CommitKeeps ==
  ASSUME TypeInv, RowInv, NEW e \in Entries, CommitEntry(e)
  PROVE  TypeInv' /\ RowInv'
<1>0. /\ pc[e] = "commit" /\ Goto(e, "done", loc[e]) /\ loc[e] \in Locals
      /\ balance' = BalanceAfter(e)
      /\ latest' = IF Records(e) THEN BalanceAfter(e) ELSE latest
      /\ walletLock' = NoRequest
      /\ unrecorded' = (unrecorded \/ loc[e].entity = NoConfig)
      /\ UNCHANGED <<cycles, now, req>>
      /\ e \in Requests /\ BalanceAfter(e) \in Nat /\ walletLock = e
      /\ req[e] \in EntryRequests
  BY EntryTyped DEF CommitEntry, Answer, EntryPlace
<1>1. /\ row' \in Rows \union {NoConfig}
      /\ row' # NoConfig => row # NoConfig /\ row'.id = row.id
      /\ overtaken' \subseteq Requests /\ staleSave' \in BOOLEAN
  <2>1. CASE Polices(e)
    <3>1. Write(e, SavedRow(e))
      BY <2>1 DEF CommitEntry, SavedRow
    <3> QED
      BY <1>0, <2>1, <3>1, SavedRowFacts, Writes
  <2>2. CASE ~ Polices(e)
    BY <2>2, Keeps DEF CommitEntry
  <2> QED
    BY <2>1, <2>2
<1>2. ~ Unmoved'
  <2>1. CASE Records(e)
    BY <1>0, <2>1 DEF Unmoved, NoRow
  <2>2. CASE ~ Records(e)
    BY <1>0, <2>2 DEF Unmoved, Records
  <2> QED
    BY <2>1, <2>2
<1>3. overrides \subseteq overrides' /\ overrides' \subseteq Requests
  BY <1>0, EntryTyped DEF CommitEntry
<1>4. EntryStep(e, "done", loc[e])
  BY <1>0, <1>1, <1>2, <1>3, EntryTyped DEF EntryStep, Answered, TypeInv, TypeOK
<1>5. ASSUME NEW q \in Entries
      PROVE  EntryPlace(q)'
  <2>1. /\ q \in Requests /\ EntryPlace(q) /\ pc'[e] = "done"
        /\ (q # e => pc'[q] = pc[q] /\ pc[q] \notin {"record", "commit"})
    BY <1>0, Moves, EntryTyped DEF Requests, Answered, EntryPlace
  <2> QED
    BY <2>1 DEF EntryPlace, Answered
<1>6. (row # NoConfig => Flagged(row) /\ Based(row))'
  <2>1. Based(row)'
    BY <1>2 DEF Based
  <2>2. CASE Polices(e) /\ row' # NoConfig
    <3>1. row' = SavedRow(e)
      BY <2>2 DEF CommitEntry, SavedRow, Write
    <3>2. row'.overrideActive => \/ row.overrideActive
                                 \/ TriggersOverride(loc[e].entity, BalanceAfter(e), 0)
      BY <1>0, <1>1, <2>2, <3>1, SavedRowFacts
    <3>3. row.overrideActive => overrides # {}
      BY <1>1, <2>2 DEF RowInv, Flagged
    <3>4. TriggersOverride(loc[e].entity, BalanceAfter(e), 0) => overrides' # {}
      BY <2>2 DEF CommitEntry
    <3> QED
      BY <1>3, <2>1, <3>2, <3>3, <3>4 DEF Flagged
  <2>3. CASE ~ Polices(e)
    BY <1>3, <2>1, <2>3, Keeps DEF CommitEntry, RowInv, Flagged
  <2> QED
    BY <2>2, <2>3
<1>7. /\ (Unmoved => balance = OpeningBalance)'
      /\ (~ unrecorded /\ latest # NoRow => latest = balance)'
  BY <1>0, <1>2 DEF Records
<1> QED
  BY <1>4, <1>5, <1>6, <1>7, EntryKeeps

LEMMA CrashKeeps ==
  ASSUME TypeInv, RowInv, Crash
  PROVE  TypeInv' /\ RowInv'
<1>0. /\ pc' = [r \in Requests |-> IF pc[r] \in InFlight THEN "failed" ELSE pc[r]]
      /\ walletLock' = NoRequest /\ NotWritten
      /\ UNCHANGED <<balance, latest, overrides, cycles, now, req, loc, unrecorded>>
  BY DEF Crash
<1>1. \A q \in Requests : /\ pc'[q] = pc[q] \/ pc'[q] = "failed"
                          /\ pc'[q] \notin InFlight
                          /\ pc'[q] = "idle" <=> pc[q] = "idle"
  BY <1>0 DEF InFlight
<1>2. TypeOK'
  <2>1. pc' \in [Requests -> {"idle"} \union InFlight \union Answered]
    BY <1>0 DEF TypeInv, TypeOK, Answered
  <2>2. \A q \in Requests :
          pc'[q] # "idle" => req'[q] \in IF q \in Calls THEN CallRequests
                                                       ELSE EntryRequests
    BY <1>0, <1>1 DEF TypeInv, TypeOK
  <2> QED
    BY <1>0, <2>1, <2>2, Keeps DEF TypeInv, TypeOK
<1>3. ASSUME NEW q \in Calls
      PROVE  CallPlace(q)' /\ FreshOf(q)' /\ KeepsOf(q)'
  <2>1. /\ CallPlace(q) /\ FreshOf(q) /\ q \in Requests /\ loc' = loc /\ req' = req /\ now' = now
        /\ row' = row /\ cycles' = cycles
    BY <1>0, Keeps DEF TypeInv, RowInv, Requests
  <2>2. pc'[q] \in {"idle"} \union Answered /\ (pc'[q] = pc[q] \/ pc'[q] = "failed")
    BY <1>1, <1>2, <2>1 DEF TypeOK
  <2>3. CallPlace(q)'
    BY <2>1, <2>2 DEF CallPlace, Live, Answered, Looks, NotDue, Reached
  <2>4. FreshOf(q)'
    BY <2>1, <2>2 DEF FreshOf, Answered
  <2>5. KeepsOf(q)'
    BY <2>2 DEF KeepsOf, Live, Answered
  <2> QED
    BY <2>3, <2>4, <2>5
<1>4. ASSUME NEW q \in Entries
      PROVE  EntryPlace(q)'
  <2>1. pc'[q] \in {"idle"} \union Answered
    BY <1>1, <1>2 DEF TypeOK, Requests
  <2> QED
    BY <2>1 DEF EntryPlace, Answered
<1>5. TypeInv'
  BY <1>0, <1>2, <1>3, <1>4 DEF TypeInv
<1>6. RowInv'
  BY <1>0, <1>3, Keeps DEF RowInv, Flagged, Based, Unmoved
<1> QED
  BY <1>5, <1>6

LEMMA NextDayKeeps ==
  ASSUME TypeInv, RowInv, NextDay
  PROVE  TypeInv' /\ RowInv'
<1>0. /\ now < MaxNow /\ now' = now + 1 /\ NotWritten
      /\ UNCHANGED <<ledger, overrides, cycles, pc, req, loc, unrecorded>>
  BY DEF NextDay
<1>1. now \in Days /\ now' \in Days /\ now =< now'
  BY <1>0, LimitTypes DEF TypeInv, TypeOK, Days
<1>2. TypeOK'
  BY <1>0, <1>1, Keeps DEF TypeInv, TypeOK, ledger
<1>3. ASSUME NEW q \in Calls
      PROVE  CallPlace(q)'
  <2>1. CallPlace(q) /\ loc[q].startedAt \in Days
    BY Typed DEF Locals
  <2>2. loc[q].startedAt =< now => loc[q].startedAt =< now'
    BY <1>1, <2>1 DEF Days
  <2> QED
    BY <1>0, <2>1, <2>2 DEF CallPlace, Looks, NotDue, Reached, Rolling
<1>4. ASSUME NEW q \in Entries
      PROVE  EntryPlace(q)'
  BY <1>0, EntryTyped DEF EntryPlace, BalanceAfter, ledger
<1>5. TypeInv'
  BY <1>0, <1>2, <1>3, <1>4 DEF TypeInv
<1>6. RowInv'
  BY <1>0, Keeps DEF RowInv, FreshOf, KeepsOf, Flagged, Based, Unmoved, ledger
<1> QED
  BY <1>5, <1>6

LEMMA StutterKeeps ==
  ASSUME TypeInv, RowInv, UNCHANGED vars
  PROVE  TypeInv' /\ RowInv'
<1>0. /\ UNCHANGED <<row, balance, latest, walletLock, overrides, cycles, now, pc, req, loc>>
      /\ UNCHANGED <<overtaken, staleSave, unrecorded>>
  BY DEF vars, ledger, history
<1>1. TypeInv'
  <2>1. TypeOK'
    BY <1>0 DEF TypeInv, TypeOK
  <2>2. \A q \in Calls : CallPlace(q)'
    BY <1>0 DEF TypeInv, CallPlace, Looks, NotDue, Reached, Rolling
  <2>3. \A q \in Entries : EntryPlace(q)'
    BY <1>0 DEF TypeInv, EntryPlace, BalanceAfter
  <2> QED
    BY <1>0, <2>1, <2>2, <2>3 DEF TypeInv
<1>2. RowInv'
  BY <1>0 DEF RowInv, FreshOf, KeepsOf, Flagged, Based, Unmoved
<1> QED
  BY <1>1, <1>2

LEMMA InitHolds ==
  ASSUME Init
  PROVE  TypeInv /\ RowInv
<1> USE LimitTypes
<1>1. row = NoConfig \/ ( /\ row \in Rows /\ row.id = Initial
                          /\ IsFresh(row, OpeningBalance) )
  BY InitialRowsAssumption DEF Init
<1>2. EmptyLoc \in Locals
  BY DEF EmptyLoc, Locals, Days
<1>3. TypeOK
  <2>1. /\ row \in Rows \union {NoConfig} /\ balance \in Nat
        /\ now \in Days /\ latest \in Nat \union {NoRow}
        /\ walletLock \in Entries \union {NoRequest}
    BY <1>1 DEF Init, Days
  <2>2. /\ pc \in [Requests -> {"idle"} \union InFlight \union Answered]
        /\ \A r \in Requests : pc[r] = "idle"
    BY DEF Init
  <2>3. loc \in [Requests -> Locals]
    BY <1>2 DEF Init
  <2>4. /\ overrides \subseteq Requests /\ overtaken \subseteq Requests
        /\ cycles \subseteq [by : Calls, id : Ids, start : Int, end : Days]
        /\ {staleSave, unrecorded} \subseteq BOOLEAN
    BY DEF Init
  <2> QED
    BY <2>1, <2>2, <2>3, <2>4 DEF TypeOK
<1>4. \A r \in Calls : CallPlace(r)
  BY DEF Init, CallPlace, Requests, Live, Answered
<1>5. \A e \in Entries : EntryPlace(e)
  BY DEF Init, EntryPlace, Requests
<1>6. req \in [Requests -> CallRequests \union EntryRequests \union {NoRequest}]
  BY DEF Init
<1>7. \A r \in Calls : FreshOf(r) /\ KeepsOf(r)
  <2>1. \A q \in Calls : loc[q].entity = NoConfig /\ pc[q] = "idle"
    BY DEF Init, EmptyLoc, Requests
  <2>2. Initial \notin Calls /\ cycles = {}
    BY ConstantsAssumption DEF Init
  <2> QED
    BY <1>1, <2>1, <2>2 DEF FreshOf, KeepsOf, Live
<1>8. row # NoConfig => Flagged(row) /\ Based(row)
  BY <1>1 DEF IsFresh, Flagged, Based
<1>9. balance = OpeningBalance /\ latest = NoRow
  BY DEF Init
<1> QED
  BY <1>3, <1>4, <1>5, <1>6, <1>7, <1>8, <1>9 DEF TypeInv, RowInv

LEMMA StepHolds ==
  ASSUME TypeInv, RowInv, [Next]_vars
  PROVE  TypeInv' /\ RowInv'
<1>1. ASSUME NEW r \in Calls, Submit(r) \/ Serve(r)
      PROVE  TypeInv' /\ RowInv'
  BY <1>1, SubmitStep, ServeStep, StepKeeps
<1>2. ASSUME NEW e \in Entries, SubmitEntry(e) \/ ServeEntry(e)
      PROVE  TypeInv' /\ RowInv'
  BY <1>2, SubmitEntryKeeps, EnterKeeps, SnapshotKeeps, CommitKeeps DEF ServeEntry
<1> QED
  BY <1>1, <1>2, CrashKeeps, NextDayKeeps, StutterKeeps DEF Next, Terminating

-----------------------------------------------------------------------------
(***************************************************************************)
(* As long as nothing stale is saved                                       *)
(***************************************************************************)

\* Who reads a row that changes is overtaken.
Overtakes(r) ==
  \A q \in Requests \ {r} :
    pc[q] \in HasRead /\ q \notin overtaken' => q \notin overtaken /\ row' = row

LEMMA WriteOvertakes ==
  ASSUME NEW r \in Requests, NEW d, Write(r, d), ~ staleSave'
  PROVE  Overtakes(r) /\ ~ staleSave /\ r \notin overtaken /\ r \notin overtaken'
BY DEF Write, Overtakes

LEMMA NoWriteOvertakes ==
  ASSUME NEW r, NotWritten, ~ staleSave'
  PROVE  Overtakes(r) /\ ~ staleSave /\ row' = row /\ overtaken' = overtaken
BY DEF NotWritten, Overtakes

\* A row that is sound today is sound tomorrow.
LEMMA StaysSound ==
  ASSUME NEW c \in Rows, Sound(c), now \in Days, now' \in Days, now =< now'
  PROVE  Sound(c)'
<1>1. Start(c) \in Int
  BY DEF Rows, Start
<1> QED
  BY <1>1, LimitTypes DEF Sound, Start, Days

LEMMA HeldRows ==
  ASSUME TypeInv, NEW r \in Calls, pc[r] \in {"insert"} \union Live
  PROVE  loc[r].entity \in Rows
BY Typed DEF CallPlace, Live

\* What other requests hold of the row does not depend on a step of r.
LEMMA CalmFrame ==
  ASSUME TypeInv, Calm, NEW r \in Requests, Overtakes(r),
         \A q \in Requests \ {r} : pc'[q] = pc[q] /\ loc'[q] = loc[q] /\ req'[q] = req[q],
         \A c \in cycles' : c \in cycles \/ c.by = r, now' = now
  PROVE  /\ \A q \in Calls \ {r} : SoundOf(q)' /\ FlightOf(q)'
         /\ \A q \in Entries \ {r} : SeenBy(q)'
<1>1. ASSUME NEW q \in Calls \ {r}
      PROVE  SoundOf(q)' /\ FlightOf(q)'
  <2>1. /\ q \in Requests /\ pc'[q] = pc[q] /\ loc'[q] = loc[q] /\ req'[q] = req[q]
        /\ SoundOf(q) /\ FlightOf(q)
    BY DEF Requests, Calm
  <2>2. SoundOf(q)'
    BY <2>1 DEF SoundOf, Sound, Start
  <2>3. FlightOf(q)'
    <3>1. CASE q \notin overtaken' /\ pc[q] \in Live
      <4>1. q \notin overtaken /\ row' = row
        BY <2>1, <3>1 DEF Overtakes, Live, HasRead
      <4>2. \A c \in cycles' : c.by = q => c \in cycles
        OBVIOUS
      <4>3. /\ Counts(q)' = Counts(q) /\ Renews(q)' = Renews(q) /\ Settled(q)' = Settled(q)
        BY <2>1 DEF Counts, Renews, Settled
      <4> QED
        BY <2>1, <3>1, <4>1, <4>2, <4>3 DEF FlightOf, Start
    <3>2. CASE ~ (q \notin overtaken' /\ pc[q] \in Live)
      BY <2>1, <3>2 DEF FlightOf
    <3> QED
      BY <3>1, <3>2
  <2> QED
    BY <2>2, <2>3
<1>2. ASSUME NEW q \in Entries \ {r}
      PROVE  SeenBy(q)'
  BY DEF SeenBy, Overtakes, Calm, Requests, HasRead
<1> QED
  BY <1>1, <1>2

\* Who has been granted a pause is counted, after a step that grants none.
LEMMA CountsKept ==
  ASSUME TypeInv, Calm,
         \A i \in Ids : GrantedPauses(i)' = GrantedPauses(i),
         row' \in Rows \union {NoConfig},
         row' # NoConfig =>
           \/ GrantedPauses(row'.id) = {}
           \/ /\ row # NoConfig /\ row.id = row'.id
              /\ row'.pauseCountThisYear >= row.pauseCountThisYear
  PROVE  PausesCounted'
<1>1. ASSUME NEW i \in Ids
      PROVE  /\ IsFiniteSet(GrantedPauses(i)')
             /\ Cardinality(GrantedPauses(i)') =< MaxPauses
             /\ row' # NoConfig /\ row'.id = i =>
                  Cardinality(GrantedPauses(i)') =< row'.pauseCountThisYear
  <2>1. /\ IsFiniteSet(GrantedPauses(i)) /\ Cardinality(GrantedPauses(i)) =< MaxPauses
        /\ row # NoConfig /\ row.id = i =>
             Cardinality(GrantedPauses(i)) =< row.pauseCountThisYear
    BY DEF Calm, PausesCounted
  <2>2. Cardinality(GrantedPauses(i)) \in Nat
    BY <2>1, FS_CardinalityType
  <2>3. /\ row' # NoConfig => row'.pauseCountThisYear \in Nat
        /\ row # NoConfig => row.pauseCountThisYear \in Nat
    BY LimitTypes DEF Rows, TypeInv, TypeOK
  <2>4. ASSUME row' # NoConfig, row'.id = i
        PROVE  Cardinality(GrantedPauses(i)) =< row'.pauseCountThisYear
    <3>1. CASE GrantedPauses(row'.id) = {}
      <4>1. Cardinality(GrantedPauses(i)) = 0
        BY <2>4, <3>1, FS_EmptySet
      <4> QED
        BY <2>3, <2>4, <4>1
    <3>2. CASE /\ row # NoConfig /\ row.id = row'.id
               /\ row'.pauseCountThisYear >= row.pauseCountThisYear
      BY <2>1, <2>2, <2>3, <2>4, <3>2
    <3> QED
      BY <2>4, <3>1, <3>2
  <2>5. GrantedPauses(i)' = GrantedPauses(i)
    OBVIOUS
  <2> QED
    BY <2>1, <2>4, <2>5
<1> QED
  BY <1>1 DEF PausesCounted

\* ... and after a pause has been saved and answered.
LEMMA CountsGrant ==
  ASSUME TypeInv, Calm, NEW r \in Calls, NEW j \in Ids, pc[r] # "done",
         \A i \in Ids : GrantedPauses(i)' =
           IF i = j THEN GrantedPauses(i) \union {r} ELSE GrantedPauses(i),
         row # NoConfig, row.id = j, row' \in Rows, row'.id = j,
         row'.pauseCountThisYear = row.pauseCountThisYear + 1
  PROVE  PausesCounted'
<1>0. row \in Rows
  BY DEF TypeInv, TypeOK
<1>1. /\ row.pauseCountThisYear \in Nat /\ row'.pauseCountThisYear \in Nat
      /\ row'.pauseCountThisYear =< MaxPauses
  BY <1>0, LimitTypes DEF Rows
<1>2. ASSUME NEW i \in Ids
      PROVE  /\ IsFiniteSet(GrantedPauses(i)')
             /\ Cardinality(GrantedPauses(i)') =< MaxPauses
             /\ row' # NoConfig /\ row'.id = i =>
                  Cardinality(GrantedPauses(i)') =< row'.pauseCountThisYear
  <2>1. /\ IsFiniteSet(GrantedPauses(i)) /\ Cardinality(GrantedPauses(i)) =< MaxPauses
        /\ row.id = i => Cardinality(GrantedPauses(i)) =< row.pauseCountThisYear
    BY DEF Calm, PausesCounted
  <2>2. CASE i # j
    BY <2>1, <2>2
  <2>3. CASE i = j
    <3>1. r \notin GrantedPauses(i)
      BY DEF GrantedPauses
    <3>2. /\ IsFiniteSet(GrantedPauses(i) \union {r})
          /\ Cardinality(GrantedPauses(i) \union {r}) = Cardinality(GrantedPauses(i)) + 1
      BY <2>1, <3>1, FS_AddElement
    <3>3. Cardinality(GrantedPauses(i)) \in Nat
      BY <2>1, FS_CardinalityType
    <3>4. Cardinality(GrantedPauses(i) \union {r}) =< row'.pauseCountThisYear
      BY <1>1, <2>1, <2>3, <3>2, <3>3
    <3>5. Cardinality(GrantedPauses(i) \union {r}) =< MaxPauses
      BY <1>1, <3>2, <3>3, <3>4, LimitTypes
    <3>6. GrantedPauses(i)' = GrantedPauses(i) \union {r}
      BY <2>3
    <3> QED
      BY <3>2, <3>4, <3>5, <3>6
  <2> QED
    BY <2>2, <2>3
<1> QED
  BY <1>2 DEF PausesCounted

\* The windows stay in order when no call settles with windows of its own.
LEMMA OrderKept ==
  ASSUME TypeInv, Calm, row' \in Rows \union {NoConfig},
         cycles' \subseteq [by : Calls, id : Ids, start : Int, end : Days],
         \A c \in cycles' : Settled(c.by)' => c \in cycles /\ Settled(c.by),
         row' # NoConfig =>
           \/ \A c \in cycles : c.id # row'.id
           \/ row # NoConfig /\ row.id = row'.id /\ Start(row) =< Start(row')
  PROVE  WindowsInOrder'
<1>1. ASSUME NEW c \in cycles', Settled(c.by)', row' # NoConfig, c.id = row'.id
      PROVE  c.end =< Start(row')
  <2>1. c \in cycles /\ Settled(c.by) /\ c.end \in Int
    BY <1>1 DEF Days
  <2>2. row # NoConfig /\ row.id = row'.id /\ Start(row) =< Start(row')
    BY <1>1, <2>1
  <2>3. c.end =< Start(row)
    BY <1>1, <2>1, <2>2 DEF Calm, WindowsInOrder
  <2>4. Start(row) \in Int /\ Start(row') \in Int
    BY <1>1, <2>2 DEF TypeInv, TypeOK, Rows, Start
  <2> QED
    BY <2>1, <2>2, <2>3, <2>4
<1>2. ASSUME NEW c \in cycles', NEW d \in cycles', Settled(c.by)', Settled(d.by)',
             c.by # d.by, c.id = d.id
      PROVE  c.end =< d.start \/ d.end =< c.start
  BY <1>2 DEF Calm, WindowsInOrder
<1>3. Start(row)' = Start(row')
  BY DEF Start
<1> QED
  BY <1>1, <1>2, <1>3 DEF WindowsInOrder

\* ... nor when a call settles that nobody has overtaken.
LEMMA OrderSettles ==
  ASSUME TypeInv, Calm, NEW r \in Calls, r \notin overtaken, pc[r] \in Live,
         ~ Settled(r), cycles' = cycles, row' = loc[r].entity,
         \A q \in Calls \ {r} : Settled(q)' = Settled(q)
  PROVE  WindowsInOrder'
<1> DEFINE e == loc[r].entity
<1>1. /\ row # NoConfig /\ row.id = e.id /\ Start(row) =< Start(e)
      /\ \A c \in cycles :
           c.by = r => c.id = e.id /\ Start(row) =< c.start /\ c.end =< Start(e)
  BY DEF Calm, FlightOf
<1>2. row \in Rows /\ e \in Rows
  BY <1>1, HeldRows DEF TypeInv, TypeOK
<1>3. Start(row) \in Int /\ Start(e) \in Int
  BY <1>2 DEF Rows, Start
<1>4. \A c \in cycles : c.by \in Calls /\ c.start \in Int /\ c.end \in Int
  BY DEF TypeInv, TypeOK, Days
<1>5. \A c \in cycles : Settled(c.by) /\ c.id = row.id => c.end =< Start(row)
  BY <1>1 DEF Calm, WindowsInOrder
<1>6. Start(row)' = Start(e)
  BY DEF Start
<1> HIDE DEF e
<1>7. ASSUME NEW c \in cycles, Settled(c.by)', c.id = e.id
      PROVE  c.end =< Start(e)
  <2>1. CASE c.by = r
    BY <1>1, <1>7, <2>1
  <2>2. CASE c.by # r
    BY <1>1, <1>3, <1>4, <1>5, <1>7, <2>2
  <2> QED
    BY <2>1, <2>2
<1>8. ASSUME NEW c \in cycles, NEW d \in cycles, c.by = r, Settled(d.by)',
             c.by # d.by, c.id = d.id
      PROVE  d.end =< c.start
  <2>1. Settled(d.by) /\ d.id = row.id /\ Start(row) =< c.start
    BY <1>1, <1>4, <1>8
  <2> QED
    BY <1>3, <1>4, <1>5, <2>1
<1>9. ASSUME NEW c \in cycles, NEW d \in cycles, Settled(c.by)', Settled(d.by)',
             c.by # d.by, c.id = d.id
      PROVE  c.end =< d.start \/ d.end =< c.start
  <2>1. CASE c.by = r
    BY <1>8, <1>9, <2>1
  <2>2. CASE d.by = r
    BY <1>8, <1>9, <2>2
  <2>3. CASE c.by # r /\ d.by # r
    <3>1. Settled(c.by) /\ Settled(d.by)
      BY <1>4, <1>9, <2>3
    <3> QED
      BY <1>9, <3>1 DEF Calm, WindowsInOrder
  <2> QED
    BY <2>1, <2>2, <2>3
<1>10. row' = e
  BY DEF e
<1> QED
  BY <1>6, <1>7, <1>9, <1>10 DEF WindowsInOrder

\* The parts of Calm that a step of call r must see to.
LEMMA CalmCall ==
  ASSUME TypeInv, Calm, NEW r, NEW label, NEW k, CallStep(r, label, k),
         Overtakes(r), (row # NoConfig => Sound(row))',
         SoundOf(r)', FlightOf(r)', PausesCounted', WindowsInOrder'
  PROVE  Calm'
<1>1. /\ r \in Requests /\ r \notin Entries /\ now' = now
      /\ \A q \in Requests \ {r} : pc'[q] = pc[q] /\ loc'[q] = loc[q] /\ req'[q] = req[q]
      /\ \A c \in cycles' : c \in cycles \/ c.by = r
  BY Moves, ConstantsAssumption DEF CallStep, Requests
<1>2. /\ \A q \in Calls \ {r} : SoundOf(q)' /\ FlightOf(q)'
      /\ \A q \in Entries \ {r} : SeenBy(q)'
  BY <1>1, CalmFrame
<1> QED
  BY <1>1, <1>2 DEF Calm

LEMMA GrantsKept ==
  ASSUME TypeInv, NEW r, NEW label, NEW k, CallStep(r, label, k),
         pc[r] # "done", label # "done" \/ req'[r].op # "pause"
  PROVE  \A i \in Ids : GrantedPauses(i)' = GrantedPauses(i)
<1>1. /\ r \in Requests /\ pc'[r] = label
      /\ \A q \in Requests \ {r} : pc'[q] = pc[q] /\ loc'[q] = loc[q] /\ req'[q] = req[q]
  BY Moves DEF CallStep, Requests
<1> QED
  BY <1>1 DEF GrantedPauses, Requests

LEMMA GrantsOne ==
  ASSUME TypeInv, NEW r, NEW k, CallStep(r, "done", k),
         pc[r] # "done", req'[r].op = "pause"
  PROVE  \A i \in Ids : GrantedPauses(i)' =
           IF i = k.entity.id THEN GrantedPauses(i) \union {r} ELSE GrantedPauses(i)
<1>1. /\ r \in Requests /\ pc'[r] = "done" /\ loc'[r] = k /\ r \in Calls
      /\ \A q \in Requests \ {r} : pc'[q] = pc[q] /\ loc'[q] = loc[q] /\ req'[q] = req[q]
  BY Moves DEF CallStep, Requests
<1> QED
  BY <1>1 DEF GrantedPauses, Requests

\* The others are as settled as they were.
LEMMA OthersSettled ==
  ASSUME TypeInv, NEW r, NEW label, NEW k, CallStep(r, label, k)
  PROVE  /\ \A q \in Calls \ {r} : Settled(q)' = Settled(q)
         /\ Settled(r)' = \/ label \in {"override", "done"}
                          \/ label \in {"read", "write"} /\ k.stage = "own"
<1>1. /\ r \in Requests /\ pc'[r] = label /\ loc'[r] = k
      /\ \A q \in Requests \ {r} : pc'[q] = pc[q] /\ loc'[q] = loc[q]
  BY Moves DEF CallStep, Requests
<1> QED
  BY <1>1 DEF Settled, Requests

\* The row l holds is the one in the table, with no more than r's own changes.
Upon(r, l) ==
  /\ row' \in Rows /\ row'.id = l.entity.id
  /\ l.entity.pauseCountThisYear = row'.pauseCountThisYear
  /\ l.entity.remainingBuffer =< row'.remainingBuffer
  /\ Sound(l.entity) /\ Start(row') =< Start(l.entity)

\* The windows r has closed lie between the row's and that of l.
Between(r, l) ==
  \A c \in cycles' :
    c.by = r => c.id = l.entity.id /\ Start(row') =< c.start /\ c.end =< Start(l.entity)

LEMMA Lands ==
  ASSUME TypeInv, NEW r, NEW l, NEW label, NEW k,
         Ready(r, l), Outcome(r, l, label, k), CallStep(r, label, k), req' = req,
         Upon(r, l), SettledAt(label, k) \/ Between(r, l)
  PROVE  SoundOf(r)' /\ FlightOf(r)'
<1>0. /\ r \in Calls /\ r \in Requests /\ pc'[r] = label /\ loc'[r] = k /\ now' = now
      /\ cycles' \subseteq [by : Calls, id : Ids, start : Int, end : Days]
  BY Moves DEF CallStep, Requests
<1>1. /\ k.entity \in Rows /\ l.entity \in Rows /\ Suits(r, label, k)
      /\ k.entity.id = l.entity.id
      /\ Sound(k.entity) /\ Start(l.entity) =< Start(k.entity)
      /\ k.entity.pauseCountThisYear =
           l.entity.pauseCountThisYear +
             (IF label = "read" /\ k.stage = "own" /\ req[r].op = "pause" THEN 1 ELSE 0)
      /\ \/ k.entity.remainingBuffer =< l.entity.remainingBuffer
         \/ label = "read" /\ Buffered(r, k)
  BY DEF Outcome, Follows, Betters, Ready, Upon
<1>2. SoundOf(r)'
  BY <1>0, <1>1 DEF SoundOf, Sound, Start
<1>3. /\ Start(row') \in Int /\ Start(l.entity) \in Int /\ Start(k.entity) \in Int
      /\ row'.remainingBuffer \in Int /\ l.entity.remainingBuffer \in Int
      /\ k.entity.remainingBuffer \in Int
  BY <1>1 DEF Upon, Rows, Start
<1>4. label # "write" /\ row' # NoConfig
  BY <1>1, LimitTypes DEF Suits, Upon
<1>5. Counts(r)' = (label = "read" /\ k.stage = "own" /\ req[r].op = "pause")
  BY <1>0, <1>4 DEF Counts
<1>6. label = "read" /\ Buffered(r, k) => Renews(r)'
  BY <1>0 DEF Renews, Buffered
<1>7. k.entity.remainingBuffer =< row'.remainingBuffer \/ (label = "read" /\ Renews(r)')
  BY <1>1, <1>3, <1>6 DEF Upon
<1>8. Start(row') =< Start(k.entity)
  BY <1>1, <1>3 DEF Upon
<1>9. ASSUME ~ Settled(r)', label \in Live
      PROVE  \A c \in cycles' :
               c.by = r => c.id = k.entity.id /\ Start(row') =< c.start /\ c.end =< Start(k.entity)
  <2>1. ~ SettledAt(label, k)
    BY <1>0, <1>9 DEF SettledAt, Settled, Live
  <2>2. Between(r, l)
    BY <2>1
  <2>3. \A c \in cycles' : c.end \in Int
    BY <1>0 DEF Days
  <2> QED
    BY <1>1, <1>3, <2>2, <2>3 DEF Between
<1>10. row'.id = k.entity.id
  BY <1>1 DEF Upon
<1>11. k.entity.pauseCountThisYear = row'.pauseCountThisYear + (IF Counts(r)' THEN 1 ELSE 0)
  BY <1>1, <1>5 DEF Upon
<1>12. Start(row)' = Start(row') /\ Start(loc[r].entity)' = Start(k.entity)
  BY <1>0 DEF Start
<1>13. FlightOf(r)'
  BY <1>0, <1>4, <1>7, <1>8, <1>9, <1>10, <1>11, <1>12 DEF FlightOf
<1> QED
  BY <1>2, <1>13

LEMMA StepTo ==
  ASSUME TypeInv, NEW r \in Calls, StepOf(r), NEW label, NEW k, Goto(r, label, k)
  PROVE  CallStep(r, label, k)
<1>1. PICK label0, k0 : CallStep(r, label0, k0)
  BY DEF StepOf
<1>2. pc'[r] = label0 /\ loc'[r] = k0
  BY <1>1, Moves DEF CallStep, Requests
<1>3. pc'[r] = label /\ loc'[r] = k
  BY DEF Goto, TypeInv, TypeOK, Requests
<1> QED
  BY <1>1, <1>2, <1>3

\* A row that stays keeps the counts and the order.
LEMMA SameRow ==
  ASSUME TypeInv, Calm, row' = row, now' = now
  PROVE  /\ (row # NoConfig => Sound(row))'
         /\ row' \in Rows \union {NoConfig}
         /\ row' # NoConfig =>
              /\ row # NoConfig /\ row.id = row'.id /\ Start(row) =< Start(row')
              /\ row'.pauseCountThisYear >= row.pauseCountThisYear
<1>1. row \in Rows \union {NoConfig}
  BY DEF TypeInv, TypeOK
<1>2. row # NoConfig => Start(row) \in Int /\ row.pauseCountThisYear \in Int
  BY <1>1, LimitTypes DEF Rows, Start
<1>3. (row # NoConfig => Sound(row))'
  BY DEF Calm, Sound, Start
<1> QED
  BY <1>1, <1>2, <1>3

\* A call that gives up, or has nothing of the row's in hand.
LEMMA QuietCalm ==
  ASSUME TypeInv, Calm, ~ staleSave', NEW r, NEW label, NEW k, CallStep(r, label, k),
         NotWritten, cycles' = cycles, pc[r] # "done",
         label \in {"find", "wallet", "insert", "delete", "declined", "failed"},
         label = "insert" => Sound(k.entity)
  PROVE  Calm'
<1>1. row' = row /\ Overtakes(r) /\ now' = now /\ r \in Calls /\ r \in Requests
  BY NoWriteOvertakes DEF CallStep, Requests
<1>2. pc'[r] = label /\ loc'[r] = k
  BY <1>1, Moves DEF CallStep
<1>3. SoundOf(r)' /\ FlightOf(r)'
  BY <1>1, <1>2 DEF SoundOf, FlightOf, Live, Sound, Start
<1>4. PausesCounted'
  BY <1>1, GrantsKept, CountsKept, SameRow
<1>5. \A c \in cycles' : Settled(c.by)' => c \in cycles /\ Settled(c.by)
  <2>1. ~ Settled(r)' /\ \A q \in Calls \ {r} : Settled(q)' = Settled(q)
    BY OthersSettled
  <2> QED
    BY <2>1 DEF TypeInv, TypeOK
<1>6. WindowsInOrder'
  BY <1>1, <1>5, OrderKept, SameRow DEF CallStep
<1> QED
  BY <1>1, <1>3, <1>4, <1>6, CalmCall, SameRow

\* A call that goes on from a row it holds, without a write.
LEMMA HeldCalm ==
  ASSUME TypeInv, Calm, ~ staleSave', NEW r, NEW l, NEW label, NEW k,
         Ready(r, l), Outcome(r, l, label, k), CallStep(r, label, k), req' = req,
         Upon(r, l), SettledAt(label, k) \/ Between(r, l),
         NotWritten, pc[r] # "done", label = "done" => req[r].op # "pause",
         Settled(r)' => \/ Settled(r) /\ cycles' = cycles
                        \/ \A c \in cycles' : c.by # r
  PROVE  Calm'
<1>1. row' = row /\ Overtakes(r) /\ now' = now /\ r \in Calls
  BY NoWriteOvertakes DEF CallStep
<1>2. SoundOf(r)' /\ FlightOf(r)'
  BY Lands
<1>3. PausesCounted'
  BY <1>1, GrantsKept, CountsKept, SameRow
<1>4. \A c \in cycles' : Settled(c.by)' => c \in cycles /\ Settled(c.by)
  <2>1. \A q \in Calls \ {r} : Settled(q)' = Settled(q)
    BY OthersSettled
  <2>2. \A c \in cycles' : c.by \in Calls /\ (c \in cycles \/ c.by = r)
    BY DEF CallStep
  <2> QED
    BY <2>1, <2>2
<1>5. WindowsInOrder'
  BY <1>1, <1>4, OrderKept, SameRow DEF CallStep
<1> QED
  BY <1>1, <1>2, <1>3, <1>5, CalmCall, SameRow

LEMMA SubmitCalm ==
  ASSUME TypeInv, RowInv, Calm, ~ staleSave', NEW r \in Calls, Submit(r)
  PROVE  Calm'
<1>1. CallStep(r, "find", loc[r])
  BY SubmitStep, StepTo DEF Submit, Answer
<1> QED
  BY <1>1, QuietCalm DEF Submit

LEMMA AnswerCalm ==
  ASSUME TypeInv, Calm, ~ staleSave', NEW r \in Calls, StepOf(r),
         NEW label \in {"wallet", "delete", "declined", "failed"},
         Answer(r, label), NotWritten, cycles' = cycles, pc[r] # "done"
  PROVE  Calm'
<1>1. CallStep(r, label, loc[r])
  BY StepTo DEF Answer
<1> QED
  BY <1>1, QuietCalm

LEMMA FindCalm ==
  ASSUME TypeInv, RowInv, Calm, ~ staleSave', NEW r \in Calls, Find(r)
  PROVE  Calm'
<1>0. /\ NotWritten /\ UNCHANGED <<ledger, overrides, cycles, now, req, unrecorded>>
      /\ row # NoConfig /\ StepOf(r) /\ row' = row /\ pc[r] = "find"
  BY FindStep DEF Find, NotWritten
<1>1. CASE /\ pc[r] = "find" /\ req[r].op \in {"create", "deactivate"}
           /\ Answer(r, IF req[r].op = "create" THEN "declined" ELSE "delete")
  BY <1>0, <1>1, AnswerCalm
<1>2. ASSUME NEW l, NEW label, NEW k, pc[r] = "find", Looks(r),
             Ready(r, l), l.entity = row, l.closed = 0,
             Goto(r, label, k), Outcome(r, l, label, k),
             label = "done" => req[r].op = "get"
      PROVE  Calm'
  <2>1. CallStep(r, label, k)
    BY <1>0, <1>2, StepTo
  <2>2. \A c \in cycles' : c.by # r
    <3>1. loc[r] = EmptyLoc /\ CallPlace(r)
      BY <1>2, Typed DEF CallPlace
    <3> QED
      BY <1>0, <3>1 DEF CallPlace, EmptyLoc
  <2>3. Between(r, l)
    BY <2>2 DEF Between
  <2>4. Upon(r, l)
    <3>1. row \in Rows
      BY <1>0, Typed
    <3>2. row.remainingBuffer \in Int /\ Start(row) \in Int
      BY <3>1 DEF Rows, Start
    <3> QED
      BY <1>0, <1>2, <3>1, <3>2 DEF Upon, Calm
  <2>5. req' = req /\ pc[r] # "done" /\ (label = "done" => req[r].op # "pause")
    BY <1>0, <1>2
  <2> QED
    BY <1>0, <1>2, <2>1, <2>2, <2>3, <2>4, <2>5, HeldCalm
<1> QED
  BY <1>1, <1>2, FindOutcome DEF Answer

LEMMA ReadWalletCalm ==
  ASSUME TypeInv, RowInv, Calm, ~ staleSave', NEW r \in Calls, ReadWallet(r)
  PROVE  Calm'
<1>0. /\ NotWritten /\ UNCHANGED <<ledger, overrides, cycles, now, req, unrecorded>>
      /\ pc[r] = "wallet" /\ StepOf(r)
  BY ReadWalletStep DEF ReadWallet
<1>1. CASE Answer(r, "declined")
  BY <1>0, <1>1, AnswerCalm
<1>2. CASE Goto(r, "insert", [loc[r] EXCEPT !.entity = Created(r, req[r].dto, balance)])
  <2> DEFINE d == Created(r, req[r].dto, balance)
             k == [loc[r] EXCEPT !.entity = d]
  <2>1. /\ CallPlace(r) /\ req[r].op = "create" /\ req[r] \in CallRequests
        /\ loc[r] \in Locals
    BY <1>0, Typed DEF CallPlace
  <2>2. req[r].dto \in CreateDtos /\ balance \in Nat /\ now \in Days
    BY <2>1 DEF CallRequests, CallOps, TypeInv, TypeOK
  <2>3. d \in Rows /\ ~ d.isPaused /\ d.expiresAt = now + d.cycleDays
    BY <2>2, CreatedRow
  <2> HIDE DEF d
  <2>4. k.entity = d
    BY <2>1 DEF Locals
  <2>5. Sound(d)
    BY <2>2, <2>3 DEF Sound, Start, Rows, Days
  <2>6. CallStep(r, "insert", k)
    BY <1>0, <1>2, StepTo DEF d
  <2> HIDE DEF k
  <2> QED
    BY <1>0, <2>4, <2>5, <2>6, QuietCalm
<1> QED
  BY <1>1, <1>2 DEF ReadWallet

LEMMA CloseCalm ==
  ASSUME TypeInv, RowInv, Calm, ~ staleSave', NEW r \in Calls, CloseCycle(r)
  PROVE  Calm'
<1> DEFINE e == loc[r].entity
           w == [by |-> r, id |-> e.id, start |-> e.expiresAt - e.cycleDays,
                 end |-> e.expiresAt]
<1>0. /\ pc[r] = "close" /\ NotWritten /\ UNCHANGED <<ledger, overrides, now, req, unrecorded>>
      /\ cycles' = cycles \union {w} /\ Loop(r, Advanced(r)) /\ StepOf(r)
      /\ row' = row /\ overtaken' = overtaken
  BY CloseStep DEF CloseCycle, Advanced, NotWritten
<1>1. /\ Ready(r, Advanced(r)) /\ NotDue(Advanced(r)) /\ Advanced(r).closed > 0
      /\ LET d == Advanced(r).entity IN
         /\ d \in Rows /\ e \in Rows /\ d.id = e.id
         /\ d.isPaused = e.isPaused /\ d.pauseStartedAt = e.pauseStartedAt
         /\ d.pauseCountThisYear = e.pauseCountThisYear
         /\ d.remainingBuffer = e.remainingBuffer
         /\ Start(d) = e.expiresAt /\ e.expiresAt =< now
  BY <1>0, AdvancedLoc
<1>2. PICK label, k : /\ Goto(r, label, k) /\ Outcome(r, Advanced(r), label, k)
                      /\ SettledAt(label, k) => Advanced(r).closed = 0
                      /\ label = "done" => req[r].op = "get"
  BY <1>0, <1>1, LoopOutcome
<1>3. ~ SettledAt(label, k)
  BY <1>1, <1>2, <1>0, AdvancedLoc DEF Ready, Locals
<1>4. CallStep(r, label, k)
  BY <1>0, <1>2, StepTo
<1>5. ~ Settled(r)'
  BY <1>2, <1>3, <1>4, OthersSettled DEF SettledAt, Outcome, Suits
<1>6. CASE r \notin overtaken
  <2> DEFINE d == Advanced(r).entity
  <2>1. /\ row # NoConfig /\ row.id = e.id
        /\ e.pauseCountThisYear = row.pauseCountThisYear
        /\ e.remainingBuffer =< row.remainingBuffer
        /\ Start(row) =< Start(e)
        /\ \A c \in cycles :
             c.by = r => c.id = e.id /\ Start(row) =< c.start /\ c.end =< Start(e)
    <3>1. FlightOf(r) /\ ~ Settled(r) /\ ~ Counts(r)
      BY <1>0 DEF Calm, Settled, Counts
    <3>2. row.pauseCountThisYear + 0 = row.pauseCountThisYear \/ row = NoConfig
      BY Typed, LimitTypes DEF Rows
    <3> QED
      BY <1>0, <1>6, <3>1, <3>2 DEF FlightOf, Live
  <2>2. Sound(e) /\ row \in Rows
    BY <1>0, <2>1, Typed DEF Calm, SoundOf, Live
  <2>3. /\ Start(row) \in Int /\ Start(e) \in Int /\ Start(d) \in Int
        /\ Start(e) = e.expiresAt - e.cycleDays /\ e.expiresAt \in Nat /\ e.cycleDays \in Nat
        /\ now \in Int
    BY <1>1, <2>2, Typed DEF Rows, Start, Days
  <2>4. Sound(d)
    BY <1>1, <2>2 DEF Sound
  <2>5. Start(row) =< Start(d) /\ Start(e) =< Start(d)
    BY <1>1, <2>1, <2>3
  <2>6. Upon(r, Advanced(r))
    BY <1>0, <1>1, <2>1, <2>2, <2>4, <2>5 DEF Upon
  <2>7. Between(r, Advanced(r))
    <3>1. ASSUME NEW c \in cycles', c.by = r
          PROVE  c.id = d.id /\ Start(row) =< c.start /\ c.end =< Start(d)
      <4>1. CASE c \in cycles
        <5>1. c.end \in Int
          BY <4>1 DEF TypeInv, TypeOK, Days
        <5> QED
          BY <1>1, <2>1, <2>3, <2>5, <3>1, <4>1, <5>1
      <4>2. CASE c = w
        BY <1>1, <2>1, <2>3, <4>2
      <4> QED
        BY <1>0, <4>1, <4>2
    <3> QED
      BY <1>0, <3>1 DEF Between
  <2>8. pc[r] # "done" /\ req' = req /\ (label = "done" => req[r].op # "pause")
    BY <1>0, <1>2
  <2> QED
    BY <1>0, <1>1, <1>2, <1>4, <1>5, <2>6, <2>7, <2>8, HeldCalm
<1>7. CASE r \in overtaken
  <2>1. Overtakes(r) /\ now' = now
    BY <1>0, NoWriteOvertakes
  <2>2. FlightOf(r)'
    BY <1>0, <1>7 DEF FlightOf
  <2>3. SoundOf(r)'
    <3>1. Sound(Advanced(r).entity)
      BY <1>0, <1>1 DEF Calm, SoundOf, Sound, Live
    <3>2. Sound(k.entity)
      BY <1>2, <3>1 DEF Outcome, Betters
    <3>3. loc'[r] = k
      BY <1>4, Moves DEF CallStep, Requests
    <3> QED
      BY <2>1, <3>2, <3>3 DEF SoundOf, Sound, Start
  <2>4. PausesCounted'
    BY <1>0, <1>2, <1>4, <2>1, GrantsKept, CountsKept, SameRow
  <2>5. \A c \in cycles' : Settled(c.by)' => c \in cycles /\ Settled(c.by)
    <3>1. \A q \in Calls \ {r} : Settled(q)' = Settled(q)
      BY <1>4, OthersSettled
    <3>2. \A c \in cycles' : c.by \in Calls /\ (c \in cycles \/ c.by = r)
      BY <1>4 DEF CallStep
    <3> QED
      BY <1>5, <3>1, <3>2
  <2>6. WindowsInOrder'
    BY <1>0, <1>4, <2>1, <2>5, OrderKept, SameRow DEF CallStep
  <2> QED
    BY <1>0, <1>4, <2>1, <2>2, <2>3, <2>4, <2>6, CalmCall, SameRow
<1> QED
  BY <1>6, <1>7

\* A call at the same row after a step that neither writes nor settles it.
LEMMA StayCalm ==
  ASSUME TypeInv, Calm, ~ staleSave', NEW r, NEW label, NEW k, CallStep(r, label, k),
         NotWritten, cycles' = cycles, pc[r] # "done", label # "done",
         SoundOf(r)', FlightOf(r)', Settled(r)' => Settled(r)
  PROVE  Calm'
<1>1. row' = row /\ Overtakes(r) /\ now' = now
  BY NoWriteOvertakes DEF CallStep
<1>2. PausesCounted'
  BY <1>1, GrantsKept, CountsKept, SameRow
<1>3. \A c \in cycles' : Settled(c.by)' => c \in cycles /\ Settled(c.by)
  <2>1. \A q \in Calls \ {r} : Settled(q)' = Settled(q)
    BY OthersSettled
  <2> QED
    BY <2>1 DEF TypeInv, TypeOK
<1>4. WindowsInOrder'
  BY <1>1, <1>3, OrderKept, SameRow DEF CallStep
<1> QED
  BY <1>1, <1>2, <1>4, CalmCall, SameRow

LEMMA InsertOverrideCalm ==
  ASSUME TypeInv, RowInv, Calm, ~ staleSave', NEW r \in Calls, InsertOverride(r)
  PROVE  Calm'
<1> DEFINE l == loc[r]
           k == [l EXCEPT !.entity = l.entity, !.stage = "own"]
<1>0. /\ pc[r] = "override" /\ NotWritten /\ UNCHANGED <<ledger, cycles, now, req, unrecorded>>
      /\ Goto(r, "read", k) /\ StepOf(r) /\ row' = row /\ overtaken' = overtaken
  BY InsertOverrideStep DEF InsertOverride, SaveEntity, NotWritten
<1>1. CallStep(r, "read", k) /\ l \in Locals /\ req[r].op = "override"
  BY <1>0, StepTo, Typed DEF CallPlace
<1>2. k.entity = l.entity /\ k.stage = "own"
  BY <1>1 DEF Locals
<1> HIDE DEF k
<1>3. pc'[r] = "read" /\ loc'[r] = k /\ r \in Requests
  BY <1>1, Moves DEF CallStep, Requests
<1>4. SoundOf(r)'
  BY <1>0, <1>2, <1>3 DEF Calm, SoundOf, Live, Sound, Start
<1>5. FlightOf(r)'
  <2>1. FlightOf(r) /\ ~ Counts(r) /\ ~ Counts(r)' /\ Settled(r)'
    BY <1>0, <1>1, <1>2, <1>3 DEF Calm, Counts, Settled
  <2> QED
    BY <1>0, <1>2, <1>3, <2>1 DEF FlightOf, Live, Start
<1>6. Settled(r)
  BY <1>0 DEF Settled
<1> QED
  BY <1>0, <1>1, <1>4, <1>5, <1>6, StayCalm

\* The row a call nobody has overtaken reads by id is the one its entity is of.
LEMMA SaveReadsCalm ==
  ASSUME TypeInv, RowInv, Calm, ~ staleSave', NEW r \in Calls, SaveReads(r)
  PROVE  Calm'
<1> DEFINE l == loc[r]
           found == row # NoConfig /\ row.id = l.entity.id
           k == [l EXCEPT !.stored = IF found THEN row ELSE NoConfig]
<1>0. /\ pc[r] = "read" /\ NotWritten
      /\ UNCHANGED <<ledger, overrides, cycles, now, req, unrecorded>>
      /\ Goto(r, "write", k) /\ StepOf(r) /\ row' = row /\ overtaken' = overtaken
  BY SaveReadsStep DEF SaveReads, NotWritten
<1>1. CallStep(r, "write", k) /\ l \in Locals
  BY <1>0, StepTo, Typed
<1>2. /\ k.entity = l.entity /\ k.stage = l.stage /\ k.closed = l.closed
      /\ found => k.stored = row
  BY <1>1 DEF Locals
<1> HIDE DEF k
<1>3. pc'[r] = "write" /\ loc'[r] = k /\ r \in Requests
  BY <1>1, Moves DEF CallStep, Requests
<1>4. SoundOf(r)'
  BY <1>0, <1>2, <1>3 DEF Calm, SoundOf, Live, Sound, Start
<1>5. Settled(r)' = Settled(r) /\ Counts(r)' = Counts(r) /\ Renews(r)' = Renews(r)
  BY <1>0, <1>2, <1>3 DEF Settled, Counts, Renews
<1>6. FlightOf(r)'
  <2>1. FlightOf(r)
    BY DEF Calm
  <2> QED
    BY <1>0, <1>2, <1>3, <1>5, <2>1 DEF FlightOf, Live, Start
<1> QED
  BY <1>0, <1>1, <1>4, <1>5, <1>6, StayCalm

LEMMA InsertCalm ==
  ASSUME TypeInv, RowInv, Calm, ~ staleSave', NEW r \in Calls, Insert(r)
  PROVE  Calm'
<1>0. /\ pc[r] = "insert" /\ UNCHANGED <<ledger, overrides, cycles, now, req, unrecorded>>
      /\ CallPlace(r) /\ StepOf(r) /\ r \in Requests
      /\ req[r].op = "create" /\ loc[r].entity \in Rows /\ loc[r].entity.id = r
      /\ loc[r].closed = 0
  BY InsertStep, Typed DEF Insert, CallPlace
<1>1. CASE row # NoConfig
  BY <1>0, <1>1, AnswerCalm DEF Insert
<1>2. CASE row = NoConfig
  <2>1. Write(r, loc[r].entity) /\ Goto(r, "done", loc[r]) /\ row' = loc[r].entity
    BY <1>2 DEF Insert, Answer, Write
  <2>2. CallStep(r, "done", loc[r]) /\ Overtakes(r)
    BY <1>0, <2>1, StepTo, WriteOvertakes
  <2>3. pc'[r] = "done"
    BY <2>2, Moves DEF CallStep, Requests
  <2>4. (row # NoConfig => Sound(row))'
    BY <1>0, <2>1 DEF Calm, SoundOf, Sound, Start
  <2>5. SoundOf(r)' /\ FlightOf(r)'
    BY <2>3 DEF SoundOf, FlightOf, Live
  <2>6. GrantedPauses(r) = {}
    <3>1. FreshOf(r)
      BY DEF RowInv
    <3>2. \A q \in Calls : pc[q] = "done" /\ req[q].op = "pause" => loc[q].entity \in Rows
      BY Typed DEF CallPlace, Looks
    <3> QED
      BY <1>0, <3>1, <3>2, LimitTypes DEF FreshOf, GrantedPauses
  <2>7. PausesCounted'
    BY <1>0, <2>1, <2>2, <2>6, GrantsKept, CountsKept
  <2>8. \A c \in cycles : c.id # r /\ c.by # r
    BY <1>0 DEF RowInv, FreshOf, CallPlace
  <2>9. \A c \in cycles' : Settled(c.by)' => c \in cycles /\ Settled(c.by)
    <3>1. \A q \in Calls \ {r} : Settled(q)' = Settled(q)
      BY <2>2, OthersSettled
    <3> QED
      BY <1>0, <2>8, <3>1 DEF TypeInv, TypeOK
  <2>10. WindowsInOrder'
    BY <1>0, <2>1, <2>2, <2>8, <2>9, OrderKept DEF CallStep
  <2> QED
    BY <2>2, <2>4, <2>5, <2>7, <2>10, CalmCall
<1> QED
  BY <1>1, <1>2

LEMMA DeleteCalm ==
  ASSUME TypeInv, RowInv, Calm, ~ staleSave', NEW r \in Calls, Delete(r)
  PROVE  Calm'
<1>0. /\ pc[r] = "delete" /\ UNCHANGED <<ledger, overrides, cycles, now, req, unrecorded>>
      /\ CallPlace(r) /\ StepOf(r) /\ r \in Requests
      /\ req[r].op = "deactivate" /\ loc[r].closed = 0
      /\ Write(r, NoConfig) /\ row' = NoConfig /\ Goto(r, "done", loc[r])
  BY DeleteStep, Typed DEF Delete, CallPlace, Answer, Write
<1>1. CallStep(r, "done", loc[r]) /\ Overtakes(r)
  BY <1>0, StepTo, WriteOvertakes
<1>2. pc'[r] = "done"
  BY <1>1, Moves DEF CallStep, Requests
<1>3. SoundOf(r)' /\ FlightOf(r)'
  BY <1>2 DEF SoundOf, FlightOf, Live
<1>4. PausesCounted'
  BY <1>0, <1>1, GrantsKept, CountsKept
<1>5. \A c \in cycles' : Settled(c.by)' => c \in cycles /\ Settled(c.by)
  <2>1. \A q \in Calls \ {r} : Settled(q)' = Settled(q)
    BY <1>1, OthersSettled
  <2> QED
    BY <1>0, <2>1 DEF TypeInv, TypeOK, CallPlace
<1>6. WindowsInOrder'
  BY <1>0, <1>1, <1>5, OrderKept DEF CallStep
<1> QED
  BY <1>0, <1>1, <1>3, <1>4, <1>6, CalmCall

\* A call nobody has overtaken never inserts: the row it read is still there.
LEMMA SaveInsertsCalm ==
  ASSUME TypeInv, RowInv, Calm, ~ staleSave', NEW r \in Calls, SaveInserts(r)
  PROVE  Calm' /\ row # NoConfig
<1>0. /\ pc[r] = "write" /\ loc[r].stored = NoConfig
      /\ UNCHANGED <<ledger, overrides, cycles, now, req, unrecorded>>
      /\ StepOf(r) /\ r \in Requests
  BY SaveInsertsStep, Typed DEF SaveInserts
<1>1. CASE row # NoConfig
  BY <1>0, <1>1, AnswerCalm DEF SaveInserts
<1>2. CASE row = NoConfig
  <2>1. r \notin overtaken
    BY <1>0, <1>2, WriteOvertakes DEF SaveInserts
  <2>2. FlightOf(r)
    BY DEF Calm
  <2> QED
    BY <1>0, <1>2, <2>1, <2>2 DEF FlightOf, Live
<1> QED
  BY <1>1, <1>2

\* What it updates becomes its entity.
LEMMA SaveUpdatesFacts ==
  ASSUME TypeInv, RowInv, Calm, ~ staleSave', NEW r \in Calls, SaveUpdates(r)
  PROVE  /\ pc[r] = "write" /\ r \notin overtaken /\ r \notin overtaken'
         /\ Overtakes(r) /\ AfterSave(r, loc[r]) /\ StepOf(r)
         /\ UNCHANGED <<ledger, overrides, cycles, now, req, unrecorded>>
         /\ row \in Rows /\ loc[r].entity \in Rows /\ row' = loc[r].entity
         /\ row.id = loc[r].entity.id
<1>0. /\ pc[r] = "write" /\ AfterSave(r, loc[r]) /\ loc[r].stored # NoConfig
      /\ UNCHANGED <<ledger, overrides, cycles, now, req, unrecorded>>
      /\ StepOf(r) /\ r \in Requests /\ loc[r].entity \in Rows
  BY SaveUpdatesStep, Typed, HeldRows DEF SaveUpdates, Live
<1>1. r \notin overtaken /\ r \notin overtaken' /\ Overtakes(r)
  BY <1>0, WriteOvertakes DEF SaveUpdates
<1>2. row # NoConfig /\ row.id = loc[r].entity.id /\ loc[r].stored = row
  BY <1>0, <1>1 DEF Calm, FlightOf, Live
<1>3. row \in Rows
  BY <1>2, Typed
<1>4. Differing(row, loc[r].entity, loc[r].stored) = loc[r].entity
  BY <1>0, <1>2, <1>3, DifferingRow
<1>5. row' = loc[r].entity
  BY <1>2, <1>4 DEF SaveUpdates, Write
<1> QED
  BY <1>0, <1>1, <1>2, <1>3, <1>5

LEMMA SaveUpdatesCalm ==
  ASSUME TypeInv, RowInv, Calm, ~ staleSave', NEW r \in Calls, SaveUpdates(r)
  PROVE  Calm'
<1> DEFINE l == loc[r]
           e == l.entity
<1>0. /\ pc[r] = "write" /\ r \notin overtaken /\ r \notin overtaken'
      /\ Overtakes(r) /\ AfterSave(r, l) /\ StepOf(r)
      /\ UNCHANGED <<ledger, overrides, cycles, now, req, unrecorded>>
      /\ row \in Rows /\ e \in Rows /\ row' = e /\ row.id = e.id
  BY SaveUpdatesFacts
<1>1. /\ Ready(r, l) /\ CallPlace(r) /\ FlightOf(r) /\ Sound(e)
      /\ l.closed = 0 => \A c \in cycles : c.by # r
  BY <1>0, Holding, Typed DEF Live, Calm, SoundOf
<1>2. PICK label, k :
        /\ Goto(r, label, k) /\ Outcome(r, l, label, k)
        /\ l.stage = "own" => k = l /\ label = "done"
        /\ SettledAt(label, k) \/ l.stage = "watchdog"
        /\ label = "done" => l.stage = "own" \/ req[r].op = "get"
  BY <1>0, AfterSaveOutcome
<1>3. CallStep(r, label, k)
  BY <1>0, <1>2, StepTo
<1>4. /\ Start(row) \in Int /\ Start(e) \in Int /\ e.remainingBuffer \in Int
      /\ e.pauseCountThisYear \in Nat /\ row.pauseCountThisYear \in Nat
  BY <1>0, LimitTypes DEF Rows, Start
<1>5. /\ e.pauseCountThisYear = row.pauseCountThisYear + (IF Counts(r) THEN 1 ELSE 0)
      /\ Start(row) =< Start(e)
      /\ row # NoConfig /\ row' # NoConfig
      /\ ~ Settled(r) =>
           \A c \in cycles :
             c.by = r => c.id = e.id /\ Start(row) =< c.start /\ c.end =< Start(e)
  BY <1>0, <1>1, LimitTypes DEF FlightOf, Live
<1>6. Upon(r, l)
  BY <1>0, <1>1, <1>4 DEF Upon
<1>7. (row # NoConfig => Sound(row))'
  BY <1>0, <1>1 DEF Sound, Start
<1>8. SoundOf(r)' /\ FlightOf(r)'
  <2>1. SettledAt(label, k) \/ Between(r, l)
    BY <1>0, <1>1, <1>2 DEF CallPlace, Between
  <2> QED
    BY <1>0, <1>1, <1>2, <1>3, <1>6, <2>1, Lands
<1>9. PausesCounted'
  <2>1. CASE Counts(r)
    <3>1. label = "done" /\ k = l /\ req'[r].op = "pause" /\ e.id \in Ids
      BY <1>0, <1>2, <2>1 DEF Counts, Rows
    <3>2. \A i \in Ids : GrantedPauses(i)' =
            IF i = e.id THEN GrantedPauses(i) \union {r} ELSE GrantedPauses(i)
      BY <1>0, <1>3, <3>1, GrantsOne
    <3>3. row'.pauseCountThisYear = row.pauseCountThisYear + 1
      BY <1>0, <1>5, <2>1
    <3> QED
      BY <1>0, <1>5, <3>1, <3>2, <3>3, CountsGrant
  <2>2. CASE ~ Counts(r)
    <3>1. label # "done" \/ req'[r].op # "pause"
      BY <1>0, <1>2, <2>2 DEF Counts
    <3>2. row'.pauseCountThisYear >= row.pauseCountThisYear
      BY <1>0, <1>4, <1>5, <2>2
    <3> QED
      BY <1>0, <1>3, <1>5, <3>1, <3>2, GrantsKept, CountsKept
  <2> QED
    BY <2>1, <2>2
<1>10. WindowsInOrder'
  <2>0. \A q \in Calls \ {r} : Settled(q)' = Settled(q)
    BY <1>3, OthersSettled
  <2>1. CASE Settled(r) \/ ~ Settled(r)' \/ \A c \in cycles : c.by # r
    <3>1. \A c \in cycles' : Settled(c.by)' => c \in cycles /\ Settled(c.by)
      BY <1>0, <2>0, <2>1 DEF TypeInv, TypeOK
    <3>2. Start(row') = Start(e)
      BY <1>0
    <3> QED
      BY <1>0, <1>3, <1>5, <3>1, <3>2, OrderKept DEF CallStep
  <2>2. CASE ~ Settled(r)
    BY <1>0, <2>0, <2>2, OrderSettles DEF Live
  <2> QED
    BY <2>1, <2>2
<1> QED
  BY <1>0, <1>3, <1>7, <1>8, <1>9, <1>10, CalmCall

LEMMA ServeCalm ==
  ASSUME TypeInv, RowInv, Calm, ~ staleSave', NEW r \in Calls, Serve(r)
  PROVE  Calm'
<1>1. ASSUME FindNothing(r)
      PROVE  Calm'
  BY <1>1, FindNothingStep, AnswerCalm DEF FindNothing
<1> QED
  BY <1>1, FindCalm, ReadWalletCalm, InsertCalm, DeleteCalm, CloseCalm,
     InsertOverrideCalm, SaveReadsCalm, SaveInsertsCalm, SaveUpdatesCalm DEF Serve

\* An entry grants no pause, and leaves the row's window and counts alone.
LEMMA EntryCalm ==
  ASSUME TypeInv, Calm, NEW e \in Entries, NEW label, NEW k, Goto(e, label, k),
         label \in InFlight \union Answered, k \in Locals, Overtakes(e),
         \A q \in Requests \ {e} : req'[q] = req[q],
         UNCHANGED <<cycles, now>>, SeenBy(e)',
         row' \in Rows \union {NoConfig},
         row' # NoConfig =>
           /\ row # NoConfig /\ row'.id = row.id
           /\ row'.isPaused = row.isPaused /\ row'.pauseStartedAt = row.pauseStartedAt
           /\ row'.pauseCountThisYear = row.pauseCountThisYear
           /\ row'.expiresAt = row.expiresAt /\ row'.cycleDays = row.cycleDays
  PROVE  Calm'
<1>1. /\ e \in Requests /\ e \notin Calls
      /\ \A q \in Requests \ {e} : pc'[q] = pc[q] /\ loc'[q] = loc[q] /\ req'[q] = req[q]
  BY Moves, ConstantsAssumption DEF Requests
<1>2. /\ \A q \in Calls \ {e} : SoundOf(q)' /\ FlightOf(q)'
      /\ \A q \in Entries \ {e} : SeenBy(q)'
  BY <1>1, CalmFrame
<1>3. (row # NoConfig => Sound(row))'
  BY DEF Calm, Sound, Start
<1>4. row' # NoConfig =>
        /\ row # NoConfig /\ row.id = row'.id /\ Start(row) =< Start(row')
        /\ row'.pauseCountThisYear >= row.pauseCountThisYear
  <2>1. row # NoConfig => Start(row) \in Int /\ row.pauseCountThisYear \in Int
    BY LimitTypes DEF TypeInv, TypeOK, Rows, Start
  <2> QED
    BY <2>1 DEF Start
<1>5. \A i \in Ids : GrantedPauses(i)' = GrantedPauses(i)
  BY <1>1 DEF GrantedPauses, Requests
<1>6. PausesCounted'
  BY <1>4, <1>5, CountsKept
<1>7. \A c \in cycles' : Settled(c.by)' => c \in cycles /\ Settled(c.by)
  <2>1. \A q \in Calls : Settled(q)' = Settled(q)
    BY <1>1 DEF Settled, Requests
  <2> QED
    BY <2>1 DEF TypeInv, TypeOK
<1>8. cycles' \subseteq [by : Calls, id : Ids, start : Int, end : Days]
  BY DEF TypeInv, TypeOK
<1>9. WindowsInOrder'
  BY <1>4, <1>7, <1>8, OrderKept
<1> QED
  BY <1>1, <1>2, <1>3, <1>6, <1>9 DEF Calm

LEMMA EntryQuiet ==
  ASSUME TypeInv, Calm, ~ staleSave', NEW e \in Entries, NEW label, NEW k, Goto(e, label, k),
         label \in InFlight \union Answered, k \in Locals, NotWritten,
         \A q \in Requests \ {e} : req'[q] = req[q],
         UNCHANGED <<cycles, now>>, label = "commit" => k.entity = row
  PROVE  Calm'
<1>1. Overtakes(e) /\ row' = row /\ e \in Requests
  BY NoWriteOvertakes DEF Requests
<1>2. SeenBy(e)'
  BY <1>1, Moves DEF SeenBy
<1>3. row' \in Rows \union {NoConfig}
  BY <1>1, EntryTyped
<1> QED
  BY <1>1, <1>2, <1>3, EntryCalm

LEMMA ServeEntryCalm ==
  ASSUME TypeInv, RowInv, Calm, ~ staleSave', NEW e \in Entries,
         SubmitEntry(e) \/ ServeEntry(e)
  PROVE  Calm'
<1>0. loc[e] \in Locals /\ e \in Requests
  BY EntryTyped
<1>1. CASE SubmitEntry(e)
  <2>1. \A q \in Requests \ {e} : req'[q] = req[q]
    BY <1>1, EntryTyped DEF SubmitEntry
  <2> QED
    BY <1>0, <1>1, <2>1, EntryQuiet DEF SubmitEntry, Answer, InFlight
<1>2. CASE Enter(e)
  BY <1>0, <1>2, EntryQuiet DEF Enter, Answer, InFlight, Answered
<1>3. CASE Snapshot(e)
  <2> DEFINE k == [loc[e] EXCEPT !.entity = row]
  <2>1. k \in Locals /\ k.entity = row
    BY <1>0, EntryTyped DEF Locals
  <2>2. Goto(e, "commit", k)
    BY <1>3 DEF Snapshot
  <2> HIDE DEF k
  <2> QED
    BY <1>3, <2>1, <2>2, EntryQuiet DEF Snapshot, InFlight
<1>4. CASE CommitEntry(e)
  <2>1. /\ Goto(e, "done", loc[e]) /\ UNCHANGED <<cycles, now, req>> /\ pc[e] = "commit"
    BY <1>4 DEF CommitEntry, Answer
  <2>2. CASE ~ Polices(e)
    BY <1>0, <1>4, <2>1, <2>2, EntryQuiet DEF CommitEntry, Answered
  <2>3. CASE Polices(e)
    <3>1. Write(e, SavedRow(e)) /\ row' = SavedRow(e)
      BY <1>4, <2>3 DEF CommitEntry, SavedRow, Write
    <3>2. Overtakes(e)
      BY <1>0, <3>1, WriteOvertakes
    <3>3. SeenBy(e)'
      BY <1>0, <2>1, Moves DEF SeenBy, Answered
    <3>4. /\ row' \in Rows \union {NoConfig}
          /\ row' # NoConfig =>
               /\ row # NoConfig /\ row'.id = row.id
               /\ row'.isPaused = row.isPaused /\ row'.pauseStartedAt = row.pauseStartedAt
               /\ row'.pauseCountThisYear = row.pauseCountThisYear
               /\ row'.expiresAt = row.expiresAt /\ row'.cycleDays = row.cycleDays
      BY <2>1, <2>3, <3>1, SavedRowFacts
    <3> QED
      BY <1>0, <2>1, <3>2, <3>3, <3>4, EntryCalm DEF Answered
  <2> QED
    BY <2>2, <2>3
<1> QED
  BY <1>1, <1>2, <1>3, <1>4 DEF ServeEntry

LEMMA CrashCalm ==
  ASSUME TypeInv, Calm, ~ staleSave', Crash
  PROVE  Calm'
<1>0. /\ pc' = [r \in Requests |-> IF pc[r] \in InFlight THEN "failed" ELSE pc[r]]
      /\ UNCHANGED <<cycles, now, req, loc>> /\ row' = row /\ overtaken' = overtaken
  BY DEF Crash, NotWritten
<1>1. \A q \in Calls : /\ pc'[q] \notin InFlight
                       /\ pc'[q] = "done" <=> pc[q] = "done"
  BY <1>0 DEF InFlight, Requests
<1>2. \A q \in Calls : SoundOf(q)' /\ FlightOf(q)'
  BY <1>1 DEF SoundOf, FlightOf, Live, InFlight
<1>3. \A e \in Entries : SeenBy(e)'
  <2>1. \A e \in Entries : pc'[e] # "commit"
    BY <1>0 DEF InFlight, Requests
  <2> QED
    BY <2>1 DEF SeenBy
<1>4. \A i \in Ids : GrantedPauses(i)' = GrantedPauses(i)
  BY <1>0, <1>1 DEF GrantedPauses
<1>5. PausesCounted'
  BY <1>0, <1>4, CountsKept, SameRow
<1>6. \A c \in cycles' : Settled(c.by)' => c \in cycles /\ Settled(c.by)
  <2>1. \A q \in Calls : Settled(q)' => Settled(q)
    BY <1>1 DEF Settled, InFlight
  <2> QED
    BY <1>0, <2>1 DEF TypeInv, TypeOK
<1>7. cycles' \subseteq [by : Calls, id : Ids, start : Int, end : Days]
  BY <1>0 DEF TypeInv, TypeOK
<1>8. WindowsInOrder'
  BY <1>0, <1>6, <1>7, OrderKept, SameRow
<1> QED
  BY <1>0, <1>2, <1>3, <1>5, <1>8, SameRow DEF Calm

LEMMA NextDayCalm ==
  ASSUME TypeInv, RowInv, Calm, ~ staleSave', NextDay
  PROVE  Calm'
<1>0. /\ now < MaxNow /\ now' = now + 1 /\ row' = row /\ overtaken' = overtaken
      /\ UNCHANGED <<cycles, pc, req, loc>>
  BY DEF NextDay, NotWritten
<1>1. now \in Days /\ now' \in Days /\ now =< now'
  BY <1>0, LimitTypes DEF TypeInv, TypeOK, Days
<1>2. (row # NoConfig => Sound(row))'
  <2>1. CASE row # NoConfig
    <3>1. row \in Rows /\ Sound(row)
      BY <2>1 DEF Calm, TypeInv, TypeOK
    <3>2. PICK c : c = row
      OBVIOUS
    <3>3. Sound(c)'
      BY <1>1, <3>1, <3>2, StaysSound
    <3> QED
      BY <1>0, <3>2, <3>3 DEF Sound, Start
  <2> QED
    BY <1>0, <2>1
<1>3. ASSUME NEW q \in Calls
      PROVE  SoundOf(q)' /\ FlightOf(q)'
  <2>1. SoundOf(q) /\ FlightOf(q)
    BY DEF Calm
  <2>2. FlightOf(q)'
    BY <1>0, <2>1 DEF FlightOf, Counts, Renews, Settled, Start
  <2>3. CASE pc[q] \in {"insert"} \union Live
    <3>1. loc[q].entity \in Rows /\ Sound(loc[q].entity)
      BY <2>1, <2>3, HeldRows DEF SoundOf
    <3>2. PICK c : c = loc[q].entity
      OBVIOUS
    <3>3. Sound(c)'
      BY <1>1, <3>1, <3>2, StaysSound
    <3> QED
      BY <1>0, <2>2, <3>2, <3>3 DEF SoundOf, Sound, Start
  <2> QED
    BY <1>0, <2>2, <2>3 DEF SoundOf
<1>4. \A e \in Entries : SeenBy(e)'
  BY <1>0 DEF Calm, SeenBy
<1>5. PausesCounted'
  BY <1>0 DEF Calm, PausesCounted, GrantedPauses
<1>6. WindowsInOrder'
  BY <1>0 DEF Calm, WindowsInOrder, Settled, Start
<1> QED
  BY <1>2, <1>3, <1>4, <1>5, <1>6 DEF Calm

LEMMA StutterCalm ==
  ASSUME Calm, UNCHANGED vars
  PROVE  Calm'
<1>0. UNCHANGED <<row, cycles, now, pc, req, loc, overtaken>>
  BY DEF vars, history
<1>1. \A q \in Calls : SoundOf(q)' /\ FlightOf(q)'
  BY <1>0 DEF Calm, SoundOf, FlightOf, Sound, Counts, Renews, Settled, Start
<1>2. \A e \in Entries : SeenBy(e)'
  BY <1>0 DEF Calm, SeenBy
<1>3. PausesCounted'
  BY <1>0 DEF Calm, PausesCounted, GrantedPauses
<1>4. WindowsInOrder'
  BY <1>0 DEF Calm, WindowsInOrder, Settled, Start
<1>5. (row # NoConfig => Sound(row))'
  BY <1>0 DEF Calm, Sound, Start
<1> QED
  BY <1>1, <1>2, <1>3, <1>4, <1>5 DEF Calm

\* Once a stale save has happened, it has happened.
LEMMA StaleStays ==
  ASSUME [Next]_vars, ~ staleSave'
  PROVE  ~ staleSave
BY DEF Next, vars, history, NotWritten, Write, Submit, Serve, FindNothing, Find,
       ReadWallet, Insert, Delete, CloseCycle, InsertOverride, SaveReads, SaveInserts,
       SaveUpdates, SubmitEntry, ServeEntry, Enter, Snapshot, CommitEntry, Crash,
       NextDay, Terminating

LEMMA InitIInv ==
  ASSUME Init
  PROVE  IInv
<1>1. TypeInv /\ RowInv
  BY InitHolds
<1>2. row # NoConfig => Sound(row)
  <2>1. row # NoConfig => /\ row \in Rows /\ row.expiresAt =< row.cycleDays
                          /\ row.isPaused => row.pauseStartedAt # NoPause
    BY InitialRowsAssumption DEF Init
  <2> QED
    BY <2>1 DEF Init, Sound, Start, Rows
<1>3. \A q \in Requests : pc[q] = "idle"
  BY DEF Init
<1>4. \A q \in Calls : SoundOf(q) /\ FlightOf(q)
  BY <1>3 DEF SoundOf, FlightOf, Live, Requests
<1>5. \A e \in Entries : SeenBy(e)
  BY <1>3 DEF SeenBy, Requests
<1>6. PausesCounted
  <2>1. \A i \in Ids : GrantedPauses(i) = {}
    BY <1>3 DEF GrantedPauses, Requests
  <2>2. row # NoConfig => row.pauseCountThisYear >= 0
    BY <1>1, LimitTypes DEF TypeInv, TypeOK, Rows
  <2>3. IsFiniteSet({}) /\ Cardinality({}) = 0
    BY FS_EmptySet
  <2> QED
    BY <2>1, <2>2, <2>3, LimitTypes DEF PausesCounted
<1>7. WindowsInOrder
  BY DEF Init, WindowsInOrder
<1> QED
  BY <1>1, <1>2, <1>4, <1>5, <1>6, <1>7 DEF IInv, Clean, Calm

LEMMA StepIInv ==
  ASSUME IInv, [Next]_vars
  PROVE  IInv'
<1>1. TypeInv' /\ RowInv'
  BY StepHolds DEF IInv
<1>2. ASSUME ~ staleSave'
      PROVE  Calm'
  <2>1. TypeInv /\ RowInv /\ Calm
    BY <1>2, StaleStays DEF IInv, Clean
  <2>2. ASSUME NEW r \in Calls, Submit(r) \/ Serve(r)
        PROVE  Calm'
    BY <1>2, <2>1, <2>2, SubmitCalm, ServeCalm
  <2>3. ASSUME NEW e \in Entries, SubmitEntry(e) \/ ServeEntry(e)
        PROVE  Calm'
    BY <1>2, <2>1, <2>3, ServeEntryCalm
  <2> QED
    BY <1>2, <2>1, <2>2, <2>3, CrashCalm, NextDayCalm, StutterCalm DEF Next, Terminating
<1> QED
  BY <1>1, <1>2 DEF IInv, Clean

-----------------------------------------------------------------------------
(***************************************************************************)
(* The theorems                                                            *)
(***************************************************************************)

\* The invariant holds in every state a run reaches.
THEOREM ConfigInvariant == Spec => []IInv
BY InitIInv, StepIInv, PTL DEF Spec

\* Type correctness: among other things no interleaving of saves leaves a row
\* with a negative buffer, an unknown mode or a pause count above MaxPauses.
THEOREM ConfigTypeCorrect == Spec => []TypeOK
<1>1. IInv => TypeOK
  BY DEF IInv, TypeInv
<1> QED
  BY <1>1, ConfigInvariant, PTL

\* Whoever is shown a config is shown the current cycle, and a dated pause that
\* has run its days is over: getByAccountNumber's watchdog and loop.
THEOREM AnswersStayCurrent == Spec => []AnswersAreCurrent
<1>1. ASSUME IInv
      PROVE  AnswersAreCurrent
  BY <1>1 DEF IInv, TypeInv, CallPlace, Looks, Reached, NotDue, Live, AnswersAreCurrent
<1> QED
  BY <1>1, ConfigInvariant, PTL

\* No row has its override flag up without an override: the order of the two
\* writes of manualOverride, and the one transaction of recordTransaction.
THEOREM FlagsAreExplained == Spec => []OverrideFlagExplained
<1>1. IInv => OverrideFlagExplained
  BY DEF IInv, RowInv, Flagged, OverrideFlagExplained
<1> QED
  BY <1>1, ConfigInvariant, PTL

\* Safi's balance is the wallet's, whatever is done to the config meanwhile, as
\* long as every entry found one: also across stale saves.
THEOREM MirrorHolds == Spec => []MirrorUnlessUnrecorded
<1>1. IInv => MirrorUnlessUnrecorded
  BY DEF IInv, RowInv, Based, Unmoved, MirrorUnlessUnrecorded, CurrentBalance
<1> QED
  BY <1>1, ConfigInvariant, PTL

\* A protection that is off has a date, stale saves aside.
THEOREM PausesAreDated == Spec => []NoEndlessPause
<1>1. IInv => NoEndlessPause
  BY DEF IInv, Clean, Calm, Sound, NoEndlessPause
<1> QED
  BY <1>1, ConfigInvariant, PTL

\* A config is granted no more pauses than MaxPauses, stale saves aside.
THEOREM PausesAreLimited == Spec => []PausesLimitedUnlessStale
<1>1. IInv => PausesLimitedUnlessStale
  BY DEF IInv, Clean, Calm, PausesCounted, PausesLimitedUnlessStale
<1> QED
  BY <1>1, ConfigInvariant, PTL

\* No two finished calls close windows that overlap, stale saves aside.
THEOREM WindowsAreClosedOnce == Spec => []WindowsClosedOnce
<1>1. ASSUME IInv
      PROVE  WindowsClosedOnce
  <2>1. SUFFICES ASSUME ~ staleSave, NEW c \in cycles, NEW d \in cycles,
                        c.by # d.by, c.id = d.id, c.start < d.end, d.start < c.end,
                        pc[c.by] = "done", pc[d.by] = "done"
                 PROVE  FALSE
    BY DEF WindowsClosedOnce
  <2>2. c.start \in Int /\ c.end \in Int /\ d.start \in Int /\ d.end \in Int
    BY <1>1 DEF IInv, TypeInv, TypeOK, Days
  <2>3. c.end =< d.start \/ d.end =< c.start
    BY <1>1, <2>1 DEF IInv, Clean, Calm, WindowsInOrder, Settled
  <2> QED
    BY <2>1, <2>2, <2>3
<1> QED
  BY <1>1, ConfigInvariant, PTL

\* What one call's step does to a buffer and to a row that was not there.
LEMMA ServeChanges ==
  ASSUME TypeInv, RowInv, Calm, ~ staleSave', NEW r \in Calls, Serve(r)
  PROVE  /\ row # NoConfig /\ row' # NoConfig /\ row'.remainingBuffer > row.remainingBuffer =>
              pc[r] = "write" /\ pc'[r] # "write" /\ Renews(r)
         /\ row = NoConfig /\ row' # NoConfig => pc[r] = "insert" /\ row'.id = r
<1>0. row # NoConfig => row.remainingBuffer \in Int
  BY DEF TypeInv, TypeOK, Rows
<1>1. CASE row' = row
  BY <1>0, <1>1
<1>2. CASE Insert(r)
  BY <1>1, <1>2, Typed DEF Insert, CallPlace, Write, NotWritten
<1>3. CASE Delete(r)
  BY <1>3 DEF Delete, Write
<1>4. CASE SaveInserts(r)
  BY <1>1, <1>4, SaveInsertsCalm DEF SaveInserts, NotWritten
<1>5. CASE SaveUpdates(r)
  <2>1. /\ pc[r] = "write" /\ r \notin overtaken /\ AfterSave(r, loc[r])
        /\ row \in Rows /\ loc[r].entity \in Rows /\ row' = loc[r].entity
    BY <1>5, SaveUpdatesFacts
  <2>2. \/ loc[r].entity.remainingBuffer =< row.remainingBuffer
        \/ Renews(r)
    BY <2>1 DEF Calm, FlightOf, Live
  <2>3. row.remainingBuffer \in Int /\ loc[r].entity.remainingBuffer \in Int
    BY <2>1 DEF Rows
  <2>4. pc'[r] # "write"
    <3>1. PICK label, k : Goto(r, label, k) /\ Outcome(r, loc[r], label, k)
      BY <2>1, AfterSaveOutcome
    <3>2. label # "write" /\ pc'[r] = label
      BY <3>1, Typed DEF Outcome, Suits, Goto, TypeInv, TypeOK
    <3> QED
      BY <3>2
  <2>5. row # NoConfig
    BY <2>1, LimitTypes
  <2> QED
    BY <2>1, <2>2, <2>3, <2>4, <2>5
<1> QED
  BY <1>1, <1>2, <1>3, <1>4, <1>5
  DEF Serve, FindNothing, Find, ReadWallet, CloseCycle, InsertOverride, SaveReads, NotWritten

\* An entry gives nothing back, and brings no row back.
LEMMA EntryChanges ==
  ASSUME TypeInv, RowInv, Calm, ~ staleSave', NEW e \in Entries, ServeEntry(e)
  PROVE  /\ row # NoConfig /\ row' # NoConfig => ~ (row'.remainingBuffer > row.remainingBuffer)
         /\ row = NoConfig => row' = NoConfig
<1>0. row # NoConfig => row.remainingBuffer \in Int
  BY DEF TypeInv, TypeOK, Rows
<1>1. CASE row' = row
  BY <1>0, <1>1
<1>2. CASE CommitEntry(e) /\ Polices(e)
  <2>1. pc[e] = "commit" /\ Write(e, SavedRow(e)) /\ row' = SavedRow(e) /\ e \in Requests
    BY <1>2, EntryTyped DEF CommitEntry, SavedRow, Write
  <2>2. loc[e].entity = row
    BY <2>1, WriteOvertakes DEF Calm, SeenBy
  <2>3. /\ row = NoConfig => row' = NoConfig
        /\ row # NoConfig => /\ row' \in Rows
                             /\ row'.remainingBuffer =< row.remainingBuffer
    BY <1>2, <2>1, <2>2, SavedRowFacts
  <2>4. row # NoConfig => row'.remainingBuffer \in Int
    BY <2>3 DEF Rows
  <2> QED
    BY <1>0, <2>3, <2>4
<1> QED
  BY <1>1, <1>2 DEF ServeEntry, Enter, Snapshot, CommitEntry, NotWritten

LEMMA StepChanges ==
  ASSUME IInv, [Next]_vars, ~ staleSave'
  PROVE  /\ row # NoConfig /\ row' # NoConfig /\ row'.remainingBuffer > row.remainingBuffer =>
              \E r \in Calls : pc[r] = "write" /\ pc'[r] # "write" /\ Renews(r)
         /\ row = NoConfig /\ row' # NoConfig =>
              \E r \in Calls : pc[r] = "insert" /\ row'.id = r
<1>1. TypeInv /\ RowInv /\ Calm
  BY StaleStays DEF IInv, Clean
<1>2. row # NoConfig => row.remainingBuffer \in Int
  BY <1>1 DEF TypeInv, TypeOK, Rows
<1>3. CASE row' = row
  BY <1>2, <1>3
<1>4. ASSUME NEW r \in Calls, Serve(r)
      PROVE  /\ row # NoConfig /\ row' # NoConfig /\ row'.remainingBuffer > row.remainingBuffer =>
                  pc[r] = "write" /\ pc'[r] # "write" /\ Renews(r)
             /\ row = NoConfig /\ row' # NoConfig => pc[r] = "insert" /\ row'.id = r
  BY <1>1, <1>4, ServeChanges
<1>5. ASSUME NEW e \in Entries, ServeEntry(e)
      PROVE  /\ row # NoConfig /\ row' # NoConfig => ~ (row'.remainingBuffer > row.remainingBuffer)
             /\ row = NoConfig => row' = NoConfig
  BY <1>1, <1>5, EntryChanges
<1>6. \/ row' = row
      \/ \E r \in Calls : Serve(r)
      \/ \E e \in Entries : ServeEntry(e)
  BY DEF Next, vars, Submit, SubmitEntry, Crash, NextDay, Terminating, NotWritten
<1> QED
  BY <1>3, <1>4, <1>5, <1>6

\* Outside a stale save, what a config's buffer has been charged comes back only
\* with a cycle that was closed or a buffer that was asked for.
THEOREM RefillsHaveACause == Spec => BufferRefilledForCause
<1>1. IInv /\ [Next]_vars =>
        ( ( /\ row # NoConfig /\ row' # NoConfig /\ row'.id = row.id
            /\ row'.remainingBuffer > row.remainingBuffer )
          => \/ staleSave'
             \/ \E r \in Calls :
                  /\ pc[r] = "write" /\ pc'[r] # "write"
                  /\ \/ loc[r].stage # "watchdog" /\ loc[r].closed > 0
                     \/ /\ loc[r].stage = "own" /\ req[r].op = "update"
                        /\ "bufferAmount" \in DOMAIN req[r].dto )
  BY StepChanges DEF Renews
<1> QED
  BY <1>1, ConfigInvariant, PTL DEF Spec, BufferRefilledForCause

\* A deactivated config comes back by a create alone, stale saves aside.
THEOREM DeactivatedStaysGone == Spec => RowsReturnByCreate
<1>1. IInv /\ [Next]_vars =>
        ( row = NoConfig /\ row' # NoConfig =>
            staleSave' \/ \E r \in Calls : pc[r] = "insert" /\ row'.id = r )
  BY StepChanges
<1> QED
  BY <1>1, ConfigInvariant, PTL DEF Spec, RowsReturnByCreate

=============================================================================
