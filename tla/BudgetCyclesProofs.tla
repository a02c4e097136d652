------------------------- MODULE BudgetCyclesProofs -------------------------
(***************************************************************************)
(* The invariants of BudgetCycles, for every value of its constants.       *)
(*                                                                         *)
(* TypeInv is the common ground: the types, where the call in flight is    *)
(* and what it knows of the row there (Place).  On it stand, one section   *)
(* and one inductive invariant for each property:                          *)
(*   BreachInv   what the dashboard's queries have seen so far;            *)
(*   OrderInv    the closed cycles lie before the row's window, or before  *)
(*               the entity's while a call is rolling it over;             *)
(*   FlagInv     the overrides lie in or before the row's window, and a    *)
(*               save that is under way knows of the flag;                 *)
(*   BufferInv   what is missing of the buffer has been drawn since the    *)
(*               latest closed cycle;                                      *)
(*   UsedInv     what is missing of the buffer was so when the row's       *)
(*               window ended, or a draw has come since;                   *)
(*   ListInv     where the cycles a failed call has closed lie, which the  *)
(*               next call is going to close again;                        *)
(*   ScoreInv    since its window ended the row's terms have been those in *)
(*               force, and what comes later is dated later.               *)
(***************************************************************************)
EXTENDS BudgetCycles, CycleCalendarProofs, FiniteSetTheorems

-----------------------------------------------------------------------------
(***************************************************************************)
(* Facts about rows                                                        *)
(***************************************************************************)

\* The columns only an update changes.
SameTerms(c, d) ==
  /\ c.income = d.income /\ c.protectedSum = d.protectedSum
  /\ c.baselineBalance = d.baselineBalance /\ c.governanceMode = d.governanceMode
  /\ c.frequency = d.frequency /\ c.customDays = d.customDays
  /\ c.rolloverPreference = d.rolloverPreference
  /\ c.bufferAmount = d.bufferAmount /\ c.isPaused = d.isPaused

SameWindow(c, d) ==
  c.frequency = d.frequency /\ c.customDays = d.customDays /\ c.expiresAt = d.expiresAt

LEMMA Limits ==
  /\ FirstDay \in Nat /\ LastDay \in Nat /\ FirstDay =< LastDay
  /\ MaxEntries \in Nat /\ MaxCalls \in Nat
  /\ Debits \subseteq Nat /\ Credits \subseteq Nat /\ OpeningBalance \in Nat
  /\ NoConfig \notin Configs /\ Nothing \notin Int
BY ConstantsAssumption

\* The end of a period that begins on a date of the model.
LEMMA NextDate ==
  ASSUME NEW c, c.frequency \in Frequencies, c.customDays \in Nat,
         NEW d \in 0 .. LastDay,
         c.expiresAt = ComputeExpiresAt(c.frequency, d, c.customDays)
  PROVE  /\ DatedBy(c, LastDay)
         /\ c.expiresAt \in Nat /\ WindowStart(c) \in Nat
         /\ d < c.expiresAt /\ d =< WindowStart(c) /\ WindowStart(c) < c.expiresAt
         /\ c.frequency # "monthly" => WindowStart(c) = d
<1>1. d \in Nat /\ d < MonthStart[LastMonth] /\ AddMonths(d, 1) < MonthStart[LastMonth]
  BY ConstantsAssumption
<1>2. /\ c.expiresAt \in Nat /\ WindowStart(c) \in Nat
      /\ d =< WindowStart(c) /\ WindowStart(c) < c.expiresAt
      /\ c.frequency # "monthly" => WindowStart(c) = d
  BY <1>1, WindowsFollowTheirDate
<1> QED
  BY <1>1, <1>2 DEF DatedBy

LEMMA NextDateType ==
  ASSUME NEW frequency \in Frequencies, NEW customDays \in Nat, NEW d \in 0 .. LastDay
  PROVE  /\ ComputeExpiresAt(frequency, d, customDays) \in Nat
         /\ d < ComputeExpiresAt(frequency, d, customDays)
<1> DEFINE c == [ frequency |-> frequency, customDays |-> customDays,
                  expiresAt |-> ComputeExpiresAt(frequency, d, customDays) ]
<1>1. /\ c.frequency = frequency /\ c.customDays = customDays
      /\ c.expiresAt = ComputeExpiresAt(frequency, d, customDays)
  OBVIOUS
<1> HIDE DEF c
<1>2. c.expiresAt \in Nat /\ d < c.expiresAt
  BY <1>1, NextDate
<1> QED
  BY <1>1, <1>2

LEMMA WindowOf ==
  ASSUME NEW c \in Configs, DatedBy(c, LastDay)
  PROVE  WindowStart(c) \in Nat /\ WindowStart(c) < c.expiresAt
<1>1. c.frequency \in Frequencies /\ c.customDays \in Nat
  BY DEF Configs
<1>2. PICK d \in 0 .. LastDay :
        c.expiresAt = ComputeExpiresAt(c.frequency, d, c.customDays)
  BY DEF DatedBy
<1> QED
  BY <1>1, <1>2, NextDate

\* A row with the same window has the same start, and is dated alike.
LEMMA SameStart ==
  ASSUME NEW c, NEW d, SameWindow(c, d)
  PROVE  WindowStart(c) = WindowStart(d) /\ (DatedBy(c, LastDay) <=> DatedBy(d, LastDay))
BY DEF SameWindow, WindowStart, DatedBy

LEMMA NextWindowRow ==
  ASSUME NEW e \in Configs, e.expiresAt =< LastDay
  PROVE  LET d == NextWindow(e) IN
         /\ d \in Configs /\ SameTerms(d, e)
         /\ d.overrideActive = e.overrideActive /\ d.remainingBuffer = e.remainingBuffer
         /\ d.expiresAt = ComputeExpiresAt(e.frequency, e.expiresAt, e.customDays)
         /\ DatedBy(d, LastDay) /\ WindowStart(d) \in Nat
         /\ e.expiresAt =< WindowStart(d) /\ e.expiresAt < d.expiresAt
         /\ d.frequency # "monthly" => WindowStart(d) = e.expiresAt
<1> DEFINE d == NextWindow(e)
           x == ComputeExpiresAt(e.frequency, e.expiresAt, e.customDays)
<1>1. e.frequency \in Frequencies /\ e.customDays \in Nat /\ e.expiresAt \in 0 .. LastDay
  BY Limits DEF Configs
<1>2. x \in Nat
  BY <1>1, NextDateType
<1>3. d = [e EXCEPT !.expiresAt = x]
  BY DEF NextWindow
<1> HIDE DEF x
<1>4. /\ d \in Configs /\ SameTerms(d, e) /\ d.expiresAt = x
      /\ d.overrideActive = e.overrideActive /\ d.remainingBuffer = e.remainingBuffer
  BY <1>2, <1>3 DEF Configs, SameTerms
<1>5. d.frequency = e.frequency /\ d.customDays = e.customDays
  BY <1>4 DEF SameTerms
<1> HIDE DEF d
<1>6. /\ DatedBy(d, LastDay) /\ WindowStart(d) \in Nat
      /\ e.expiresAt =< WindowStart(d) /\ e.expiresAt < d.expiresAt
      /\ d.frequency # "monthly" => WindowStart(d) = e.expiresAt
  BY <1>1, <1>4, <1>5, NextDate DEF x
<1> QED
  BY <1>4, <1>6 DEF d, x

LEMMA RenewedRow ==
  ASSUME NEW e \in Configs
  PROVE  LET d == Renewed(e) IN
         /\ d \in Configs /\ SameTerms(d, e) /\ SameWindow(d, e)
         /\ ~ d.overrideActive /\ d.remainingBuffer = d.bufferAmount
BY DEF Renewed, Configs, SameTerms, SameWindow

LEMMA MergedRow ==
  ASSUME NEW e \in Configs, NEW dto \in UpdateDtos
  PROVE  LET d == Merged(e, dto) IN
         /\ d \in Configs
         /\ d.baselineBalance = e.baselineBalance /\ d.expiresAt = e.expiresAt
         /\ d.overrideActive = e.overrideActive /\ d.remainingBuffer = e.remainingBuffer
         /\ "frequency" \notin DOMAIN dto => d.frequency = e.frequency
         /\ "customDays" \notin DOMAIN dto => d.customDays = e.customDays
         /\ d.bufferAmount =
              IF "bufferAmount" \in DOMAIN dto THEN dto.bufferAmount ELSE e.bufferAmount
<1> DEFINE d == Merged(e, dto)
<1>1. /\ DOMAIN dto \subseteq
           { "income", "protectedSum", "governanceMode", "frequency", "customDays",
             "rolloverPreference", "cardBehaviour", "bufferAmount" }
      /\ "income" \in DOMAIN dto => dto.income \in Nat
      /\ "protectedSum" \in DOMAIN dto => dto.protectedSum \in Nat
      /\ "governanceMode" \in DOMAIN dto => dto.governanceMode \in GovernanceModes
      /\ "frequency" \in DOMAIN dto => dto.frequency \in Frequencies
      /\ "customDays" \in DOMAIN dto => dto.customDays \in Nat
      /\ "rolloverPreference" \in DOMAIN dto =>
           dto.rolloverPreference \in {"return_to_reserve", "rollover"}
      /\ "cardBehaviour" \in DOMAIN dto => dto.cardBehaviour \in CardBehaviours
      /\ "bufferAmount" \in DOMAIN dto => dto.bufferAmount \in Nat
  BY DtosAssumption DEF DtoTypes
<1>2. DOMAIN e =
        { "income", "protectedSum", "baselineBalance", "governanceMode", "frequency",
          "customDays", "expiresAt", "rolloverPreference", "cardBehaviour",
          "bufferAmount", "remainingBuffer", "isPaused", "overrideActive" }
  BY DEF Configs
<1>3. d = [col \in DOMAIN e |-> IF col \in DOMAIN dto THEN dto[col] ELSE e[col]]
  BY DEF Merged
<1>4. d \in Configs
  BY <1>1, <1>2, <1>3 DEF Configs
<1> QED
  BY <1>1, <1>2, <1>3, <1>4

LEMMA UpdatedRow ==
  ASSUME NEW e \in Configs, DatedBy(e, LastDay), NEW dto \in UpdateDtos, now \in Days
  PROVE  LET d == Updated(e, dto) IN
         /\ d \in Configs /\ DatedBy(d, LastDay)
         /\ d.baselineBalance = e.baselineBalance
         /\ d.overrideActive = e.overrideActive
         /\ ~ Restarts(dto) => SameWindow(d, e)
         /\ Restarts(dto) => now =< WindowStart(d) /\ now < d.expiresAt
         /\ \/ d.remainingBuffer = d.bufferAmount
            \/ d.remainingBuffer = e.remainingBuffer /\ d.bufferAmount = e.bufferAmount
<1> DEFINE d == Updated(e, dto)
           m == Merged(e, dto)
           x == IF Restarts(dto) THEN ComputeExpiresAt(m.frequency, now, m.customDays)
                                 ELSE m.expiresAt
           y == IF "bufferAmount" \in DOMAIN dto THEN dto.bufferAmount
                                                 ELSE m.remainingBuffer
<1>1. /\ m \in Configs
      /\ m.baselineBalance = e.baselineBalance /\ m.expiresAt = e.expiresAt
      /\ m.overrideActive = e.overrideActive /\ m.remainingBuffer = e.remainingBuffer
      /\ "frequency" \notin DOMAIN dto => m.frequency = e.frequency
      /\ "customDays" \notin DOMAIN dto => m.customDays = e.customDays
      /\ m.bufferAmount =
           IF "bufferAmount" \in DOMAIN dto THEN dto.bufferAmount ELSE e.bufferAmount
  BY MergedRow
<1>2. now \in 0 .. LastDay /\ m.frequency \in Frequencies /\ m.customDays \in Nat
  BY <1>1, Limits DEF Days, Configs
<1>3. d = [m EXCEPT !.expiresAt = x, !.remainingBuffer = y]
  BY DEF Updated
<1>4. x \in Nat /\ y \in Nat
  BY <1>1, <1>2, NextDateType DEF Configs
<1> HIDE DEF m, d
<1>5. /\ d \in Configs /\ d.expiresAt = x /\ d.remainingBuffer = y
      /\ d.frequency = m.frequency /\ d.customDays = m.customDays
      /\ d.baselineBalance = m.baselineBalance /\ d.overrideActive = m.overrideActive
      /\ d.bufferAmount = m.bufferAmount
  <2> HIDE DEF x, y
  <2> QED
    BY <1>1, <1>3, <1>4 DEF Configs
<1>6. ~ Restarts(dto) => SameWindow(d, e)
  BY <1>1, <1>5 DEF Restarts, SameWindow
<1>7. Restarts(dto) => now =< WindowStart(d) /\ now < d.expiresAt /\ DatedBy(d, LastDay)
  BY <1>2, <1>5, NextDate
<1>8. DatedBy(d, LastDay)
  BY <1>6, <1>7, SameStart
<1>9. \/ d.remainingBuffer = d.bufferAmount
      \/ d.remainingBuffer = e.remainingBuffer /\ d.bufferAmount = e.bufferAmount
  BY <1>1, <1>5
<1> QED
  BY <1>1, <1>5, <1>6, <1>7, <1>8, <1>9 DEF d

\* What an UPDATE leaves of a row: the columns the row still has as they were read
\* become the entity's, every other is one or the other.
LEMMA DifferingRow ==
  ASSUME NEW c \in Configs, NEW e \in Configs, NEW s \in Configs
  PROVE  LET d == Differing(c, e, s) IN
         /\ d \in Configs
         /\ SameTerms(s, c) => SameTerms(d, e)
         /\ SameWindow(s, c) => SameWindow(d, e)
         /\ s.baselineBalance = c.baselineBalance => d.baselineBalance = e.baselineBalance
         /\ s.bufferAmount = c.bufferAmount => d.bufferAmount = e.bufferAmount
         /\ s.remainingBuffer = c.remainingBuffer => d.remainingBuffer = e.remainingBuffer
         /\ d.remainingBuffer \in {c.remainingBuffer, e.remainingBuffer}
         /\ s.overrideActive = c.overrideActive => d.overrideActive = e.overrideActive
         /\ s.overrideActive = e.overrideActive => d.overrideActive = c.overrideActive
<1>1. Differing(c, e, s) \in Configs
  BY DEF Differing, Configs
<1> QED
  BY <1>1 DEF Differing, Configs, SameTerms, SameWindow

\* A debit touches the buffer left, the card behaviour and the override flag.
LEMMA RowAfterDebit ==
  ASSUME NEW c \in Configs, NEW s \in Configs, NEW n, NEW spent,
         NEW a \in Nat, NEW b \in Nat
  PROVE  LET seen == Joined(s, [cycleDays |-> n])
             d == ConfigAfterDebit(c, seen, a, b, spent)
         IN /\ d \in Configs /\ SameTerms(d, c) /\ SameWindow(d, c)
            /\ DrawsOnBuffer(s, b) \/ d.remainingBuffer = c.remainingBuffer
            /\ d.overrideActive =
                 ( c.overrideActive \/ ( /\ ~ s.overrideActive
                                         /\ TriggersOverride(seen, b, spent) ) )
<1> DEFINE seen == Joined(s, [cycleDays |-> n])
           left == BufferLeft(seen, a, b)
           draws == DrawsOnBuffer(seen, b)
           remaining == IF left > 0 THEN left ELSE 0
           x == IF draws /\ remaining # seen.remainingBuffer
                THEN remaining ELSE c.remainingBuffer
           y == IF draws /\ left =< 0 THEN "hard_decline" ELSE c.cardBehaviour
           z == c.overrideActive \/ ( /\ ~ seen.overrideActive
                                      /\ TriggersOverride(seen, b, spent) )
           d == ConfigAfterDebit(c, seen, a, b, spent)
<1>1. /\ seen.protectedSum = s.protectedSum /\ seen.cardBehaviour = s.cardBehaviour
      /\ seen.remainingBuffer = s.remainingBuffer
      /\ seen.overrideActive = s.overrideActive
  BY DEF Configs, Joined
<1>2. d = [c EXCEPT !.remainingBuffer = x, !.cardBehaviour = y, !.overrideActive = z]
  BY DEF ConfigAfterDebit
<1>3. s.protectedSum \in Nat /\ s.remainingBuffer \in Nat /\ c.remainingBuffer \in Nat
  BY DEF Configs
<1> HIDE DEF seen
<1>4. draws => left \in Int
  BY <1>1, <1>3 DEF DrawsOnBuffer, BufferLeft, BufferUsed, BreachesReserve
<1>5. draws <=> DrawsOnBuffer(s, b)
  BY <1>1 DEF DrawsOnBuffer, BreachesReserve
<1>6. x \in Nat /\ (draws \/ x = c.remainingBuffer)
  BY <1>3, <1>4
<1>7. y \in CardBehaviours /\ z \in BOOLEAN
  BY DEF CardBehaviours, Configs
<1>8. z = (c.overrideActive \/ (~ s.overrideActive /\ TriggersOverride(seen, b, spent)))
  BY <1>1
<1> HIDE DEF x, y, z, draws
<1>9. /\ d \in Configs /\ SameTerms(d, c) /\ SameWindow(d, c)
      /\ d.remainingBuffer = x /\ d.overrideActive = z
  BY <1>2, <1>6, <1>7 DEF Configs, SameTerms, SameWindow
<1> QED
  BY <1>5, <1>6, <1>8, <1>9 DEF seen

-----------------------------------------------------------------------------
(***************************************************************************)
(* What a closed cycle is made of                                          *)
(***************************************************************************)

LEMMA MaxZero ==
  ASSUME NEW x \in Int
  PROVE  Max({0, x}) = IF x > 0 THEN x ELSE 0
<1>1. CASE x > 0
  <2>1. \A y \in {0, x} : (\A z \in {0, x} : y >= z) <=> y = x
    BY <1>1
  <2> QED
    BY <1>1, <2>1 DEF Max
<1>2. CASE ~ (x > 0)
  <2>1. \A y \in {0, x} : (\A z \in {0, x} : y >= z) <=> y = 0
    BY <1>2
  <2> QED
    BY <1>2, <2>1 DEF Max
<1> QED
  BY <1>1, <1>2

LEMMA MinHundred ==
  ASSUME NEW x \in Nat
  PROVE  Min({100, x}) \in 0 .. 100
<1>1. CASE x > 100
  <2>1. \A y \in {100, x} : (\A z \in {100, x} : y =< z) <=> y = 100
    BY <1>1
  <2> QED
    BY <1>1, <2>1 DEF Min
<1>2. CASE ~ (x > 100)
  <2>1. \A y \in {100, x} : (\A z \in {100, x} : y =< z) <=> y = x
    BY <1>2
  <2> QED
    BY <1>2, <2>1 DEF Min
<1> QED
  BY <1>1, <1>2

\* The largest of some of the first n numbers.
LEMMA MaxOfIndices ==
  ASSUME NEW n \in Nat, NEW S \in SUBSET (1 .. n), S # {}
  PROVE  Max(S) \in S
<1> DEFINE T == {n - k : k \in S}
<1>0. S \subseteq 1 .. n
  OBVIOUS
<1>1. T \subseteq Nat /\ T # {}
  <2>1. \A k \in S : k \in Nat /\ n - k \in Nat
    BY <1>0
  <2> QED
    BY <2>1
<1>2. PICK x \in T : \A y \in T : x =< y
  BY <1>1, LeastElement
<1>3. PICK k \in S : x = n - k
  OBVIOUS
<1>4. \A l \in S : k >= l
  <2> SUFFICES ASSUME NEW l \in S
               PROVE  k >= l
    OBVIOUS
  <2>1. x =< n - l
    BY <1>2
  <2>2. k \in Nat /\ l \in Nat
    BY <1>0
  <2> HIDE DEF T
  <2> QED
    BY <1>3, <2>1, <2>2
<1> QED
  BY <1>4 DEF Max

LEMMA BalanceType ==
  ASSUME NEW c \in Configs, NEW rows \in Seq(Rows), NEW date
  PROVE  CurrentBalance(c, rows) \in Nat /\ BalanceAsOf(c, rows, date) \in Nat
<1> DEFINE upTo == {i \in DOMAIN rows : rows[i].at =< date}
<1>1. Len(rows) \in Nat /\ upTo \in SUBSET (1 .. Len(rows))
  OBVIOUS
<1>2. \A i \in DOMAIN rows : rows[i].after \in Nat
  <2>1. \A i \in DOMAIN rows : rows[i] \in Rows
    OBVIOUS
  <2> QED
    BY <2>1 DEF Rows
<1>3. upTo # {} => Max(upTo) \in DOMAIN rows
  BY <1>1, MaxOfIndices
<1>4. c.baselineBalance \in Nat
  BY DEF Configs
<1>5. rows # <<>> => Len(rows) \in DOMAIN rows
  OBVIOUS
<1> QED
  BY <1>2, <1>3, <1>4, <1>5 DEF CurrentBalance, BalanceAsOf, Last

LEMMA CountType ==
  ASSUME NEW flags \in Seq(Overrides), NEW start, NEW end
  PROVE  Cardinality(OverridesBetween(flags, start, end)) \in Nat
<1>1. OverridesBetween(flags, start, end) \subseteq 1 .. Len(flags)
  BY DEF OverridesBetween
<1>2. IsFiniteSet(1 .. Len(flags))
  BY FS_Interval
<1> QED
  BY <1>1, <1>2, FS_Subset, FS_CardinalityType

LEMMA ScoreType ==
  ASSUME NEW c \in Configs, NEW breached \in BOOLEAN, NEW n \in Nat
  PROVE  ComplianceScore(c, breached, n) \in 0 .. 100 /\ BufferSpent(c) \in Nat
<1>1. BufferSpent(c) \in Nat
  BY MaxZero DEF BufferSpent, Configs
<1>2. RawScore(c, breached, n) \in Int
  BY DEF RawScore
<1>3. Max({0, RawScore(c, breached, n)}) \in Nat
  BY <1>2, MaxZero
<1> QED
  BY <1>1, <1>3, MinHundred DEF ComplianceScore

LEMMA AllocationType ==
  ASSUME NEW c \in Configs, NEW rows \in Seq(Cycles), NEW p
  PROVE  Allocation(c, rows, p) \in Int
<1>1. CarriedOver(c, rows, p) \in Int
  <2>1. CASE p \in DOMAIN rows
    <3>0. rows[p] \in Cycles
      BY <2>1
    <3>1. rows[p].netAmount \in Int /\ rows[p].allocation \in Int
      BY <3>0 DEF Cycles
    <3> QED
      BY <3>1, MaxZero DEF CarriedOver
  <2>2. CASE p \notin DOMAIN rows
    BY <2>2 DEF CarriedOver
  <2> QED
    BY <2>1, <2>2
<1> QED
  BY <1>1 DEF Allocation, Configs

\* The columns closeCycle fills in.
Amounts ==
  {"start", "end", "allocation", "netAmount", "outcome", "overrideCount", "bufferUsed",
   "complianceScore"}

LEMMA ClosedCycleColumns ==
  ASSUME NEW c, NEW rows, NEW flags, NEW old, NEW p
  PROVE  DOMAIN ClosedCycle(c, rows, flags, old, p) = Amounts
BY DEF ClosedCycle, Amounts

\* The row closeCycle inserts.
LEMMA ClosedCycleRow ==
  ASSUME NEW c \in Configs, DatedBy(c, LastDay), NEW rows \in Seq(Rows),
         Len(rows) =< MaxEntries, NEW flags \in Seq(Overrides),
         NEW old \in Seq(Cycles), NEW p, NEW first \in BOOLEAN, NEW epoch \in Int
  PROVE  LET d == Joined(ClosedCycle(c, rows, flags, old, p),
                         [seen |-> Len(rows), first |-> first,
                          frequency |-> c.frequency, epoch |-> epoch])
         IN /\ d \in Cycles
            /\ d.start = WindowStart(c) /\ d.end = c.expiresAt
            /\ d.bufferUsed = BufferSpent(c) /\ d.seen = Len(rows)
            /\ d.first = first /\ d.frequency = c.frequency /\ d.epoch = epoch
            /\ \A col \in Amounts : d[col] = ClosedCycle(c, rows, flags, old, p)[col]
<1> DEFINE start == WindowStart(c)
           count == Cardinality(OverridesBetween(flags, start, c.expiresAt))
           breached == Breached(c, BalanceAsOf(c, rows, c.expiresAt), rows,
                                RowsBetween(rows, start, c.expiresAt))
           allocation == Allocation(c, old, p)
           net == Remaining(c, BalanceAsOf(c, rows, c.expiresAt)) - allocation
           score == ComplianceScore(c, breached, count)
           z == ClosedCycle(c, rows, flags, old, p)
           d == Joined(z, [seen |-> Len(rows), first |-> first,
                           frequency |-> c.frequency, epoch |-> epoch])
<1>1. start \in Nat /\ c.expiresAt \in Nat /\ c.frequency \in Frequencies
  BY WindowOf DEF Configs
<1>2. count \in Nat /\ allocation \in Int
  BY CountType, AllocationType
<1>3. net \in Int
  <2>1. Remaining(c, BalanceAsOf(c, rows, c.expiresAt)) \in Int
    BY BalanceType, MaxZero DEF Remaining, Configs
  <2> QED
    BY <2>1, <1>2
<1>4. score \in 0 .. 100 /\ BufferSpent(c) \in Nat
  BY <1>2, ScoreType DEF Breached
<1>5. Outcome(net) \in {"returned", "over_budget", "exact"}
  BY <1>3 DEF Outcome
<1>6. Len(rows) \in 0 .. MaxEntries
  BY Limits
<1>7. z = [ start |-> start, end |-> c.expiresAt, allocation |-> allocation,
            netAmount |-> net, outcome |-> Outcome(net), overrideCount |-> count,
            bufferUsed |-> BufferSpent(c), complianceScore |-> score ]
  BY DEF ClosedCycle
<1> HIDE DEF start, count, breached, allocation, net, score, z
<1>8. d = [ start |-> start, end |-> c.expiresAt, allocation |-> allocation,
            netAmount |-> net, outcome |-> Outcome(net), overrideCount |-> count,
            bufferUsed |-> BufferSpent(c), complianceScore |-> score,
            seen |-> Len(rows), first |-> first, frequency |-> c.frequency,
            epoch |-> epoch ]
  BY <1>7 DEF Joined
<1> HIDE DEF d
<1>9. d \in Cycles
  BY <1>1, <1>2, <1>3, <1>4, <1>5, <1>6, <1>8 DEF Cycles
<1>10. \A col \in Amounts : d[col] = z[col]
  BY <1>7, <1>8 DEF Amounts
<1> QED
  BY <1>8, <1>9, <1>10 DEF start, d, z

-----------------------------------------------------------------------------
(***************************************************************************)
(* Types, and where the call is                                            *)
(***************************************************************************)

CallTypes ==
  [ op : {Nothing, "dashboard", "history", "update"}, dto : UpdateDtos \union {Nothing},
    pc : Steps \union {"idle"}, entity : Configs \union {NoConfig},
    stored : Configs \union {NoConfig}, startedAt : Days, closed : Nat,
    from : Nat \union {Nothing}, at : Days, rowsBreached : BOOLEAN, balance : Int,
    truths : SUBSET BOOLEAN, passed : Nat ]

Saving == {"save_read", "save"}

Viewing == {"rows", "balance", "overrides", "list"}

\* What call l knows of its request.
Asked(l) ==
  /\ l.op \in {"dashboard", "history", "update"}
  /\ l.op = "update" => l.dto \in UpdateDtos
  /\ l.from # Nothing => l.op = "history"

\* ... of the entity it rolls over: the row itself, moved on window by window ...
RollsOver(l, row) ==
  /\ SameTerms(l.entity, row) /\ row.expiresAt =< l.startedAt
  /\ IF l.closed = 0 THEN l.pc = "close" /\ SameWindow(l.entity, row)
                     ELSE row.expiresAt =< WindowStart(l.entity)
  /\ l.pc = "close" => l.entity.expiresAt =< l.startedAt
  /\ l.pc # "close" =>
       /\ l.startedAt < l.entity.expiresAt
       /\ ~ l.entity.overrideActive
       /\ l.entity.remainingBuffer = l.entity.bufferAmount

\* ... and of the entity it is going to save for the customer.
Updates(l, row) ==
  /\ l.op = "update"
  /\ l.entity.baselineBalance = row.baselineBalance
  /\ IF Restarts(l.dto) THEN l.startedAt =< WindowStart(l.entity)
                        ELSE SameWindow(l.entity, row)

Place(l, row) ==
  /\ l.pc = "idle" => l = Idle
  /\ l.pc # "idle" => Asked(l)
  /\ l.pc = "find" => l.closed = 0
  /\ l.pc \in Steps \ {"find"} => l.entity \in Configs /\ DatedBy(l.entity, LastDay)
  /\ l.pc \in RollingOver => RollsOver(l, row)
  /\ l.pc \in {"renew", "save"} =>
       l.stored \in Configs /\ SameTerms(l.stored, row) /\ SameWindow(l.stored, row)
  /\ l.pc \in Saving => Updates(l, row)
  /\ l.pc \in Viewing => l.op = "dashboard" \/ (l.op = "history" /\ l.from # Nothing)
  /\ l.pc = "list" => l.op = "history"

Posted ==
  pending # NoEntry =>
    /\ pending.row \in Rows /\ pending.seen \in Configs
    /\ pending.row.at =< now /\ Len(ledger) < MaxEntries
    /\ pending.row.drew =
         ( /\ pending.row.debit /\ ~ pending.seen.isPaused
           /\ DrawsOnBuffer(pending.seen, pending.row.after) )

TypeInv ==
  /\ TypeOK
  /\ DatedBy(config, LastDay)
  /\ restarts \in Nat
  /\ call \in CallTypes /\ call.startedAt =< now /\ Place(call, config)
  /\ Posted

-----------------------------------------------------------------------------
(***************************************************************************)
(* What a step leaves of the row and of the call                           *)
(***************************************************************************)

LEMMA IdleCall == Idle \in CallTypes /\ Idle.pc = "idle" /\ Idle.startedAt = FirstDay
BY Limits DEF Idle, CallTypes, Days

\* A row that agrees on terms and window is as good.
LEMMA PlaceKept ==
  ASSUME NEW l, NEW row, NEW other, SameTerms(other, row), SameWindow(other, row),
         Place(l, row)
  PROVE  Place(l, other)
BY DEF Place, RollsOver, Updates, SameTerms, SameWindow

\* getByAccountNumber has returned, and the row is like the entity.
LEMMA OwnPlace ==
  ASSUME NEW l \in CallTypes, Own(l), now \in Days, NEW row,
         Asked(l), l.entity \in Configs, DatedBy(l.entity, LastDay),
         l.startedAt =< now,
         SameTerms(l.entity, row), SameWindow(l.entity, row)
  PROVE  call' \in CallTypes /\ call'.startedAt =< now /\ Place(call', row)
<1> USE Limits
<1>1. CASE l.op = "dashboard" /\ Goto("rows", l)
  <2>1. call' = [l EXCEPT !.pc = "rows"]
    BY <1>1 DEF Goto
  <2> QED
    BY <2>1, <1>1 DEF CallTypes, Steps, Place, Asked, RollingOver, Saving, Viewing
<1>2. CASE l.op = "history" /\ l.from # Nothing /\ Goto("rows", l)
  <2>1. call' = [l EXCEPT !.pc = "rows"]
    BY <1>2 DEF Goto
  <2> QED
    BY <2>1, <1>2 DEF CallTypes, Steps, Place, Asked, RollingOver, Saving, Viewing
<1>3. CASE /\ l.op = "history" /\ l.from = Nothing
           /\ Goto("find", [l EXCEPT !.from = Label(l.entity), !.closed = 0])
  <2>1. call' = [l EXCEPT !.from = WindowStart(l.entity), !.closed = 0, !.pc = "find"]
    BY <1>3 DEF Goto, Label, CallTypes
  <2>2. WindowStart(l.entity) \in Nat
    BY WindowOf
  <2> QED
    BY <2>1, <2>2, <1>3
    DEF CallTypes, Steps, Place, Asked, RollingOver, Saving, Viewing
<1>4. CASE /\ l.op = "update"
           /\ Goto("save_read", [l EXCEPT !.entity = Updated(@, l.dto)])
  <2> DEFINE u == Updated(l.entity, l.dto)
  <2>1. call' = [l EXCEPT !.entity = u, !.pc = "save_read"]
    BY <1>4 DEF Goto, CallTypes
  <2>2. l.dto \in UpdateDtos
    BY <1>4 DEF Asked
  <2>3. /\ u \in Configs /\ DatedBy(u, LastDay)
        /\ u.baselineBalance = l.entity.baselineBalance
        /\ ~ Restarts(l.dto) => SameWindow(u, l.entity)
        /\ Restarts(l.dto) => now =< WindowStart(u) /\ now < u.expiresAt
    BY <2>2, UpdatedRow
  <2>4. WindowStart(u) \in Nat
    BY <2>3, WindowOf
  <2> HIDE DEF u
  <2>5. /\ call' \in CallTypes /\ call'.pc = "save_read" /\ call'.entity = u
        /\ call'.startedAt = l.startedAt /\ call'.op = "update" /\ call'.dto = l.dto
        /\ call'.from = l.from
    BY <2>1, <2>3, <1>4 DEF CallTypes, Steps
  <2>6. l.startedAt =< WindowStart(u) \/ ~ Restarts(l.dto)
    BY <2>3, <2>4 DEF CallTypes, Days
  <2>7. Updates(call', row)
    BY <2>3, <2>5, <2>6 DEF Updates, SameTerms, SameWindow
  <2> QED
    BY <1>4, <2>2, <2>3, <2>5, <2>7
    DEF Place, Asked, Steps, RollingOver, Saving, Viewing
<1>5. CASE Goto("idle", Idle)
  <2>1. call' = Idle
    BY <1>5 DEF Goto, Idle
  <2> QED
    BY <2>1, IdleCall
    DEF Place, Steps, RollingOver, Saving, Viewing, Days
<1> QED
  BY <1>1, <1>2, <1>3, <1>4, <1>5 DEF Own

\* The loop of ensureCurrentCycle goes on, or what follows it comes.
LEMMA LoopPlace ==
  ASSUME NEW l \in CallTypes, Loop(l), now \in Days, NEW row \in Configs,
         Asked(l), l.entity \in Configs, DatedBy(l.entity, LastDay),
         l.startedAt =< now, SameTerms(l.entity, row),
         IF l.closed = 0 THEN SameWindow(l.entity, row)
         ELSE row.expiresAt =< l.startedAt /\ row.expiresAt =< WindowStart(l.entity)
  PROVE  call' \in CallTypes /\ call'.startedAt =< now /\ Place(call', row)
<1> USE Limits
<1>1. l.entity.expiresAt \in Nat /\ l.startedAt \in Nat /\ l.closed \in Nat
  BY DEF CallTypes, Configs, Days
<1>2. CASE Rolling(l) /\ Goto("close", l)
  <2>1. call' = [l EXCEPT !.pc = "close"]
    BY <1>2 DEF Goto
  <2>2. /\ call' \in CallTypes /\ call'.pc = "close" /\ call'.entity = l.entity
        /\ call'.startedAt = l.startedAt /\ call'.op = l.op /\ call'.dto = l.dto
        /\ call'.from = l.from /\ call'.closed = l.closed
    BY <2>1 DEF CallTypes, Steps
  <2>3. RollsOver(call', row)
    BY <1>1, <1>2, <2>2 DEF RollsOver, Rolling, SameWindow
  <2> QED
    BY <2>2, <2>3 DEF Place, Asked, Steps, RollingOver, Saving, Viewing
<1>3. CASE /\ ~ Rolling(l) /\ l.closed > 0
           /\ Goto("renew_read", [l EXCEPT !.entity = Renewed(@)])
  <2> DEFINE e == Renewed(l.entity)
  <2>1. call' = [l EXCEPT !.entity = e, !.pc = "renew_read"]
    BY <1>3 DEF Goto, CallTypes
  <2>2. /\ e \in Configs /\ SameTerms(e, l.entity) /\ SameWindow(e, l.entity)
        /\ ~ e.overrideActive /\ e.remainingBuffer = e.bufferAmount
    BY RenewedRow
  <2>3. DatedBy(e, LastDay) /\ WindowStart(e) = WindowStart(l.entity)
    BY <2>2, SameStart
  <2> HIDE DEF e
  <2>4. /\ call' \in CallTypes /\ call'.pc = "renew_read" /\ call'.entity = e
        /\ call'.startedAt = l.startedAt /\ call'.op = l.op /\ call'.dto = l.dto
        /\ call'.from = l.from /\ call'.closed = l.closed
    BY <2>1, <2>2 DEF CallTypes, Steps
  <2>5. RollsOver(call', row)
    BY <1>1, <1>3, <2>2, <2>3, <2>4 DEF RollsOver, Rolling, SameTerms, SameWindow
  <2> QED
    BY <2>2, <2>3, <2>4, <2>5 DEF Place, Asked, Steps, RollingOver, Saving, Viewing
<1>4. CASE ~ Rolling(l) /\ l.closed = 0 /\ Own(l)
  BY <1>4, OwnPlace
<1> QED
  BY <1>2, <1>3, <1>4 DEF Loop

\* What is left to show of a step of the call.
LEMMA CallStep ==
  ASSUME TypeInv, Quiet, config' \in Configs, DatedBy(config', LastDay),
         cycles' \in Seq(Cycles), restarts' \in Nat, slips' \subseteq Slips,
         call' \in CallTypes, call'.startedAt =< now, Place(call', config')
  PROVE  TypeInv'
<1>1. /\ balance' = balance /\ ledger' = ledger /\ overrides' = overrides
      /\ now' = now /\ pending' = pending /\ asked' = asked
  BY DEF Quiet
<1>2. call'.pc \in Steps \union {"idle"}
  BY DEF CallTypes
<1>3. call'.entity \in Configs \union {NoConfig}
  BY DEF CallTypes
<1>4. TypeOK'
  BY <1>1, <1>2, <1>3 DEF TypeInv, TypeOK
<1>5. Posted'
  BY <1>1 DEF TypeInv, Posted
<1> QED
  BY <1>1, <1>4, <1>5 DEF TypeInv

LEMMA TypeFacts ==
  ASSUME TypeInv
  PROVE  /\ config \in Configs /\ now \in Days /\ now \in Nat /\ now =< LastDay
         /\ FirstDay =< now
         /\ call \in CallTypes /\ call.startedAt \in Nat /\ call.startedAt =< now
         /\ ledger \in Seq(Rows) /\ Len(ledger) =< MaxEntries
         /\ cycles \in Seq(Cycles) /\ overrides \in Seq(Overrides)
         /\ DatedBy(config, LastDay) /\ restarts \in Nat /\ slips \subseteq Slips
BY Limits DEF TypeInv, TypeOK, Days, CallTypes

-----------------------------------------------------------------------------
(***************************************************************************)
(* TypeInv holds                                                           *)
(***************************************************************************)

LEMMA TypeInit == Init => TypeInv
<1> SUFFICES ASSUME Init
             PROVE  TypeInv
  OBVIOUS
<1> USE Limits
<1>1. PICK s \in Setups : config = s.config /\ cycles = s.cycles
  BY DEF Init
<1>2. config \in Configs /\ cycles \in Seq(Cycles) /\ DatedBy(config, LastDay)
  BY <1>1, SetupsAssumption
<1>3. /\ balance = OpeningBalance /\ ledger = <<>> /\ overrides = <<>>
      /\ now = FirstDay /\ pending = NoEntry /\ call = Idle /\ asked = 0
      /\ restarts = 0 /\ slips = {}
  BY DEF Init
<1>4. TypeOK
  BY <1>2, <1>3, IdleCall DEF TypeOK, Days, Steps
<1>5. Place(call, config)
  BY <1>3, IdleCall DEF Place, Steps, RollingOver, Saving, Viewing
<1> QED
  BY <1>2, <1>3, <1>4, <1>5, IdleCall DEF TypeInv, Posted

LEMMA TypePost ==
  ASSUME TypeInv, NEW amount \in Debits \union Credits, NEW debit \in BOOLEAN,
         debit => amount \in Debits, Post(amount, debit)
  PROVE  TypeInv'
<1> USE Limits
<1> DEFINE after == IF debit THEN balance - amount ELSE balance + amount
           row == [at |-> now, after |-> after, amount |-> amount, debit |-> debit,
                   drew |-> /\ debit /\ ~ config.isPaused
                            /\ DrawsOnBuffer(config, after)]
<1>1. /\ pending' = [row |-> row, seen |-> config] /\ Len(ledger) < MaxEntries
      /\ debit => after >= 0
      /\ UNCHANGED <<config, balance, ledger, overrides, cycles, now, call, asked,
                     restarts, slips>>
  BY DEF Post
<1>2. after \in Nat /\ now \in Days
  BY <1>1 DEF TypeInv, TypeOK
<1>3. row \in Rows
  BY <1>2 DEF Rows, DrawsOnBuffer, BreachesReserve
<1>4. Posted'
  <2> HIDE DEF after
  <2>1. /\ row.at = now /\ row.after = after /\ row.debit = debit
        /\ row.drew = (debit /\ ~ config.isPaused /\ DrawsOnBuffer(config, after))
    OBVIOUS
  <2> HIDE DEF row
  <2>2. pending'.row = row /\ pending'.seen = config
    BY <1>1
  <2>3. ledger' = ledger /\ now' = now
    BY <1>1
  <2>4. row.at =< now /\ config \in Configs
    BY <2>1, TypeFacts
  <2>5. pending'.row.drew =
          ( /\ pending'.row.debit /\ ~ pending'.seen.isPaused
            /\ DrawsOnBuffer(pending'.seen, pending'.row.after) )
    BY <2>1, <2>2
  <2> QED
    BY <1>1, <1>3, <2>2, <2>3, <2>4, <2>5 DEF Posted
<1>5. TypeOK'
  BY <1>1, <1>3, TypeFacts DEF TypeInv, TypeOK
<1> QED
  BY <1>1, <1>4, <1>5 DEF TypeInv

\* A commit writes to the dashboard's call, if it sees one, only what is history.
LEMMA NoticedCall ==
  ASSUME call \in CallTypes, NEW rows
  PROVE  LET l == Noticed(rows) IN
         /\ l \in CallTypes /\ l.op = call.op /\ l.dto = call.dto /\ l.pc = call.pc
         /\ l.entity = call.entity /\ l.stored = call.stored
         /\ l.startedAt = call.startedAt /\ l.closed = call.closed /\ l.from = call.from
         /\ l.rowsBreached = call.rowsBreached /\ l.balance = call.balance
         /\ l.pc = "idle" => l = call
<1>1. CASE call.pc \in {"balance", "overrides"}
  <2> DEFINE b == Breached(call.entity, CurrentBalance(call.entity, rows), rows,
                           RowsBetween(rows, WindowStart(call.entity), LastDay))
             t == call.truths \union {b}
             n == IF call.pc = "balance" THEN call.passed + 1 ELSE call.passed
  <2>1. b \in BOOLEAN
    BY DEF Breached
  <2>2. t \in SUBSET BOOLEAN /\ n \in Nat
    BY <2>1 DEF CallTypes
  <2>3. Noticed(rows) = [call EXCEPT !.truths = t, !.passed = n]
    BY <1>1 DEF Noticed, CallTypes
  <2> HIDE DEF t, n
  <2> QED
    BY <1>1, <2>2, <2>3 DEF CallTypes
<1>2. CASE call.pc \notin {"balance", "overrides"}
  BY <1>2 DEF Noticed
<1> QED
  BY <1>1, <1>2

\* What a commit does to the row and to its ledger.
LEMMA CommitRow ==
  ASSUME TypeInv, Commit
  PROVE  LET row == pending.row
             seen == pending.seen
         IN /\ row \in Rows /\ seen \in Configs
            /\ config' \in Configs /\ SameTerms(config', config)
            /\ SameWindow(config', config)
            /\ row.drew \/ config'.remainingBuffer = config.remainingBuffer
            /\ ledger' = Append(ledger, row) /\ ledger' \in Seq(Rows)
            /\ Len(ledger') =< MaxEntries
            /\ \/ overrides' = overrides /\ config'.overrideActive = config.overrideActive
               \/ /\ \E type \in {"limit_breach", "auto_cover"} :
                       overrides' = Append(overrides, [at |-> now, type |-> type])
                  /\ config'.overrideActive =
                       (config.overrideActive \/ ~ seen.overrideActive)
                  /\ \/ call.pc \in Unsaved \/ config.expiresAt =< now
                     \/ call.pc = "save" /\ call.entity.expiresAt =< now
                     \/ seen.overrideActive /\ ~ config.overrideActive
                     => "lost_flag" \in slips'
            /\ \A i \in DOMAIN cycles : row.at =< cycles[i].end => "straggler" \in slips'
            /\ slips \subseteq slips'
<1> USE Limits
<1> DEFINE row == pending.row
           s == pending.seen
           n == TotalDays(s)
           seen == Joined(s, [cycleDays |-> n])
           spent == SpentOn(now, Append(ledger, row))
           polices == row.debit /\ ~ seen.isPaused
           triggers == polices /\ TriggersOverride(seen, row.after, spent)
           after == ConfigAfterDebit(config, seen, row.amount, row.after, spent)
           type == OverrideType(seen, spent)
<1>1. row \in Rows /\ s \in Configs /\ Len(ledger) < MaxEntries
      /\ row.drew = (row.debit /\ ~ s.isPaused /\ DrawsOnBuffer(s, row.after))
  BY DEF Commit, TypeInv, Posted
<1>2. row.amount \in Nat /\ row.after \in Nat /\ row.debit \in BOOLEAN
  BY <1>1 DEF Rows
<1>3. seen.isPaused = s.isPaused
  BY <1>1 DEF Joined, Configs
<1>4. /\ after \in Configs /\ SameTerms(after, config) /\ SameWindow(after, config)
      /\ DrawsOnBuffer(s, row.after) \/ after.remainingBuffer = config.remainingBuffer
      /\ after.overrideActive =
           ( config.overrideActive \/ ( /\ ~ s.overrideActive
                                        /\ TriggersOverride(seen, row.after, spent) ) )
  BY <1>1, <1>2, TypeFacts, RowAfterDebit
<1>5. type \in {"limit_breach", "auto_cover"}
  BY DEF OverrideType
<1>6. /\ config' = IF polices THEN after ELSE config
      /\ overrides' = IF triggers THEN Append(overrides, [at |-> now, type |-> type])
                                  ELSE overrides
      /\ ledger' = Append(ledger, row)
  BY DEF Commit
<1>7. /\ seen.overrideActive = s.overrideActive
      /\ slips' = slips
           \union {x \in {"straggler"} : \E i \in DOMAIN cycles : row.at =< cycles[i].end}
           \union {x \in {"lost_flag"} :
                     triggers /\ \/ call.pc \in Unsaved
                                 \/ config.expiresAt =< now
                                 \/ call.pc = "save" /\ call.entity.expiresAt =< now
                                 \/ seen.overrideActive /\ ~ config.overrideActive}
  <2>1. seen.overrideActive = s.overrideActive
    BY <1>1 DEF Joined, Configs
  <2> QED
    BY <2>1 DEF Commit
<1> HIDE DEF row, s, n, seen, spent, after, type
<1>8. config' \in Configs /\ SameTerms(config', config) /\ SameWindow(config', config)
  BY <1>4, <1>6, TypeFacts DEF SameTerms, SameWindow
<1>9. row.drew \/ config'.remainingBuffer = config.remainingBuffer
  BY <1>1, <1>3, <1>4, <1>6
<1>10. ledger' \in Seq(Rows) /\ Len(ledger') =< MaxEntries
  BY <1>1, <1>6, TypeFacts
<1>11. CASE triggers
  <2>1. config'.overrideActive = (config.overrideActive \/ ~ s.overrideActive)
    BY <1>4, <1>6, <1>11
  <2>2. overrides' = Append(overrides, [at |-> now, type |-> type])
    BY <1>6, <1>11
  <2>3. \/ call.pc \in Unsaved \/ config.expiresAt =< now
        \/ call.pc = "save" /\ call.entity.expiresAt =< now
        \/ s.overrideActive /\ ~ config.overrideActive
        => "lost_flag" \in slips'
    BY <1>7, <1>11
  <2>4. /\ \A i \in DOMAIN cycles : row.at =< cycles[i].end => "straggler" \in slips'
        /\ slips \subseteq slips'
    BY <1>7
  <2> QED
    BY <1>1, <1>5, <1>6, <1>8, <1>9, <1>10, <2>1, <2>2, <2>3, <2>4 DEF row, s
<1>12. CASE ~ triggers
  <2>1. config'.overrideActive = config.overrideActive
    BY <1>4, <1>6, <1>12, TypeFacts DEF Configs
  <2>2. overrides' = overrides
    BY <1>6, <1>12
  <2>3. /\ \A i \in DOMAIN cycles : row.at =< cycles[i].end => "straggler" \in slips'
        /\ slips \subseteq slips'
    BY <1>7
  <2> QED
    BY <1>1, <1>6, <1>8, <1>9, <1>10, <2>1, <2>2, <2>3 DEF row, s
<1> QED
  BY <1>11, <1>12

LEMMA TypeCommit ==
  ASSUME TypeInv, Commit
  PROVE  TypeInv'
<1> USE Limits
<1>1. /\ pending' = NoEntry /\ balance' = pending.row.after /\ call' = Noticed(ledger')
      /\ UNCHANGED <<cycles, now, asked, restarts>>
  BY DEF Commit
<1>2. slips' \subseteq Slips
  BY TypeFacts DEF Commit, Slips
<1>3. /\ pending.row \in Rows /\ config' \in Configs
      /\ SameTerms(config', config) /\ SameWindow(config', config)
      /\ ledger' \in Seq(Rows) /\ Len(ledger') =< MaxEntries
  BY CommitRow
<1>4. overrides' \in Seq(Overrides)
  <2>1. CASE overrides' = overrides
    BY <2>1, TypeFacts
  <2>2. CASE \E type \in {"limit_breach", "auto_cover"} :
               overrides' = Append(overrides, [at |-> now, type |-> type])
    BY <2>2, TypeFacts DEF Overrides
  <2> QED
    BY <2>1, <2>2, CommitRow
<1>5. /\ call' \in CallTypes /\ call'.op = call.op /\ call'.dto = call.dto
      /\ call'.pc = call.pc /\ call'.entity = call.entity /\ call'.stored = call.stored
      /\ call'.startedAt = call.startedAt /\ call'.closed = call.closed
      /\ call'.from = call.from /\ (call'.pc = "idle" => call' = call)
  BY <1>1, TypeFacts, NoticedCall
<1>6. DatedBy(config', LastDay)
  BY <1>3, TypeFacts, SameStart
<1>7. Place(call', config)
  BY <1>5 DEF TypeInv, Place, Asked, RollsOver, Updates
<1>8. Place(call', config')
  BY <1>3, <1>7, PlaceKept
<1>9. balance' \in Nat
  BY <1>1, <1>3 DEF Rows
<1>10. TypeOK'
  BY <1>1, <1>2, <1>3, <1>4, <1>5, <1>9 DEF TypeInv, TypeOK, CallTypes
<1> QED
  BY <1>1, <1>5, <1>6, <1>8, <1>10, TypeFacts DEF TypeInv, Posted

LEMMA TypeAsk ==
  ASSUME TypeInv, NEW op, NEW dto, Ask(op, dto),
         \/ op \in {"dashboard", "history"} /\ dto = Nothing
         \/ op = "update" /\ dto \in UpdateDtos
  PROVE  TypeInv'
<1> USE Limits
<1>1. /\ asked' = asked + 1 /\ asked < MaxCalls
      /\ call' = [Idle EXCEPT !.op = op, !.dto = dto, !.pc = "find"]
      /\ UNCHANGED <<config, balance, ledger, overrides, cycles, now, pending,
                     restarts, slips>>
  BY DEF Ask, Goto, Idle
<1>2. /\ call' \in CallTypes /\ call'.op = op /\ call'.dto = dto /\ call'.pc = "find"
      /\ call'.startedAt = FirstDay /\ call'.closed = 0 /\ call'.from = Nothing
      /\ call'.entity = NoConfig
  BY <1>1, IdleCall DEF CallTypes, Idle, Steps
<1>3. Place(call', config)
  BY <1>2 DEF Place, Asked, Steps, RollingOver, Saving, Viewing
<1>4. TypeOK'
  BY <1>1, <1>2 DEF TypeInv, TypeOK, Steps
<1> QED
  BY <1>1, <1>2, <1>3, <1>4, TypeFacts DEF TypeInv, Posted

LEMMA TypeFind ==
  ASSUME TypeInv, Find
  PROVE  TypeInv'
<1> USE TypeFacts
<1> DEFINE l == [call EXCEPT !.entity = config, !.startedAt = now]
<1>1. /\ l \in CallTypes /\ l.op = call.op /\ l.dto = call.dto /\ l.from = call.from
      /\ l.closed = call.closed /\ l.entity = config /\ l.startedAt = now
  BY DEF CallTypes
<1>2. call.pc = "find" /\ Loop(l) /\ Quiet /\ UNCHANGED <<config, cycles, restarts>>
  BY DEF Find
<1>3. Asked(l) /\ l.closed = 0
  BY <1>1, <1>2 DEF TypeInv, Place, Asked
<1>4. SameTerms(config, config) /\ SameWindow(config, config)
  BY DEF SameTerms, SameWindow
<1> HIDE DEF l
<1>5. call' \in CallTypes /\ call'.startedAt =< now /\ Place(call', config)
  BY <1>1, <1>2, <1>3, <1>4, LoopPlace
<1>6. slips' \subseteq Slips
  BY DEF Find, Slips
<1> QED
  BY <1>2, <1>5, <1>6, CallStep

\* What CloseCycle inserts, and where the entity goes.
LEMMA CloseFacts ==
  ASSUME TypeInv, CloseCycle
  PROVE  LET e == call.entity
             l == [call EXCEPT !.entity = NextWindow(@), !.closed = @ + 1]
         IN /\ call.pc = "close" /\ e \in Configs /\ DatedBy(e, LastDay)
            /\ e.expiresAt =< call.startedAt /\ e.expiresAt =< LastDay
            /\ RollsOver(call, config)
            /\ l \in CallTypes /\ l.op = call.op /\ l.dto = call.dto
            /\ l.from = call.from /\ l.entity = NextWindow(e)
            /\ l.startedAt = call.startedAt /\ l.closed = call.closed + 1
            /\ Loop(l) /\ Asked(l)
            /\ \E p \in IF cycles = <<>> THEN {0} ELSE LatestCycles(cycles) :
                 \E d \in Cycles :
                   /\ cycles' = Append(cycles, d)
                   /\ d.start = WindowStart(e) /\ d.end = e.expiresAt
                   /\ d.bufferUsed = BufferSpent(e) /\ d.seen = Len(ledger)
                   /\ d.first = (call.closed = 0) /\ d.frequency = e.frequency
                   /\ d.epoch = restarts
                   /\ \A col \in Amounts :
                        d[col] = ClosedCycle(e, ledger, overrides, cycles, p)[col]
<1> USE TypeFacts
<1> DEFINE e == call.entity
           l == [call EXCEPT !.entity = NextWindow(@), !.closed = @ + 1]
<1>1. /\ call.pc = "close" /\ e \in Configs /\ DatedBy(e, LastDay)
      /\ RollsOver(call, config) /\ Asked(call)
  BY DEF CloseCycle, TypeInv, Place, Steps, RollingOver
<1>2. e.expiresAt =< call.startedAt /\ e.expiresAt \in Nat
  BY <1>1 DEF RollsOver, Configs
<1>3. e.expiresAt =< LastDay
  BY <1>2, Limits
<1>4. NextWindow(e) \in Configs
  BY <1>1, <1>3, NextWindowRow
<1>5. /\ l \in CallTypes /\ l.op = call.op /\ l.dto = call.dto
      /\ l.from = call.from /\ l.entity = NextWindow(e)
      /\ l.startedAt = call.startedAt /\ l.closed = call.closed + 1
  <2> DEFINE w == NextWindow(e)
  <2>1. l = [call EXCEPT !.entity = w, !.closed = call.closed + 1]
    BY DEF CallTypes
  <2>2. call.closed + 1 \in Nat
    BY DEF CallTypes
  <2> HIDE DEF w, l, e
  <2>3. w \in Configs
    BY <1>4 DEF w, e
  <2>4. /\ l \in CallTypes /\ l.op = call.op /\ l.dto = call.dto
        /\ l.from = call.from /\ l.entity = w
        /\ l.startedAt = call.startedAt /\ l.closed = call.closed + 1
    BY <2>1, <2>2, <2>3 DEF CallTypes
  <2> QED
    BY <2>4 DEF w, e
<1>6. Loop(l) /\ Asked(l)
  BY <1>1, <1>5 DEF CloseCycle, Asked
<1>7. PICK p \in IF cycles = <<>> THEN {0} ELSE LatestCycles(cycles) :
        cycles' = Append(cycles,
          Joined(ClosedCycle(e, ledger, overrides, cycles, p),
                 [seen |-> Len(ledger), first |-> call.closed = 0,
                  frequency |-> e.frequency, epoch |-> restarts]))
  BY DEF CloseCycle
<1> DEFINE first == call.closed = 0
           d == Joined(ClosedCycle(e, ledger, overrides, cycles, p),
                       [seen |-> Len(ledger), first |-> first,
                        frequency |-> e.frequency, epoch |-> restarts])
<1>8. first \in BOOLEAN /\ restarts \in Int
  OBVIOUS
<1> HIDE DEF first
<1>9. /\ d \in Cycles
      /\ d.start = WindowStart(e) /\ d.end = e.expiresAt
      /\ d.bufferUsed = BufferSpent(e) /\ d.seen = Len(ledger)
      /\ d.first = first /\ d.frequency = e.frequency /\ d.epoch = restarts
      /\ \A col \in Amounts :
           d[col] = ClosedCycle(e, ledger, overrides, cycles, p)[col]
  BY <1>1, <1>8, ClosedCycleRow
<1>10. cycles' = Append(cycles, d)
  BY <1>7 DEF first
<1> HIDE DEF d
<1>11. \E q \in IF cycles = <<>> THEN {0} ELSE LatestCycles(cycles) :
         \E c \in Cycles :
           /\ cycles' = Append(cycles, c)
           /\ c.start = WindowStart(e) /\ c.end = e.expiresAt
           /\ c.bufferUsed = BufferSpent(e) /\ c.seen = Len(ledger)
           /\ c.first = (call.closed = 0) /\ c.frequency = e.frequency
           /\ c.epoch = restarts
           /\ \A col \in Amounts :
                c[col] = ClosedCycle(e, ledger, overrides, cycles, q)[col]
  BY <1>9, <1>10 DEF first
<1> QED
  BY <1>1, <1>2, <1>3, <1>5, <1>6, <1>11

LEMMA TypeClose ==
  ASSUME TypeInv, CloseCycle
  PROVE  TypeInv'
<1> USE TypeFacts
<1> DEFINE e == call.entity
           l == [call EXCEPT !.entity = NextWindow(@), !.closed = @ + 1]
           w == NextWindow(e)
<1>1. /\ call.pc = "close" /\ e \in Configs /\ DatedBy(e, LastDay)
      /\ e.expiresAt =< call.startedAt /\ e.expiresAt =< LastDay
      /\ RollsOver(call, config)
      /\ l \in CallTypes /\ l.op = call.op /\ l.dto = call.dto
      /\ l.from = call.from /\ l.entity = w
      /\ l.startedAt = call.startedAt /\ l.closed = call.closed + 1
      /\ Loop(l) /\ Asked(l)
  BY CloseFacts
<1>2. cycles' \in Seq(Cycles)
  <2>1. PICK d \in Cycles : cycles' = Append(cycles, d)
    BY CloseFacts
  <2> QED
    BY <2>1
<1>3. /\ w \in Configs /\ SameTerms(w, e) /\ DatedBy(w, LastDay)
      /\ e.expiresAt =< WindowStart(w) /\ WindowStart(w) \in Nat
  BY <1>1, NextWindowRow
<1>4. SameTerms(w, config)
  BY <1>1, <1>3 DEF RollsOver, SameTerms
<1>5. WindowStart(e) \in Nat /\ WindowStart(e) < e.expiresAt
  BY <1>1, WindowOf
<1>6. config.expiresAt \in Nat /\ e.expiresAt \in Nat
  BY <1>1 DEF Configs
<1>7. config.expiresAt =< call.startedAt /\ config.expiresAt =< WindowStart(w)
  <2>1. config.expiresAt =< e.expiresAt
    BY <1>1, <1>5, <1>6 DEF RollsOver, SameWindow
  <2> QED
    BY <1>1, <1>3, <1>6, <2>1 DEF RollsOver
<1>8. l.closed # 0
  BY <1>1 DEF CallTypes
<1>9. Quiet /\ UNCHANGED <<config, restarts, slips>>
  BY DEF CloseCycle
<1> HIDE DEF l, w
<1>10. call' \in CallTypes /\ call'.startedAt =< now /\ Place(call', config)
  BY <1>1, <1>3, <1>4, <1>7, <1>8, LoopPlace
<1> QED
  BY <1>2, <1>9, <1>10, CallStep

LEMMA TypeSaveReads ==
  ASSUME TypeInv, SaveReads
  PROVE  TypeInv'
<1> USE TypeFacts
<1> DEFINE step == IF call.pc = "renew_read" THEN "renew" ELSE "save"
<1>1. /\ call.pc \in {"renew_read", "save_read"} /\ Quiet
      /\ call' = [call EXCEPT !.stored = config, !.pc = step]
      /\ UNCHANGED <<config, cycles, restarts, slips>>
  BY DEF SaveReads, Goto
<1>2. step \in {"renew", "save"}
  OBVIOUS
<1>3. /\ call' \in CallTypes /\ call'.op = call.op /\ call'.dto = call.dto
      /\ call'.pc = step /\ call'.entity = call.entity /\ call'.stored = config
      /\ call'.startedAt = call.startedAt /\ call'.closed = call.closed
      /\ call'.from = call.from
  <2> HIDE DEF step
  <2> QED
    BY <1>1, <1>2 DEF CallTypes, Steps
<1>4. Place(call', config)
  BY <1>1, <1>3
  DEF TypeInv, Place, Asked, RollsOver, Updates, Steps, RollingOver, Saving, Viewing,
      SameTerms, SameWindow
<1> QED
  BY <1>1, <1>3, <1>4, CallStep

\* The save of a rollover makes the row what the entity is.
LEMMA RenewFacts ==
  ASSUME TypeInv, SaveRenewed
  PROVE  LET e == call.entity
             s == call.stored
         IN /\ e \in Configs /\ s \in Configs /\ DatedBy(e, LastDay)
            /\ RollsOver(call, config) /\ call.pc = "renew" /\ call.closed # 0
            /\ SameTerms(s, config) /\ SameWindow(s, config)
            /\ config' = Differing(config, e, s)
            /\ config' \in Configs /\ SameTerms(config', e) /\ SameWindow(config', e)
            /\ Own(call) /\ Asked(call) /\ Quiet
            /\ UNCHANGED <<cycles, restarts, slips>>
<1> USE TypeFacts
<1> DEFINE e == call.entity
           s == call.stored
<1>1. /\ e \in Configs /\ s \in Configs /\ DatedBy(e, LastDay)
      /\ RollsOver(call, config) /\ call.pc = "renew"
      /\ SameTerms(s, config) /\ SameWindow(s, config) /\ Asked(call)
  BY DEF SaveRenewed, TypeInv, Place, Steps, RollingOver
<1>2. config' = Differing(config, e, s) /\ Own(call) /\ Quiet
      /\ UNCHANGED <<cycles, restarts, slips>>
  BY DEF SaveRenewed
<1>3. config' \in Configs /\ SameTerms(config', e) /\ SameWindow(config', e)
  BY <1>1, <1>2, DifferingRow
<1>4. call.closed # 0
  BY <1>1 DEF RollsOver
<1> QED
  BY <1>1, <1>2, <1>3, <1>4

LEMMA TypeSaveRenewed ==
  ASSUME TypeInv, SaveRenewed
  PROVE  TypeInv'
<1> USE TypeFacts, RenewFacts
<1>1. SameTerms(call.entity, config') /\ SameWindow(call.entity, config')
  BY DEF SameTerms, SameWindow
<1>2. call' \in CallTypes /\ call'.startedAt =< now /\ Place(call', config')
  BY <1>1, OwnPlace
<1>3. DatedBy(config', LastDay)
  BY SameStart
<1> QED
  BY <1>2, <1>3, CallStep

\* The save of an update leaves its window and what it is based on.
LEMMA SaveFacts ==
  ASSUME TypeInv, SaveOwn
  PROVE  LET e == call.entity
             s == call.stored
         IN /\ e \in Configs /\ s \in Configs /\ DatedBy(e, LastDay)
            /\ call.pc = "save" /\ call.op = "update" /\ Updates(call, config)
            /\ SameTerms(s, config) /\ SameWindow(s, config)
            /\ config' = Differing(config, e, s)
            /\ config' \in Configs /\ SameTerms(config', e) /\ SameWindow(config', e)
            /\ config'.baselineBalance = config.baselineBalance
            /\ restarts' = IF Restarts(call.dto) THEN restarts + 1 ELSE restarts
            /\ call' = Idle /\ Quiet /\ NotShown /\ cycles' = cycles
            /\ slips \subseteq slips'
            /\ config.expiresAt =< now \/ e.expiresAt =< now => "late_update" \in slips'
<1> USE TypeFacts
<1> DEFINE e == call.entity
           s == call.stored
<1>1. /\ e \in Configs /\ s \in Configs /\ DatedBy(e, LastDay)
      /\ call.pc = "save" /\ Updates(call, config)
      /\ SameTerms(s, config) /\ SameWindow(s, config)
  BY DEF SaveOwn, TypeInv, Place, Steps, RollingOver, Saving
<1>2. /\ config' = Differing(config, e, s)
      /\ restarts' = IF Restarts(call.dto) THEN restarts + 1 ELSE restarts
      /\ Goto("idle", Idle) /\ Quiet /\ NotShown /\ cycles' = cycles
      /\ slips' = slips \union
           {x \in {"late_update"} : config.expiresAt =< now \/ call.entity.expiresAt =< now}
  BY DEF SaveOwn
<1>3. config' \in Configs /\ SameTerms(config', e) /\ SameWindow(config', e)
  BY <1>1, <1>2, DifferingRow
<1>4. call' = Idle
  BY <1>2 DEF Goto, Idle
<1>5. e.baselineBalance = config.baselineBalance /\ call.op = "update"
  BY <1>1 DEF Updates
<1>6. slips \subseteq slips'
      /\ (config.expiresAt =< now \/ e.expiresAt =< now => "late_update" \in slips')
  BY <1>2
<1> QED
  BY <1>1, <1>2, <1>3, <1>4, <1>5, <1>6 DEF SameTerms

\* An idle call has its place on any row.
LEMMA IdlePlace ==
  ASSUME TypeInv, call' = Idle, NEW row
  PROVE  call' \in CallTypes /\ call'.startedAt =< now /\ Place(call', row)
<1>1. /\ Idle \in CallTypes /\ Idle.pc = "idle" /\ Idle.startedAt =< now
  BY IdleCall, TypeFacts
<1> QED
  BY <1>1 DEF Place, Steps, RollingOver, Saving, Viewing

LEMMA TypeSaveOwn ==
  ASSUME TypeInv, SaveOwn
  PROVE  TypeInv'
<1> USE TypeFacts, SaveFacts
<1>1. DatedBy(config', LastDay)
  BY SameStart
<1>2. slips' \subseteq Slips
  BY DEF SaveOwn, Slips
<1>3. restarts' \in Nat
  OBVIOUS
<1> QED
  BY <1>1, <1>2, <1>3, IdlePlace, CallStep

\* The dashboard's queries and its answer.
LEMMA TypeView ==
  ASSUME TypeInv, ReadRows \/ ReadBalance \/ ReadOverrides \/ ListCycles
  PROVE  TypeInv'
<1> USE TypeFacts
<1>1. Quiet /\ UNCHANGED <<config, cycles, restarts, slips>>
  BY DEF ReadRows, ReadBalance, ReadOverrides, ListCycles
<1>2. call.pc \in Viewing
  BY DEF ReadRows, ReadBalance, ReadOverrides, ListCycles, Viewing
<1>3. /\ call.entity \in Configs /\ DatedBy(call.entity, LastDay) /\ Asked(call)
      /\ call.op = "dashboard" \/ (call.op = "history" /\ call.from # Nothing)
  BY <1>2 DEF TypeInv, Place, Steps, Viewing
<1>4. ASSUME NEW pc \in {"balance", "overrides", "list"},
             pc = "list" => call.op = "history",
             call' \in CallTypes, call'.op = call.op, call'.dto = call.dto,
             call'.pc = pc, call'.entity = call.entity, call'.from = call.from,
             call'.startedAt = call.startedAt
      PROVE  TypeInv'
  <2>1. Place(call', config)
    BY <1>3, <1>4 DEF Place, Asked, Steps, RollingOver, Saving, Viewing
  <2> QED
    BY <1>1, <1>4, <2>1, CallStep
<1>5. ASSUME call' = Idle
      PROVE  TypeInv'
  BY <1>1, <1>5, IdlePlace, CallStep
<1>6. CASE ReadRows
  <2> DEFINE rows == RowsBetween(ledger, WindowStart(call.entity), LastDay)
             b == \E i \in rows : BreachesReserve(call.entity, ledger[i].after)
             t == {Breached(call.entity, CurrentBalance(call.entity, ledger), ledger, rows)}
  <2>1. call' = [call EXCEPT !.at = now, !.rowsBreached = b, !.truths = t,
                             !.pc = "balance"]
    BY <1>6 DEF ReadRows, Goto
  <2>2. b \in BOOLEAN /\ t \in SUBSET BOOLEAN
    BY DEF Breached
  <2> HIDE DEF b, t
  <2>3. /\ call' \in CallTypes /\ call'.op = call.op /\ call'.dto = call.dto
        /\ call'.pc = "balance" /\ call'.entity = call.entity
        /\ call'.from = call.from /\ call'.startedAt = call.startedAt
    BY <2>1, <2>2 DEF CallTypes, Steps
  <2> QED
    BY <2>3, <1>4
<1>7. CASE ReadBalance
  <2> DEFINE b == CurrentBalance(call.entity, ledger)
  <2>1. call' = [call EXCEPT !.balance = b, !.pc = "overrides"]
    BY <1>7 DEF ReadBalance, Goto
  <2>2. b \in Int
    BY <1>3, BalanceType
  <2> HIDE DEF b
  <2>3. /\ call' \in CallTypes /\ call'.op = call.op /\ call'.dto = call.dto
        /\ call'.pc = "overrides" /\ call'.entity = call.entity
        /\ call'.from = call.from /\ call'.startedAt = call.startedAt
    BY <2>1, <2>2 DEF CallTypes, Steps
  <2> QED
    BY <2>3, <1>4
<1>8. CASE ReadOverrides
  <2>1. CASE call.op = "history"
    <3>1. call' = [call EXCEPT !.pc = "list"]
      BY <1>8, <2>1 DEF ReadOverrides, Goto
    <3>2. /\ call' \in CallTypes /\ call'.op = call.op /\ call'.dto = call.dto
          /\ call'.pc = "list" /\ call'.entity = call.entity
          /\ call'.from = call.from /\ call'.startedAt = call.startedAt
      BY <3>1 DEF CallTypes, Steps
    <3> QED
      BY <2>1, <3>2, <1>4
  <2>2. CASE call.op # "history"
    BY <1>5, <1>8, <2>2 DEF ReadOverrides, Goto, Idle
  <2> QED
    BY <2>1, <2>2
<1>9. CASE ListCycles
  BY <1>5, <1>9 DEF ListCycles, Goto, Idle
<1> QED
  BY <1>6, <1>7, <1>8, <1>9

LEMMA TypeFail ==
  ASSUME TypeInv, Fail
  PROVE  TypeInv'
<1> USE TypeFacts
<1>1. call' = Idle /\ Quiet /\ UNCHANGED <<config, cycles, restarts>>
  BY DEF Fail, Goto, Idle
<1>2. slips' \subseteq Slips
  BY DEF Fail, Slips
<1> QED
  BY <1>1, <1>2, IdlePlace, CallStep

LEMMA TypeNextDay ==
  ASSUME TypeInv, NextDay
  PROVE  TypeInv'
<1> USE Limits, TypeFacts
<1>1. /\ now' = now + 1 /\ now < LastDay
      /\ UNCHANGED <<config, balance, ledger, overrides, cycles, pending, call, asked,
                     restarts, slips>>
  BY DEF NextDay
<1>2. now' \in Days /\ call'.startedAt =< now'
  BY <1>1 DEF Days
<1>3. TypeOK'
  BY <1>1, <1>2 DEF TypeInv, TypeOK
<1>4. Posted'
  <2>1. pending # NoEntry => pending.row.at \in Nat
    BY DEF TypeInv, Posted, Rows, Days
  <2>0. pending # NoEntry => pending.row.at =< now
    BY DEF TypeInv, Posted
  <2>2. pending # NoEntry => pending.row.at =< now + 1
    BY <2>0, <2>1
  <2> QED
    BY <1>1, <2>2 DEF TypeInv, Posted
<1> QED
  BY <1>1, <1>2, <1>3, <1>4 DEF TypeInv

\* Every step keeps the types and the place of the call.
LEMMA TypeStep == TypeInv /\ [Next]_vars => TypeInv'
<1> SUFFICES ASSUME TypeInv, [Next]_vars
             PROVE  TypeInv'
  OBVIOUS
<1>1. ASSUME NEW amount \in Debits, Post(amount, TRUE)
      PROVE  TypeInv'
  BY <1>1, TypePost
<1>2. ASSUME NEW amount \in Credits, Post(amount, FALSE)
      PROVE  TypeInv'
  BY <1>2, TypePost
<1>3. CASE Commit
  BY <1>3, TypeCommit
<1>4. ASSUME NEW op \in {"dashboard", "history"}, Ask(op, Nothing)
      PROVE  TypeInv'
  BY <1>4, TypeAsk
<1>5. ASSUME NEW dto \in UpdateDtos, Ask("update", dto)
      PROVE  TypeInv'
  BY <1>5, TypeAsk
<1>6. CASE Find
  BY <1>6, TypeFind
<1>7. CASE CloseCycle
  BY <1>7, TypeClose
<1>8. CASE SaveReads
  BY <1>8, TypeSaveReads
<1>9. CASE SaveRenewed
  BY <1>9, TypeSaveRenewed
<1>10. CASE SaveOwn
  BY <1>10, TypeSaveOwn
<1>11. CASE ReadRows \/ ReadBalance \/ ReadOverrides \/ ListCycles
  BY <1>11, TypeView
<1>12. CASE Fail
  BY <1>12, TypeFail
<1>13. CASE NextDay
  BY <1>13, TypeNextDay
<1>14. CASE UNCHANGED vars
  BY <1>14 DEF vars, TypeInv, TypeOK, Posted
<1> QED
  BY <1>1, <1>2, <1>3, <1>4, <1>5, <1>6, <1>7, <1>8, <1>9, <1>10, <1>11, <1>12, <1>13,
     <1>14 DEF Next

LEMMA TypeInvariant == Spec => []TypeInv
BY TypeInit, TypeStep, PTL DEF Spec

\* Every row, closed cycle, override and entry has its type, the score of a cycle
\* is between 0 and 100, and so on, in every reachable state.
THEOREM CyclesTypeCorrect == Spec => []TypeOK
<1>1. TypeInv => TypeOK
  BY DEF TypeInv
<1> QED
  BY <1>1, TypeInvariant, PTL

-----------------------------------------------------------------------------
(***************************************************************************)
(* Where a call goes                                                       *)
(***************************************************************************)

\* m is call l at another place.
SameCall(m, l) == m.op = l.op /\ m.dto = l.dto /\ m.startedAt = l.startedAt

LEMMA OwnOutcome ==
  ASSUME NEW l \in CallTypes, Own(l), l.entity \in Configs
  PROVE  \/ call' = Idle
         \/ /\ SameCall(call', l) /\ call'.pc = "rows" /\ call'.entity = l.entity
            /\ call'.from = l.from /\ call'.closed = l.closed
            /\ l.op = "dashboard" \/ (l.op = "history" /\ l.from # Nothing)
         \/ /\ SameCall(call', l) /\ call'.pc = "find" /\ call'.entity = l.entity
            /\ call'.from = WindowStart(l.entity) /\ call'.closed = 0
            /\ l.op = "history" /\ l.from = Nothing
         \/ /\ SameCall(call', l) /\ call'.pc = "save_read"
            /\ call'.entity = Updated(l.entity, l.dto)
            /\ call'.from = l.from /\ call'.closed = l.closed /\ l.op = "update"
<1>1. CASE /\ l.op = "dashboard" \/ (l.op = "history" /\ l.from # Nothing)
           /\ Goto("rows", l)
  BY <1>1 DEF Goto, CallTypes, SameCall
<1>2. CASE /\ l.op = "history" /\ l.from = Nothing
           /\ Goto("find", [l EXCEPT !.from = Label(l.entity), !.closed = 0])
  BY <1>2 DEF Goto, CallTypes, SameCall, Label
<1>3. CASE /\ l.op = "update"
           /\ Goto("save_read", [l EXCEPT !.entity = Updated(@, l.dto)])
  BY <1>3 DEF Goto, CallTypes, SameCall
<1>4. CASE Goto("idle", Idle)
  BY <1>4 DEF Goto, Idle
<1> QED
  BY <1>1, <1>2, <1>3, <1>4 DEF Own

LEMMA LoopOutcome ==
  ASSUME NEW l \in CallTypes, Loop(l), l.entity \in Configs
  PROVE  \/ /\ SameCall(call', l) /\ call'.pc = "close" /\ call'.entity = l.entity
            /\ call'.from = l.from /\ call'.closed = l.closed
            /\ l.entity.expiresAt =< l.startedAt
         \/ /\ SameCall(call', l) /\ call'.pc = "renew_read"
            /\ call'.entity = Renewed(l.entity)
            /\ call'.from = l.from /\ call'.closed = l.closed
            /\ l.startedAt < l.entity.expiresAt /\ l.closed > 0
         \/ l.startedAt < l.entity.expiresAt /\ l.closed = 0 /\ Own(l)
<1>0. l.entity.expiresAt \in Nat /\ l.startedAt \in Nat
  BY Limits DEF Configs, CallTypes, Days
<1>1. CASE Rolling(l) /\ Goto("close", l)
  BY <1>0, <1>1 DEF Goto, CallTypes, SameCall, Rolling
<1>2. CASE /\ ~ Rolling(l) /\ l.closed > 0
           /\ Goto("renew_read", [l EXCEPT !.entity = Renewed(@)])
  BY <1>0, <1>2 DEF Goto, CallTypes, SameCall, Rolling
<1>3. CASE ~ Rolling(l) /\ l.closed = 0 /\ Own(l)
  BY <1>0, <1>3 DEF Rolling
<1> QED
  BY <1>1, <1>2, <1>3 DEF Loop

\* What Find looks at, and where it goes.
LEMMA FindFacts ==
  ASSUME TypeInv, Find
  PROVE  LET l == [call EXCEPT !.entity = config, !.startedAt = now] IN
         /\ call.pc = "find" /\ l \in CallTypes /\ l.op = call.op /\ l.dto = call.dto
         /\ l.from = call.from /\ l.closed = 0 /\ l.entity = config
         /\ l.startedAt = now /\ Asked(l) /\ Loop(l)
         /\ Quiet /\ NotShown /\ UNCHANGED <<config, cycles, restarts>>
         /\ slips \subseteq slips'
         /\ ( /\ call.from # Nothing /\ call.startedAt < config.expiresAt
              /\ config.expiresAt =< now ) => "ended_meanwhile" \in slips'
<1> DEFINE l == [call EXCEPT !.entity = config, !.startedAt = now]
<1>1. /\ l \in CallTypes /\ l.op = call.op /\ l.dto = call.dto /\ l.from = call.from
      /\ l.closed = call.closed /\ l.entity = config /\ l.startedAt = now
  BY TypeFacts DEF CallTypes
<1>2. /\ call.pc = "find" /\ Loop(l) /\ Quiet /\ NotShown
      /\ UNCHANGED <<config, cycles, restarts>>
      /\ slips' = slips \union
           {s \in {"ended_meanwhile"} :
              /\ call.from # Nothing
              /\ call.startedAt < config.expiresAt /\ config.expiresAt =< now}
  BY DEF Find
<1>3. Asked(l) /\ l.closed = 0
  BY <1>1, <1>2 DEF TypeInv, Place, Asked
<1> HIDE DEF l
<1>4. slips \subseteq slips' /\ ( ( /\ call.from # Nothing /\ call.startedAt < config.expiresAt
              /\ config.expiresAt =< now ) => "ended_meanwhile" \in slips' )
  BY <1>2
<1> QED
  BY <1>1, <1>2, <1>3, <1>4 DEF l

\* Where the actions that run the loop or what follows it lead.
LEMMA CallsMove ==
  ASSUME TypeInv, Find \/ CloseCycle \/ SaveRenewed
  PROVE  call'.pc \in {"idle", "find", "close", "renew_read", "save_read", "rows"}
<1>1. \A l \in CallTypes :
        l.entity \in Configs /\ (Own(l) \/ Loop(l)) =>
          call'.pc \in {"idle", "find", "close", "renew_read", "save_read", "rows"}
  BY OwnOutcome, LoopOutcome, IdleCall
<1>2. CASE Find
  <2> DEFINE l == [call EXCEPT !.entity = config, !.startedAt = now]
  <2>1. l \in CallTypes /\ l.entity \in Configs /\ Loop(l)
    BY <1>2, FindFacts, TypeFacts
  <2> HIDE DEF l
  <2> QED
    BY <1>1, <2>1
<1>3. CASE CloseCycle
  <2> DEFINE l == [call EXCEPT !.entity = NextWindow(@), !.closed = @ + 1]
  <2>1. l \in CallTypes /\ l.entity \in Configs /\ Loop(l)
    <3>1. l \in CallTypes /\ l.entity = NextWindow(call.entity) /\ Loop(l)
          /\ call.entity \in Configs /\ call.entity.expiresAt =< LastDay
      BY <1>3, CloseFacts
    <3> QED
      BY <3>1, NextWindowRow
  <2> HIDE DEF l
  <2> QED
    BY <1>1, <2>1
<1>4. CASE SaveRenewed
  BY <1>1, <1>4, RenewFacts, TypeFacts
<1> QED
  BY <1>2, <1>3, <1>4

-----------------------------------------------------------------------------
(***************************************************************************)
(* BreachShownIsReal                                                       *)
(***************************************************************************)

\* Answering b, after `passed` entries have passed by, is saying what was so.
Honest(b, truths, passed) ==
  IF b THEN TRUE \in truths ELSE passed =< 1 => FALSE \in truths

BreachedNow(e) == BreachesReserve(e, CurrentBalance(e, ledger))

BreachedInWindow(e) ==
  \E i \in RowsBetween(ledger, WindowStart(e), LastDay) :
    BreachesReserve(e, ledger[i].after)

BreachInv ==
  /\ call.pc = "balance" =>
       /\ Honest(BreachedNow(call.entity) \/ call.rowsBreached, call.truths, call.passed)
       /\ call.passed = 0 => (call.rowsBreached <=> BreachedInWindow(call.entity))
  /\ call.pc = "overrides" => Honest(FoundBreached(call), call.truths, call.passed)
  /\ shown # Nothing =>
       /\ shown.breached \in BOOLEAN /\ shown.passed \in Nat
       /\ Honest(shown.breached, shown.truths, shown.passed)

LEMMA BreachAtCommit ==
  ASSUME TypeInv, BreachInv, Commit
  PROVE  BreachInv'
<1> USE TypeFacts
<1> DEFINE e == call.entity
           row == pending.row
           was == BreachedNow(e)
           is == BreachesReserve(e, row.after)
           met == BreachedInWindow(e)
           b == Breached(e, CurrentBalance(e, ledger'), ledger',
                         RowsBetween(ledger', WindowStart(e), LastDay))
<1>1. shown' = shown /\ call' = Noticed(ledger')
  BY DEF Commit
<1>2. ledger' = Append(ledger, row) /\ row \in Rows
  BY CommitRow
<1>3. CASE call.pc \notin {"balance", "overrides"}
  BY <1>1, <1>3 DEF Noticed, BreachInv
<1>4. CASE call.pc \in {"balance", "overrides"}
  <2>1. call' = [call EXCEPT !.truths = call.truths \union {b},
                   !.passed = IF call.pc = "balance" THEN call.passed + 1
                                                     ELSE call.passed]
    BY <1>1, <1>4 DEF Noticed, CallTypes
  <2>2. call.passed \in Nat /\ call.rowsBreached \in BOOLEAN
    BY DEF CallTypes
  <2>3. /\ call'.pc = call.pc /\ call'.entity = e /\ call'.balance = call.balance
        /\ call'.rowsBreached = call.rowsBreached
        /\ call'.truths = call.truths \union {b}
        /\ call'.passed = IF call.pc = "balance" THEN call.passed + 1 ELSE call.passed
    <3> HIDE DEF b
    <3> QED
      BY <2>1 DEF CallTypes
  <2>4. CurrentBalance(e, ledger') = row.after
    BY <1>2 DEF CurrentBalance, Last
  <2>5. b = (is \/ met)
    <3>1. \A i \in DOMAIN ledger : i \in DOMAIN ledger' /\ ledger'[i] = ledger[i]
      BY <1>2
    <3>2. \A i \in DOMAIN ledger' : i \in DOMAIN ledger \/ ledger'[i] = row
      BY <1>2
    <3>3. b <=> is \/ met
      BY <2>4, <3>1, <3>2 DEF Breached, BreachedInWindow, RowsBetween
    <3> QED
      BY <3>3 DEF Breached
  <2>6. BreachedNow(e)' = is
    BY <2>3, <2>4 DEF BreachedNow
  <2>7. CASE call.pc = "overrides"
    <3>1. Honest(FoundBreached(call), call.truths, call.passed)
      BY <2>7 DEF BreachInv
    <3>2. FoundBreached(call') = FoundBreached(call)
      BY <2>3 DEF FoundBreached
    <3>3. Honest(FoundBreached(call'), call'.truths, call'.passed)
      BY <2>3, <2>7, <3>1, <3>2 DEF Honest
    <3> QED
      BY <1>1, <2>3, <2>7, <3>3 DEF BreachInv
  <2>8. CASE call.pc = "balance"
    <3>1. /\ Honest(was \/ call.rowsBreached, call.truths, call.passed)
          /\ call.passed = 0 => (call.rowsBreached <=> met)
      BY <2>8 DEF BreachInv
    <3> HIDE DEF was, is, met, b
    <3>2. Honest(is \/ call.rowsBreached, call'.truths, call'.passed)
      <4>1. call'.passed = call.passed + 1
        BY <2>3, <2>8
      <4>2. CASE is
        BY <2>3, <2>5, <4>2 DEF Honest
      <4>3. CASE ~ is /\ call.rowsBreached
        BY <2>3, <3>1, <4>3 DEF Honest
      <4>4. CASE ~ is /\ ~ call.rowsBreached
        <5> SUFFICES ASSUME call'.passed =< 1
                     PROVE  FALSE \in call'.truths
          BY <4>4 DEF Honest
        <5>1. call.passed = 0
          BY <2>2, <4>1
        <5>2. ~ met
          BY <3>1, <4>4, <5>1
        <5>3. b = FALSE
          BY <2>5, <4>4, <5>2
        <5> QED
          BY <2>3, <5>3
      <4> QED
        BY <4>2, <4>3, <4>4
    <3>3. call'.passed # 0
      BY <2>2, <2>3, <2>8
    <3>4. Honest(BreachedNow(e)' \/ call.rowsBreached, call'.truths, call'.passed)
      BY <2>6, <3>2
    <3> QED
      BY <1>1, <2>3, <2>8, <3>3, <3>4 DEF BreachInv
  <2> QED
    BY <1>4, <2>7, <2>8
<1> QED
  BY <1>3, <1>4

LEMMA BreachAtView ==
  ASSUME TypeInv, BreachInv, ReadRows \/ ReadBalance \/ ReadOverrides \/ ListCycles
  PROVE  BreachInv'
<1> USE TypeFacts
<1>1. ledger' = ledger
  BY DEF Quiet, ReadRows, ReadBalance, ReadOverrides, ListCycles
<1>2. CASE ReadRows
  <2> DEFINE e == call.entity
             rows == RowsBetween(ledger, WindowStart(e), LastDay)
             b == \E i \in rows : BreachesReserve(e, ledger[i].after)
             t == Breached(e, CurrentBalance(e, ledger), ledger, rows)
  <2>1. call' = [call EXCEPT !.at = now, !.rowsBreached = b, !.truths = {t},
                             !.pc = "balance"]
        /\ shown' = shown
    BY <1>2 DEF ReadRows, Goto, NotShown
  <2>2. b <=> BreachedInWindow(e)
    BY DEF BreachedInWindow
  <2>3. t = (BreachedNow(e) \/ b)
    BY DEF Breached, BreachedNow
  <2> HIDE DEF b, t
  <2>4. call'.pc = "balance" /\ call'.entity = e /\ call'.truths = {t}
        /\ call'.rowsBreached = b
    BY <2>1 DEF CallTypes
  <2>5. Honest(BreachedNow(e) \/ b, {t}, call'.passed)
    BY <2>3 DEF Honest
  <2>6. BreachedNow(e)' = BreachedNow(e) /\ BreachedInWindow(e)' = BreachedInWindow(e)
    BY <1>1, <2>1 DEF BreachedNow, BreachedInWindow
  <2>7. /\ Honest(BreachedNow(call.entity)' \/ call'.rowsBreached, call'.truths, call'.passed)
        /\ call'.rowsBreached <=> BreachedInWindow(call.entity)'
    BY <2>2, <2>4, <2>5, <2>6
  <2> QED
    BY <2>1, <2>4, <2>7 DEF BreachInv
<1>3. CASE ReadBalance
  <2> DEFINE b == CurrentBalance(call.entity, ledger)
  <2>1. call' = [call EXCEPT !.balance = b, !.pc = "overrides"]
        /\ shown' = shown /\ call.pc = "balance"
    BY <1>3 DEF ReadBalance, Goto, NotShown
  <2>2. /\ call'.pc = "overrides" /\ call'.entity = call.entity /\ call'.balance = b
        /\ call'.truths = call.truths /\ call'.passed = call.passed
        /\ call'.rowsBreached = call.rowsBreached
    BY <2>1 DEF CallTypes
  <2>3. FoundBreached(call') = (BreachedNow(call.entity) \/ call.rowsBreached)
    BY <2>2 DEF FoundBreached, BreachedNow
  <2>4. Honest(FoundBreached(call'), call'.truths, call'.passed)
    BY <2>1, <2>2, <2>3 DEF BreachInv
  <2> QED
    BY <2>1, <2>2, <2>4 DEF BreachInv
<1>4. CASE ReadOverrides
  <2> DEFINE e == call.entity
             found == FoundBreached(call)
             count == Cardinality(OverridesBetween(overrides, WindowStart(e), LastDay))
  <2>1. PICK p \in IF cycles = <<>> THEN {0} ELSE LatestCycles(cycles) :
          shown' = Joined(
            Dashboard(e, call.at, call.balance, found, count,
                      Allocation(e, cycles, p)),
            [on |-> call.at, seen |-> Len(ledger), truths |-> call.truths,
             passed |-> call.passed])
    BY <1>4 DEF ReadOverrides
  <2>2. found \in BOOLEAN
    BY DEF FoundBreached, CallTypes
  <2>3. /\ shown'.breached = found /\ shown'.truths = call.truths
        /\ shown'.passed = call.passed
    <3> HIDE DEF found
    <3> QED
      BY <2>1 DEF Joined, Dashboard
  <2>4. Honest(found, call.truths, call.passed)
    BY <1>4 DEF BreachInv, ReadOverrides
  <2>5. call'.pc \in {"list", "idle"}
    BY <1>4 DEF ReadOverrides, Goto, CallTypes, Idle
  <2>6. call.passed \in Nat
    BY DEF CallTypes
  <2> QED
    BY <2>2, <2>3, <2>4, <2>5, <2>6 DEF BreachInv
<1>5. CASE ListCycles
  <2>1. call'.pc = "idle" /\ shown' = shown
    BY <1>5 DEF ListCycles, Goto, Idle
  <2> QED
    BY <2>1 DEF BreachInv
<1> QED
  BY <1>2, <1>3, <1>4, <1>5

LEMMA BreachStep == TypeInv /\ BreachInv /\ [Next]_vars => BreachInv'
<1> SUFFICES ASSUME TypeInv, BreachInv, [Next]_vars
             PROVE  BreachInv'
  OBVIOUS
<1>1. ASSUME call' = call, shown' = shown, ledger' = ledger
      PROVE  BreachInv'
  BY <1>1 DEF BreachInv, BreachedNow, BreachedInWindow
<1>2. ASSUME call'.pc \notin {"balance", "overrides"}, shown' = shown \/ shown' = Nothing
      PROVE  BreachInv'
  BY <1>2 DEF BreachInv
<1>3. ASSUME NEW amount, NEW debit, Post(amount, debit)
      PROVE  BreachInv'
  BY <1>1, <1>3 DEF Post
<1>4. ASSUME NEW op, NEW dto, Ask(op, dto)
      PROVE  BreachInv'
  BY <1>2, <1>4 DEF Ask, Goto, Idle
<1>5. CASE Find \/ CloseCycle \/ SaveRenewed
  <2>1. shown' = shown
    BY <1>5 DEF Find, CloseCycle, SaveRenewed, NotShown
  <2> QED
    BY <1>2, <1>5, <2>1, CallsMove
<1>6. CASE SaveReads
  BY <1>2, <1>6, TypeFacts DEF SaveReads, Goto, NotShown, CallTypes
<1>7. CASE SaveOwn \/ Fail
  BY <1>2, <1>7 DEF SaveOwn, Fail, Goto, Idle, NotShown
<1>8. CASE NextDay
  BY <1>1, <1>8 DEF NextDay
<1>9. CASE UNCHANGED vars
  BY <1>1, <1>9 DEF vars
<1> QED
  BY <1>3, <1>4, <1>5, <1>6, <1>7, <1>8, <1>9, BreachAtCommit, BreachAtView DEF Next

\* What the dashboard says of the reserve was so at some moment of the call, unless
\* it says untouched and two entries or more passed between its queries.
THEOREM BreachesShownAreReal == Spec => []BreachShownIsReal
<1>1. Init => BreachInv
  BY IdleCall DEF Init, BreachInv
<1>2. BreachInv => BreachShownIsReal
  <2> SUFFICES ASSUME BreachInv, shown # Nothing
               PROVE  \/ shown.breached \in shown.truths
                      \/ ~ shown.breached /\ shown.passed > 1
    BY DEF BreachShownIsReal
  <2>1. /\ shown.breached \in BOOLEAN /\ shown.passed \in Nat
        /\ Honest(shown.breached, shown.truths, shown.passed)
    BY DEF BreachInv
  <2>2. CASE shown.breached
    <3>1. shown.breached = TRUE
      BY <2>1, <2>2
    <3> QED
      BY <2>1, <3>1 DEF Honest
  <2>3. CASE ~ shown.breached
    <3>1. shown.breached = FALSE
      BY <2>1, <2>3
    <3>2. shown.passed =< 1 => FALSE \in shown.truths
      BY <2>1, <2>3 DEF Honest
    <3>3. shown.passed > 1 \/ shown.passed =< 1
      BY <2>1
    <3> QED
      BY <2>3, <3>1, <3>2, <3>3
  <2> QED
    BY <2>2, <2>3
<1> QED
  BY <1>1, <1>2, BreachStep, TypeInvariant, PTL DEF Spec

-----------------------------------------------------------------------------
(***************************************************************************)
(* WindowsInOrder                                                          *)
(***************************************************************************)

\* The row as the call in flight has rolled it over so far.
Current == IF call.pc \in RollingOver THEN call.entity ELSE config

\* The closed cycles lie before the window of e, and the last one of this restart
\* right before it.
Follows(e) ==
  \A i \in DOMAIN cycles :
    /\ cycles[i].end =< WindowStart(e)
    /\ ( i = Len(cycles) /\ cycles[i].epoch = restarts /\ e.frequency # "monthly" )
       => cycles[i].end = WindowStart(e)

InOrder ==
  \A i, j \in DOMAIN cycles :
    /\ i < j => cycles[i].end =< cycles[j].start
    /\ ( /\ j = i + 1 /\ cycles[i].epoch = cycles[j].epoch
         /\ cycles[j].frequency # "monthly" ) => cycles[i].end = cycles[j].start

OrderInv ==
  /\ \A i \in DOMAIN cycles : cycles[i].end =< now /\ cycles[i].epoch =< restarts
  /\ "half_rolled" \notin slips =>
       /\ InOrder /\ Follows(Current)
       /\ call.pc \in Saving =>
            \A i \in DOMAIN cycles : cycles[i].end =< WindowStart(call.entity)

LEMMA CycleTypes ==
  ASSUME TypeInv, NEW i \in DOMAIN cycles
  PROVE  /\ cycles[i] \in Cycles /\ cycles[i].start \in Nat /\ cycles[i].end \in Nat
         /\ cycles[i].epoch \in Int /\ i \in Nat /\ i =< Len(cycles)
         /\ cycles[i].seen \in Nat
<1>1. cycles[i] \in Cycles /\ i \in Nat /\ i =< Len(cycles)
  BY TypeFacts
<1> QED
  BY <1>1, Limits DEF Cycles

LEMMA OrderInit == Init => OrderInv
<1> SUFFICES ASSUME Init
             PROVE  OrderInv
  OBVIOUS
<1>1. PICK s \in Setups : config = s.config /\ cycles = s.cycles
  BY DEF Init
<1>2. now = FirstDay /\ restarts = 0 /\ call = Idle
  BY DEF Init
<1>3. TypeInv
  BY TypeInit
<1>4. ASSUME NEW i \in DOMAIN cycles
      PROVE  /\ cycles[i].epoch < 0 /\ cycles[i].end =< FirstDay
             /\ cycles[i].end =< WindowStart(config)
             /\ \A j \in DOMAIN cycles : i < j => cycles[i].end =< cycles[j].start
             /\ ( /\ i + 1 \in DOMAIN cycles /\ cycles[i + 1].frequency # "monthly"
                  /\ cycles[i + 1].epoch = cycles[i].epoch )
                => cycles[i].end = cycles[i + 1].start
  BY <1>1, SetupsAssumption
<1>5. InOrder
  <2> SUFFICES ASSUME NEW i \in DOMAIN cycles, NEW j \in DOMAIN cycles
               PROVE  /\ i < j => cycles[i].end =< cycles[j].start
                      /\ ( /\ j = i + 1 /\ cycles[i].epoch = cycles[j].epoch
                           /\ cycles[j].frequency # "monthly" )
                         => cycles[i].end = cycles[j].start
    BY DEF InOrder
  <2> QED
    BY <1>4
<1>6. Follows(config)
  <2> SUFFICES ASSUME NEW i \in DOMAIN cycles
               PROVE  cycles[i].end =< WindowStart(config) /\ cycles[i].epoch # restarts
    BY DEF Follows
  <2> QED
    BY <1>2, <1>3, <1>4, CycleTypes
<1>7. Current = config /\ call.pc \notin Saving
  BY <1>2, IdleCall DEF Current, RollingOver, Saving
<1>8. \A i \in DOMAIN cycles : cycles[i].end =< now /\ cycles[i].epoch =< restarts
  BY <1>2, <1>3, <1>4, CycleTypes
<1> QED
  BY <1>5, <1>6, <1>7, <1>8 DEF OrderInv

\* A step that closes no cycle and moves no window.
LEMMA OrderKept ==
  ASSUME TypeInv, OrderInv, UNCHANGED <<cycles, restarts>>,
         now' = now \/ now' = now + 1,
         slips \subseteq slips',
         "half_rolled" \notin slips' =>
           /\ SameWindow(Current', Current)
           /\ call'.pc \in Saving =>
                call.pc \in Saving /\ WindowStart(call'.entity) = WindowStart(call.entity)
  PROVE  OrderInv'
<1>1. \A i \in DOMAIN cycles : cycles[i].end =< now' /\ cycles[i].epoch =< restarts
  BY TypeFacts, CycleTypes DEF OrderInv
<1>2. ASSUME "half_rolled" \notin slips'
      PROVE  /\ InOrder' /\ Follows(Current)'
             /\ call'.pc \in Saving =>
                  \A i \in DOMAIN cycles : cycles[i].end =< WindowStart(call'.entity)
  <2>1. /\ InOrder /\ Follows(Current)
        /\ call.pc \in Saving =>
             \A i \in DOMAIN cycles : cycles[i].end =< WindowStart(call.entity)
    BY <1>2 DEF OrderInv
  <2>2. /\ WindowStart(Current') = WindowStart(Current)
        /\ Current'.frequency = Current.frequency
    BY <1>2, SameStart DEF SameWindow
  <2>3. Follows(Current)'
    BY <2>1, <2>2 DEF Follows
  <2>4. InOrder'
    BY <2>1 DEF InOrder
  <2> QED
    BY <1>2, <2>1, <2>3, <2>4
<1> QED
  BY <1>1, <1>2 DEF OrderInv

\* getByAccountNumber has returned an entity the closed cycles lie before.
LEMMA OrderAtOwn ==
  ASSUME TypeInv, OrderInv, NEW l \in CallTypes, Own(l), Asked(l),
         l.entity \in Configs, DatedBy(l.entity, LastDay),
         SameWindow(config', l.entity),
         UNCHANGED <<cycles, restarts, now>>, slips \subseteq slips',
         "half_rolled" \notin slips => Follows(l.entity)
  PROVE  OrderInv'
<1> USE TypeFacts
<1>1. call'.pc \in {"idle", "rows", "find", "save_read"}
  BY OwnOutcome, IdleCall
<1>2. Current' = config'
  BY <1>1 DEF Current, RollingOver
<1>3. ASSUME "half_rolled" \notin slips'
      PROVE  /\ InOrder' /\ Follows(Current)'
             /\ call'.pc \in Saving =>
                  \A i \in DOMAIN cycles : cycles[i].end =< WindowStart(call'.entity)
  <2>1. InOrder /\ Follows(l.entity)
    BY <1>3 DEF OrderInv
  <2>2. InOrder'
    BY <2>1 DEF InOrder
  <2>3. WindowStart(config') = WindowStart(l.entity) /\ config'.frequency = l.entity.frequency
    BY SameStart DEF SameWindow
  <2>4. Follows(Current)'
    BY <1>2, <2>1, <2>3 DEF Follows
  <2>5. ASSUME call'.pc \in Saving, NEW i \in DOMAIN cycles
        PROVE  cycles[i].end =< WindowStart(call'.entity)
    <3> DEFINE u == Updated(l.entity, l.dto)
    <3>1. call'.entity = u /\ l.dto \in UpdateDtos
      BY <1>1, <2>5, OwnOutcome, IdleCall DEF Saving, Asked
    <3>2. /\ ~ Restarts(l.dto) => SameWindow(u, l.entity)
          /\ Restarts(l.dto) => now =< WindowStart(u)
          /\ u \in Configs /\ DatedBy(u, LastDay)
      BY <3>1, UpdatedRow
    <3>3. cycles[i].end \in Nat /\ WindowStart(u) \in Nat
      BY <3>2, WindowOf, CycleTypes
    <3> HIDE DEF u
    <3>4. CASE Restarts(l.dto)
      BY <3>1, <3>2, <3>3, <3>4 DEF OrderInv
    <3>5. CASE ~ Restarts(l.dto)
      BY <2>1, <3>1, <3>2, <3>5, SameStart DEF Follows
    <3> QED
      BY <3>4, <3>5
  <2> QED
    BY <2>2, <2>4, <2>5
<1> QED
  BY <1>3 DEF OrderInv

LEMMA OrderAtFind ==
  ASSUME TypeInv, OrderInv, Find
  PROVE  OrderInv'
<1> USE TypeFacts
<1> DEFINE l == [call EXCEPT !.entity = config, !.startedAt = now]
<1>1. /\ l \in CallTypes /\ l.entity = config /\ l.closed = 0 /\ Loop(l) /\ Asked(l)
      /\ call.pc = "find" /\ config' = config
      /\ UNCHANGED <<cycles, restarts, now>> /\ slips \subseteq slips'
  BY FindFacts DEF Quiet
<1> HIDE DEF l
<1>2. Current = config
  BY <1>1 DEF Current, RollingOver
<1>3. CASE call'.pc = "close" /\ call'.entity = l.entity
  <2>1. SameWindow(Current', Current) /\ call'.pc \notin Saving
    BY <1>1, <1>2, <1>3 DEF Current, RollingOver, SameWindow, Saving
  <2> QED
    BY <1>1, <2>1, OrderKept
<1>4. CASE Own(l)
  <2>1. SameWindow(config', l.entity)
    BY <1>1 DEF SameWindow
  <2>2. "half_rolled" \notin slips => Follows(l.entity)
    BY <1>1, <1>2 DEF OrderInv
  <2> QED
    BY <1>1, <1>4, <2>1, <2>2, OrderAtOwn
<1> QED
  BY <1>1, <1>3, <1>4, LoopOutcome

LEMMA OrderAtClose ==
  ASSUME TypeInv, OrderInv, CloseCycle
  PROVE  OrderInv'
<1> USE TypeFacts
<1> DEFINE e == call.entity
           w == NextWindow(e)
           l == [call EXCEPT !.entity = NextWindow(@), !.closed = @ + 1]
           n == Len(cycles)
<1>1. /\ call.pc = "close" /\ e \in Configs /\ DatedBy(e, LastDay)
      /\ e.expiresAt =< call.startedAt /\ e.expiresAt =< LastDay
      /\ l \in CallTypes /\ l.entity = w /\ l.closed = call.closed + 1 /\ Loop(l)
  BY CloseFacts
<1>2. PICK d \in Cycles :
        /\ cycles' = Append(cycles, d)
        /\ d.start = WindowStart(e) /\ d.end = e.expiresAt
        /\ d.frequency = e.frequency /\ d.epoch = restarts
  BY CloseFacts
<1>3. /\ w \in Configs /\ SameTerms(w, e) /\ WindowStart(w) \in Nat
      /\ e.expiresAt =< WindowStart(w)
      /\ w.frequency # "monthly" => WindowStart(w) = e.expiresAt
  BY <1>1, NextWindowRow
<1>4. WindowStart(e) \in Nat /\ WindowStart(e) < e.expiresAt /\ e.expiresAt \in Nat
  BY <1>1, WindowOf DEF Configs
<1>5. now' = now /\ UNCHANGED <<restarts, slips>>
  BY DEF CloseCycle, Quiet
<1>6. /\ n \in Nat /\ Len(cycles') = n + 1 /\ DOMAIN cycles' = 1 .. n + 1
      /\ DOMAIN cycles = 1 .. n
      /\ \A i \in 1 .. n : cycles'[i] = cycles[i]
      /\ cycles'[n + 1] = d
  BY <1>2
<1>7. Current = e
  BY <1>1 DEF Current, RollingOver
<1>8. /\ WindowStart(Current') = WindowStart(w) /\ Current'.frequency = w.frequency
      /\ call'.pc \notin Saving
  <2>1. call.closed \in Nat
    BY DEF CallTypes
  <2>2. l.closed # 0
    BY <1>1, <2>1
  <2> HIDE DEF l, w
  <2>3. CASE call'.pc = "close" /\ call'.entity = w
    BY <2>3 DEF Current, RollingOver, Saving
  <2>4. CASE call'.pc = "renew_read" /\ call'.entity = Renewed(w)
    <3>1. SameWindow(Renewed(w), w)
      BY <1>3, RenewedRow
    <3>2. Current' = Renewed(w) /\ call'.pc \notin Saving
      BY <2>4 DEF Current, RollingOver, Saving
    <3> QED
      BY <3>1, <3>2, SameStart DEF SameWindow
  <2> QED
    BY <1>1, <1>3, <2>2, <2>3, <2>4, LoopOutcome
<1> HIDE DEF l, w, n
<1>9. \A i \in DOMAIN cycles' : cycles'[i].end =< now' /\ cycles'[i].epoch =< restarts'
  <2>1. \A i \in 1 .. n : cycles[i].end =< now /\ cycles[i].epoch =< restarts
    BY <1>6 DEF OrderInv
  <2>2. d.end =< now /\ d.epoch =< restarts
    BY <1>1, <1>2, <1>4
  <2> QED
    BY <1>5, <1>6, <2>1, <2>2
<1>10. ASSUME "half_rolled" \notin slips'
       PROVE  InOrder' /\ Follows(Current)'
  <2>1. InOrder /\ Follows(e)
    BY <1>5, <1>7, <1>10 DEF OrderInv
  <2>2. \A i \in 1 .. n : /\ cycles[i].end \in Nat /\ cycles[i].end =< WindowStart(e)
                          /\ ( /\ i = n /\ cycles[i].epoch = restarts
                               /\ e.frequency # "monthly" )
                             => cycles[i].end = WindowStart(e)
    BY <1>6, <2>1, CycleTypes DEF Follows, n
  <2>3. InOrder'
    <3> SUFFICES ASSUME NEW i \in 1 .. n + 1, NEW j \in 1 .. n + 1
                 PROVE  /\ i < j => cycles'[i].end =< cycles'[j].start
                        /\ ( /\ j = i + 1 /\ cycles'[i].epoch = cycles'[j].epoch
                             /\ cycles'[j].frequency # "monthly" )
                           => cycles'[i].end = cycles'[j].start
      BY <1>6 DEF InOrder
    <3>1. CASE j = n + 1 /\ i \in 1 .. n
      BY <1>2, <1>6, <2>2, <3>1
    <3>2. CASE i \in 1 .. n /\ j \in 1 .. n
      BY <1>6, <2>1, <3>2 DEF InOrder
    <3>3. CASE i = n + 1
      BY <1>6, <3>3
    <3> QED
      BY <1>6, <3>1, <3>2, <3>3
  <2>4. Follows(Current)'
    <3> SUFFICES ASSUME NEW i \in 1 .. n + 1
                 PROVE  /\ cycles'[i].end =< WindowStart(w)
                        /\ ( /\ i = n + 1 /\ cycles'[i].epoch = restarts
                             /\ w.frequency # "monthly" )
                           => cycles'[i].end = WindowStart(w)
      BY <1>5, <1>6, <1>8 DEF Follows
    <3>1. CASE i \in 1 .. n
      <4>1. cycles'[i].end =< WindowStart(e)
        BY <1>6, <2>2, <3>1
      <4>2. cycles'[i].end \in Nat
        BY <1>6, <2>2, <3>1
      <4>3. cycles'[i].end =< WindowStart(w)
        BY <1>3, <1>4, <4>1, <4>2
      <4>4. i # n + 1
        BY <1>6, <3>1
      <4> QED
        BY <4>3, <4>4
    <3>2. CASE i = n + 1
      BY <1>2, <1>3, <1>6, <3>2
    <3> QED
      BY <1>6, <3>1, <3>2
  <2> QED
    BY <2>3, <2>4
<1> QED
  BY <1>8, <1>9, <1>10 DEF OrderInv

LEMMA OrderAtSaveOwn ==
  ASSUME TypeInv, OrderInv, SaveOwn
  PROVE  OrderInv'
<1> USE TypeFacts
<1> DEFINE e == call.entity
<1>1. /\ e \in Configs /\ DatedBy(e, LastDay) /\ call.pc = "save"
      /\ Updates(call, config) /\ SameWindow(config', e) /\ call' = Idle
      /\ restarts' = IF Restarts(call.dto) THEN restarts + 1 ELSE restarts
      /\ cycles' = cycles /\ now' = now /\ slips \subseteq slips'
  BY SaveFacts DEF Quiet
<1>2. Current = config /\ Current' = config' /\ call'.pc \notin Saving
  BY <1>1, IdleCall DEF Current, RollingOver, Saving
<1>3. CASE ~ Restarts(call.dto)
  <2>1. SameWindow(config', config)
    BY <1>1, <1>3 DEF Updates, SameWindow
  <2> QED
    BY <1>1, <1>2, <1>3, <2>1, OrderKept
<1>4. CASE Restarts(call.dto)
  <2>1. restarts' = restarts + 1
    BY <1>1, <1>4
  <2>2. \A i \in DOMAIN cycles : /\ cycles[i].end =< now
                                 /\ cycles[i].epoch =< restarts' /\ cycles[i].epoch # restarts'
    BY <2>1, CycleTypes DEF OrderInv
  <2>3. ASSUME "half_rolled" \notin slips'
        PROVE  InOrder' /\ Follows(Current)'
    <3>1. InOrder /\ \A i \in DOMAIN cycles : cycles[i].end =< WindowStart(e)
      BY <1>1, <2>3 DEF OrderInv, Saving
    <3>2. WindowStart(config') = WindowStart(e)
      BY <1>1, SameStart
    <3> QED
      BY <1>1, <1>2, <2>2, <3>1, <3>2 DEF InOrder, Follows
  <2> QED
    BY <1>1, <1>2, <2>2, <2>3 DEF OrderInv
<1> QED
  BY <1>3, <1>4

LEMMA OrderStep == TypeInv /\ OrderInv /\ [Next]_vars => OrderInv'
<1> SUFFICES ASSUME TypeInv, OrderInv, [Next]_vars
             PROVE  OrderInv'
  OBVIOUS
<1> USE TypeFacts
<1>0. \A c : SameWindow(c, c)
  BY DEF SameWindow
<1>1. ASSUME call' = call, config' = config, UNCHANGED <<cycles, restarts, slips>>,
             now' = now \/ now' = now + 1
      PROVE  OrderInv'
  <2>1. Current' = Current
    BY <1>1 DEF Current
  <2> QED
    BY <1>0, <1>1, <2>1, OrderKept
<1>2. ASSUME call.pc \notin RollingOver, call'.pc \notin RollingOver \union Saving,
             config' = config, UNCHANGED <<cycles, restarts, now>>, slips \subseteq slips'
      PROVE  OrderInv'
  <2>1. Current' = config /\ Current = config
    BY <1>2 DEF Current
  <2> QED
    BY <1>0, <1>2, <2>1, OrderKept
<1>3. ASSUME NEW amount, NEW debit, Post(amount, debit)
      PROVE  OrderInv'
  BY <1>1, <1>3 DEF Post
<1>4. CASE Commit
  <2>1. /\ UNCHANGED <<cycles, restarts, now>> /\ slips \subseteq slips'
        /\ SameWindow(config', config) /\ call' = Noticed(ledger')
    BY <1>4, CommitRow DEF Commit
  <2>2. call'.pc = call.pc /\ call'.entity = call.entity
    BY <2>1, NoticedCall
  <2>3. SameWindow(Current', Current)
    BY <1>0, <2>1, <2>2 DEF Current
  <2> QED
    BY <2>1, <2>2, <2>3, OrderKept
<1>5. ASSUME NEW op, NEW dto, Ask(op, dto)
      PROVE  OrderInv'
  <2>1. call.pc = "idle" /\ call'.pc = "find"
    BY <1>5 DEF Ask, Goto, Idle
  <2> QED
    BY <1>2, <1>5, <2>1 DEF Ask, RollingOver, Saving
<1>6. CASE SaveReads
  <2>1. /\ call'.entity = call.entity
        /\ \/ call.pc = "renew_read" /\ call'.pc = "renew"
           \/ call.pc = "save_read" /\ call'.pc = "save"
        /\ config' = config /\ UNCHANGED <<cycles, restarts, now, slips>>
    BY <1>6 DEF SaveReads, Goto, Quiet, CallTypes
  <2>2. Current' = Current
    BY <2>1 DEF Current, RollingOver
  <2>3. call'.pc \in Saving => call.pc \in Saving
    BY <2>1 DEF Saving
  <2> QED
    BY <1>0, <2>1, <2>2, <2>3, OrderKept
<1>7. CASE SaveRenewed
  <2>1. /\ call.pc = "renew" /\ call.entity \in Configs /\ DatedBy(call.entity, LastDay)
        /\ SameWindow(config', call.entity) /\ Own(call) /\ Asked(call)
        /\ UNCHANGED <<cycles, restarts, now>> /\ slips \subseteq slips'
    BY <1>7, RenewFacts DEF Quiet
  <2>2. "half_rolled" \notin slips => Follows(call.entity)
    BY <2>1 DEF OrderInv, Current, RollingOver
  <2> QED
    BY <2>1, <2>2, OrderAtOwn
<1>8. CASE ReadRows \/ ReadBalance \/ ReadOverrides \/ ListCycles
  <2>1. /\ call.pc \in Viewing /\ call'.pc \in Viewing \union {"idle"}
        /\ config' = config /\ UNCHANGED <<cycles, restarts, now, slips>>
    BY <1>8 DEF ReadRows, ReadBalance, ReadOverrides, ListCycles, Goto, Quiet, Idle,
                CallTypes, Viewing
  <2> QED
    BY <1>2, <2>1 DEF Viewing, RollingOver, Saving
<1>9. CASE Fail
  <2>1. /\ call' = Idle /\ config' = config /\ UNCHANGED <<cycles, restarts, now>>
        /\ slips \subseteq slips'
        /\ call.pc \in RollingOver => "half_rolled" \in slips'
    BY <1>9 DEF Fail, Goto, Quiet, Idle
  <2>2. Current' = config /\ call'.pc \notin Saving
    BY <2>1, IdleCall DEF Current, RollingOver, Saving
  <2>3. "half_rolled" \notin slips' => SameWindow(Current', Current)
    BY <1>0, <2>1, <2>2 DEF Current
  <2> QED
    BY <2>1, <2>2, <2>3, OrderKept
<1>10. CASE NextDay
  BY <1>1, <1>10 DEF NextDay
<1>11. CASE UNCHANGED vars
  BY <1>1, <1>11 DEF vars
<1> QED
  BY <1>3, <1>4, <1>5, <1>6, <1>7, <1>8, <1>9, <1>10, <1>11, OrderAtFind, OrderAtClose,
     OrderAtSaveOwn DEF Next

LEMMA OrderInvariant == Spec => []OrderInv
BY OrderInit, OrderStep, TypeInvariant, PTL DEF Spec

\* No day is closed into two cycles, and no days are left out between two of them
\* but those a restart or a short month leaves, unless a call failed half-way.
THEOREM CyclesFollowEachOther == Spec => []WindowsInOrder
<1>1. OrderInv => WindowsInOrder
  BY DEF OrderInv, InOrder, WindowsInOrder
<1> QED
  BY <1>1, OrderInvariant, PTL

-----------------------------------------------------------------------------
(***************************************************************************)
(* OverridesStayFlagged                                                    *)
(***************************************************************************)

\* The overrides of the window of c are flagged on the row.
Flagged(c) ==
  \A i \in DOMAIN overrides : overrides[i].at > WindowStart(c) => config.overrideActive

\* No override is later than the window of c.
Within(c) == \A i \in DOMAIN overrides : overrides[i].at < c.expiresAt

FlagInv ==
  /\ \A i \in DOMAIN overrides : overrides[i].at =< now
  /\ "lost_flag" \notin slips =>
       /\ Flagged(config) /\ Within(config)
       /\ call.pc \in Saving => Flagged(call.entity) /\ Within(call.entity)
       /\ call.pc = "save_read" => call.entity.overrideActive = config.overrideActive
       /\ call.pc = "save" => call.entity.overrideActive = call.stored.overrideActive
       /\ call.pc = "renew" => call.stored.overrideActive = config.overrideActive

LEMMA OverrideTypes ==
  ASSUME TypeInv, NEW i \in DOMAIN overrides
  PROVE  overrides[i].at \in Nat
<1>1. overrides[i] \in Overrides
  BY TypeFacts
<1> QED
  BY <1>1, Limits DEF Overrides, Days

LEMMA FlagInit == Init => FlagInv
<1> SUFFICES ASSUME Init
             PROVE  FlagInv
  OBVIOUS
<1>1. DOMAIN overrides = {} /\ call = Idle
  BY DEF Init
<1>2. call.pc = "idle"
  BY <1>1, IdleCall
<1> QED
  BY <1>1, <1>2 DEF FlagInv, Flagged, Within, Saving

\* A step that triggers no override and moves no window.
LEMMA FlagKept ==
  ASSUME TypeInv, FlagInv, overrides' = overrides,
         now' = now \/ now' = now + 1, slips \subseteq slips',
         SameWindow(config', config), config'.overrideActive = config.overrideActive,
         call'.pc \in Saving =>
           call.pc \in Saving /\ SameWindow(call'.entity, call.entity),
         "lost_flag" \notin slips =>
           /\ call'.pc = "save_read" => call'.entity.overrideActive = config.overrideActive
           /\ call'.pc = "save" => call'.entity.overrideActive = call'.stored.overrideActive
           /\ call'.pc = "renew" => call'.stored.overrideActive = config.overrideActive
  PROVE  FlagInv'
<1>1. \A i \in DOMAIN overrides : overrides[i].at =< now'
  BY TypeFacts, OverrideTypes DEF FlagInv
<1>2. ASSUME "lost_flag" \notin slips
      PROVE  /\ Flagged(config)' /\ Within(config)'
             /\ call'.pc \in Saving => Flagged(call.entity)' /\ Within(call.entity)'
  <2>1. /\ WindowStart(config') = WindowStart(config)
        /\ config'.expiresAt = config.expiresAt
    BY SameStart DEF SameWindow
  <2>2. call'.pc \in Saving =>
          /\ WindowStart(call'.entity) = WindowStart(call.entity)
          /\ call'.entity.expiresAt = call.entity.expiresAt
    BY SameStart DEF SameWindow
  <2> QED
    BY <1>2, <2>1, <2>2 DEF FlagInv, Flagged, Within
<1> QED
  BY <1>1, <1>2 DEF FlagInv

\* getByAccountNumber has returned an entity that is what the row now is.
LEMMA FlagAtOwn ==
  ASSUME TypeInv, FlagInv, NEW l \in CallTypes, Own(l), Asked(l),
         l.entity \in Configs, DatedBy(l.entity, LastDay),
         SameWindow(config', l.entity),
         config'.overrideActive = l.entity.overrideActive,
         overrides' = overrides, now' = now, slips \subseteq slips',
         "lost_flag" \notin slips =>
           /\ \A i \in DOMAIN overrides :
                overrides[i].at > WindowStart(l.entity) => l.entity.overrideActive
           /\ Within(l.entity)
  PROVE  FlagInv'
<1> USE TypeFacts
<1>1. call'.pc \in {"idle", "rows", "find", "save_read"}
  BY OwnOutcome, IdleCall
<1>2. ASSUME "lost_flag" \notin slips
      PROVE  Flagged(config)' /\ Within(config)'
  <2>1. /\ WindowStart(config') = WindowStart(l.entity)
        /\ config'.expiresAt = l.entity.expiresAt
    BY SameStart DEF SameWindow
  <2> QED
    BY <1>2, <2>1 DEF Flagged, Within
<1>3. ASSUME "lost_flag" \notin slips, call'.pc = "save_read"
      PROVE  /\ Flagged(call.entity)' /\ Within(call.entity)'
             /\ call'.entity.overrideActive = config'.overrideActive
  <2> DEFINE u == Updated(l.entity, l.dto)
  <2>1. call'.entity = u /\ l.dto \in UpdateDtos
    BY <1>3, OwnOutcome, IdleCall DEF Asked
  <2>2. /\ ~ Restarts(l.dto) => SameWindow(u, l.entity)
        /\ Restarts(l.dto) => now =< WindowStart(u) /\ now < u.expiresAt
        /\ u \in Configs /\ DatedBy(u, LastDay)
        /\ u.overrideActive = l.entity.overrideActive
    BY <2>1, UpdatedRow
  <2> HIDE DEF u
  <2>3. WindowStart(u) \in Nat /\ u.expiresAt \in Nat
    BY <2>2, WindowOf DEF Configs
  <2>4. ASSUME NEW i \in DOMAIN overrides
        PROVE  /\ overrides[i].at > WindowStart(u) => l.entity.overrideActive
               /\ overrides[i].at < u.expiresAt
    <3>1. overrides[i].at \in Nat /\ overrides[i].at =< now
      BY OverrideTypes DEF FlagInv
    <3>2. CASE Restarts(l.dto)
      BY <2>2, <2>3, <3>1, <3>2
    <3>3. CASE ~ Restarts(l.dto)
      BY <1>3, <2>2, <3>3, SameStart DEF SameWindow, Within
    <3> QED
      BY <3>2, <3>3
  <2> QED
    BY <2>1, <2>2, <2>4 DEF Flagged, Within
<1>4. \A i \in DOMAIN overrides' : overrides'[i].at =< now'
  BY DEF FlagInv
<1> QED
  BY <1>1, <1>2, <1>3, <1>4 DEF FlagInv, Saving

LEMMA FlagAtFind ==
  ASSUME TypeInv, FlagInv, Find
  PROVE  FlagInv'
<1> USE TypeFacts
<1> DEFINE l == [call EXCEPT !.entity = config, !.startedAt = now]
<1>1. /\ l \in CallTypes /\ l.entity = config /\ l.closed = 0 /\ Loop(l) /\ Asked(l)
      /\ call.pc = "find" /\ config' = config
      /\ overrides' = overrides /\ now' = now /\ slips \subseteq slips'
  BY FindFacts DEF Quiet
<1>2. SameWindow(config', config)
  BY <1>1 DEF SameWindow
<1> HIDE DEF l
<1>3. CASE call'.pc = "close"
  BY <1>1, <1>2, <1>3, FlagKept DEF Saving
<1>4. CASE Own(l)
  <2>1. "lost_flag" \notin slips => Flagged(config) /\ Within(config)
    BY DEF FlagInv
  <2> QED
    BY <1>1, <1>2, <1>4, <2>1, FlagAtOwn DEF Flagged
<1> QED
  BY <1>1, <1>3, <1>4, LoopOutcome

\* The rollover puts the row past every override, its flag down.
LEMMA FlagAtRenewed ==
  ASSUME TypeInv, FlagInv, SaveRenewed
  PROVE  FlagInv'
<1> USE TypeFacts
<1> DEFINE e == call.entity
           s == call.stored
<1>1. /\ e \in Configs /\ s \in Configs /\ DatedBy(e, LastDay)
      /\ RollsOver(call, config) /\ call.pc = "renew" /\ call.closed # 0
      /\ config' = Differing(config, e, s) /\ SameWindow(config', e)
      /\ Own(call) /\ Asked(call)
      /\ overrides' = overrides /\ now' = now /\ slips' = slips
  BY RenewFacts DEF Quiet
<1>2. config.expiresAt =< WindowStart(e) /\ WindowStart(e) < e.expiresAt
      /\ WindowStart(e) \in Nat /\ e.expiresAt \in Nat /\ config.expiresAt \in Nat
  BY <1>1, WindowOf DEF RollsOver, Configs
<1>3. CASE "lost_flag" \in slips
  BY <1>1, <1>3, OverrideTypes DEF FlagInv
<1>4. CASE "lost_flag" \notin slips
  <2>1. s.overrideActive = config.overrideActive /\ Within(config)
    BY <1>1, <1>4 DEF FlagInv
  <2>2. config'.overrideActive = e.overrideActive
    BY <1>1, <2>1, DifferingRow
  <2>3. \A i \in DOMAIN overrides : ~ (overrides[i].at > WindowStart(e))
    BY <1>2, <2>1, OverrideTypes DEF Within
  <2>4. Within(e)
    BY <1>2, <2>1, OverrideTypes DEF Within
  <2> QED
    BY <1>1, <2>2, <2>3, <2>4, FlagAtOwn
<1> QED
  BY <1>3, <1>4

LEMMA FlagAtSaveOwn ==
  ASSUME TypeInv, FlagInv, SaveOwn
  PROVE  FlagInv'
<1> USE TypeFacts
<1> DEFINE e == call.entity
           s == call.stored
<1>1. /\ e \in Configs /\ s \in Configs /\ call.pc = "save"
      /\ config' = Differing(config, e, s) /\ SameWindow(config', e)
      /\ call' = Idle /\ overrides' = overrides /\ now' = now /\ slips \subseteq slips'
  BY SaveFacts DEF Quiet
<1>2. call'.pc = "idle"
  BY <1>1, IdleCall
<1>3. ASSUME "lost_flag" \notin slips
      PROVE  Flagged(config)' /\ Within(config)'
  <2>1. /\ e.overrideActive = s.overrideActive /\ Flagged(e) /\ Within(e)
    BY <1>1, <1>3 DEF FlagInv, Saving
  <2>2. config'.overrideActive = config.overrideActive
    BY <1>1, <2>1, DifferingRow
  <2>3. WindowStart(config') = WindowStart(e) /\ config'.expiresAt = e.expiresAt
    BY <1>1, SameStart DEF SameWindow
  <2> QED
    BY <1>1, <2>1, <2>2, <2>3 DEF Flagged, Within
<1>4. \A i \in DOMAIN overrides' : overrides'[i].at =< now'
  BY <1>1 DEF FlagInv
<1> QED
  BY <1>1, <1>2, <1>3, <1>4 DEF FlagInv, Saving

\* A debit that triggers an override raises the flag, or is a slip.
LEMMA FlagAtCommit ==
  ASSUME TypeInv, FlagInv, Commit
  PROVE  FlagInv'
<1> USE TypeFacts
<1> DEFINE seen == pending.seen
<1>1. /\ now' = now /\ slips \subseteq slips' /\ SameWindow(config', config)
      /\ seen \in Configs /\ config' \in Configs
  BY CommitRow DEF Commit
<1>2. /\ call' \in CallTypes /\ call'.pc = call.pc /\ call'.entity = call.entity
      /\ call'.stored = call.stored
  BY NoticedCall DEF Commit
<1>3. CASE overrides' = overrides /\ config'.overrideActive = config.overrideActive
  <2>1. SameWindow(call'.entity, call.entity)
    BY <1>2 DEF SameWindow
  <2> QED
    BY <1>1, <1>2, <1>3, <2>1, FlagKept DEF FlagInv
<1>4. ASSUME NEW type, overrides' = Append(overrides, [at |-> now, type |-> type]),
             config'.overrideActive = (config.overrideActive \/ ~ seen.overrideActive),
             \/ call.pc \in Unsaved \/ config.expiresAt =< now
             \/ call.pc = "save" /\ call.entity.expiresAt =< now
             \/ seen.overrideActive /\ ~ config.overrideActive
             => "lost_flag" \in slips'
      PROVE  FlagInv'
  <2>1. \A i \in DOMAIN overrides' :
          overrides'[i].at = now \/ (i \in DOMAIN overrides /\ overrides'[i] = overrides[i])
    BY <1>4
  <2>2. \A i \in DOMAIN overrides' : overrides'[i].at =< now'
    BY <1>1, <2>1 DEF FlagInv
  <2>3. ASSUME "lost_flag" \notin slips'
        PROVE  /\ Flagged(config)' /\ Within(config)'
               /\ call'.pc \in Saving => Flagged(call.entity)' /\ Within(call.entity)'
               /\ call'.pc \notin {"save_read", "renew"}
               /\ call'.pc = "save" =>
                    call'.entity.overrideActive = call'.stored.overrideActive
    <3>1. /\ call.pc \notin Unsaved /\ ~ (config.expiresAt =< now)
          /\ ~ (call.pc = "save" /\ call.entity.expiresAt =< now)
          /\ ~ (seen.overrideActive /\ ~ config.overrideActive)
      BY <1>4, <2>3
    <3>2. config'.overrideActive
      BY <1>4, <3>1
    <3>3. call.pc # "renew"
      BY <3>1 DEF TypeInv, Place, RollsOver, RollingOver, Steps, Configs
    <3>4. call.pc \in Saving => call.pc = "save" /\ call.entity \in Configs
      BY <3>1 DEF Saving, Unsaved, TypeInv, Place, Steps
    <3>5. "lost_flag" \notin slips
      BY <1>1, <2>3
    <3>6. Within(config)'
      <4>1. config'.expiresAt = config.expiresAt /\ config.expiresAt \in Nat
        BY <1>1 DEF SameWindow, Configs
      <4>2. now < config'.expiresAt
        BY <3>1, <4>1
      <4>3. \A i \in DOMAIN overrides : overrides[i].at < config'.expiresAt
        BY <3>5, <4>1 DEF FlagInv, Within
      <4> QED
        BY <2>1, <4>2, <4>3 DEF Within
    <3>7. call'.pc \in Saving => Within(call.entity)'
      <4> SUFFICES ASSUME call'.pc \in Saving
                   PROVE  Within(call.entity)'
        OBVIOUS
      <4>1. call.pc = "save" /\ call.entity.expiresAt \in Nat
        BY <1>2, <3>4 DEF Configs
      <4>2. now < call'.entity.expiresAt
        BY <1>2, <3>1, <4>1
      <4>3. \A i \in DOMAIN overrides : overrides[i].at < call'.entity.expiresAt
        BY <1>2, <3>5, <4>1 DEF FlagInv, Within, Saving
      <4> QED
        BY <2>1, <4>2, <4>3 DEF Within
    <3>8. call'.pc = "save" => call'.entity.overrideActive = call'.stored.overrideActive
      BY <1>2, <3>5 DEF FlagInv
    <3> QED
      BY <1>2, <3>1, <3>2, <3>3, <3>6, <3>7, <3>8 DEF Flagged, Unsaved
  <2> QED
    BY <2>2, <2>3 DEF FlagInv
<1> QED
  BY <1>3, <1>4, CommitRow

LEMMA FlagStep == TypeInv /\ FlagInv /\ [Next]_vars => FlagInv'
<1> SUFFICES ASSUME TypeInv, FlagInv, [Next]_vars
             PROVE  FlagInv'
  OBVIOUS
<1> USE TypeFacts
<1>0. \A c : SameWindow(c, c)
  BY DEF SameWindow
<1>1. ASSUME call' = call, config' = config, UNCHANGED <<overrides, slips>>,
             now' = now \/ now' = now + 1
      PROVE  FlagInv'
  BY <1>0, <1>1, FlagKept DEF FlagInv
<1>2. ASSUME call'.pc \notin Saving \union {"renew"}, config' = config,
             UNCHANGED <<overrides, now>>, slips \subseteq slips'
      PROVE  FlagInv'
  BY <1>0, <1>2, FlagKept DEF Saving
<1>3. ASSUME NEW amount, NEW debit, Post(amount, debit)
      PROVE  FlagInv'
  BY <1>1, <1>3 DEF Post
<1>4. ASSUME NEW op, NEW dto, Ask(op, dto)
      PROVE  FlagInv'
  <2>1. call'.pc = "find"
    BY <1>4 DEF Ask, Goto, Idle
  <2> QED
    BY <1>2, <1>4, <2>1 DEF Ask, Saving
<1>5. CASE CloseCycle
  <2> DEFINE e == call.entity
             l == [call EXCEPT !.entity = NextWindow(@), !.closed = @ + 1]
  <2>1. l \in CallTypes /\ l.entity = NextWindow(e) /\ l.closed = call.closed + 1 /\ Loop(l)
        /\ e \in Configs /\ e.expiresAt =< LastDay
    BY <1>5, CloseFacts
  <2>2. l.closed # 0 /\ l.entity \in Configs
    BY <2>1, NextWindowRow DEF CallTypes
  <2> HIDE DEF l
  <2>3. call'.pc \in {"close", "renew_read"}
    BY <2>1, <2>2, LoopOutcome
  <2> QED
    BY <1>2, <1>5, <2>3 DEF CloseCycle, Quiet, Saving
<1>6. CASE SaveReads
  <2>1. /\ call'.entity = call.entity /\ call'.stored = config
        /\ \/ call.pc = "renew_read" /\ call'.pc = "renew"
           \/ call.pc = "save_read" /\ call'.pc = "save"
        /\ config' = config /\ UNCHANGED <<overrides, now, slips>>
    BY <1>6 DEF SaveReads, Goto, Quiet, CallTypes
  <2>2. call'.pc \in Saving => call.pc \in Saving
    BY <2>1 DEF Saving
  <2> QED
    BY <1>0, <2>1, <2>2, FlagKept DEF FlagInv
<1>7. CASE ReadRows \/ ReadBalance \/ ReadOverrides \/ ListCycles
  <2>1. /\ call'.pc \in Viewing \union {"idle"}
        /\ config' = config /\ UNCHANGED <<overrides, now, slips>>
    BY <1>7 DEF ReadRows, ReadBalance, ReadOverrides, ListCycles, Goto, Quiet, Idle,
                CallTypes, Viewing
  <2> QED
    BY <1>2, <2>1 DEF Viewing, Saving
<1>8. CASE Fail
  <2>1. /\ call'.pc = "idle" /\ config' = config /\ UNCHANGED <<overrides, now>>
        /\ slips \subseteq slips'
    BY <1>8 DEF Fail, Goto, Quiet, Idle
  <2> QED
    BY <1>2, <2>1 DEF Saving
<1>9. CASE NextDay
  BY <1>1, <1>9 DEF NextDay
<1>10. CASE UNCHANGED vars
  BY <1>1, <1>10 DEF vars
<1> QED
  BY <1>3, <1>4, <1>5, <1>6, <1>7, <1>8, <1>9, <1>10, FlagAtFind, FlagAtRenewed,
     FlagAtSaveOwn, FlagAtCommit DEF Next

LEMMA FlagInvariant == Spec => []FlagInv
BY FlagInit, FlagStep, TypeInvariant, PTL DEF Spec

\* Neither a restart nor an update takes the flag of the running cycle down, unless
\* an override came in the middle of a call that was to save the row as it was, or
\* after the end of the cycle.
THEOREM FlagsStayUp == Spec => []OverridesStayFlagged
<1>1. FlagInv => OverridesStayFlagged
  BY DEF FlagInv, Flagged, OverridesStayFlagged
<1> QED
  BY <1>1, FlagInvariant, PTL

-----------------------------------------------------------------------------
(***************************************************************************)
(* BufferPenaltyOnce                                                       *)
(***************************************************************************)

\* Some row drew on the buffer after the latest closed cycle.
DrawnSince ==
  \E k \in DOMAIN ledger :
    ledger[k].drew /\ (cycles # <<>> => ledger[k].at >= cycles[Len(cycles)].end)

\* What is missing of the buffer of c has been drawn since.
Accounted(c) == c.remainingBuffer >= c.bufferAmount \/ DrawnSince

\* The penalty of cycle i is for a draw after the cycle before it.
PenaltyDue(i) ==
  ( cycles[i].epoch >= 0 /\ cycles[i].bufferUsed > 0 /\ cycles[i].first ) =>
    \E k \in 1 .. cycles[i].seen :
      ledger[k].drew /\ (i > 1 => ledger[k].at >= cycles[i - 1].end)

BufferInv ==
  /\ \A i \in DOMAIN cycles : cycles[i].epoch >= 0 => cycles[i].seen =< Len(ledger)
  /\ slips \intersect {"straggler", "half_rolled"} = {} =>
       /\ \A i \in DOMAIN cycles : PenaltyDue(i)
       /\ call.pc \notin RollingOver => Accounted(config)
       /\ call.pc \in RollingOver /\ call.closed = 0 => Accounted(call.entity)
       /\ call.pc \in Saving => Accounted(call.entity)
       /\ call.pc \in {"renew", "save"} =>
            config.remainingBuffer = call.stored.remainingBuffer \/ DrawnSince

LEMMA BufferInit == Init => BufferInv
<1> SUFFICES ASSUME Init
             PROVE  BufferInv
  OBVIOUS
<1>1. PICK s \in Setups : config = s.config /\ cycles = s.cycles
  BY DEF Init
<1>2. /\ config \in Configs /\ config.remainingBuffer = config.bufferAmount
      /\ \A i \in DOMAIN cycles : cycles[i].epoch < 0
  BY <1>1, SetupsAssumption
<1>3. call.pc = "idle"
  BY IdleCall DEF Init
<1>4. \A i \in DOMAIN cycles : ~ (cycles[i].epoch >= 0)
  <2>1. TypeInv
    BY TypeInit
  <2> QED
    BY <1>2, <2>1, CycleTypes
<1>5. config.remainingBuffer >= config.bufferAmount
  BY <1>2 DEF Configs
<1> QED
  BY <1>3, <1>4, <1>5 DEF BufferInv, PenaltyDue, Accounted, RollingOver, Saving

\* A step that enters nothing and closes no cycle.
LEMMA BufferKept ==
  ASSUME TypeInv, BufferInv, UNCHANGED <<ledger, cycles>>, slips \subseteq slips',
         slips' \intersect {"straggler", "half_rolled"} = {} =>
           /\ call'.pc \notin RollingOver => Accounted(config')
           /\ call'.pc \in RollingOver /\ call'.closed = 0 => Accounted(call'.entity)
           /\ call'.pc \in Saving => Accounted(call'.entity)
           /\ call'.pc \in {"renew", "save"} =>
                config'.remainingBuffer = call'.stored.remainingBuffer \/ DrawnSince
  PROVE  BufferInv'
<1>1. \A i \in DOMAIN cycles : PenaltyDue(i) => PenaltyDue(i)'
  BY DEF PenaltyDue
<1>2. DrawnSince' <=> DrawnSince
  BY DEF DrawnSince
<1>3. \A c : Accounted(c) => Accounted(c)'
  BY <1>2 DEF Accounted
<1>4. /\ Accounted(config') => Accounted(config)'
      /\ Accounted(call'.entity) => Accounted(call.entity)'
  BY <1>2 DEF Accounted
<1> QED
  BY <1>1, <1>2, <1>4 DEF BufferInv

\* An update that sets the buffer fills it.
LEMMA AccountedUpdate ==
  ASSUME TypeInv, NEW e \in Configs, DatedBy(e, LastDay), NEW dto \in UpdateDtos,
         Accounted(e)
  PROVE  Accounted(Updated(e, dto))
<1> DEFINE u == Updated(e, dto)
<1>1. /\ u \in Configs
      /\ \/ u.remainingBuffer = u.bufferAmount
         \/ u.remainingBuffer = e.remainingBuffer /\ u.bufferAmount = e.bufferAmount
  BY UpdatedRow, TypeFacts
<1>2. u.bufferAmount \in Nat
  BY <1>1 DEF Configs
<1> HIDE DEF u
<1>3. Accounted(u)
  BY <1>1, <1>2 DEF Accounted
<1> QED
  BY <1>3 DEF u

\* getByAccountNumber has returned an entity the row is accounted for like.
LEMMA BufferAtOwn ==
  ASSUME TypeInv, BufferInv, NEW l \in CallTypes, Own(l), Asked(l),
         l.entity \in Configs, DatedBy(l.entity, LastDay),
         UNCHANGED <<ledger, cycles>>, slips \subseteq slips',
         slips \intersect {"straggler", "half_rolled"} = {} =>
           Accounted(l.entity) /\ Accounted(config')
  PROVE  BufferInv'
<1>1. call'.pc \in {"idle", "rows", "find", "save_read"}
  BY OwnOutcome, IdleCall
<1>2. ASSUME slips \intersect {"straggler", "half_rolled"} = {}, call'.pc = "save_read"
      PROVE  Accounted(call'.entity)
  <2>1. call'.entity = Updated(l.entity, l.dto) /\ l.dto \in UpdateDtos
    BY <1>2, OwnOutcome, IdleCall DEF Asked
  <2> QED
    BY <1>2, <2>1, AccountedUpdate
<1>3. slips' \intersect {"straggler", "half_rolled"} = {} =>
        slips \intersect {"straggler", "half_rolled"} = {}
  OBVIOUS
<1> QED
  BY <1>1, <1>2, <1>3, BufferKept DEF RollingOver, Saving

LEMMA BufferAtFind ==
  ASSUME TypeInv, BufferInv, Find
  PROVE  BufferInv'
<1> USE TypeFacts
<1> DEFINE l == [call EXCEPT !.entity = config, !.startedAt = now]
<1>1. /\ l \in CallTypes /\ l.entity = config /\ l.closed = 0 /\ Loop(l) /\ Asked(l)
      /\ call.pc = "find" /\ config' = config
      /\ UNCHANGED <<ledger, cycles>> /\ slips \subseteq slips'
  BY FindFacts DEF Quiet
<1>2. slips \intersect {"straggler", "half_rolled"} = {} => Accounted(config)
  BY <1>1 DEF BufferInv, RollingOver
<1>3. slips' \intersect {"straggler", "half_rolled"} = {} =>
        slips \intersect {"straggler", "half_rolled"} = {}
  BY <1>1
<1> HIDE DEF l
<1>4. CASE call'.pc = "close" /\ call'.entity = l.entity
  BY <1>1, <1>2, <1>3, <1>4, BufferKept DEF RollingOver, Saving
<1>5. CASE Own(l)
  BY <1>1, <1>2, <1>5, BufferAtOwn
<1> QED
  BY <1>1, <1>4, <1>5, LoopOutcome

\* The first cycle of a rollover is charged for what the row is charged for.
LEMMA BufferAtClose ==
  ASSUME TypeInv, BufferInv, CloseCycle
  PROVE  BufferInv'
<1> USE TypeFacts
<1> DEFINE e == call.entity
           l == [call EXCEPT !.entity = NextWindow(@), !.closed = @ + 1]
           n == Len(cycles)
<1>1. /\ call.pc = "close" /\ e \in Configs /\ e.expiresAt =< LastDay
      /\ l \in CallTypes /\ l.entity = NextWindow(e) /\ l.closed = call.closed + 1
      /\ Loop(l)
  BY CloseFacts
<1>2. PICK d \in Cycles :
        /\ cycles' = Append(cycles, d)
        /\ d.bufferUsed = BufferSpent(e) /\ d.seen = Len(ledger)
        /\ d.first = (call.closed = 0)
  BY CloseFacts
<1>3. /\ n \in Nat /\ DOMAIN cycles' = 1 .. n + 1 /\ DOMAIN cycles = 1 .. n
      /\ \A i \in 1 .. n : cycles'[i] = cycles[i]
      /\ cycles'[n + 1] = d
  BY <1>2
<1>4. UNCHANGED <<ledger, slips, config>> /\ Len(ledger) \in Nat
  BY DEF CloseCycle, Quiet
<1>5. /\ call'.pc \in {"close", "renew_read"} /\ call'.closed # 0
  <2>1. l.closed # 0 /\ l.entity \in Configs /\ call.closed \in Nat
    BY <1>1, NextWindowRow DEF CallTypes
  <2> HIDE DEF l
  <2> QED
    BY <1>1, <2>1, LoopOutcome
<1> HIDE DEF l, n
<1>6. \A i \in DOMAIN cycles' :
        cycles'[i].epoch >= 0 => cycles'[i].seen =< Len(ledger')
  BY <1>2, <1>3, <1>4 DEF BufferInv
<1>7. ASSUME slips \intersect {"straggler", "half_rolled"} = {}, NEW i \in 1 .. n + 1
      PROVE  PenaltyDue(i)'
  <2>1. CASE i \in 1 .. n
    <3>1. PenaltyDue(i)
      BY <1>3, <1>7, <2>1 DEF BufferInv
    <3>2. cycles'[i] = cycles[i] /\ (i > 1 => cycles'[i - 1] = cycles[i - 1])
      BY <1>3, <2>1
    <3> QED
      BY <1>4, <3>1, <3>2 DEF PenaltyDue
  <2>2. CASE i = n + 1
    <3> SUFFICES ASSUME cycles'[i].bufferUsed > 0, cycles'[i].first
                 PROVE  \E k \in 1 .. cycles'[i].seen :
                          ledger'[k].drew /\ (i > 1 => ledger'[k].at >= cycles'[i - 1].end)
      BY DEF PenaltyDue
    <3>1. Accounted(e)
      BY <1>1, <1>2, <1>3, <1>7, <2>2 DEF BufferInv, RollingOver
    <3>2. BufferSpent(e) > 0
      BY <1>2, <1>3, <2>2
    <3>3. ~ (e.remainingBuffer >= e.bufferAmount)
      <4>1. e.bufferAmount \in Nat /\ e.remainingBuffer \in Nat
        BY <1>1 DEF Configs
      <4>2. e.bufferAmount - e.remainingBuffer \in Int
        BY <4>1
      <4>3. BufferSpent(e) = IF e.bufferAmount - e.remainingBuffer > 0
                             THEN e.bufferAmount - e.remainingBuffer ELSE 0
        BY <4>2, MaxZero DEF BufferSpent
      <4> HIDE DEF e
      <4> QED
        BY <3>2, <4>1, <4>3
    <3>4. PICK k \in DOMAIN ledger :
            ledger[k].drew /\ (cycles # <<>> => ledger[k].at >= cycles[n].end)
      BY <3>1, <3>3 DEF Accounted, DrawnSince, n
    <3>5. k \in 1 .. cycles'[i].seen
      BY <1>2, <1>3, <2>2
    <3>6. ASSUME i > 1
          PROVE  ledger'[k].at >= cycles'[i - 1].end
      <4>1. i - 1 = n /\ n \in 1 .. n
        BY <1>3, <2>2, <3>6
      <4>2. cycles # <<>>
        BY <1>3, <4>1
      <4> QED
        BY <1>3, <1>4, <3>4, <4>1, <4>2
    <3> QED
      BY <1>4, <3>4, <3>5, <3>6
  <2> QED
    BY <1>3, <2>1, <2>2
<1> QED
  BY <1>3, <1>4, <1>5, <1>6, <1>7 DEF BufferInv, RollingOver, Saving

LEMMA BufferAtRenewed ==
  ASSUME TypeInv, BufferInv, SaveRenewed
  PROVE  BufferInv'
<1> USE TypeFacts
<1> DEFINE e == call.entity
           s == call.stored
<1>1. /\ e \in Configs /\ s \in Configs /\ DatedBy(e, LastDay)
      /\ RollsOver(call, config) /\ call.pc = "renew"
      /\ config' = Differing(config, e, s) /\ config' \in Configs
      /\ SameTerms(config', e)
      /\ Own(call) /\ Asked(call)
      /\ UNCHANGED <<ledger, cycles>> /\ slips' = slips
  BY RenewFacts DEF Quiet
<1>2. e.remainingBuffer = e.bufferAmount /\ e.bufferAmount \in Nat
  BY <1>1 DEF RollsOver, Configs
<1>3. Accounted(e)
  BY <1>2 DEF Accounted
<1>4. ASSUME slips \intersect {"straggler", "half_rolled"} = {}
      PROVE  Accounted(config')
  <2>1. s.remainingBuffer = config.remainingBuffer \/ DrawnSince
    BY <1>1, <1>4 DEF BufferInv
  <2>2. s.remainingBuffer = config.remainingBuffer =>
          config'.remainingBuffer = e.remainingBuffer
    BY <1>1, DifferingRow
  <2>3. config'.bufferAmount = e.bufferAmount
    BY <1>1 DEF SameTerms
  <2> HIDE DEF e, s
  <2> QED
    BY <1>2, <2>1, <2>2, <2>3 DEF Accounted
<1> QED
  BY <1>1, <1>3, <1>4, BufferAtOwn

LEMMA BufferAtSaveOwn ==
  ASSUME TypeInv, BufferInv, SaveOwn
  PROVE  BufferInv'
<1> USE TypeFacts
<1> DEFINE e == call.entity
           s == call.stored
<1>1. /\ e \in Configs /\ s \in Configs /\ call.pc = "save"
      /\ config' = Differing(config, e, s) /\ SameTerms(config', e)
      /\ call' = Idle /\ UNCHANGED <<ledger, cycles>> /\ slips \subseteq slips'
  BY SaveFacts DEF Quiet
<1>2. call'.pc = "idle"
  BY <1>1, IdleCall
<1>3. ASSUME slips \intersect {"straggler", "half_rolled"} = {}
      PROVE  Accounted(config')
  <2>1. Accounted(e) /\ (s.remainingBuffer = config.remainingBuffer \/ DrawnSince)
    BY <1>1, <1>3 DEF BufferInv, Saving
  <2>2. s.remainingBuffer = config.remainingBuffer =>
          config'.remainingBuffer = e.remainingBuffer
    BY <1>1, DifferingRow
  <2>3. config'.bufferAmount = e.bufferAmount
    BY <1>1 DEF SameTerms
  <2> HIDE DEF e, s
  <2> QED
    BY <2>1, <2>2, <2>3 DEF Accounted
<1>4. slips' \intersect {"straggler", "half_rolled"} = {} =>
        slips \intersect {"straggler", "half_rolled"} = {}
  BY <1>1
<1> QED
  BY <1>1, <1>2, <1>3, <1>4, BufferKept DEF RollingOver, Saving

\* A row that draws comes after every closed cycle, or is a straggler.
LEMMA BufferAtCommit ==
  ASSUME TypeInv, BufferInv, Commit
  PROVE  BufferInv'
<1> USE TypeFacts
<1> DEFINE row == pending.row
           n == Len(ledger)
<1>1. /\ row \in Rows /\ config' \in Configs /\ SameTerms(config', config)
      /\ row.drew \/ config'.remainingBuffer = config.remainingBuffer
      /\ ledger' = Append(ledger, row)
      /\ \A i \in DOMAIN cycles : row.at =< cycles[i].end => "straggler" \in slips'
      /\ slips \subseteq slips' /\ cycles' = cycles
  BY CommitRow DEF Commit
<1>2. /\ call' \in CallTypes /\ call'.pc = call.pc /\ call'.entity = call.entity
      /\ call'.stored = call.stored /\ call'.closed = call.closed
  BY NoticedCall DEF Commit
<1>3. /\ n \in Nat /\ DOMAIN ledger = 1 .. n /\ DOMAIN ledger' = 1 .. n + 1
      /\ Len(ledger') = n + 1 /\ ledger'[n + 1] = row
      /\ \A k \in 1 .. n : ledger'[k] = ledger[k]
  BY <1>1
<1>4. row.at \in Nat
  BY <1>1, Limits DEF Rows, Days
<1> HIDE DEF row, n
<1>5. DrawnSince => DrawnSince'
  BY <1>1, <1>3 DEF DrawnSince
<1>6. ASSUME slips' \intersect {"straggler", "half_rolled"} = {}, row.drew
      PROVE  DrawnSince'
  <2>1. cycles # <<>> => row.at >= cycles[Len(cycles)].end
    <3> SUFFICES ASSUME cycles # <<>>
                 PROVE  row.at >= cycles[Len(cycles)].end
      OBVIOUS
    <3>1. Len(cycles) \in DOMAIN cycles
      OBVIOUS
    <3>2. ~ (row.at =< cycles[Len(cycles)].end)
      BY <1>1, <1>6, <3>1
    <3> QED
      BY <1>4, <3>1, <3>2, CycleTypes
  <2>2. n + 1 \in DOMAIN ledger' /\ ledger'[n + 1] = row /\ cycles' = cycles
    BY <1>1, <1>3
  <2>3. /\ ledger'[n + 1].drew
        /\ cycles' # <<>> => ledger'[n + 1].at >= cycles'[Len(cycles')].end
    BY <1>6, <2>1, <2>2
  <2> QED
    BY <2>2, <2>3 DEF DrawnSince
<1>7. \A i \in DOMAIN cycles' :
        cycles'[i].epoch >= 0 => cycles'[i].seen =< Len(ledger')
  <2> SUFFICES ASSUME NEW i \in DOMAIN cycles, cycles[i].epoch >= 0
               PROVE  cycles[i].seen =< n + 1
    BY <1>1, <1>3
  <2>1. cycles[i].seen \in Nat /\ cycles[i].seen =< n
    BY CycleTypes DEF BufferInv, n
  <2> QED
    BY <1>3, <2>1
<1>8. ASSUME NEW i \in DOMAIN cycles, PenaltyDue(i)
      PROVE  PenaltyDue(i)'
  <2> SUFFICES ASSUME cycles[i].epoch >= 0, cycles[i].bufferUsed > 0, cycles[i].first
               PROVE  \E k \in 1 .. cycles[i].seen :
                        ledger'[k].drew /\ (i > 1 => ledger'[k].at >= cycles[i - 1].end)
    BY <1>1 DEF PenaltyDue
  <2>1. PICK k \in 1 .. cycles[i].seen :
          ledger[k].drew /\ (i > 1 => ledger[k].at >= cycles[i - 1].end)
    BY <1>8 DEF PenaltyDue
  <2>2. cycles[i].seen \in Nat /\ cycles[i].seen =< n
    BY CycleTypes DEF BufferInv, n
  <2>3. ledger'[k] = ledger[k]
    BY <1>3, <2>2
  <2> QED
    BY <2>1, <2>3
<1>9. ASSUME slips' \intersect {"straggler", "half_rolled"} = {}
      PROVE  /\ Accounted(config) => Accounted(config)'
             /\ Accounted(call.entity) => Accounted(call.entity)'
             /\ ( config.remainingBuffer = call.stored.remainingBuffer \/ DrawnSince ) =>
                  ( config'.remainingBuffer = call'.stored.remainingBuffer \/ DrawnSince' )
  <2>1. config'.bufferAmount = config.bufferAmount
    BY <1>1 DEF SameTerms
  <2>2. DrawnSince' \/ config'.remainingBuffer = config.remainingBuffer
    BY <1>1, <1>6, <1>9 DEF row
  <2> QED
    BY <1>2, <1>5, <2>1, <2>2 DEF Accounted
<1>10. slips' \intersect {"straggler", "half_rolled"} = {} =>
         slips \intersect {"straggler", "half_rolled"} = {}
  BY <1>1
<1> QED
  BY <1>1, <1>2, <1>7, <1>8, <1>9, <1>10 DEF BufferInv

LEMMA BufferStep == TypeInv /\ BufferInv /\ [Next]_vars => BufferInv'
<1> SUFFICES ASSUME TypeInv, BufferInv, [Next]_vars
             PROVE  BufferInv'
  OBVIOUS
<1> USE TypeFacts
<1>1. ASSUME call' = call, config' = config, UNCHANGED <<ledger, cycles, slips>>
      PROVE  BufferInv'
  BY <1>1, BufferKept DEF BufferInv
<1>2. ASSUME call.pc \notin RollingOver, call'.pc \notin Saving \union RollingOver,
             UNCHANGED <<config, ledger, cycles>>, slips \subseteq slips'
      PROVE  BufferInv'
  <2>1. slips' \intersect {"straggler", "half_rolled"} = {} =>
          slips \intersect {"straggler", "half_rolled"} = {}
    BY <1>2
  <2> QED
    BY <1>2, <2>1, BufferKept DEF BufferInv, Saving, RollingOver
<1>3. ASSUME NEW amount, NEW debit, Post(amount, debit)
      PROVE  BufferInv'
  BY <1>1, <1>3 DEF Post
<1>4. ASSUME NEW op, NEW dto, Ask(op, dto)
      PROVE  BufferInv'
  <2>1. call.pc = "idle" /\ call'.pc = "find"
    BY <1>4 DEF Ask, Goto, Idle
  <2> QED
    BY <1>2, <1>4, <2>1 DEF Ask, Saving, RollingOver
<1>5. CASE SaveReads
  <2>1. /\ call'.entity = call.entity /\ call'.stored = config /\ call'.closed = call.closed
        /\ \/ call.pc = "renew_read" /\ call'.pc = "renew"
           \/ call.pc = "save_read" /\ call'.pc = "save"
        /\ UNCHANGED <<config, ledger, cycles, slips>>
    BY <1>5 DEF SaveReads, Goto, Quiet, CallTypes
  <2> QED
    BY <2>1, BufferKept DEF BufferInv, Saving, RollingOver
<1>6. CASE ReadRows \/ ReadBalance \/ ReadOverrides \/ ListCycles
  <2>1. /\ call.pc \in Viewing /\ call'.pc \in Viewing \union {"idle"}
        /\ UNCHANGED <<config, ledger, cycles, slips>>
    BY <1>6 DEF ReadRows, ReadBalance, ReadOverrides, ListCycles, Goto, Quiet, Idle,
                CallTypes, Viewing
  <2> QED
    BY <1>2, <2>1 DEF Viewing, Saving, RollingOver
<1>7. CASE Fail
  <2>1. /\ call'.pc = "idle" /\ UNCHANGED <<config, ledger, cycles>>
        /\ slips \subseteq slips'
        /\ call.pc \in RollingOver => "half_rolled" \in slips'
    BY <1>7 DEF Fail, Goto, Quiet, Idle
  <2>2. CASE call.pc \in RollingOver
    BY <2>1, <2>2, BufferKept DEF Saving, RollingOver
  <2>3. CASE call.pc \notin RollingOver
    BY <1>2, <2>1, <2>3 DEF Saving, RollingOver
  <2> QED
    BY <2>2, <2>3
<1>8. CASE NextDay
  BY <1>1, <1>8 DEF NextDay
<1>9. CASE UNCHANGED vars
  BY <1>1, <1>9 DEF vars
<1> QED
  BY <1>3, <1>4, <1>5, <1>6, <1>7, <1>8, <1>9, BufferAtFind, BufferAtClose,
     BufferAtRenewed, BufferAtSaveOwn, BufferAtCommit DEF Next

LEMMA BufferInvariant == Spec => []BufferInv
BY BufferInit, BufferStep, TypeInvariant, PTL DEF Spec

\* A draw on the buffer is charged to one late look's cycles, and not again.
THEOREM DrawsAreChargedOnce == Spec => []BufferPenaltyOnce
<1>1. BufferInv => BufferPenaltyOnce
  BY DEF BufferInv, PenaltyDue, BufferPenaltyOnce
<1> QED
  BY <1>1, BufferInvariant, PTL

-----------------------------------------------------------------------------
(***************************************************************************)
(* BufferUsedExplained                                                     *)
(***************************************************************************)

\* A debit charged to the buffer has committed since day d began.
LateDraw(d) == \E k \in DOMAIN ledger : ledger[k].drew /\ k \notin atEnd[d].charged

\* What was missing of the buffer when the window of c ended is what is missing in
\* c, or there has been such a debit since.
StillMissing(c) ==
  ( c.expiresAt \in Days /\ c.expiresAt =< now /\ atEnd[c.expiresAt] # Nothing ) =>
    atEnd[c.expiresAt].missing = BufferSpent(c) \/ LateDraw(c.expiresAt)

\* The first cycle of a look, and those that follow it.
UseDue(i) ==
  LET c == cycles[i] IN
  ( c.epoch >= 0 /\ c.first /\ c.end \in Days /\ atEnd[c.end] # Nothing ) =>
    \/ c.bufferUsed = atEnd[c.end].missing
    \/ \E k \in 1 .. c.seen : ledger[k].drew /\ k \notin atEnd[c.end].charged

UseShared(i) ==
  cycles[i].epoch >= 0 /\ ~ cycles[i].first =>
    i > 1 /\ cycles[i].bufferUsed = cycles[i - 1].bufferUsed

UsedInv ==
  /\ DOMAIN atEnd = Days
  /\ \A d \in Days : atEnd[d] # Nothing =>
       d =< now /\ atEnd[d].charged \subseteq DOMAIN ledger
  /\ \A i \in DOMAIN cycles : UseShared(i)
  /\ call.pc = "close" /\ call.closed # 0 =>
       /\ cycles # <<>>
       /\ cycles[Len(cycles)].bufferUsed = BufferSpent(call.entity)
  /\ "late_update" \notin slips =>
       /\ \A d \in Days : atEnd[d] # Nothing => d =< config.expiresAt
       /\ StillMissing(config)
       /\ call.pc = "close" /\ call.closed = 0 => StillMissing(call.entity)
       /\ \A i \in DOMAIN cycles : UseDue(i)

LEMMA UsedInit == Init => UsedInv
<1> SUFFICES ASSUME Init
             PROVE  UsedInv
  OBVIOUS
<1>1. PICK s \in Setups : config = s.config /\ cycles = s.cycles
  BY DEF Init
<1>2. TypeInv /\ call.pc = "idle"
  BY TypeInit, IdleCall DEF Init
<1>3. \A i \in DOMAIN cycles : ~ (cycles[i].epoch >= 0)
  BY <1>1, <1>2, SetupsAssumption, CycleTypes
<1>4. atEnd = [d \in Days |-> Nothing]
  BY DEF Init
<1> QED
  BY <1>2, <1>3, <1>4 DEF UsedInv, UseShared, UseDue, StillMissing

\* A step that enters nothing, closes no cycle and ends no day.
LEMMA UsedKept ==
  ASSUME TypeInv, UsedInv, UNCHANGED <<ledger, cycles, atEnd, now>>, slips \subseteq slips',
         ~ (call'.pc = "close" /\ call'.closed # 0),
         "late_update" \notin slips' =>
           /\ \A d \in Days : atEnd[d] # Nothing => d =< config'.expiresAt
           /\ StillMissing(config')
           /\ call'.pc = "close" /\ call'.closed = 0 => StillMissing(call'.entity)
  PROVE  UsedInv'
<1>1. \A i \in DOMAIN cycles :
        (UseDue(i) => UseDue(i)') /\ (UseShared(i) => UseShared(i)')
  BY DEF UseDue, UseShared
<1>2. /\ StillMissing(config') => StillMissing(config)'
      /\ StillMissing(call'.entity) => StillMissing(call.entity)'
  BY DEF StillMissing, LateDraw
<1>3. "late_update" \notin slips' => "late_update" \notin slips
  OBVIOUS
<1> QED
  BY <1>1, <1>2, <1>3 DEF UsedInv

LEMMA UsedAtFind ==
  ASSUME TypeInv, UsedInv, Find
  PROVE  UsedInv'
<1> USE TypeFacts
<1> DEFINE l == [call EXCEPT !.entity = config, !.startedAt = now]
<1>1. /\ l \in CallTypes /\ l.entity = config /\ l.closed = 0 /\ Loop(l)
      /\ UNCHANGED <<config, ledger, cycles, atEnd, now>> /\ slips \subseteq slips'
  BY FindFacts DEF Quiet
<1> HIDE DEF l
<1>2. \/ call'.pc = "close" /\ call'.closed = 0 /\ call'.entity = config
      \/ call'.pc # "close"
  <2>1. CASE call'.pc = "close" /\ call'.entity = l.entity /\ call'.closed = l.closed
    BY <1>1, <2>1
  <2>2. CASE Own(l)
    BY <1>1, <2>2, OwnOutcome, IdleCall
  <2> QED
    BY <1>1, <2>1, <2>2, LoopOutcome
<1> QED
  BY <1>1, <1>2, UsedKept DEF UsedInv

\* A first cycle is charged for what the row is charged for, one that follows it for
\* as much.
LEMMA UsedAtClose ==
  ASSUME TypeInv, UsedInv, CloseCycle
  PROVE  UsedInv'
<1> USE TypeFacts
<1> DEFINE e == call.entity
           l == [call EXCEPT !.entity = NextWindow(@), !.closed = @ + 1]
           n == Len(cycles)
<1>1. /\ call.pc = "close" /\ e \in Configs /\ e.expiresAt =< LastDay
      /\ e.expiresAt =< call.startedAt
      /\ l \in CallTypes /\ l.entity = NextWindow(e) /\ l.closed = call.closed + 1
      /\ Loop(l)
  BY CloseFacts
<1>2. PICK d \in Cycles :
        /\ cycles' = Append(cycles, d) /\ d.end = e.expiresAt
        /\ d.bufferUsed = BufferSpent(e) /\ d.seen = Len(ledger)
        /\ d.first = (call.closed = 0)
  BY CloseFacts
<1>3. /\ n \in Nat /\ DOMAIN cycles' = 1 .. n + 1 /\ DOMAIN cycles = 1 .. n
      /\ \A i \in 1 .. n : cycles'[i] = cycles[i]
      /\ cycles'[n + 1] = d /\ Len(cycles') = n + 1 /\ cycles' # <<>>
  BY <1>2
<1>4. UNCHANGED <<ledger, slips, config, atEnd, now>> /\ Len(ledger) \in Nat
  BY DEF CloseCycle, Quiet
<1>5. call'.pc = "close" => BufferSpent(call'.entity) = d.bufferUsed
  <2>1. /\ l.entity \in Configs /\ call.closed \in Nat
        /\ SameTerms(l.entity, e) /\ l.entity.remainingBuffer = e.remainingBuffer
    BY <1>1, NextWindowRow DEF CallTypes
  <2>2. BufferSpent(l.entity) = BufferSpent(e)
    BY <2>1 DEF BufferSpent, SameTerms
  <2>3. call'.pc = "close" => call'.entity = l.entity
    <3>1. l.closed # 0
      BY <1>1, <2>1
    <3> HIDE DEF l
    <3> QED
      BY <1>1, <2>1, <3>1, LoopOutcome
  <2> QED
    BY <1>2, <2>2, <2>3
<1>6. call'.closed # 0
  <2>1. l.closed # 0 /\ l.entity \in Configs
    BY <1>1, NextWindowRow DEF CallTypes
  <2> HIDE DEF l
  <2> QED
    BY <1>1, <2>1, LoopOutcome
<1> HIDE DEF l, n
<1>7. ASSUME NEW i \in 1 .. n + 1
      PROVE  UseShared(i)'
  <2>1. CASE i \in 1 .. n
    <3>1. UseShared(i) /\ cycles'[i] = cycles[i] /\ (i > 1 => cycles'[i - 1] = cycles[i - 1])
      BY <1>3, <2>1 DEF UsedInv
    <3> QED
      BY <3>1 DEF UseShared
  <2>2. CASE i = n + 1
    <3> SUFFICES ASSUME call.closed # 0
                 PROVE  i > 1 /\ cycles'[i].bufferUsed = cycles'[i - 1].bufferUsed
      BY <1>2, <1>3, <2>2 DEF UseShared
    <3>1. cycles # <<>> /\ cycles[n].bufferUsed = BufferSpent(e)
      BY <1>1 DEF UsedInv, n
    <3>2. n \in 1 .. n
      BY <1>3, <3>1
    <3> QED
      BY <1>2, <1>3, <2>2, <3>1, <3>2
  <2> QED
    BY <1>3, <2>1, <2>2
<1>8. ASSUME "late_update" \notin slips, NEW i \in 1 .. n + 1
      PROVE  UseDue(i)'
  <2>1. CASE i \in 1 .. n
    <3>1. UseDue(i) /\ cycles'[i] = cycles[i]
      BY <1>3, <1>8, <2>1 DEF UsedInv
    <3> QED
      BY <1>4, <3>1 DEF UseDue
  <2>2. CASE i = n + 1
    <3> SUFFICES ASSUME d.first, d.end \in Days, atEnd[d.end] # Nothing
                 PROVE  \/ d.bufferUsed = atEnd[d.end].missing
                        \/ \E k \in 1 .. d.seen :
                             ledger[k].drew /\ k \notin atEnd[d.end].charged
      BY <1>3, <1>4, <2>2 DEF UseDue
    <3>1. StillMissing(e)
      BY <1>1, <1>2, <1>8 DEF UsedInv
    <3>2. d.end =< now
      <4>1. e.expiresAt \in Nat
        BY <1>1 DEF Configs
      <4> HIDE DEF e
      <4> QED
        BY <1>1, <1>2, <4>1
    <3>3. atEnd[d.end].missing = BufferSpent(e) \/ LateDraw(d.end)
      BY <1>2, <3>1, <3>2 DEF StillMissing
    <3>4. DOMAIN ledger = 1 .. d.seen
      BY <1>2
    <3> QED
      BY <1>2, <3>3, <3>4 DEF LateDraw
  <2> QED
    BY <1>3, <2>1, <2>2
<1>9. StillMissing(config) => StillMissing(config)'
  BY <1>4 DEF StillMissing, LateDraw
<1> QED
  BY <1>3, <1>4, <1>5, <1>6, <1>7, <1>8, <1>9 DEF UsedInv

\* A rollover ends in a window no day has seen end yet.
LEMMA UsedAtRenewed ==
  ASSUME TypeInv, UsedInv, SaveRenewed
  PROVE  UsedInv'
<1> USE TypeFacts
<1> DEFINE e == call.entity
<1>1. /\ e \in Configs /\ DatedBy(e, LastDay) /\ RollsOver(call, config)
      /\ call.closed # 0 /\ config' \in Configs /\ SameWindow(config', e)
      /\ UNCHANGED <<ledger, cycles, atEnd, now, slips>>
  BY RenewFacts DEF Quiet
<1>2. call'.pc # "close"
  BY RenewFacts, OwnOutcome, IdleCall
<1>3. config.expiresAt < config'.expiresAt
      /\ config.expiresAt \in Nat /\ config'.expiresAt \in Nat
  <2>1. /\ config.expiresAt =< WindowStart(e) /\ WindowStart(e) < e.expiresAt
        /\ config'.expiresAt = e.expiresAt /\ WindowStart(e) \in Nat
    BY <1>1, WindowOf DEF RollsOver, SameWindow
  <2>2. config.expiresAt \in Nat /\ config'.expiresAt \in Nat
    BY <1>1 DEF Configs
  <2> HIDE DEF e
  <2> QED
    BY <2>1, <2>2
<1>4. ASSUME "late_update" \notin slips, NEW d \in Days, atEnd[d] # Nothing
      PROVE  d < config'.expiresAt
  BY <1>3, <1>4, Limits DEF UsedInv, Days
<1>5. "late_update" \notin slips => StillMissing(config')
  BY <1>3, <1>4 DEF StillMissing
<1>6. \A d \in Days : d < config'.expiresAt => d =< config'.expiresAt
  BY <1>3, Limits DEF Days
<1> QED
  BY <1>1, <1>2, <1>4, <1>5, <1>6, UsedKept

\* An update that is not late leaves a window that has not ended.
LEMMA UsedAtSaveOwn ==
  ASSUME TypeInv, UsedInv, SaveOwn
  PROVE  UsedInv'
<1> USE TypeFacts
<1> DEFINE e == call.entity
<1>1. /\ e \in Configs /\ config' \in Configs /\ SameWindow(config', e)
      /\ slips \subseteq slips' /\ call' = Idle
      /\ e.expiresAt =< now => "late_update" \in slips'
      /\ UNCHANGED <<ledger, cycles, atEnd, now>>
  BY SaveFacts DEF Quiet
<1>2. "late_update" \notin slips' => ~ (config'.expiresAt =< now)
  BY <1>1 DEF SameWindow
<1>3. \A d \in Days : atEnd[d] # Nothing => d =< now
  BY DEF UsedInv
<1>4. "late_update" \notin slips' =>
        /\ \A d \in Days : atEnd[d] # Nothing => d =< config'.expiresAt
        /\ StillMissing(config')
  <2>1. config'.expiresAt \in Nat
    BY <1>1 DEF Configs
  <2> HIDE DEF e
  <2> QED
    BY <1>2, <1>3, <2>1, Limits DEF StillMissing, Days
<1> QED
  BY <1>1, <1>4, IdleCall, UsedKept

\* A row that draws is a late one to every day that has begun.
LEMMA UsedAtCommit ==
  ASSUME TypeInv, BufferInv, UsedInv, Commit
  PROVE  UsedInv'
<1> USE TypeFacts
<1> DEFINE row == pending.row
           n == Len(ledger)
<1>1. /\ row \in Rows /\ config' \in Configs /\ SameTerms(config', config)
      /\ SameWindow(config', config)
      /\ row.drew \/ config'.remainingBuffer = config.remainingBuffer
      /\ ledger' = Append(ledger, row) /\ slips \subseteq slips'
      /\ UNCHANGED <<cycles, atEnd, now>>
  BY CommitRow DEF Commit
<1>2. /\ call'.pc = call.pc /\ call'.entity = call.entity /\ call'.closed = call.closed
  BY NoticedCall DEF Commit
<1>3. /\ n \in Nat /\ DOMAIN ledger = 1 .. n /\ DOMAIN ledger' = 1 .. n + 1
      /\ ledger'[n + 1] = row
      /\ \A k \in 1 .. n : ledger'[k] = ledger[k]
  BY <1>1
<1> HIDE DEF row, n
<1>4. \A d \in Days : atEnd[d] # Nothing => atEnd[d].charged \subseteq 1 .. n
  BY <1>3 DEF UsedInv
<1>5. \A d : LateDraw(d) => LateDraw(d)'
  BY <1>1, <1>3 DEF LateDraw
<1>6. ASSUME NEW d \in Days, atEnd[d] # Nothing, row.drew
      PROVE  LateDraw(d)'
  <2>1. n + 1 \in DOMAIN ledger' /\ n + 1 \notin 1 .. n
    BY <1>3
  <2>2. ledger'[n + 1].drew /\ n + 1 \notin atEnd'[d].charged
    BY <1>1, <1>3, <1>4, <1>6, <2>1
  <2> QED
    BY <2>1, <2>2 DEF LateDraw
<1>7. row.drew \/ BufferSpent(config') = BufferSpent(config)
  BY <1>1 DEF BufferSpent, SameTerms
<1>8. StillMissing(config) => StillMissing(config)'
  <2>1. config'.expiresAt = config.expiresAt
    BY <1>1 DEF SameWindow
  <2> QED
    BY <1>1, <1>5, <1>6, <1>7, <2>1 DEF StillMissing
<1>9. StillMissing(call.entity) => StillMissing(call.entity)'
  BY <1>1, <1>2, <1>5 DEF StillMissing
<1>10. ASSUME NEW i \in DOMAIN cycles, UseDue(i)
       PROVE  UseDue(i)'
  <2> DEFINE c == cycles[i]
  <2> SUFFICES ASSUME c.epoch >= 0, c.first, c.end \in Days, atEnd[c.end] # Nothing
               PROVE  \/ c.bufferUsed = atEnd[c.end].missing
                      \/ \E k \in 1 .. c.seen :
                           ledger'[k].drew /\ k \notin atEnd[c.end].charged
    BY <1>1 DEF UseDue
  <2>1. c.seen \in Nat /\ c.seen =< n
    BY CycleTypes DEF BufferInv, n
  <2>2. \A k \in 1 .. c.seen : ledger'[k] = ledger[k]
    BY <1>3, <2>1
  <2> QED
    BY <1>10, <2>2 DEF UseDue
<1>11. \A i \in DOMAIN cycles : UseShared(i) => UseShared(i)'
  BY <1>1 DEF UseShared
<1>12. \A d \in Days : atEnd[d] # Nothing => atEnd[d].charged \subseteq DOMAIN ledger'
  BY <1>3, <1>4
<1>13. config'.expiresAt = config.expiresAt
  BY <1>1 DEF SameWindow
<1> QED
  BY <1>1, <1>2, <1>8, <1>9, <1>10, <1>11, <1>12, <1>13 DEF UsedInv

\* Every closed cycle has ended by the day that ends.
LEMMA UsedAtNextDay ==
  ASSUME TypeInv, OrderInv, UsedInv, NextDay
  PROVE  UsedInv'
<1> USE TypeFacts
<1> DEFINE today == now + 1
<1>1. /\ now < LastDay /\ now' = today
      /\ atEnd' = IF config.expiresAt = today
                  THEN [atEnd EXCEPT ![today] = Dawn] ELSE atEnd
      /\ UNCHANGED <<config, ledger, cycles, slips, call>>
  BY DEF NextDay
<1>2. today \in Days /\ DOMAIN atEnd = Days
  BY <1>1, Limits DEF Days, UsedInv
<1>3. /\ DOMAIN atEnd' = Days
      /\ config.expiresAt = today => atEnd'[today] = Dawn
      /\ \A d \in Days : d # today \/ config.expiresAt # today => atEnd'[d] = atEnd[d]
  BY <1>1, <1>2
<1>4. \A d \in Days : d =< now => d # today
  BY Limits DEF Days
<1>5. today \in Nat /\ \A d \in Days : d =< today => d =< now \/ d = today
  BY Limits DEF Days
<1>6. \A d \in Days : d =< now => d =< today
  BY Limits DEF Days
<1> HIDE DEF today
<1>7. Dawn.charged \subseteq DOMAIN ledger /\ Dawn.missing = BufferSpent(config)
  BY DEF Dawn
<1>8. ASSUME NEW d \in Days, atEnd'[d] # Nothing
      PROVE  d =< today /\ atEnd'[d].charged \subseteq DOMAIN ledger
  <2>1. CASE d = today /\ config.expiresAt = today
    BY <1>3, <1>5, <1>7, <2>1
  <2>2. CASE ~ (d = today /\ config.expiresAt = today)
    BY <1>3, <1>6, <1>8, <2>2 DEF UsedInv
  <2> QED
    BY <2>1, <2>2
<1>9. \A d \in Days : d =< now => (LateDraw(d) <=> LateDraw(d)')
  BY <1>1, <1>3, <1>4 DEF LateDraw
<1>10. ASSUME NEW c, StillMissing(c), c.expiresAt =< now
       PROVE  ( c.expiresAt \in Days /\ atEnd'[c.expiresAt] # Nothing ) =>
                \/ atEnd'[c.expiresAt].missing = BufferSpent(c)
                \/ LateDraw(c.expiresAt)'
  BY <1>3, <1>4, <1>9, <1>10 DEF StillMissing
<1>11. StillMissing(config) => StillMissing(config)'
  <2> SUFFICES ASSUME StillMissing(config), config.expiresAt \in Days,
                      config.expiresAt =< today, atEnd'[config.expiresAt] # Nothing
               PROVE  \/ atEnd'[config.expiresAt].missing = BufferSpent(config)
                      \/ LateDraw(config.expiresAt)'
    BY <1>1 DEF StillMissing
  <2>1. CASE config.expiresAt = today
    BY <1>3, <1>7, <2>1
  <2>2. CASE config.expiresAt # today
    <3>1. config.expiresAt =< now
      BY <1>5, <2>2
    <3> QED
      BY <1>1, <1>10, <3>1
  <2> QED
    BY <2>1, <2>2
<1>12. ASSUME call.pc = "close", StillMissing(call.entity)
       PROVE  StillMissing(call.entity)'
  <2>1. call.entity.expiresAt =< call.startedAt /\ call.entity \in Configs
    BY <1>12 DEF TypeInv, Place, Steps, RollingOver, RollsOver
  <2>2. call.entity.expiresAt =< now
    <3>1. call.entity.expiresAt \in Nat
      BY <2>1 DEF Configs
    <3> QED
      BY <2>1, <3>1
  <2> QED
    BY <1>1, <1>10, <1>12, <2>2 DEF StillMissing
<1>13. ASSUME NEW i \in DOMAIN cycles, UseDue(i)
       PROVE  UseDue(i)'
  <2>1. cycles[i].end =< now
    BY DEF OrderInv
  <2>2. cycles[i].end \in Days => atEnd'[cycles[i].end] = atEnd[cycles[i].end]
    BY <1>3, <1>4, <2>1
  <2> QED
    BY <1>1, <1>13, <2>2 DEF UseDue
<1>14. \A i \in DOMAIN cycles : UseShared(i) => UseShared(i)'
  BY <1>1 DEF UseShared
<1>15. ASSUME "late_update" \notin slips, NEW d \in Days, atEnd'[d] # Nothing
       PROVE  d =< config.expiresAt
  <2>1. CASE d = today /\ config.expiresAt = today
    BY <1>5, <2>1
  <2>2. CASE ~ (d = today /\ config.expiresAt = today)
    BY <1>3, <1>15, <2>2 DEF UsedInv
  <2> QED
    BY <2>1, <2>2
<1> QED
  BY <1>1, <1>3, <1>8, <1>11, <1>12, <1>13, <1>14, <1>15 DEF UsedInv

LEMMA UsedStep == TypeInv /\ OrderInv /\ BufferInv /\ UsedInv /\ [Next]_vars => UsedInv'
<1> SUFFICES ASSUME TypeInv, OrderInv, BufferInv, UsedInv, [Next]_vars
             PROVE  UsedInv'
  OBVIOUS
<1> USE TypeFacts
<1>1. ASSUME call'.pc # "close", config' = config,
             UNCHANGED <<ledger, cycles, atEnd, now>>, slips \subseteq slips'
      PROVE  UsedInv'
  <2>1. "late_update" \notin slips' => "late_update" \notin slips
    BY <1>1
  <2> QED
    BY <1>1, <2>1, UsedKept DEF UsedInv
<1>2. ASSUME NEW amount, NEW debit, Post(amount, debit)
      PROVE  UsedInv'
  BY <1>2
  DEF Post, UsedInv, UseShared, UseDue, StillMissing, LateDraw
<1>3. ASSUME NEW op, NEW dto, Ask(op, dto)
      PROVE  UsedInv'
  <2>1. call'.pc = "find"
    BY <1>3 DEF Ask, Goto, Idle
  <2> QED
    BY <1>1, <1>3, <2>1 DEF Ask
<1>4. CASE SaveReads
  <2>1. call'.pc \in {"renew", "save"}
    BY <1>4 DEF SaveReads, Goto, CallTypes
  <2> QED
    BY <1>1, <1>4, <2>1 DEF SaveReads, Quiet
<1>5. CASE ReadRows \/ ReadBalance \/ ReadOverrides \/ ListCycles \/ Fail
  <2>1. call'.pc \in {"balance", "overrides", "list", "idle"}
    BY <1>5
    DEF ReadRows, ReadBalance, ReadOverrides, ListCycles, Fail, Goto, Idle, CallTypes
  <2> QED
    BY <1>1, <1>5, <2>1
    DEF ReadRows, ReadBalance, ReadOverrides, ListCycles, Fail, Quiet
<1>6. CASE UNCHANGED vars
  BY <1>6 DEF vars, UsedInv, UseShared, UseDue, StillMissing, LateDraw
<1> QED
  BY <1>2, <1>3, <1>4, <1>5, <1>6, UsedAtFind, UsedAtClose, UsedAtRenewed, UsedAtSaveOwn,
     UsedAtCommit, UsedAtNextDay DEF Next

LEMMA UsedInvariant == Spec => []UsedInv
BY UsedInit, UsedStep, TypeInvariant, OrderInvariant, BufferInvariant, PTL DEF Spec

\* What a closed cycle says was used of the buffer is what was missing when it ended,
\* or a debit charged to the buffer has committed between its end and the look that
\* closes it; the cycles one look closes together say the same.
THEOREM BufferUseIsExplained == Spec => []BufferUsedExplained
<1>1. UsedInv => BufferUsedExplained
  BY DEF UsedInv, UseDue, UseShared, BufferUsedExplained
<1> QED
  BY <1>1, UsedInvariant, PTL

-----------------------------------------------------------------------------
(***************************************************************************)
(* RunningCycleListedOnce                                                  *)
(***************************************************************************)

\* The set S goes on from window to window of c, as far as the model's dates go.
GoesOn(S, c) ==
  \A x \in S : x =< LastDay => ComputeExpiresAt(c.frequency, x, c.customDays) \in S

\* The ends of the window of c and of those that follow it.
Ends(c) ==
  {d \in Nat : \A S \in SUBSET Nat : c.expiresAt \in S /\ GoesOn(S, c) => d \in S}

LEMMA FirstEnd ==
  ASSUME NEW c \in Configs
  PROVE  c.expiresAt \in Ends(c)
BY DEF Ends, Configs

LEMMA FollowingEnd ==
  ASSUME NEW c \in Configs, NEW x \in Ends(c), x =< LastDay
  PROVE  ComputeExpiresAt(c.frequency, x, c.customDays) \in Ends(c)
<1> DEFINE y == ComputeExpiresAt(c.frequency, x, c.customDays)
<1>1. x \in Nat
  BY DEF Ends
<1>2. x \in 0 .. LastDay /\ c.frequency \in Frequencies /\ c.customDays \in Nat
  BY <1>1, Limits DEF Configs
<1>3. y \in Nat
  BY <1>2, NextDateType
<1>4. ASSUME NEW S \in SUBSET Nat, c.expiresAt \in S, GoesOn(S, c)
      PROVE  y \in S
  <2>1. x \in S
    BY <1>4 DEF Ends
  <2> QED
    BY <1>4, <2>1 DEF GoesOn
<1> HIDE DEF y
<1>5. y \in Ends(c)
  BY <1>3, <1>4 DEF Ends
<1> QED
  BY <1>5 DEF y

LEMMA EndsAhead ==
  ASSUME NEW c \in Configs, NEW x \in Ends(c)
  PROVE  x \in Nat /\ c.expiresAt =< x
<1> DEFINE S == {d \in Nat : c.expiresAt =< d}
<1>1. c.expiresAt \in Nat /\ c.frequency \in Frequencies /\ c.customDays \in Nat
  BY DEF Configs
<1>2. c.expiresAt \in S /\ S \in SUBSET Nat
  BY <1>1
<1>3. GoesOn(S, c)
  <2> SUFFICES ASSUME NEW d \in Nat, c.expiresAt =< d, d =< LastDay
               PROVE  ComputeExpiresAt(c.frequency, d, c.customDays) \in S
    BY DEF GoesOn
  <2> DEFINE y == ComputeExpiresAt(c.frequency, d, c.customDays)
  <2>1. y \in Nat /\ d < y
    BY <1>1, Limits, NextDateType
  <2> HIDE DEF y
  <2>2. y \in S
    BY <1>1, <2>1
  <2> QED
    BY <2>2 DEF y
<1> HIDE DEF S
<1>4. x \in S
  BY <1>2, <1>3 DEF Ends
<1> QED
  BY <1>4 DEF S

\* The ends that follow are those that follow the next window.
LEMMA EndsFromNext ==
  ASSUME NEW e \in Configs, e.expiresAt =< LastDay, NEW x \in Ends(e)
  PROVE  x = e.expiresAt \/ x \in Ends(NextWindow(e))
<1> DEFINE w == NextWindow(e)
           S == {e.expiresAt} \union Ends(w)
<1>1. /\ w \in Configs /\ w.frequency = e.frequency /\ w.customDays = e.customDays
      /\ w.expiresAt = ComputeExpiresAt(e.frequency, e.expiresAt, e.customDays)
  BY NextWindowRow DEF SameTerms
<1>2. S \in SUBSET Nat /\ e.expiresAt \in S
  BY DEF Ends, Configs
<1>3. GoesOn(S, e)
  <2> SUFFICES ASSUME NEW d \in S, d =< LastDay
               PROVE  ComputeExpiresAt(e.frequency, d, e.customDays) \in S
    BY DEF GoesOn
  <2>1. CASE d = e.expiresAt
    <3>1. w.expiresAt \in Ends(w)
      BY <1>1, FirstEnd
    <3> QED
      BY <1>1, <2>1, <3>1
  <2>2. CASE d \in Ends(w)
    <3>1. ComputeExpiresAt(w.frequency, d, w.customDays) \in Ends(w)
      BY <1>1, <2>2, FollowingEnd
    <3> QED
      BY <1>1, <3>1
  <2> QED
    BY <2>1, <2>2
<1> HIDE DEF S
<1>4. x \in S
  BY <1>2, <1>3 DEF Ends
<1> QED
  BY <1>4 DEF S

\* The closed cycles lie before the window of c, or a failed call has closed them
\* and the next one is going to close them again.
Trails(c) ==
  \A i \in DOMAIN cycles : cycles[i].end =< WindowStart(c) \/ cycles[i].end \in Ends(c)

ClosedBy(date) == \A i \in DOMAIN cycles : cycles[i].end =< date

ListInv ==
  /\ \A i \in DOMAIN cycles : cycles[i].start < cycles[i].end
  /\ Trails(config)
  /\ call.pc \in RollingOver =>
       /\ Trails(call.entity) /\ call.entity.expiresAt \in Ends(config)
       /\ ClosedBy(call.startedAt)
  /\ call.pc \in Saving => ClosedBy(WindowStart(call.entity))
  /\ "ended_meanwhile" \notin slips =>
       /\ call.from # Nothing =>
            /\ call.pc \in {"find"} \union Viewing
            /\ call.pc = "find" => call.startedAt < config.expiresAt
            /\ \A i \in DOMAIN cycles : cycles[i].start < call.from
       /\ listed # Nothing => listed.active \notin listed.completed

\* A window that has begun and not ended lies behind the cycles that have ended.
LEMMA Settled ==
  ASSUME TypeInv, NEW c \in Configs, DatedBy(c, LastDay), NEW date \in Nat,
         Trails(c), ClosedBy(date), date < c.expiresAt
  PROVE  ClosedBy(WindowStart(c))
<1> SUFFICES ASSUME NEW i \in DOMAIN cycles, cycles[i].end \in Ends(c)
             PROVE  FALSE
  BY DEF Trails, ClosedBy
<1>1. cycles[i].end \in Nat /\ cycles[i].end =< date /\ c.expiresAt \in Nat
  BY CycleTypes DEF ClosedBy, Configs
<1>2. c.expiresAt =< cycles[i].end
  BY EndsAhead
<1> QED
  BY <1>1, <1>2

LEMMA ListInit == Init => ListInv
<1> SUFFICES ASSUME Init
             PROVE  ListInv
  OBVIOUS
<1>1. PICK s \in Setups : config = s.config /\ cycles = s.cycles
  BY DEF Init
<1>2. \A i \in DOMAIN cycles :
        cycles[i].start < cycles[i].end /\ cycles[i].end =< WindowStart(config)
  BY <1>1, SetupsAssumption
<1>3. call = Idle /\ listed = Nothing
  BY DEF Init
<1>4. call.pc = "idle" /\ call.from = Nothing
  BY <1>3, IdleCall DEF Idle
<1> QED
  BY <1>2, <1>3, <1>4 DEF ListInv, Trails, RollingOver, Saving

\* A step that closes no cycle and moves no window.
LEMMA ListKept ==
  ASSUME TypeInv, ListInv, cycles' = cycles, slips \subseteq slips',
         SameWindow(config', config),
         call'.pc \in RollingOver =>
           /\ call.pc \in RollingOver /\ SameWindow(call'.entity, call.entity)
           /\ call'.startedAt = call.startedAt,
         call'.pc \in Saving =>
           call.pc \in Saving /\ SameWindow(call'.entity, call.entity),
         ( "ended_meanwhile" \notin slips /\ call'.from # Nothing ) =>
           /\ call'.from = call.from
           /\ call'.pc \in {"find"} \union Viewing
           /\ call'.pc = "find" => call.pc = "find" /\ call'.startedAt = call.startedAt,
         ( "ended_meanwhile" \notin slips /\ listed' # Nothing ) =>
           listed'.active \notin listed'.completed
  PROVE  ListInv'
<1>1. \A c, d : SameWindow(c, d) =>
        WindowStart(c) = WindowStart(d) /\ Ends(c) = Ends(d) /\ c.expiresAt = d.expiresAt
  BY SameStart DEF SameWindow, Ends, GoesOn
<1>2. Trails(config)'
  BY <1>1 DEF ListInv, Trails
<1>3. call'.pc \in RollingOver =>
        /\ Trails(call.entity)' /\ call'.entity.expiresAt \in Ends(config')
        /\ ClosedBy(call.startedAt)'
  BY <1>1 DEF ListInv, Trails, ClosedBy
<1>4. call'.pc \in Saving => ClosedBy(WindowStart(call.entity))'
  BY <1>1 DEF ListInv, ClosedBy
<1>5. ASSUME "ended_meanwhile" \notin slips, call'.from # Nothing, call'.pc = "find"
      PROVE  call'.startedAt < config'.expiresAt
  BY <1>1, <1>5 DEF ListInv
<1> QED
  BY <1>2, <1>3, <1>4, <1>5 DEF ListInv

\* getByAccountNumber has returned an entity whose window has not ended when the
\* call began.
LEMMA ListAtOwn ==
  ASSUME TypeInv, OrderInv, ListInv, NEW l \in CallTypes, Own(l), Asked(l),
         l.entity \in Configs, DatedBy(l.entity, LastDay),
         l.startedAt \in Nat, l.startedAt < l.entity.expiresAt,
         SameWindow(config', l.entity), ClosedBy(WindowStart(l.entity)),
         UNCHANGED <<cycles, listed, now>>, slips \subseteq slips',
         ( "ended_meanwhile" \notin slips' /\ l.from # Nothing ) =>
           \A i \in DOMAIN cycles : cycles[i].start < l.from
  PROVE  ListInv'
<1> USE TypeFacts
<1>1. call'.pc \in {"idle", "rows", "find", "save_read"}
  BY OwnOutcome, IdleCall
<1>2. /\ WindowStart(config') = WindowStart(l.entity)
      /\ config'.expiresAt = l.entity.expiresAt
  BY SameStart DEF SameWindow
<1>3. Trails(config)'
  BY <1>2 DEF Trails, ClosedBy
<1>4. call'.pc = "save_read" => ClosedBy(WindowStart(call'.entity))
  <2> SUFFICES ASSUME call'.pc = "save_read", NEW i \in DOMAIN cycles
               PROVE  cycles[i].end =< WindowStart(call'.entity)
    BY DEF ClosedBy
  <2> DEFINE u == Updated(l.entity, l.dto)
  <2>1. call'.entity = u /\ l.dto \in UpdateDtos
    BY OwnOutcome, IdleCall DEF Asked
  <2>2. /\ ~ Restarts(l.dto) => SameWindow(u, l.entity)
        /\ Restarts(l.dto) => now =< WindowStart(u)
        /\ u \in Configs /\ DatedBy(u, LastDay)
    BY <2>1, UpdatedRow
  <2>3. cycles[i].end \in Nat /\ cycles[i].end =< now /\ WindowStart(u) \in Nat
    BY <2>2, WindowOf, CycleTypes DEF OrderInv
  <2> HIDE DEF u
  <2>4. CASE Restarts(l.dto)
    BY <2>1, <2>2, <2>3, <2>4
  <2>5. CASE ~ Restarts(l.dto)
    BY <2>1, <2>2, <2>5, SameStart DEF ClosedBy
  <2> QED
    BY <2>4, <2>5
<1>5. call'.from # Nothing =>
        /\ call'.pc \in {"find", "rows"}
        /\ \/ call'.from = l.from /\ call'.pc = "rows"
           \/ call'.from = WindowStart(l.entity)
        /\ call'.pc = "find" => call'.startedAt = l.startedAt
  BY OwnOutcome, IdleCall DEF Idle, SameCall, Asked
<1>6. \A i \in DOMAIN cycles : cycles[i].start < WindowStart(l.entity)
  <2> SUFFICES ASSUME NEW i \in DOMAIN cycles
               PROVE  cycles[i].start < WindowStart(l.entity)
    OBVIOUS
  <2>1. cycles[i].start \in Nat /\ cycles[i].end \in Nat /\ WindowStart(l.entity) \in Nat
    BY CycleTypes, WindowOf
  <2>2. cycles[i].start < cycles[i].end /\ cycles[i].end =< WindowStart(l.entity)
    BY DEF ListInv, ClosedBy
  <2> QED
    BY <2>1, <2>2
<1>7. ASSUME "ended_meanwhile" \notin slips', call'.from # Nothing
      PROVE  /\ call'.pc \in {"find"} \union Viewing
             /\ call'.pc = "find" => call'.startedAt < config'.expiresAt
             /\ \A i \in DOMAIN cycles' : cycles'[i].start < call'.from
  <2>1. call'.pc = "find" => call'.startedAt < config'.expiresAt
    BY <1>2, <1>5, <1>7
  <2>2. \A i \in DOMAIN cycles : cycles[i].start < call'.from
    <3>1. CASE call'.from = l.from
      BY <1>7, <3>1
    <3>2. CASE call'.from = WindowStart(l.entity)
      BY <1>6, <3>2
    <3> QED
      BY <1>5, <1>7, <3>1, <3>2
  <2> QED
    BY <1>5, <1>7, <2>1, <2>2 DEF Viewing
<1>8. "ended_meanwhile" \notin slips' /\ listed' # Nothing =>
        listed'.active \notin listed'.completed
  BY DEF ListInv
<1> QED
  BY <1>1, <1>3, <1>4, <1>7, <1>8 DEF ListInv, RollingOver, Saving, ClosedBy

LEMMA ListAtFind ==
  ASSUME TypeInv, OrderInv, ListInv, Find
  PROVE  ListInv'
<1> USE TypeFacts
<1> DEFINE l == [call EXCEPT !.entity = config, !.startedAt = now]
<1>1. /\ l \in CallTypes /\ l.entity = config /\ l.closed = 0 /\ Loop(l) /\ Asked(l)
      /\ l.from = call.from /\ l.startedAt = now
      /\ call.pc = "find" /\ config' = config
      /\ UNCHANGED <<cycles, listed, now>> /\ slips \subseteq slips'
      /\ ( /\ call.from # Nothing /\ call.startedAt < config.expiresAt
           /\ config.expiresAt =< now ) => "ended_meanwhile" \in slips'
  BY FindFacts DEF Quiet, NotShown
<1>2. ClosedBy(now) /\ Trails(config) /\ config.expiresAt \in Nat
  BY DEF OrderInv, ListInv, ClosedBy, Configs
<1>3. \A i \in DOMAIN cycles : cycles[i].start < cycles[i].end
  BY DEF ListInv
<1> HIDE DEF l
<1>4. CASE call'.pc = "close" /\ call'.entity = l.entity
  <2>1. /\ SameCall(call', l) /\ call'.from = l.from /\ l.entity.expiresAt =< l.startedAt
    BY <1>1, <1>4, LoopOutcome, OwnOutcome, IdleCall
  <2>2. call'.startedAt = now /\ config.expiresAt =< now
    BY <1>1, <2>1 DEF SameCall
  <2>3. config.expiresAt \in Ends(config)
    BY FirstEnd
  <2>4. "ended_meanwhile" \notin slips' => call'.from = Nothing
    BY <1>1, <2>1, <2>2 DEF ListInv
  <2>5. "ended_meanwhile" \notin slips' /\ listed' # Nothing =>
          listed'.active \notin listed'.completed
    BY <1>1 DEF ListInv
  <2>6. Trails(config)' /\ Trails(call.entity)' /\ ClosedBy(call.startedAt)'
    BY <1>1, <1>2, <1>4, <2>2 DEF Trails, ClosedBy
  <2> QED
    BY <1>1, <1>3, <1>4, <2>3, <2>4, <2>5, <2>6 DEF ListInv, Saving
<1>5. CASE l.startedAt < l.entity.expiresAt /\ Own(l)
  <2>1. ClosedBy(WindowStart(config))
    BY <1>1, <1>2, <1>5, Settled
  <2>2. SameWindow(config', config)
    BY <1>1 DEF SameWindow
  <2>3. ( "ended_meanwhile" \notin slips' /\ l.from # Nothing ) =>
          \A i \in DOMAIN cycles : cycles[i].start < l.from
    BY <1>1 DEF ListInv
  <2> QED
    BY <1>1, <1>5, <2>1, <2>2, <2>3, ListAtOwn
<1> QED
  BY <1>1, <1>4, <1>5, LoopOutcome

LEMMA ListAtClose ==
  ASSUME TypeInv, OrderInv, ListInv, CloseCycle
  PROVE  ListInv'
<1> USE TypeFacts
<1> DEFINE e == call.entity
           w == NextWindow(e)
           l == [call EXCEPT !.entity = NextWindow(@), !.closed = @ + 1]
           n == Len(cycles)
<1>1. /\ call.pc = "close" /\ e \in Configs /\ DatedBy(e, LastDay)
      /\ e.expiresAt =< call.startedAt /\ e.expiresAt =< LastDay
      /\ RollsOver(call, config)
      /\ l \in CallTypes /\ l.entity = w /\ l.closed = call.closed + 1 /\ Loop(l)
      /\ l.startedAt = call.startedAt /\ l.from = call.from
  BY CloseFacts
<1>2. PICK d \in Cycles :
        cycles' = Append(cycles, d) /\ d.start = WindowStart(e) /\ d.end = e.expiresAt
  BY CloseFacts
<1>3. /\ w \in Configs /\ SameTerms(w, e) /\ WindowStart(w) \in Nat
      /\ w.expiresAt = ComputeExpiresAt(e.frequency, e.expiresAt, e.customDays)
      /\ e.expiresAt =< WindowStart(w)
  BY <1>1, NextWindowRow
<1>4. WindowStart(e) \in Nat /\ WindowStart(e) < e.expiresAt /\ e.expiresAt \in Nat
  BY <1>1, WindowOf DEF Configs
<1>5. config' = config /\ UNCHANGED <<listed, slips>>
  BY DEF CloseCycle, NotShown
<1>6. \A i \in DOMAIN cycles' :
        cycles'[i] = d \/ (i \in DOMAIN cycles /\ cycles'[i] = cycles[i])
  BY <1>2
<1>7. Trails(config) /\ Trails(e) /\ e.expiresAt \in Ends(config)
      /\ ClosedBy(call.startedAt)
  BY <1>1 DEF ListInv, RollingOver
<1>8. /\ SameWindow(call'.entity, w) /\ call'.pc \in {"close", "renew_read"}
      /\ call'.startedAt = call.startedAt /\ call'.from = call.from
  <2>1. call.closed \in Nat
    BY DEF CallTypes
  <2>2. l.closed # 0
    BY <1>1, <2>1
  <2>3. SameWindow(w, w) /\ SameWindow(Renewed(w), w)
    BY <1>3, RenewedRow DEF SameWindow
  <2> HIDE DEF l, w
  <2>4. \/ SameCall(call', l) /\ call'.pc = "close" /\ call'.entity = w
           /\ call'.from = l.from
        \/ SameCall(call', l) /\ call'.pc = "renew_read" /\ call'.entity = Renewed(w)
           /\ call'.from = l.from
    BY <1>1, <1>3, <2>2, LoopOutcome
  <2> QED
    BY <1>1, <2>3, <2>4 DEF SameCall
<1> HIDE DEF l, n
<1>9. w.expiresAt \in Ends(config)
  <2>1. e.frequency = config.frequency /\ e.customDays = config.customDays
    BY <1>1 DEF RollsOver, SameTerms
  <2> QED
    BY <1>1, <1>3, <1>7, <2>1, FollowingEnd
<1>10. \A i \in DOMAIN cycles : cycles[i].end =< WindowStart(w) \/ cycles[i].end \in Ends(w)
  <2> SUFFICES ASSUME NEW i \in DOMAIN cycles
               PROVE  cycles[i].end =< WindowStart(w) \/ cycles[i].end \in Ends(w)
    OBVIOUS
  <2>1. cycles[i].end \in Nat
    BY CycleTypes
  <2>2. CASE cycles[i].end =< WindowStart(e)
    <3> HIDE DEF w, e
    <3> QED
      BY <1>3, <1>4, <2>1, <2>2
  <2>3. CASE cycles[i].end \in Ends(e)
    <3>1. cycles[i].end = e.expiresAt \/ cycles[i].end \in Ends(w)
      BY <1>1, <2>3, EndsFromNext
    <3> QED
      BY <1>3, <3>1
  <2> QED
    BY <1>7, <2>2, <2>3 DEF Trails
<1> HIDE DEF w, e
<1>11. Trails(call.entity)' /\ call'.entity.expiresAt \in Ends(config')
  <2>1. /\ WindowStart(call'.entity) = WindowStart(w) /\ Ends(call'.entity) = Ends(w)
        /\ call'.entity.expiresAt = w.expiresAt
    BY <1>8, SameStart DEF SameWindow, Ends, GoesOn
  <2> QED
    BY <1>2, <1>3, <1>5, <1>6, <1>9, <1>10, <2>1 DEF Trails
<1>12. Trails(config)'
  BY <1>2, <1>5, <1>6, <1>7 DEF Trails
<1>13. ClosedBy(call.startedAt)'
  BY <1>1, <1>2, <1>6, <1>7, <1>8 DEF ClosedBy
<1>14. \A i \in DOMAIN cycles' : cycles'[i].start < cycles'[i].end
  BY <1>2, <1>4, <1>6 DEF ListInv
<1>15. "ended_meanwhile" \notin slips' => call'.from = Nothing
  BY <1>1, <1>5, <1>8 DEF ListInv, Viewing
<1>16. "ended_meanwhile" \notin slips' /\ listed' # Nothing =>
         listed'.active \notin listed'.completed
  BY <1>5 DEF ListInv
<1>17. call'.pc \notin Saving
  BY <1>8 DEF Saving
<1> QED
  BY <1>11, <1>12, <1>13, <1>14, <1>15, <1>16, <1>17 DEF ListInv

LEMMA ListAtRenewed ==
  ASSUME TypeInv, OrderInv, ListInv, SaveRenewed
  PROVE  ListInv'
<1> USE TypeFacts
<1>1. /\ call.entity \in Configs /\ DatedBy(call.entity, LastDay)
      /\ RollsOver(call, config) /\ call.pc = "renew"
      /\ SameWindow(config', call.entity) /\ Own(call) /\ Asked(call)
      /\ UNCHANGED <<cycles, now, slips, listed>>
  BY RenewFacts DEF Quiet, SaveRenewed, NotShown
<1>2. call.startedAt < call.entity.expiresAt
  BY <1>1 DEF RollsOver
<1>3. Trails(call.entity) /\ ClosedBy(call.startedAt)
  BY <1>1 DEF ListInv, RollingOver
<1>4. ClosedBy(WindowStart(call.entity))
  BY <1>1, <1>2, <1>3, Settled
<1>5. ( "ended_meanwhile" \notin slips' /\ call.from # Nothing ) =>
        \A i \in DOMAIN cycles : cycles[i].start < call.from
  BY <1>1 DEF ListInv
<1> QED
  BY <1>1, <1>2, <1>4, <1>5, ListAtOwn

LEMMA ListAtSaveOwn ==
  ASSUME TypeInv, OrderInv, ListInv, SaveOwn
  PROVE  ListInv'
<1> USE TypeFacts
<1>1. /\ call.pc = "save" /\ SameWindow(config', call.entity) /\ call' = Idle
      /\ UNCHANGED <<cycles, listed>> /\ slips \subseteq slips'
  BY SaveFacts DEF NotShown
<1>2. WindowStart(config') = WindowStart(call.entity)
  BY <1>1, SameStart
<1>3. Trails(config)'
  BY <1>1, <1>2 DEF ListInv, Saving, Trails, ClosedBy
<1>4. call'.pc = "idle" /\ call'.from = Nothing
  BY <1>1, IdleCall DEF Idle
<1>5. "ended_meanwhile" \notin slips' /\ listed' # Nothing =>
        listed'.active \notin listed'.completed
  BY <1>1 DEF ListInv
<1>6. \A i \in DOMAIN cycles' : cycles'[i].start < cycles'[i].end
  BY <1>1 DEF ListInv
<1> QED
  BY <1>3, <1>4, <1>5, <1>6 DEF ListInv, RollingOver, Saving

LEMMA ListStep == TypeInv /\ OrderInv /\ ListInv /\ [Next]_vars => ListInv'
<1> SUFFICES ASSUME TypeInv, OrderInv, ListInv, [Next]_vars
             PROVE  ListInv'
  OBVIOUS
<1> USE TypeFacts
<1>0. \A c : SameWindow(c, c)
  BY DEF SameWindow
<1>1. ASSUME call' = call, config' = config, UNCHANGED <<cycles, listed, slips>>
      PROVE  ListInv'
  BY <1>0, <1>1, ListKept DEF ListInv
<1>2. ASSUME NEW amount, NEW debit, Post(amount, debit)
      PROVE  ListInv'
  BY <1>1, <1>2 DEF Post
<1>3. CASE Commit
  <2>1. SameWindow(config', config) /\ UNCHANGED <<cycles, listed>> /\ slips \subseteq slips'
    BY <1>3, CommitRow DEF Commit
  <2>2. /\ call'.pc = call.pc /\ call'.entity = call.entity /\ call'.from = call.from
        /\ call'.startedAt = call.startedAt
    BY <1>3, NoticedCall DEF Commit
  <2>3. SameWindow(call'.entity, call.entity)
    BY <1>0, <2>2
  <2> QED
    BY <2>1, <2>2, <2>3, ListKept DEF ListInv
<1>4. ASSUME NEW op, NEW dto, Ask(op, dto)
      PROVE  ListInv'
  <2>1. call'.pc = "find" /\ call'.from = Nothing /\ listed' = Nothing
    BY <1>4 DEF Ask, Goto, Idle
  <2>2. config' = config /\ UNCHANGED <<cycles, slips>>
    BY <1>4 DEF Ask
  <2> QED
    BY <1>0, <2>1, <2>2, ListKept DEF RollingOver, Saving
<1>5. CASE SaveReads
  <2>1. /\ call'.entity = call.entity /\ call'.from = call.from
        /\ call'.startedAt = call.startedAt
        /\ \/ call.pc = "renew_read" /\ call'.pc = "renew"
           \/ call.pc = "save_read" /\ call'.pc = "save"
        /\ config' = config /\ UNCHANGED <<cycles, listed, slips>>
    BY <1>5 DEF SaveReads, Goto, Quiet, NotShown, CallTypes
  <2>2. /\ call'.pc \in Saving => call.pc \in Saving
        /\ call'.pc \in RollingOver => call.pc \in RollingOver
    BY <2>1 DEF Saving, RollingOver
  <2>3. "ended_meanwhile" \notin slips => call'.from = Nothing
    BY <2>1 DEF ListInv, Viewing
  <2>4. SameWindow(call'.entity, call.entity) /\ SameWindow(config', config)
    BY <1>0, <2>1
  <2>5. ( "ended_meanwhile" \notin slips /\ listed' # Nothing ) =>
          listed'.active \notin listed'.completed
    BY <2>1 DEF ListInv
  <2> QED
    BY <2>1, <2>2, <2>3, <2>4, <2>5, ListKept
<1>6. CASE ReadRows \/ ReadBalance \/ ReadOverrides
  <2>1. /\ call'.pc \in Viewing \union {"idle"}
        /\ call'.pc = "idle" => call'.from = Nothing
        /\ call'.pc # "idle" => call'.from = call.from
        /\ config' = config /\ UNCHANGED <<cycles, listed, slips>>
    BY <1>6 DEF ReadRows, ReadBalance, ReadOverrides, Goto, NotShown, Idle,
                CallTypes, Viewing
  <2>2. call'.pc \notin RollingOver /\ call'.pc \notin Saving /\ call'.pc # "find"
    BY <2>1 DEF Viewing, RollingOver, Saving
  <2> QED
    BY <1>0, <2>1, <2>2, ListKept DEF ListInv
<1>7. CASE ListCycles
  <2>1. /\ call.pc = "list" /\ call'.pc = "idle" /\ call'.from = Nothing
        /\ listed' = [active |-> call.from,
                      completed |-> {cycles[i].start : i \in DOMAIN cycles}]
        /\ config' = config /\ UNCHANGED <<cycles, slips>>
    BY <1>7 DEF ListCycles, Goto, Idle
  <2>2. call.from # Nothing /\ call.from \in Nat
    BY <2>1 DEF TypeInv, Place, Viewing, CallTypes
  <2>3. "ended_meanwhile" \notin slips => listed'.active \notin listed'.completed
    <3> SUFFICES ASSUME "ended_meanwhile" \notin slips, NEW i \in DOMAIN cycles
                 PROVE  call.from # cycles[i].start
      BY <2>1
    <3>1. cycles[i].start < call.from
      BY <2>2 DEF ListInv
    <3>2. cycles[i].start \in Nat
      BY CycleTypes
    <3> QED
      BY <2>2, <3>1, <3>2
  <2> QED
    BY <1>0, <2>1, <2>3, ListKept DEF RollingOver, Saving
<1>8. CASE Fail
  <2>1. /\ call'.pc = "idle" /\ call'.from = Nothing /\ config' = config
        /\ UNCHANGED <<cycles, listed>> /\ slips \subseteq slips'
    BY <1>8 DEF Fail, Goto, Quiet, NotShown, Idle
  <2> QED
    BY <1>0, <2>1, ListKept DEF ListInv, Saving, RollingOver
<1>9. CASE NextDay
  BY <1>1, <1>9 DEF NextDay
<1>10. CASE UNCHANGED vars
  BY <1>1, <1>10 DEF vars
<1> QED
  BY <1>2, <1>3, <1>4, <1>5, <1>6, <1>7, <1>8, <1>9, <1>10, ListAtFind, ListAtClose,
     ListAtRenewed, ListAtSaveOwn DEF Next

LEMMA ListInvariant == Spec => []ListInv
BY ListInit, ListStep, TypeInvariant, OrderInvariant, PTL DEF Spec

\* A history lists the running cycle once, even after calls that failed half-way
\* and closed some cycles twice, unless the cycle ended between its two looks.
THEOREM RunningCycleIsListedOnce == Spec => []RunningCycleListedOnce
<1>1. ListInv => RunningCycleListedOnce
  BY DEF ListInv, RunningCycleListedOnce
<1> QED
  BY <1>1, ListInvariant, PTL

-----------------------------------------------------------------------------
(***************************************************************************)
(* ScoredAsItEnded                                                         *)
(***************************************************************************)

Terms ==
  {"income", "protectedSum", "governanceMode", "frequency", "customDays",
   "rolloverPreference"}

\* What the columns of a closed cycle depend on.
Alike(c, d) ==
  /\ c.income = d.income /\ c.protectedSum = d.protectedSum
  /\ c.baselineBalance = d.baselineBalance /\ c.governanceMode = d.governanceMode
  /\ c.frequency = d.frequency /\ c.customDays = d.customDays
  /\ c.rolloverPreference = d.rolloverPreference /\ c.expiresAt = d.expiresAt
  /\ BufferSpent(c) = BufferSpent(d)

\* The rows `more` are the rows `rows` and some dated after `date`.
LaterThan(date, rows, more) ==
  /\ DOMAIN rows \subseteq DOMAIN more
  /\ \A i \in DOMAIN rows : more[i] = rows[i]
  /\ \A i \in DOMAIN more \ DOMAIN rows : ~ (more[i].at =< date)

\* Cycle p is the same among `old` and `new`, or among neither.
SameCycleAt(p, old, new) ==
  /\ p \in DOMAIN old <=> p \in DOMAIN new
  /\ p \in DOMAIN old => old[p] = new[p]

LEMMA SameBalance ==
  ASSUME NEW c, NEW d, c.baselineBalance = d.baselineBalance,
         NEW rows \in Seq(Rows), NEW more \in Seq(Rows), NEW date,
         LaterThan(date, rows, more)
  PROVE  BalanceAsOf(d, more, date) = BalanceAsOf(c, rows, date)
<1> DEFINE upTo == {i \in DOMAIN rows : rows[i].at =< date}
           upToMore == {i \in DOMAIN more : more[i].at =< date}
<1>1. upToMore = upTo
  BY DEF LaterThan
<1>2. upTo # {} => Max(upTo) \in DOMAIN rows
  <2>1. upTo \in SUBSET (1 .. Len(rows)) /\ Len(rows) \in Nat
    OBVIOUS
  <2>2. upTo # {} => Max(upTo) \in upTo
    BY <2>1, MaxOfIndices
  <2> QED
    BY <2>2
<1>3. upTo # {} => more[Max(upTo)] = rows[Max(upTo)]
  BY <1>2 DEF LaterThan
<1>4. BalanceAsOf(c, rows, date) =
        IF upTo = {} THEN c.baselineBalance ELSE rows[Max(upTo)].after
  BY DEF BalanceAsOf
<1>5. BalanceAsOf(d, more, date) =
        IF upToMore = {} THEN d.baselineBalance ELSE more[Max(upToMore)].after
  BY DEF BalanceAsOf
<1> HIDE DEF upTo, upToMore
<1> QED
  BY <1>1, <1>3, <1>4, <1>5

LEMMA SameCount ==
  ASSUME NEW flags, NEW more, NEW start, NEW end, LaterThan(end, flags, more)
  PROVE  OverridesBetween(more, start, end) = OverridesBetween(flags, start, end)
BY DEF LaterThan, OverridesBetween, Between

LEMMA SameBreach ==
  ASSUME NEW c, NEW d, c.protectedSum = d.protectedSum, NEW rows, NEW more,
         NEW start, NEW end, LaterThan(end, rows, more), NEW held
  PROVE  Breached(d, held, more, RowsBetween(more, start, end))
           = Breached(c, held, rows, RowsBetween(rows, start, end))
<1>1. RowsBetween(more, start, end) = RowsBetween(rows, start, end)
  BY DEF LaterThan, RowsBetween, Between
<1>2. \A i \in RowsBetween(rows, start, end) : more[i] = rows[i]
  BY DEF LaterThan, RowsBetween
<1>3. \A b : BreachesReserve(d, b) <=> BreachesReserve(c, b)
  BY DEF BreachesReserve
<1> QED
  BY <1>1, <1>2, <1>3 DEF Breached

\* What comes after the end of a cycle does not change what it is to be closed with.
LEMMA SameAmounts ==
  ASSUME NEW c, NEW d, Alike(c, d),
         NEW rows \in Seq(Rows), NEW moreRows \in Seq(Rows),
         LaterThan(c.expiresAt, rows, moreRows),
         NEW flags, NEW moreFlags, LaterThan(c.expiresAt, flags, moreFlags),
         NEW old, NEW new, NEW p, SameCycleAt(p, old, new)
  PROVE  ClosedCycle(d, moreRows, moreFlags, new, p)
           = ClosedCycle(c, rows, flags, old, p)
<1> DEFINE start == WindowStart(c)
           end == c.expiresAt
           held == BalanceAsOf(c, rows, end)
           heldD == BalanceAsOf(d, moreRows, end)
           count == Cardinality(OverridesBetween(flags, start, end))
           countD == Cardinality(OverridesBetween(moreFlags, start, end))
           breached == Breached(c, held, rows, RowsBetween(rows, start, end))
           breachedD == Breached(d, heldD, moreRows, RowsBetween(moreRows, start, end))
           allocation == Allocation(c, old, p)
           allocationD == Allocation(d, new, p)
<1>1. WindowStart(d) = start /\ d.expiresAt = end
  BY DEF Alike, WindowStart
<1>2. heldD = held
  BY SameBalance DEF Alike
<1>3. countD = count
  BY SameCount
<1>4. allocationD = allocation
  BY DEF Allocation, CarriedOver, SameCycleAt, Alike
<1>5. \A b : Remaining(d, b) = Remaining(c, b)
  BY DEF Remaining, Alike
<1>6. breachedD = breached
  BY <1>2, SameBreach DEF Alike
<1>7. \A b, n : ComplianceScore(d, b, n) = ComplianceScore(c, b, n)
  BY DEF ComplianceScore, RawScore, Alike
<1>8. BufferSpent(d) = BufferSpent(c)
  BY DEF Alike
<1>9. ClosedCycle(c, rows, flags, old, p) =
        [ start |-> start, end |-> end, allocation |-> allocation,
          netAmount |-> Remaining(c, held) - allocation,
          outcome |-> Outcome(Remaining(c, held) - allocation),
          overrideCount |-> count, bufferUsed |-> BufferSpent(c),
          complianceScore |-> ComplianceScore(c, breached, count) ]
  BY DEF ClosedCycle
<1>10. ClosedCycle(d, moreRows, moreFlags, new, p) =
         [ start |-> start, end |-> end, allocation |-> allocationD,
           netAmount |-> Remaining(d, heldD) - allocationD,
           outcome |-> Outcome(Remaining(d, heldD) - allocationD),
           overrideCount |-> countD, bufferUsed |-> BufferSpent(d),
           complianceScore |-> ComplianceScore(d, breachedD, countD) ]
  BY <1>1 DEF ClosedCycle
<1> HIDE DEF start, end, held, heldD, count, countD, breached, breachedD, allocation,
             allocationD
<1> QED
  BY <1>2, <1>3, <1>4, <1>5, <1>6, <1>7, <1>8, <1>9, <1>10

\* The same rows and flags, and a row that is alike, close alike.
LEMMA SameClosing ==
  ASSUME NEW c, NEW d, Alike(c, d), NEW rows \in Seq(Rows), NEW flags,
         NEW old, NEW new, NEW p, SameCycleAt(p, old, new)
  PROVE  ClosedCycle(d, rows, flags, new, p) = ClosedCycle(c, rows, flags, old, p)
<1>1. LaterThan(c.expiresAt, rows, rows) /\ LaterThan(c.expiresAt, flags, flags)
  BY DEF LaterThan
<1> QED
  BY <1>1, SameAmounts

LEMMA FirstCycles ==
  ASSUME NEW n \in Nat, NEW old \in Seq(Cycles), NEW new \in Seq(Cycles), n =< Len(old),
         n =< Len(new), \A i \in 1 .. n : new[i] = old[i]
  PROVE  /\ SubSeq(new, 1, n) = SubSeq(old, 1, n)
         /\ DOMAIN SubSeq(old, 1, n) = 1 .. n
<1>1. /\ SubSeq(old, 1, n) \in Seq(Cycles) /\ Len(SubSeq(old, 1, n)) = n
      /\ \A i \in 1 .. n : SubSeq(old, 1, n)[i] = old[i]
  OBVIOUS
<1>2. /\ SubSeq(new, 1, n) \in Seq(Cycles) /\ Len(SubSeq(new, 1, n)) = n
      /\ \A i \in 1 .. n : SubSeq(new, 1, n)[i] = new[i]
  OBVIOUS
<1> QED
  BY <1>1, <1>2

\* The row in force joined with the row there is; `used` is what was used of the
\* buffer.
LEMMA InForceRow ==
  ASSUME NEW x, DOMAIN x = Terms, NEW end, NEW used \in Nat, NEW c \in Configs
  PROVE  LET w == [expiresAt |-> end, bufferAmount |-> used, remainingBuffer |-> 0]
             d == Joined(w, Joined(x, c)) IN
         /\ d.income = x.income /\ d.protectedSum = x.protectedSum
         /\ d.governanceMode = x.governanceMode /\ d.frequency = x.frequency
         /\ d.customDays = x.customDays /\ d.rolloverPreference = x.rolloverPreference
         /\ d.expiresAt = end /\ d.baselineBalance = c.baselineBalance
         /\ BufferSpent(d) = used
<1> DEFINE w == [expiresAt |-> end, bufferAmount |-> used, remainingBuffer |-> 0]
           y == Joined(x, c)
           d == Joined(w, y)
<1>1. /\ Terms \union {"baselineBalance"} \subseteq DOMAIN y
      /\ \A col \in Terms : y[col] = x[col]
      /\ y.baselineBalance = c.baselineBalance
  BY DEF Joined, Terms, Configs
<1> HIDE DEF y
<1>2. /\ \A col \in Terms \union {"baselineBalance"} : d[col] = y[col]
      /\ d.expiresAt = end /\ d.bufferAmount = used /\ d.remainingBuffer = 0
  BY <1>1 DEF Joined, Terms
<1> HIDE DEF d
<1>3. /\ d.income = x.income /\ d.protectedSum = x.protectedSum
      /\ d.governanceMode = x.governanceMode /\ d.frequency = x.frequency
      /\ d.customDays = x.customDays /\ d.rolloverPreference = x.rolloverPreference
      /\ d.baselineBalance = c.baselineBalance
  BY <1>1, <1>2 DEF Terms
<1>4. BufferSpent(d) = used
  <2>1. BufferSpent(d) = Max({0, used - 0}) /\ used - 0 = used
    BY <1>2 DEF BufferSpent
  <2>2. Max({0, used}) = used
    BY MaxZero
  <2> QED
    BY <2>1, <2>2
<1> QED
  BY <1>2, <1>3, <1>4 DEF d, y

\* What cycle i should have been closed with, p being the cycle before it.
Should(i, p) == ClosedCycle(InForceAt(cycles[i]), ledger, overrides, cycles, p)

CycleBefore(i) == IF i = 1 THEN {0} ELSE LatestCycles(SubSeq(cycles, 1, i - 1))

Scored(i) ==
  ( /\ cycles[i].epoch >= 0 /\ cycles[i].end \in Days
    /\ inForce[cycles[i].end] # NoConfig ) =>
    \E p \in CycleBefore(i) : \A col \in Amounts : cycles[i][col] = Should(i, p)[col]

ScoreInv ==
  /\ DOMAIN inForce = Days
  /\ \A d \in Days : inForce[d] = NoConfig \/ DOMAIN inForce[d] = Terms
  /\ slips \intersect {"straggler", "late_update"} = {} =>
       /\ \A d \in Days : config.expiresAt =< d /\ d =< now => inForce[d] = Configured
       /\ \A i \in DOMAIN cycles : Scored(i)

LEMMA SameConfigured ==
  ASSUME TypeInv, SameTerms(config', config)
  PROVE  Configured' = Configured
BY DEF Configured, SameTerms

\* A cycle stays scored as it should be under what comes after it.
LEMMA ScoredKept ==
  ASSUME TypeInv, ScoreInv, NEW i \in DOMAIN cycles, Scored(i),
         cycles' \in Seq(Cycles), Len(cycles) =< Len(cycles'),
         \A j \in DOMAIN cycles : cycles'[j] = cycles[j],
         cycles[i].end \in Days => inForce'[cycles[i].end] = inForce[cycles[i].end],
         config' \in Configs, config'.baselineBalance = config.baselineBalance,
         ledger' \in Seq(Rows),
         LaterThan(cycles[i].end, ledger, ledger'),
         LaterThan(cycles[i].end, overrides, overrides')
  PROVE  Scored(i)'
<1> USE TypeFacts
<1> DEFINE end == cycles[i].end
           x == inForce[end]
<1> SUFFICES ASSUME cycles[i].epoch >= 0, end \in Days, x # NoConfig
             PROVE  \E p \in CycleBefore(i)' :
                      \A col \in Amounts : cycles[i][col] = Should(i, p)'[col]
  BY DEF Scored
<1>1. PICK p \in CycleBefore(i) : \A col \in Amounts : cycles[i][col] = Should(i, p)[col]
  BY DEF Scored
<1>2. /\ i \in Nat /\ i # 0 /\ Len(cycles) \in Nat /\ Len(cycles') \in Nat
      /\ i =< Len(cycles) /\ i - 1 \in Nat
      /\ DOMAIN cycles = 1 .. Len(cycles) /\ DOMAIN cycles' = 1 .. Len(cycles')
  OBVIOUS
<1>3. /\ SubSeq(cycles', 1, i - 1) = SubSeq(cycles, 1, i - 1)
      /\ DOMAIN SubSeq(cycles, 1, i - 1) = 1 .. i - 1
  <2>1. 1 .. i - 1 \subseteq DOMAIN cycles
    BY <1>2
  <2>2. \A j \in 1 .. i - 1 : cycles'[j] = cycles[j]
    BY <2>1
  <2>3. i - 1 =< Len(cycles) /\ i - 1 =< Len(cycles')
    BY <1>2
  <2> QED
    BY <1>2, <2>2, <2>3, FirstCycles
<1>4. p \in CycleBefore(i)'
  BY <1>1, <1>3 DEF CycleBefore
<1>5. SameCycleAt(p, cycles, cycles')
  <2>1. p = 0 \/ p \in 1 .. i - 1
    BY <1>1, <1>3 DEF CycleBefore, LatestCycles
  <2> QED
    BY <1>2, <2>1 DEF SameCycleAt
<1>6. DOMAIN x = Terms
  BY DEF ScoreInv
<1> DEFINE w == [expiresAt |-> end, bufferAmount |-> cycles[i].bufferUsed,
                 remainingBuffer |-> 0]
           c == InForceAt(cycles[i])
           d == InForceAt(cycles[i])'
<1>7. c = Joined(w, Joined(x, config)) /\ d = Joined(w, Joined(x, config'))
  BY DEF InForceAt
<1>8. cycles[i].bufferUsed \in Nat
  <2>1. cycles[i] \in Cycles
    OBVIOUS
  <2> QED
    BY <2>1 DEF Cycles
<1> HIDE DEF x, c, d
<1>9. Alike(c, d) /\ c.expiresAt = end
  BY <1>6, <1>7, <1>8, InForceRow DEF Alike
<1>10. Should(i, p)' = ClosedCycle(d, ledger', overrides', cycles', p)
  BY DEF Should, d
<1>11. Should(i, p) = ClosedCycle(c, ledger, overrides, cycles, p)
  BY DEF Should, c
<1>12. ClosedCycle(d, ledger', overrides', cycles', p)
         = ClosedCycle(c, ledger, overrides, cycles, p)
  <2>1. /\ Alike(c, d)
        /\ LaterThan(c.expiresAt, ledger, ledger')
        /\ LaterThan(c.expiresAt, overrides, overrides')
    BY <1>9
  <2> QED
    BY <1>5, <2>1, SameAmounts
<1> QED
  BY <1>1, <1>4, <1>10, <1>11, <1>12

LEMMA ConfiguredTerms == DOMAIN Configured = Terms
BY DEF Configured, Terms

LEMMA ScoreInit == Init => ScoreInv
<1> SUFFICES ASSUME Init
             PROVE  ScoreInv
  OBVIOUS
<1>1. PICK s \in Setups : config = s.config /\ cycles = s.cycles
  BY DEF Init
<1>2. /\ config \in Configs /\ DatedBy(config, LastDay)
      /\ \A i \in DOMAIN cycles : cycles[i].epoch < 0
  BY <1>1, SetupsAssumption
<1>3. now = FirstDay
      /\ inForce = [d \in Days |-> IF d = FirstDay THEN Configured ELSE NoConfig]
  BY DEF Init
<1>4. \A i \in DOMAIN cycles : Scored(i)
  <2>1. TypeInv
    BY TypeInit
  <2> QED
    BY <1>2, <2>1, CycleTypes DEF Scored
<1>5. \A d \in Days : inForce[d] = NoConfig \/ inForce[d] = Configured
  BY <1>3
<1>6. \A d \in Days : d =< now => inForce[d] = Configured
  BY <1>3, Limits DEF Days
<1> QED
  BY <1>3, <1>4, <1>5, <1>6, ConfiguredTerms DEF ScoreInv

\* A step that closes no cycle and triggers nothing.
LEMMA ScoreKept ==
  ASSUME TypeInv, OrderInv, ScoreInv, cycles' = cycles, overrides' = overrides,
         ledger' = ledger, inForce' = inForce, slips \subseteq slips',
         config' \in Configs, config'.baselineBalance = config.baselineBalance,
         slips' \intersect {"straggler", "late_update"} = {} =>
           \A d \in Days : config'.expiresAt =< d /\ d =< now' => inForce[d] = Configured'
  PROVE  ScoreInv'
<1> USE TypeFacts
<1>1. \A date : LaterThan(date, ledger, ledger') /\ LaterThan(date, overrides, overrides')
  BY DEF LaterThan
<1>2. Len(cycles) =< Len(cycles') /\ cycles' \in Seq(Cycles)
  OBVIOUS
<1>3. \A i \in DOMAIN cycles : Scored(i) => Scored(i)'
  BY <1>1, <1>2, ScoredKept
<1> QED
  BY <1>3 DEF ScoreInv

\* The entity's terms were in force when its window ended.
LEMMA ScoreAtClose ==
  ASSUME TypeInv, OrderInv, ScoreInv, CloseCycle
  PROVE  ScoreInv'
<1> USE TypeFacts
<1> DEFINE e == call.entity
           end == e.expiresAt
<1>0. PICK n \in Nat : n = Len(cycles)
  OBVIOUS
<1>1. /\ call.pc = "close" /\ e \in Configs /\ DatedBy(e, LastDay)
      /\ end =< call.startedAt /\ RollsOver(call, config)
  BY CloseFacts
<1>2. PICK p \in IF cycles = <<>> THEN {0} ELSE LatestCycles(cycles) :
        \E d \in Cycles :
          /\ cycles' = Append(cycles, d) /\ d.end = end /\ d.bufferUsed = BufferSpent(e)
          /\ \A col \in Amounts :
               d[col] = ClosedCycle(e, ledger, overrides, cycles, p)[col]
  BY CloseFacts
<1>3. PICK d \in Cycles :
        /\ cycles' = Append(cycles, d) /\ d.end = end /\ d.bufferUsed = BufferSpent(e)
        /\ \A col \in Amounts :
             d[col] = ClosedCycle(e, ledger, overrides, cycles, p)[col]
  BY <1>2
<1>4. /\ Len(cycles') = n + 1 /\ DOMAIN cycles' = 1 .. n + 1
      /\ DOMAIN cycles = 1 .. n /\ cycles' \in Seq(Cycles)
      /\ \A i \in 1 .. n : cycles'[i] = cycles[i]
      /\ cycles'[n + 1] = d
  BY <1>0, <1>3
<1>5. UNCHANGED <<config, ledger, overrides, inForce, slips, now>>
  BY DEF CloseCycle, Quiet
<1>6. end \in Nat /\ end =< now /\ config.expiresAt =< end
  <2>1. end \in Nat /\ WindowStart(e) \in Nat /\ WindowStart(e) < end
        /\ config.expiresAt \in Nat
    BY <1>1, WindowOf DEF Configs
  <2>2. config.expiresAt = end \/ config.expiresAt =< WindowStart(e)
    BY <1>1 DEF RollsOver, SameWindow
  <2> HIDE DEF end, e
  <2> QED
    BY <1>1, <2>1, <2>2
<1>7. \A date : LaterThan(date, ledger, ledger') /\ LaterThan(date, overrides, overrides')
  BY <1>5 DEF LaterThan
<1>8. ASSUME NEW i \in 1 .. n, Scored(i)
      PROVE  Scored(i)'
  <2>1. Len(cycles) =< Len(cycles')
    BY <1>0, <1>4
  <2> QED
    BY <1>4, <1>5, <1>7, <1>8, <2>1, ScoredKept
<1>9. ASSUME slips \intersect {"straggler", "late_update"} = {}
      PROVE  Scored(n + 1)'
  <2> SUFFICES ASSUME d.end \in Days
               PROVE  \E q \in CycleBefore(n + 1)' :
                        \A col \in Amounts : d[col] = Should(n + 1, q)'[col]
    BY <1>4 DEF Scored
  <2>1. inForce[d.end] = Configured
    BY <1>3, <1>6, <1>9 DEF ScoreInv
  <2> DEFINE w == [expiresAt |-> d.end, bufferAmount |-> d.bufferUsed,
                   remainingBuffer |-> 0]
             c == InForceAt(d)'
  <2>2. c = Joined(w, Joined(Configured, config))
    BY <1>5, <2>1 DEF InForceAt
  <2> HIDE DEF c
  <2>3. Alike(e, c)
    <3>1. SameTerms(e, config)
      BY <1>1 DEF RollsOver
    <3>2. /\ Configured.income = config.income
          /\ Configured.protectedSum = config.protectedSum
          /\ Configured.governanceMode = config.governanceMode
          /\ Configured.frequency = config.frequency
          /\ Configured.customDays = config.customDays
          /\ Configured.rolloverPreference = config.rolloverPreference
      BY DEF Configured
    <3> HIDE DEF e
    <3> DEFINE x == Configured
    <3>3. DOMAIN x = Terms
      BY ConfiguredTerms
    <3> HIDE DEF x
    <3>4. d.bufferUsed \in Nat
      BY DEF Cycles
    <3>5. LET y == Joined(w, Joined(x, config)) IN
          /\ y.income = x.income /\ y.protectedSum = x.protectedSum
          /\ y.governanceMode = x.governanceMode /\ y.frequency = x.frequency
          /\ y.customDays = x.customDays /\ y.rolloverPreference = x.rolloverPreference
          /\ y.expiresAt = d.end /\ y.baselineBalance = config.baselineBalance
          /\ BufferSpent(y) = d.bufferUsed
      BY <3>3, <3>4, InForceRow
    <3> HIDE DEF w
    <3>6. Alike(e, Joined(w, Joined(x, config)))
      BY <1>3, <3>1, <3>2, <3>5 DEF Alike, SameTerms, x, e
    <3> QED
      BY <2>2, <3>6 DEF x
  <2>4. SubSeq(cycles', 1, n) = cycles
    <3>1. n =< Len(cycles') /\ n =< Len(cycles)
      BY <1>0, <1>4
    <3>2. SubSeq(cycles', 1, n) = SubSeq(cycles, 1, n)
      BY <1>4, <3>1, FirstCycles
    <3>3. SubSeq(cycles, 1, n) = cycles
      BY <1>0
    <3> QED
      BY <3>2, <3>3
  <2>5. p \in CycleBefore(n + 1)'
    <3>1. cycles = <<>> <=> n + 1 = 1
      BY <1>0, <1>4
    <3>2. (n + 1) - 1 = n
      BY <1>4
    <3> QED
      BY <1>2, <2>4, <3>1, <3>2 DEF CycleBefore
  <2>6. SameCycleAt(p, cycles, cycles')
    <3>1. p = 0 \/ p \in 1 .. n
      BY <1>2, <1>4 DEF LatestCycles
    <3> QED
      BY <1>4, <3>1 DEF SameCycleAt
  <2>7. Should(n + 1, p)' = ClosedCycle(c, ledger, overrides, cycles', p)
    BY <1>4, <1>5 DEF Should, c
  <2>8. ClosedCycle(c, ledger, overrides, cycles', p)
          = ClosedCycle(e, ledger, overrides, cycles, p)
    BY <2>3, <2>6, SameClosing
  <2>9. \A col \in Amounts : d[col] = Should(n + 1, p)'[col]
    BY <1>3, <2>7, <2>8
  <2> QED
    BY <2>5, <2>9
<1>10. ASSUME slips \intersect {"straggler", "late_update"} = {}, NEW i \in 1 .. n + 1
       PROVE  Scored(i)'
  <2>1. CASE i \in 1 .. n
    <3>1. Scored(i)
      BY <1>4, <1>10, <2>1 DEF ScoreInv
    <3> QED
      BY <1>8, <2>1, <3>1
  <2>2. CASE i = n + 1
    BY <1>9, <1>10, <2>2
  <2> QED
    BY <1>4, <2>1, <2>2
<1>11. Configured' = Configured
  BY <1>5 DEF Configured
<1> QED
  BY <1>4, <1>5, <1>10, <1>11 DEF ScoreInv

\* A row that comes after the end of every closed cycle, and the override with it.
LEMMA ScoreAtCommit ==
  ASSUME TypeInv, OrderInv, ScoreInv, Commit
  PROVE  ScoreInv'
<1> USE TypeFacts
<1> DEFINE row == pending.row
<1>1. /\ row \in Rows /\ config' \in Configs /\ SameTerms(config', config)
      /\ SameWindow(config', config)
      /\ ledger' = Append(ledger, row) /\ ledger' \in Seq(Rows)
      /\ \A i \in DOMAIN cycles : row.at =< cycles[i].end => "straggler" \in slips'
      /\ slips \subseteq slips' /\ UNCHANGED <<cycles, now, inForce>>
  BY CommitRow DEF Commit
<1>2. \/ overrides' = overrides
      \/ \E type : overrides' = Append(overrides, [at |-> now, type |-> type])
  BY CommitRow
<1>3. row.at \in Nat /\ row.at =< now
  BY <1>1, Limits DEF Commit, TypeInv, Posted, Rows, Days
<1>4. Configured' = Configured
  BY <1>1, SameConfigured
<1>5. /\ config'.baselineBalance = config.baselineBalance
      /\ config'.expiresAt = config.expiresAt
  BY <1>1 DEF SameTerms, SameWindow
<1>6. ASSUME slips' \intersect {"straggler", "late_update"} = {}, NEW i \in DOMAIN cycles
      PROVE  Scored(i)'
  <2> DEFINE end == cycles[i].end
  <2>1. Scored(i)
    BY <1>1, <1>6 DEF ScoreInv
  <2>2. end \in Nat /\ end < row.at /\ end < now
    <3>1. end \in Nat
      BY CycleTypes
    <3>2. ~ (row.at =< end)
      BY <1>1, <1>6
    <3> HIDE DEF row, end
    <3> QED
      BY <1>3, <3>1, <3>2
  <2>3. LaterThan(end, ledger, ledger')
    <3>1. /\ DOMAIN ledger \subseteq DOMAIN ledger'
          /\ \A k \in DOMAIN ledger : ledger'[k] = ledger[k]
          /\ \A k \in DOMAIN ledger' \ DOMAIN ledger : ledger'[k] = row
      BY <1>1
    <3> HIDE DEF row, end
    <3>2. ~ (row.at =< end)
      BY <1>3, <2>2
    <3> QED
      BY <3>1, <3>2 DEF LaterThan
  <2>4. LaterThan(end, overrides, overrides')
    <3>1. /\ DOMAIN overrides \subseteq DOMAIN overrides'
          /\ \A k \in DOMAIN overrides : overrides'[k] = overrides[k]
          /\ \A k \in DOMAIN overrides' \ DOMAIN overrides : overrides'[k].at = now
      <4>1. CASE overrides' = overrides
        BY <4>1
      <4>2. ASSUME NEW type, overrides' = Append(overrides, [at |-> now, type |-> type])
            PROVE  /\ DOMAIN overrides \subseteq DOMAIN overrides'
                   /\ \A k \in DOMAIN overrides : overrides'[k] = overrides[k]
                   /\ \A k \in DOMAIN overrides' \ DOMAIN overrides : overrides'[k].at = now
        BY <4>2
      <4> QED
        BY <1>2, <4>1, <4>2
    <3> HIDE DEF end
    <3>2. ~ (now =< end)
      BY <2>2
    <3> QED
      BY <3>1, <3>2 DEF LaterThan
  <2>5. Len(cycles) =< Len(cycles') /\ cycles' \in Seq(Cycles)
    BY <1>1
  <2> QED
    BY <1>1, <1>5, <2>1, <2>3, <2>4, <2>5, ScoredKept
<1>7. slips' \intersect {"straggler", "late_update"} = {} =>
        slips \intersect {"straggler", "late_update"} = {}
  BY <1>1
<1> QED
  BY <1>1, <1>4, <1>5, <1>6, <1>7 DEF ScoreInv

LEMMA ScoreAtRenewed ==
  ASSUME TypeInv, OrderInv, ScoreInv, SaveRenewed
  PROVE  ScoreInv'
<1> USE TypeFacts
<1> DEFINE e == call.entity
<1>1. /\ e \in Configs /\ DatedBy(e, LastDay) /\ RollsOver(call, config)
      /\ call.closed # 0 /\ config' \in Configs /\ SameTerms(config', e)
      /\ SameWindow(config', e)
      /\ UNCHANGED <<cycles, slips, ledger, overrides, now, inForce>>
  BY RenewFacts DEF Quiet
<1>2. SameTerms(config', config)
  BY <1>1 DEF RollsOver, SameTerms
<1>3. Configured' = Configured /\ config'.baselineBalance = config.baselineBalance
  BY <1>2, SameConfigured DEF SameTerms
<1>4. config.expiresAt =< config'.expiresAt
      /\ config.expiresAt \in Nat /\ config'.expiresAt \in Nat
  <2>1. /\ config.expiresAt =< WindowStart(e) /\ WindowStart(e) < e.expiresAt
        /\ config'.expiresAt = e.expiresAt /\ WindowStart(e) \in Nat
    BY <1>1, WindowOf DEF RollsOver, SameWindow
  <2>2. config.expiresAt \in Nat /\ config'.expiresAt \in Nat
    BY <1>1 DEF Configs
  <2> HIDE DEF e
  <2> QED
    BY <2>1, <2>2
<1>5. ASSUME slips \intersect {"straggler", "late_update"} = {},
             NEW d \in Days, config'.expiresAt =< d, d =< now
      PROVE  inForce[d] = Configured
  <2>1. config.expiresAt =< d
    BY <1>4, <1>5, Limits DEF Days
  <2> QED
    BY <1>5, <2>1 DEF ScoreInv
<1> QED
  BY <1>1, <1>3, <1>5, ScoreKept

LEMMA ScoreAtSaveOwn ==
  ASSUME TypeInv, OrderInv, ScoreInv, SaveOwn
  PROVE  ScoreInv'
<1> USE TypeFacts
<1> DEFINE e == call.entity
<1>1. /\ e \in Configs /\ config' \in Configs /\ SameWindow(config', e)
      /\ config'.baselineBalance = config.baselineBalance
      /\ slips \subseteq slips'
      /\ config.expiresAt =< now \/ e.expiresAt =< now => "late_update" \in slips'
      /\ UNCHANGED <<cycles, ledger, overrides, now, inForce>>
  BY SaveFacts DEF Quiet
<1>2. ASSUME slips' \intersect {"straggler", "late_update"} = {},
             NEW d \in Days, config'.expiresAt =< d, d =< now
      PROVE  FALSE
  <2>1. ~ (e.expiresAt =< now) /\ config'.expiresAt = e.expiresAt
    BY <1>1, <1>2 DEF SameWindow
  <2>2. config'.expiresAt \in Nat /\ d \in Nat
    BY <1>1, Limits DEF Configs, Days
  <2> HIDE DEF e
  <2> QED
    BY <1>2, <2>1, <2>2
<1> QED
  BY <1>1, <1>2, ScoreKept

LEMMA ScoreAtNextDay ==
  ASSUME TypeInv, OrderInv, ScoreInv, NextDay
  PROVE  ScoreInv'
<1> USE TypeFacts
<1>1. /\ now < LastDay /\ now' = now + 1
      /\ inForce' = [inForce EXCEPT ![now + 1] = Configured]
      /\ UNCHANGED <<config, ledger, overrides, cycles, slips>>
  BY DEF NextDay
<1>2. DOMAIN inForce' = Days /\ now + 1 \in Days
  BY <1>1, Limits DEF ScoreInv, Days
<1>3. \A d \in Days : inForce'[d] = IF d = now + 1 THEN Configured ELSE inForce[d]
  BY <1>1, <1>2 DEF ScoreInv
<1>4. Configured' = Configured
  BY <1>1 DEF Configured
<1>5. \A date : LaterThan(date, ledger, ledger') /\ LaterThan(date, overrides, overrides')
  BY <1>1 DEF LaterThan
<1>6. ASSUME NEW i \in DOMAIN cycles, Scored(i)
      PROVE  Scored(i)'
  <2>1. cycles[i].end \in Days => inForce'[cycles[i].end] = inForce[cycles[i].end]
    <3>1. cycles[i].end \in Nat /\ cycles[i].end =< now
      BY CycleTypes DEF OrderInv
    <3> QED
      BY <1>3, <3>1
  <2>2. Len(cycles) =< Len(cycles') /\ cycles' \in Seq(Cycles)
    BY <1>1
  <2> QED
    BY <1>1, <1>5, <1>6, <2>1, <2>2, ScoredKept
<1>7. ASSUME slips \intersect {"straggler", "late_update"} = {},
             NEW d \in Days, config.expiresAt =< d, d =< now + 1
      PROVE  inForce'[d] = Configured
  <2>1. CASE d = now + 1
    BY <1>3, <2>1
  <2>2. CASE d # now + 1
    <3>1. d =< now
      BY <1>7, <2>2, Limits DEF Days
    <3> QED
      BY <1>3, <1>7, <2>2, <3>1 DEF ScoreInv
  <2> QED
    BY <2>1, <2>2
<1>8. \A d \in Days : inForce'[d] = NoConfig \/ DOMAIN inForce'[d] = Terms
  BY <1>3, ConfiguredTerms DEF ScoreInv
<1> QED
  BY <1>1, <1>2, <1>4, <1>6, <1>7, <1>8 DEF ScoreInv

LEMMA ScoreStep == TypeInv /\ OrderInv /\ ScoreInv /\ [Next]_vars => ScoreInv'
<1> SUFFICES ASSUME TypeInv, OrderInv, ScoreInv, [Next]_vars
             PROVE  ScoreInv'
  OBVIOUS
<1> USE TypeFacts
<1>1. ASSUME config' = config, UNCHANGED <<cycles, overrides, ledger, inForce, now>>,
             slips \subseteq slips'
      PROVE  ScoreInv'
  <2>1. Configured' = Configured
    BY <1>1 DEF Configured
  <2>2. slips' \intersect {"straggler", "late_update"} = {} =>
          slips \intersect {"straggler", "late_update"} = {}
    BY <1>1
  <2> QED
    BY <1>1, <2>1, <2>2, ScoreKept DEF ScoreInv
<1>2. ASSUME NEW amount, NEW debit, Post(amount, debit)
      PROVE  ScoreInv'
  BY <1>1, <1>2 DEF Post
<1>3. ASSUME NEW op, NEW dto, Ask(op, dto)
      PROVE  ScoreInv'
  BY <1>1, <1>3 DEF Ask
<1>4. CASE Find
  BY <1>1, <1>4, FindFacts DEF Quiet
<1>5. CASE SaveReads \/ ReadRows \/ ReadBalance \/ ReadOverrides \/ ListCycles \/ Fail
  BY <1>1, <1>5
  DEF SaveReads, ReadRows, ReadBalance, ReadOverrides, ListCycles, Fail, Quiet
<1>6. CASE UNCHANGED vars
  BY <1>1, <1>6 DEF vars
<1> QED
  BY <1>2, <1>3, <1>4, <1>5, <1>6, ScoreAtClose, ScoreAtCommit, ScoreAtRenewed,
     ScoreAtSaveOwn, ScoreAtNextDay DEF Next

LEMMA ScoreInvariant == Spec => []ScoreInv
BY ScoreInit, ScoreStep, TypeInvariant, OrderInvariant, PTL DEF Spec

\* However late somebody looks, every column a cycle is closed with is what was in
\* force and in the ledger when it ended, the score with the use of the buffer that
\* is stored (BufferUseIsExplained is about that); but for a row that commits behind
\* the closing and an update that is saved after the end.
THEOREM CyclesScoredAsTheyEnded == Spec => []ScoredAsItEnded
<1>1. ASSUME ScoreInv
      PROVE  ScoredAsItEnded
  <2>1. SUFFICES ASSUME slips \intersect {"straggler", "late_update"} = {},
                        NEW i \in DOMAIN cycles, cycles[i].epoch >= 0,
                        cycles[i].end \in Days, inForce[cycles[i].end] # NoConfig
                 PROVE  \E p \in CycleBefore(i) : \A col \in DOMAIN Should(i, p) :
                          cycles[i][col] = Should(i, p)[col]
    BY DEF ScoredAsItEnded, CycleBefore, Should
  <2>2. Scored(i)
    BY <1>1, <2>1 DEF ScoreInv
  <2>3. PICK p \in CycleBefore(i) :
               \A col \in Amounts : cycles[i][col] = Should(i, p)[col]
    BY <2>1, <2>2 DEF Scored
  <2>4. DOMAIN Should(i, p) = Amounts
    BY ClosedCycleColumns DEF Should
  <2> QED
    BY <2>3, <2>4
<1> QED
  BY <1>1, ScoreInvariant, PTL

=============================================================================
