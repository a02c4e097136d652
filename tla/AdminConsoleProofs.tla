------------------------- MODULE AdminConsoleProofs -------------------------
(***************************************************************************)
(* Proofs about AdminConsole, for any number of requests and boots.  The   *)
(* inductive invariant has a layer for the types and the places of the     *)
(* requests, and one for each of the three things requests change: the     *)
(* rules with their log, the controls, and the settings file.              *)
(***************************************************************************)
EXTENDS AdminConsole, TLAPS

\* What a request about a rule, or about the controls, saves and reads again.
Entities ==
  [status : Statuses \union {NoRule}] \union Controls \union {Nothing}

Locals ==
  [entity : Entities, stored : Entities, text : Texts, defaults : BOOLEAN]

LogEntries ==
  [ about : RuleIds \union {NoRule, NoControls},
    says : Statuses \union {"removed", "changed"} ]

TableTypes ==
  /\ rules \in [RuleIds -> Statuses \union {NoRule}]
  /\ controls \in Controls \union {NoControls}
  /\ boot.step \in {"logs", "up"} => controls # NoControls
  /\ log \in Seq(LogEntries)
  /\ file \in [text : Texts \union {"missing", "empty", "garbled"}, length : Nat]
  /\ boot \in [step : {"rules", "controls", "logs", "up"}, number : Boots]
  /\ overtaken \subseteq Requests /\ mixed \subseteq RuleIds
  /\ lastHook \in Texts /\ slips \subseteq Slips

\* What the place of a request tells of it.  Nobody is served before the process
\* is up.
PlaceOf(r) ==
  /\ pc[r] # "idle" => req[r] \in RequestRecords
  /\ pc[r] \in InFlight => boot.step = "up"
  /\ pc[r] = "insert" => req[r].op = "create"
  /\ pc[r] = "find" => req[r].op \in OnRules \union {"controls"}
  /\ pc[r] = "remove" => req[r].op = "delete"
  /\ pc[r] = "log" => req[r].op \in {"create", "update", "delete", "controls"}
  /\ pc[r] \in {"load", "truncate", "flush"} => req[r].op \in {"webhook", "view"}
  /\ pc[r] \in {"read", "write"} =>
       \/ /\ req[r].op = "update"
          /\ loc[r].entity = [status |-> req[r].status]
          /\ pc[r] = "write" => loc[r].stored \in [status : Statuses \union {NoRule}]
       \/ /\ req[r].op = "controls"
          /\ loc[r].entity \in Controls
          /\ pc[r] = "write" => loc[r].stored \in Controls
  /\ pc[r] \in {"truncate", "flush"} =>
       IF loc[r].defaults THEN loc[r].text = DefaultHook
       ELSE req[r].op = "webhook"

RequestTypes ==
  /\ pc \in [Requests -> {"idle"} \union InFlight \union Answered]
  /\ req \in [Requests -> RequestRecords \union {Nothing}]
  /\ loc \in [Requests -> Locals]
  /\ \A r \in Requests : PlaceOf(r)

TypesInv == TableTypes /\ RequestTypes

-----------------------------------------------------------------------------
(***************************************************************************)
(* Rules and their log                                                     *)
(***************************************************************************)

\* There has been a rule i.
Born(i) ==
  \/ /\ i \in Requests /\ pc[i] \in {"log", "done", "failed"}
     /\ req[i].op = "create"
  \/ /\ i \in Boots
     /\ i < boot.number \/ (i = boot.number /\ boot.step # "rules")

\* What an entry that says s means for the rule it is about.
Meaning(s) == IF s = "removed" THEN NoRule ELSE s

\* A request that works on a rule has found it, and the rule is still there
\* unless somebody has been at it too; a request that has deleted one has; and
\* what a request is about to log is what it has done.
RuleOf(r) ==
  /\ pc[r] \in {"remove", "read", "write", "log", "done"} /\ req[r].op \in OnRules =>
       Born(req[r].rule)
  /\ ( /\ pc[r] \in {"read", "write"} /\ req[r].op = "update"
       /\ r \notin overtaken \/ req[r].rule \notin mixed )
     => rules[req[r].rule] # NoRule
  /\ ( /\ pc[r] \in {"log", "done"} /\ req[r].op = "delete"
       /\ "stale_save" \notin slips )
     => rules[req[r].rule] = NoRule
  /\ pc[r] = "log" /\ About(r) \in RuleIds \ mixed =>
       rules[About(r)] = Meaning(Says(r))

\* Nobody is between a change of rule i and its entry.
Quiet(i) == \A r \in Requests : pc[r] = "log" => About(r) # i

LastAbout(k, i) ==
  log[k].about = i /\ \A j \in k + 1 .. Len(log) : log[j].about # i

LogOf(i) ==
  Quiet(i) => \A k \in DOMAIN log : LastAbout(k, i) => rules[i] = Meaning(log[k].says)

RulesInv ==
  /\ \A i \in RuleIds : rules[i] # NoRule => Born(i)
  /\ \A k \in DOMAIN log : log[k].about \in RuleIds => Born(log[k].about)
  /\ \A r \in Requests : RuleOf(r)
  /\ \A i \in RuleIds \ mixed : LogOf(i)

-----------------------------------------------------------------------------
(***************************************************************************)
(* Controls and settings                                                   *)
(***************************************************************************)

\* A request nobody has overtaken would make the same update again.
ControlOf(r) ==
  r \notin overtaken /\ pc[r] \in {"read", "write"} /\ req[r].op = "controls" =>
    /\ loc[r].entity = Updated(controls, req[r].dto)
    /\ pc[r] = "write" => loc[r].stored = controls

ControlsInv == ActiveModesFollow /\ \A r \in Requests : ControlOf(r)

AtWork == {"truncate", "flush"}

\* As long as nobody meets anybody at the file: it is empty while it is written,
\* and defaults are written only where nothing has been set.
FileInv ==
  slips \intersect {"hook_race", "torn"} = {} =>
    /\ \A r, q \in Requests : pc[r] \in AtWork /\ pc[q] \in AtWork => r = q
    /\ \A r \in Requests : pc[r] = "flush" => file = [text |-> "empty", length |-> 0]
    /\ \A r \in Requests :
         pc[r] \in AtWork /\ loc[r].defaults => lastHook = DefaultHook
    /\ (\A r \in Requests : pc[r] # "flush") =>
         file.text \in {lastHook}
           \union (IF lastHook = DefaultHook THEN {"missing"} ELSE {})

IInv == TypesInv /\ RulesInv /\ ControlsInv /\ FileInv

-----------------------------------------------------------------------------
(***************************************************************************)
(* Facts about steps and requests                                          *)
(***************************************************************************)

\* Request r moves on; only its own place, locals and, in Submit, request change.
Step(r, label, l) ==
  /\ pc[r] \in InFlight \union {"idle"}
  /\ label \in InFlight \union Answered
  /\ l \in Locals
  /\ Goto(r, label, l)
  /\ boot' = boot
  /\ \A q \in Requests : q # r => req'[q] = req[q]

LEMMA Moves ==
  ASSUME RequestTypes, NEW r \in Requests, NEW label, NEW l, Goto(r, label, l)
  PROVE  /\ \A q \in Requests : pc'[q] = IF q = r THEN label ELSE pc[q]
         /\ \A q \in Requests : loc'[q] = IF q = r THEN l ELSE loc[q]
  BY DEF Goto, RequestTypes

LEMMA Records ==
  ASSUME NEW c \in RequestRecords
  PROVE  /\ c.op \in {"create", "update", "delete", "controls", "webhook", "view"}
         /\ c.op \in {"create", "update"} => c.status \in Statuses
         /\ c.op \in OnRules => c.rule \in RuleIds
         /\ c.op = "controls" => c.dto \in ControlsDtos
         /\ c.op = "webhook" => c.hook \in Hooks
  BY DEF RequestRecords, OnRules

LEMMA RequestStep ==
  ASSUME RequestTypes, NEW r \in Requests, NEW label, NEW l, Step(r, label, l),
         req' \in [Requests -> RequestRecords \union {Nothing}], PlaceOf(r)'
  PROVE  RequestTypes'
  <1>1. /\ pc' \in [Requests -> {"idle"} \union InFlight \union Answered]
        /\ loc' \in [Requests -> Locals]
    BY DEF Step, Goto, RequestTypes
  <1>2. ASSUME NEW q \in Requests, q # r PROVE PlaceOf(q)'
    <2>1. /\ PlaceOf(q) /\ pc'[q] = pc[q] /\ loc'[q] = loc[q] /\ req'[q] = req[q]
          /\ boot' = boot
      BY <1>2, Moves DEF Step, RequestTypes
    <2> QED BY <2>1 DEF PlaceOf
  <1> QED BY <1>1, <1>2 DEF RequestTypes

\* What was born stays born.
LEMMA BornStays ==
  ASSUME RequestTypes, NEW r \in Requests, NEW label, NEW l, Step(r, label, l),
         pc[r] = "log" => label = "done" /\ req'[r] = req[r],
         NEW i, Born(i)
  PROVE  Born(i)'
  <1>1. CASE i \in Requests /\ pc[i] \in {"log", "done", "failed"}
             /\ req[i].op = "create"
    <2>1. CASE i = r
      BY <1>1, <2>1, Moves DEF Step, Born, InFlight
    <2>2. CASE i # r
      BY <1>1, <2>2, Moves DEF Step, Born
    <2> QED BY <2>1, <2>2
  <1>2. CASE i \in Boots /\ (i < boot.number \/ (i = boot.number /\ boot.step # "rules"))
    BY <1>2 DEF Step, Born
  <1> QED BY <1>1, <1>2 DEF Born

\* Steps that leave the rules and their log alone.
LEMMA RulesStand ==
  ASSUME RequestTypes, RulesInv,
         NEW r \in Requests, NEW label, NEW l, Step(r, label, l), pc[r] # "log",
         rules' = rules, log' = log, mixed' = mixed, overtaken \subseteq overtaken',
         "stale_save" \in slips => "stale_save" \in slips',
         RuleOf(r)'
  PROVE  RulesInv'
  <1>1. \A i : Born(i) => Born(i)'
    BY BornStays
  <1>2. \A q \in Requests : q # r => /\ pc'[q] = pc[q] /\ loc'[q] = loc[q]
                                     /\ req'[q] = req[q]
    BY Moves DEF Step
  <1>3. ASSUME NEW q \in Requests, q # r PROVE RuleOf(q)'
    <2>1. /\ pc'[q] = pc[q] /\ req'[q] = req[q] /\ RuleOf(q)
          /\ About(q)' = About(q) /\ Says(q)' = Says(q)
      BY <1>2, <1>3 DEF RulesInv, About, Says
    <2>2. Born(req[q].rule) => Born(req[q].rule)'
      <3>1. PICK i : i = req[q].rule
        OBVIOUS
      <3>2. Born(i) => Born(i)'
        BY <1>1
      <3> QED BY <3>1, <3>2, <2>1 DEF Born
    <2> QED BY <2>1, <2>2 DEF RuleOf
  <1>4. ASSUME NEW i \in RuleIds \ mixed PROVE LogOf(i)'
    <2>1. Quiet(i)' => Quiet(i)
      <3> SUFFICES ASSUME Quiet(i)', NEW q \in Requests, pc[q] = "log"
                   PROVE  About(q) # i
        BY DEF Quiet
      <3>1. q # r /\ pc'[q] = pc[q] /\ req'[q] = req[q]
        BY <1>2
      <3>2. About(q)' = About(q)
        BY <3>1 DEF About
      <3> QED BY <3>1, <3>2 DEF Quiet
    <2> QED BY <2>1 DEF RulesInv, LogOf, LastAbout
  <1>5. \A i \in RuleIds : rules'[i] # NoRule => Born(i)'
    BY <1>1 DEF RulesInv
  <1>6. ASSUME NEW k \in DOMAIN log', log'[k].about \in RuleIds
        PROVE  Born(log[k].about)'
    <2>1. PICK i : i = log[k].about
      OBVIOUS
    <2>2. Born(i)'
      BY <1>1, <1>6, <2>1 DEF RulesInv
    <2> QED BY <2>1, <2>2 DEF Born
  <1> QED BY <1>3, <1>4, <1>5, <1>6, RuleOf(r)' DEF RulesInv

\* Steps that leave the controls alone.
LEMMA ControlsStand ==
  ASSUME RequestTypes, ControlsInv,
         NEW r \in Requests, NEW label, NEW l, Step(r, label, l),
         controls' = controls, overtaken \subseteq overtaken', slips \subseteq slips',
         ControlOf(r)'
  PROVE  ControlsInv'
  <1>1. ActiveModesFollow'
    BY DEF ControlsInv, ActiveModesFollow
  <1>2. ASSUME NEW q \in Requests, q # r PROVE ControlOf(q)'
    <2>1. /\ pc'[q] = pc[q] /\ loc'[q] = loc[q] /\ req'[q] = req[q]
          /\ ControlOf(q)
      BY <1>2, Moves DEF Step, ControlsInv
    <2> QED BY <2>1 DEF ControlOf
  <1> QED BY <1>1, <1>2 DEF ControlsInv

\* Steps that leave the settings alone.
LEMMA FileStands ==
  ASSUME RequestTypes, FileInv,
         NEW r \in Requests, NEW label, NEW l, Step(r, label, l),
         file' = file, lastHook' = lastHook, slips \subseteq slips',
         pc[r] \notin AtWork, label \notin AtWork
  PROVE  FileInv'
  <1>1. \A q \in Requests :
          pc'[q] \in AtWork \/ pc[q] \in AtWork => pc'[q] = pc[q] /\ loc'[q] = loc[q]
    BY Moves DEF Step
  <1>2. \A q \in Requests : pc'[q] = "flush" <=> pc[q] = "flush"
    BY <1>1 DEF AtWork
  <1> QED BY <1>1, <1>2 DEF FileInv

LEMMA AboutOf ==
  ASSUME NEW r
  PROVE  /\ req[r].op \in OnRules => About(r) = req[r].rule
         /\ req[r].op = "create" => About(r) = r
         /\ req[r].op \notin OnRules \union {"create"} => About(r) = NoControls
  BY DEF About, OnRules

LEMMA SaysOf ==
  ASSUME NEW r
  PROVE  /\ req[r].op \in {"create", "update"} => Says(r) = req[r].status
         /\ req[r].op = "delete" => Says(r) = "removed"
         /\ req[r].op \notin {"create", "update", "delete"} => Says(r) = "changed"
  BY DEF Says

\* Request r leaves v in the table for the rule i it is about.
RuleStep(r, i, v) ==
  /\ pc[r] \in {"insert", "remove", "write"}
  /\ req[r].op \in {"create"} \union OnRules /\ About(r) = i
  /\ Step(r, "log", loc[r]) /\ Changed(r) /\ log' = log /\ req' = req
  /\ rules' = [rules EXCEPT ![i] = v]
  /\ i \notin mixed' => v = Meaning(Says(r))
  /\ req[r].op = "delete" => v = NoRule
  /\ \A q \in Requests \ {r} :
       ( /\ pc[q] \in {"log", "done"} /\ req[q].op = "delete"
         /\ req[q].rule = i /\ "stale_save" \notin slips' ) => v = NoRule

LEMMA RuleChange ==
  ASSUME RequestTypes, TableTypes, RulesInv,
         NEW r \in Requests, NEW i \in RuleIds, NEW v, RuleStep(r, i, v), Born(i)'
  PROVE  RulesInv'
  <1> USE DEF RuleStep
  <1>1. /\ \A j \in RuleIds : rules'[j] = IF j = i THEN v ELSE rules[j]
        /\ \A q \in Requests : pc'[q] = IF q = r THEN "log" ELSE pc[q]
    BY Moves DEF TableTypes, Step
  <1>2. /\ mixed \subseteq mixed' /\ \A j \in mixed' : j \in mixed \/ j = i
        /\ overtaken \subseteq overtaken'
        /\ "stale_save" \in slips => "stale_save" \in slips'
    BY DEF Changed
  <1>3. ASSUME NEW q \in Requests, q # r, About(q) = i, pc[q] \in InFlight \ {"find"}
        PROVE  /\ i \in mixed'
               /\ pc[q] \in {"remove", "read", "write"} => q \in overtaken'
    <2>1. q \in InFlightOn(i)
      BY <1>3 DEF InFlightOn
    <2> QED BY <2>1, <1>3 DEF Changed
  <1>4. \A j : Born(j) => Born(j)'
    BY BornStays
  <1>5. \A q \in Requests : About(q)' = About(q) /\ Says(q)' = Says(q)
    BY DEF About, Says
  <1>6. ASSUME NEW q \in Requests PROVE RuleOf(q)'
    <2>1. CASE q = r
      <3>1. req[r].op \in OnRules => Born(req[r].rule)'
        BY AboutOf DEF Born
      <3> QED BY <2>1, <3>1, <1>1, <1>5, AboutOf DEF RuleOf
    <2>2. CASE q # r
      <3>1. pc'[q] = pc[q] /\ RuleOf(q)
        BY <2>2, <1>1 DEF RulesInv
      <3>2. Born(req[q].rule) => Born(req[q].rule)'
        <4>1. PICK j : j = req[q].rule
          OBVIOUS
        <4>2. Born(j) => Born(j)'
          BY <1>4
        <4> QED BY <4>1, <4>2 DEF Born
      <3>3. ASSUME pc[q] \in {"read", "write"}, req[q].op = "update",
                   q \notin overtaken' \/ req[q].rule \notin mixed'
            PROVE  rules'[req[q].rule] # NoRule
        <4>1. About(q) = req[q].rule
          BY <3>3, AboutOf DEF OnRules
        <4>2. req[q].rule # i
          BY <2>2, <3>3, <4>1, <1>3 DEF InFlight
        <4>3. rules[req[q].rule] # NoRule
          BY <3>1, <3>3, <1>2 DEF RuleOf
        <4>4. req[q].rule \in RuleIds
          BY <3>3, Records DEF RequestTypes, PlaceOf, OnRules
        <4> QED BY <4>2, <4>3, <4>4, <1>1
      <3>4. ASSUME pc[q] \in {"log", "done"}, req[q].op = "delete",
                   "stale_save" \notin slips'
            PROVE  rules'[req[q].rule] = NoRule
        <4>1. req[q].rule \in RuleIds
          BY <3>4, Records DEF RequestTypes, PlaceOf, OnRules
        <4> QED BY <4>1, <2>2, <3>1, <3>4, <1>1, <1>2 DEF RuleOf
      <3>5. ASSUME pc[q] = "log", About(q) \in RuleIds \ mixed'
            PROVE  rules'[About(q)] = Meaning(Says(q))
        <4>1. About(q) # i
          BY <2>2, <3>5, <1>3 DEF InFlight
        <4> QED BY <4>1, <3>1, <3>5, <1>1, <1>2 DEF RuleOf
      <3> QED BY <3>1, <3>2, <3>3, <3>4, <3>5, <1>5 DEF RuleOf
    <2> QED BY <2>1, <2>2
  <1>7. ASSUME NEW j \in RuleIds \ mixed' PROVE LogOf(j)'
    <2>1. CASE j = i
      BY <2>1, <1>1, <1>5 DEF LogOf, Quiet
    <2>2. CASE j # i
      <3>1. Quiet(j)' => Quiet(j)
        BY <1>1, <1>5 DEF Quiet
      <3> QED BY <2>2, <3>1, <1>1, <1>2 DEF RulesInv, LogOf, LastAbout
    <2> QED BY <2>1, <2>2
  <1>8. \A j \in RuleIds : rules'[j] # NoRule => Born(j)'
    BY <1>1, <1>4 DEF RulesInv
  <1>9. ASSUME NEW k \in DOMAIN log', log'[k].about \in RuleIds
        PROVE  Born(log[k].about)'
    <2>1. PICK j : j = log[k].about
      OBVIOUS
    <2>2. Born(j)'
      BY <1>4, <1>9, <2>1 DEF RulesInv
    <2> QED BY <2>1, <2>2 DEF Born
  <1> QED BY <1>6, <1>7, <1>8, <1>9 DEF RulesInv

\* What such a step does to the rest.
LEMMA RuleChangeRest ==
  ASSUME IInv, NEW r \in Requests, pc[r] \in {"insert", "remove", "write"},
         req[r].op \in {"create"} \union OnRules, Step(r, "log", loc[r]),
         Changed(r), UNCHANGED <<controls, log, file, req>>,
         rules' \in [RuleIds -> Statuses \union {NoRule}], RulesInv'
  PROVE  IInv'
  <1>1. pc'[r] = "log" /\ loc'[r] = loc[r] /\ boot' = boot
    BY Moves DEF Step, IInv, TypesInv
  <1>2. /\ overtaken \subseteq overtaken' /\ overtaken' \subseteq Requests
        /\ mixed' \subseteq RuleIds /\ lastHook' = lastHook
        /\ slips \subseteq slips' /\ slips' \subseteq Slips
    BY DEF Changed, InFlightOn, Slips, IInv, TypesInv, TableTypes
  <1>3. PlaceOf(r)'
    BY <1>1 DEF PlaceOf, OnRules, InFlight, IInv, TypesInv, RequestTypes
  <1>4. RequestTypes'
    BY <1>3, RequestStep DEF IInv, TypesInv, RequestTypes
  <1>5. TableTypes'
    BY <1>1, <1>2 DEF IInv, TypesInv, TableTypes
  <1>6. ControlsInv'
    <2>1. ControlOf(r)'
      BY <1>1 DEF ControlOf
    <2> QED BY <1>2, <2>1, ControlsStand DEF IInv, TypesInv
  <1>7. FileInv'
    BY <1>2, FileStands DEF IInv, TypesInv, AtWork
  <1> QED BY <1>4, <1>5, <1>6, <1>7 DEF IInv, TypesInv

LEMMA InsertIInv ==
  ASSUME IInv, NEW r \in Requests, Insert(r)
  PROVE  IInv'
  <1>1. /\ pc[r] = "insert" /\ req[r].op = "create" /\ r \in RuleIds
        /\ rules' = [rules EXCEPT ![r] = req[r].status]
        /\ Changed(r) /\ UNCHANGED <<controls, log, file, boot, req>>
    BY DEF Insert, IInv, TypesInv, RequestTypes, PlaceOf, RuleIds
  <1>2. req[r].status \in Statuses
    BY <1>1, Records DEF IInv, TypesInv, RequestTypes, PlaceOf
  <1>3. Step(r, "log", loc[r])
    BY <1>1 DEF Insert, Step, InFlight, IInv, TypesInv, RequestTypes
  <1>4. About(r) = r /\ Says(r) = req[r].status
    BY <1>1, AboutOf, SaysOf
  <1>5. Meaning(Says(r)) = req[r].status
    BY <1>2, <1>4 DEF Meaning, Statuses
  <1>6. ~ Born(r)
    BY <1>1, ConstantsAssumption DEF Born
  <1>7. \A q \in Requests \ {r} :
          pc[q] \in {"log", "done"} /\ req[q].op = "delete" => req[q].rule # r
    BY <1>6 DEF IInv, RulesInv, RuleOf, OnRules
  <1>8. Born(r)'
    BY <1>1, <1>3, Moves DEF Born, Step, IInv, TypesInv
  <1>11. RuleStep(r, r, req[r].status)
    BY <1>1, <1>3, <1>4, <1>5, <1>7 DEF RuleStep
  <1>9. RulesInv'
    BY <1>1, <1>8, <1>11, RuleChange DEF IInv, TypesInv
  <1>10. rules' \in [RuleIds -> Statuses \union {NoRule}]
    BY <1>1, <1>2 DEF IInv, TypesInv, TableTypes
  <1> QED BY <1>1, <1>3, <1>9, <1>10, RuleChangeRest

LEMMA RemoveIInv ==
  ASSUME IInv, NEW r \in Requests, Remove(r)
  PROVE  IInv'
  <1> DEFINE i == req[r].rule
  <1>1. /\ pc[r] = "remove" /\ req[r].op = "delete" /\ req[r].op \in OnRules
        /\ rules' = [rules EXCEPT ![i] = NoRule]
        /\ Changed(r) /\ UNCHANGED <<controls, log, file, boot, req>>
    BY DEF Remove, IInv, TypesInv, RequestTypes, PlaceOf, OnRules
  <1>2. i \in RuleIds
    BY <1>1, Records DEF IInv, TypesInv, RequestTypes, PlaceOf
  <1>3. Step(r, "log", loc[r])
    BY <1>1 DEF Remove, Step, InFlight, IInv, TypesInv, RequestTypes
  <1>4. About(r) = i /\ Says(r) = "removed" /\ Meaning(Says(r)) = NoRule
    BY <1>1, AboutOf, SaysOf DEF Meaning
  <1>5. PICK j : j = i
    OBVIOUS
  <1>6. Born(j)'
    <2>1. Born(j)
      BY <1>1, <1>5 DEF IInv, RulesInv, RuleOf
    <2> QED BY <1>1, <1>3, <2>1, BornStays DEF IInv, TypesInv
  <1> HIDE DEF i
  <1>9. RuleStep(r, j, NoRule)
    BY <1>1, <1>3, <1>4, <1>5 DEF RuleStep
  <1>7. RulesInv'
    BY <1>2, <1>5, <1>6, <1>9, RuleChange DEF IInv, TypesInv
  <1>8. rules' \in [RuleIds -> Statuses \union {NoRule}]
    BY <1>1, <1>2 DEF IInv, TypesInv, TableTypes
  <1> QED BY <1>1, <1>3, <1>7, <1>8, RuleChangeRest

LEMMA SaveRuleIInv ==
  ASSUME IInv, NEW r \in Requests, SaveRule(r)
  PROVE  IInv'
  <1> DEFINE i == req[r].rule
             v == IF loc[r].stored.status = NoRule \/ rules[i] # NoRule
                  THEN loc[r].entity.status ELSE rules[i]
  <1>1. /\ pc[r] = "write" /\ req[r].op = "update" /\ req[r].op \in OnRules
        /\ loc[r].entity = [status |-> req[r].status]
        /\ Changed(r) /\ UNCHANGED <<controls, log, file, boot, req>>
    BY DEF SaveRule, IInv, TypesInv, RequestTypes, PlaceOf, OnRules
  <1>2. i \in RuleIds /\ req[r].status \in Statuses
    BY <1>1, Records DEF IInv, TypesInv, RequestTypes, PlaceOf
  <1>3. Step(r, "log", loc[r])
    BY <1>1 DEF SaveRule, Step, InFlight, IInv, TypesInv, RequestTypes
  <1>4. About(r) = i /\ Says(r) = req[r].status /\ Meaning(Says(r)) = req[r].status
    BY <1>1, <1>2, AboutOf, SaysOf DEF Meaning, Statuses
  <1>5. rules' = [rules EXCEPT ![i] = v] /\ v \in Statuses \union {NoRule}
    <2>1. rules = [rules EXCEPT ![i] = rules[i]] /\ rules[i] \in Statuses \union {NoRule}
      BY <1>2 DEF IInv, TypesInv, TableTypes
    <2>2. loc[r].entity.status \in Statuses
      BY <1>1, <1>2
    <2> QED BY <2>1, <2>2 DEF SaveRule
  <1>6. /\ i \notin mixed' => rules[i] # NoRule
        /\ "stale_save" \notin slips' => rules[i] # NoRule
    BY <1>1 DEF Changed, IInv, RulesInv, RuleOf
  <1>7. rules[i] # NoRule => v = req[r].status
    BY <1>1
  <1>8. \A q \in Requests \ {r} :
          ~ ( /\ pc[q] \in {"log", "done"} /\ req[q].op = "delete"
              /\ req[q].rule = i /\ "stale_save" \notin slips' )
    <2>1. "stale_save" \in slips => "stale_save" \in slips'
      BY <1>1 DEF Changed
    <2> QED BY <1>6, <2>1 DEF IInv, RulesInv, RuleOf
  <1>9. PICK j : j = i
    OBVIOUS
  <1>10. Born(j)'
    <2>1. Born(j)
      BY <1>1, <1>9 DEF IInv, RulesInv, RuleOf
    <2> QED BY <1>1, <1>3, <2>1, BornStays DEF IInv, TypesInv
  <1>13. PICK w : w = v
    OBVIOUS
  <1> HIDE DEF i, v
  <1>11. RulesInv'
    <2>1. RuleStep(r, j, w)
      BY <1>1, <1>3, <1>4, <1>5, <1>6, <1>7, <1>8, <1>9, <1>13 DEF RuleStep
    <2> QED BY <1>2, <1>9, <1>10, <2>1, RuleChange DEF IInv, TypesInv
  <1>12. rules' \in [RuleIds -> Statuses \union {NoRule}]
    BY <1>2, <1>5 DEF IInv, TypesInv, TableTypes
  <1> QED BY <1>1, <1>3, <1>11, <1>12, RuleChangeRest

LEMMA WriteLogIInv ==
  ASSUME IInv, NEW r \in Requests, WriteLog(r)
  PROVE  IInv'
  <1> DEFINE entry == [about |-> About(r), says |-> Says(r)]
  <1>1. /\ pc[r] = "log" /\ req[r].op \in {"create", "update", "delete", "controls"}
        /\ log' = Append(log, entry) /\ Goto(r, "done", loc[r])
        /\ UNCHANGED <<rules, controls, file, boot, req, history>>
        /\ PlaceOf(r)
    BY DEF WriteLog, IInv, TypesInv, RequestTypes, PlaceOf
  <1>2. Step(r, "done", loc[r])
    BY <1>1 DEF Step, InFlight, Answered, IInv, TypesInv, RequestTypes
  <1>3. /\ \A q \in Requests : pc'[q] = IF q = r THEN "done" ELSE pc[q]
        /\ loc' [r] = loc[r]
    BY <1>1, Moves DEF IInv, TypesInv
  <1>4. RequestTypes'
    <2>1. PlaceOf(r)'
      BY <1>1, <1>3 DEF PlaceOf, InFlight
    <2> QED BY <1>1, <1>2, <2>1, RequestStep DEF IInv, TypesInv, RequestTypes
  <1>5. entry \in LogEntries
    <2>1. About(r) \in RuleIds \union {NoControls}
      BY <1>1, AboutOf, Records DEF PlaceOf, OnRules, RuleIds
    <2>2. Says(r) \in Statuses \union {"removed", "changed"}
      BY <1>1, SaysOf, Records DEF PlaceOf
    <2> QED BY <2>1, <2>2 DEF LogEntries
  <1> HIDE DEF entry
  <1>6. /\ log \in Seq(LogEntries) /\ log' \in Seq(LogEntries)
        /\ DOMAIN log = 1 .. Len(log) /\ Len(log) \in Nat
        /\ Len(log') = Len(log) + 1 /\ DOMAIN log' = 1 .. Len(log) + 1
        /\ log'[Len(log) + 1] = entry
        /\ \A k \in DOMAIN log : log'[k] = log[k]
    BY <1>1, <1>5 DEF IInv, TypesInv, TableTypes
  <1>7. TableTypes'
    BY <1>1, <1>6 DEF IInv, TypesInv, TableTypes, history
  <1>8. \A q \in Requests : About(q)' = About(q) /\ Says(q)' = Says(q)
    BY <1>1 DEF About, Says
  <1>9. \A j : Born(j) => Born(j)'
    BY <1>1, <1>2, BornStays DEF IInv, TypesInv
  <1>10. RulesInv'
    <2>1. ASSUME NEW q \in Requests PROVE RuleOf(q)'
      <3>1. Born(req[q].rule) => Born(req[q].rule)'
        <4>1. PICK j : j = req[q].rule
          OBVIOUS
        <4>2. Born(j) => Born(j)'
          BY <1>9
        <4> QED BY <4>1, <4>2, <1>1 DEF Born
      <3>2. RuleOf(q)
        BY DEF IInv, RulesInv
      <3> QED BY <3>1, <3>2, <1>1, <1>3, <1>8 DEF RuleOf, history
    <2>2. ASSUME NEW i \in RuleIds \ mixed PROVE LogOf(i)'
      <3> SUFFICES ASSUME Quiet(i)', NEW k \in DOMAIN log', LastAbout(k, i)'
                   PROVE  rules'[i] = Meaning(log'[k].says)
        BY DEF LogOf
      <3>1. CASE k = Len(log) + 1
        <4>1. About(r) = i /\ log'[k].says = Says(r)
          BY <3>1, <1>6 DEF LastAbout, entry
        <4> QED BY <4>1, <1>1 DEF IInv, RulesInv, RuleOf
      <3>2. CASE k \in DOMAIN log
        <4>1. Len(log) + 1 \in k + 1 .. Len(log')
          BY <3>2, <1>6
        <4>2. About(r) # i
          BY <4>1, <1>6 DEF LastAbout, entry
        <4>3. Quiet(i)
          BY <4>2, <1>3, <1>8 DEF Quiet
        <4>4. LastAbout(k, i)
          <5>1. \A j \in k + 1 .. Len(log) : j \in k + 1 .. Len(log') /\ j \in DOMAIN log
            BY <3>2, <1>6
          <5> QED BY <3>2, <5>1, <1>6 DEF LastAbout
        <4> QED BY <3>2, <4>3, <4>4, <1>1, <1>6 DEF IInv, RulesInv, LogOf
      <3> QED BY <3>1, <3>2, <1>6
    <2>3. \A j \in RuleIds : rules'[j] # NoRule => Born(j)'
      BY <1>1, <1>9 DEF IInv, RulesInv
    <2>4. ASSUME NEW k \in DOMAIN log', log'[k].about \in RuleIds
          PROVE  Born(log[k].about)'
      <3>1. PICK j : j = log'[k].about
        OBVIOUS
      <3>2. Born(j)'
        <4>1. CASE k = Len(log) + 1
          <5>1. j = About(r) /\ j \in RuleIds
            BY <2>4, <3>1, <4>1, <1>6 DEF entry
          <5>2. Born(j)
            <6>1. CASE req[r].op \in OnRules
              BY <6>1, <5>1, <1>1, AboutOf DEF IInv, RulesInv, RuleOf
            <6>2. CASE req[r].op = "create"
              BY <6>2, <5>1, <1>1, AboutOf DEF Born
            <6>3. CASE req[r].op = "controls"
              BY <6>3, <5>1, AboutOf, ConstantsAssumption DEF OnRules
            <6> QED BY <6>1, <6>2, <6>3, <1>1 DEF OnRules
          <5> QED BY <5>2, <1>9
        <4>2. CASE k \in DOMAIN log
          BY <2>4, <3>1, <4>2, <1>6, <1>9 DEF IInv, RulesInv
        <4> QED BY <4>1, <4>2, <1>6
      <3> QED BY <3>1, <3>2 DEF Born
    <2> QED BY <2>1, <2>2, <2>3, <2>4, <1>1 DEF RulesInv, history
  <1>11. ControlsInv'
    <2>1. ControlOf(r)'
      BY <1>3 DEF ControlOf
    <2> QED BY <1>1, <1>2, <2>1, ControlsStand DEF IInv, TypesInv, history
  <1>12. FileInv'
    BY <1>1, <1>2, FileStands DEF IInv, TypesInv, AtWork, history
  <1> QED BY <1>4, <1>7, <1>10, <1>11, <1>12 DEF IInv, TypesInv

-----------------------------------------------------------------------------
(***************************************************************************)
(* Steps that only move a request                                          *)
(***************************************************************************)

LEMMA LocalStep ==
  ASSUME IInv, NEW r \in Requests, NEW label, NEW l, Step(r, label, l),
         pc[r] \notin {"log"} \union AtWork, label \notin AtWork,
         req' \in [Requests -> RequestRecords \union {Nothing}],
         UNCHANGED <<tables, file, overtaken, mixed, lastHook>>,
         slips \subseteq slips', slips' \subseteq Slips,
         PlaceOf(r)', RuleOf(r)', ControlOf(r)'
  PROVE  IInv'
  <1>1. UNCHANGED <<rules, controls, log, file, boot, overtaken, mixed, lastHook>>
    BY DEF tables, Step
  <1>2. RequestTypes'
    BY RequestStep DEF IInv, TypesInv
  <1>3. TableTypes'
    BY <1>1 DEF IInv, TypesInv, TableTypes
  <1>4. RulesInv'
    BY <1>1, RulesStand DEF IInv, TypesInv
  <1>5. ControlsInv'
    BY <1>1, ControlsStand DEF IInv, TypesInv
  <1>6. FileInv'
    BY <1>1, FileStands DEF IInv, TypesInv
  <1> QED BY <1>2, <1>3, <1>4, <1>5, <1>6 DEF IInv, TypesInv

LEMMA SubmitIInv ==
  ASSUME IInv, NEW r \in Requests, Submit(r)
  PROVE  IInv'
  <1>1. /\ boot.step = "up" /\ pc[r] = "idle"
        /\ UNCHANGED <<tables, file, boot, history>>
    BY DEF Submit
  <1>2. PICK c \in RequestRecords :
          /\ req' = [req EXCEPT ![r] = c]
          /\ Goto(r, CASE c.op = "create" -> "insert"
                       [] c.op \in {"webhook", "view"} -> "load"
                       [] OTHER -> "find", EmptyLoc)
    BY DEF Submit
  <1>3. PICK label \in {"insert", "load", "find"} :
          /\ Goto(r, label, EmptyLoc)
          /\ label = "insert" => c.op = "create"
          /\ label = "load" => c.op \in {"webhook", "view"}
          /\ label = "find" => c.op \in OnRules \union {"controls"}
    <2>1. c.op \in {"create", "update", "delete", "controls", "webhook", "view"}
      BY Records
    <2>2. CASE c.op = "create"
      BY <1>2, <2>2
    <2>3. CASE c.op \in {"webhook", "view"}
      BY <1>2, <2>3
    <2>4. CASE c.op \in OnRules \union {"controls"}
      BY <1>2, <2>4 DEF OnRules
    <2> QED BY <2>1, <2>2, <2>3, <2>4 DEF OnRules
  <1>4. EmptyLoc \in Locals /\ ~ EmptyLoc.defaults
    BY DEF EmptyLoc, Locals, Entities, Texts
  <1>5. /\ req' \in [Requests -> RequestRecords \union {Nothing}]
        /\ \A q \in Requests : req'[q] = IF q = r THEN c ELSE req[q]
    BY <1>2 DEF IInv, TypesInv, RequestTypes
  <1>6. Step(r, label, EmptyLoc)
    BY <1>1, <1>3, <1>4, <1>5 DEF Step, InFlight
  <1>7. pc'[r] = label /\ req'[r] = c
    BY <1>3, <1>5, Moves DEF IInv, TypesInv
  <1>8. PlaceOf(r)'
    BY <1>1, <1>3, <1>7 DEF PlaceOf
  <1>9. RuleOf(r)' /\ ControlOf(r)'
    BY <1>7 DEF RuleOf, ControlOf
  <1> QED BY <1>1, <1>3, <1>5, <1>6, <1>8, <1>9, LocalStep
          DEF history, AtWork, IInv, TypesInv, TableTypes

LEMMA FindRuleIInv ==
  ASSUME IInv, NEW r \in Requests, FindRule(r)
  PROVE  IInv'
  <1> DEFINE i == req[r].rule
             l == [loc[r] EXCEPT !.entity = [status |-> req[r].status]]
  <1>1. /\ pc[r] = "find" /\ req[r].op \in OnRules /\ boot.step = "up"
        /\ UNCHANGED <<tables, file, boot, req, history>>
        /\ loc[r] \in Locals /\ req[r] \in RequestRecords
        /\ slips \subseteq Slips
        /\ req' \in [Requests -> RequestRecords \union {Nothing}]
    BY DEF FindRule, IInv, TypesInv, RequestTypes, TableTypes, PlaceOf, InFlight
  <1>2. i \in RuleIds
    BY <1>1, Records
  <1>3. CASE rules[i] = NoRule
    <2>1. Goto(r, "declined", loc[r])
      BY <1>3 DEF FindRule
    <2>2. Step(r, "declined", loc[r]) /\ pc'[r] = "declined"
      BY <1>1, <2>1, Moves DEF Step, InFlight, Answered, IInv, TypesInv
    <2>3. PlaceOf(r)' /\ RuleOf(r)' /\ ControlOf(r)'
      BY <1>1, <2>2 DEF PlaceOf, RuleOf, ControlOf, InFlight
    <2> QED BY <1>1, <2>2, <2>3, LocalStep DEF history, AtWork
  <1>4. CASE rules[i] # NoRule
    <2>2. ASSUME NEW label \in {"remove", "read"}, NEW k, Step(r, label, k)
          PROVE  Born(i)'
      <3>1. PICK j : j = i
        OBVIOUS
      <3>2. Born(j)
        BY <1>2, <1>4, <3>1 DEF IInv, RulesInv
      <3>3. Born(j)'
        BY <1>1, <2>2, <3>2, BornStays DEF IInv, TypesInv
      <3> QED BY <1>1, <3>1, <3>3 DEF Born
    <2>3. CASE req[r].op = "delete"
      <3>1. Goto(r, "remove", loc[r])
        BY <1>4, <2>3 DEF FindRule
      <3>2. Step(r, "remove", loc[r]) /\ pc'[r] = "remove"
        BY <1>1, <3>1, Moves DEF Step, InFlight, IInv, TypesInv
      <3>3. Born(i)'
        BY <2>2, <3>2
      <3>4. PlaceOf(r)' /\ RuleOf(r)' /\ ControlOf(r)'
        BY <1>1, <2>3, <3>2, <3>3 DEF PlaceOf, RuleOf, ControlOf, InFlight
      <3> QED BY <1>1, <3>2, <3>4, LocalStep DEF history, AtWork
    <2>4. CASE req[r].op = "update"
      <3>1. Goto(r, "read", l)
        BY <1>4, <2>4 DEF FindRule
      <3>2. req[r].status \in Statuses
        BY <1>1, <2>4, Records
      <3>3. l \in Locals /\ l.entity = [status |-> req[r].status]
        BY <1>1, <3>2 DEF Locals, Entities
      <3> HIDE DEF l
      <3>4. Step(r, "read", l) /\ pc'[r] = "read" /\ loc'[r] = l
        BY <1>1, <3>1, <3>3, Moves DEF Step, InFlight, IInv, TypesInv
      <3>5. Born(i)'
        BY <2>2, <3>4
      <3>6. rules' = rules
        BY <1>1 DEF tables
      <3>7. PlaceOf(r)' /\ RuleOf(r)' /\ ControlOf(r)'
        BY <1>1, <1>4, <2>4, <3>3, <3>4, <3>5, <3>6 DEF PlaceOf, RuleOf, ControlOf, InFlight
      <3> QED BY <1>1, <3>4, <3>7, LocalStep DEF history, AtWork
    <2> QED BY <1>1, <2>3, <2>4 DEF OnRules
  <1> QED BY <1>3, <1>4

-----------------------------------------------------------------------------
(***************************************************************************)
(* The controls                                                            *)
(***************************************************************************)

LEMMA ControlColumns ==
  ASSUME NEW c \in Controls
  PROVE  /\ DOMAIN c = {"governanceMode", "activeModes", "modeConfigurations"}
         /\ c.governanceMode \in Modes /\ c.activeModes \in SUBSET Modes
         /\ c.modeConfigurations \in ModeConfigurations
  BY DEF Controls

\* What an update makes of a row, column by column.
LEMMA UpdatedColumns ==
  ASSUME NEW c \in Controls, NEW dto \in ControlsDtos
  PROVE  LET new == Updated(c, dto)
             modes == MergedModes(c.modeConfigurations, dto.modeConfigurations)
         IN /\ new \in Controls
            /\ new.governanceMode = IF "governanceMode" \in DOMAIN dto
                                    THEN dto.governanceMode ELSE c.governanceMode
            /\ new.activeModes = IF "modeConfigurations" \in DOMAIN dto
                                 THEN Active(modes)
                                 ELSE IF "activeModes" \in DOMAIN dto
                                      THEN dto.activeModes ELSE c.activeModes
            /\ new.modeConfigurations = IF "modeConfigurations" \in DOMAIN dto
                                        THEN modes ELSE c.modeConfigurations
  <1> DEFINE modes == MergedModes(c.modeConfigurations, dto.modeConfigurations)
             mode == IF "governanceMode" \in DOMAIN dto
                     THEN dto.governanceMode ELSE c.governanceMode
             active == IF "modeConfigurations" \in DOMAIN dto THEN Active(modes)
                       ELSE IF "activeModes" \in DOMAIN dto
                            THEN dto.activeModes ELSE c.activeModes
             configs == IF "modeConfigurations" \in DOMAIN dto
                        THEN modes ELSE c.modeConfigurations
             new == Updated(c, dto)
  <1>1. DOMAIN c = {"governanceMode", "activeModes", "modeConfigurations"}
    BY ControlColumns
  <1>2. mode \in Modes
    BY ControlColumns, ConstantsAssumption
  <1>3. active \in SUBSET Modes
    <2>1. Active(modes) \in SUBSET Modes
      BY DEF Active, Modes
    <2> QED BY <2>1, ControlColumns, ConstantsAssumption
  <1>4. configs \in ModeConfigurations
    <2>1. "modeConfigurations" \in DOMAIN dto => modes \in ModeConfigurations
      <3> SUFFICES ASSUME "modeConfigurations" \in DOMAIN dto
                   PROVE  modes \in ModeConfigurations
        OBVIOUS
      <3> DEFINE given == dto.modeConfigurations
      <3>1. \A m \in Modes \intersect DOMAIN given :
              given[m] \in [status : Statuses, allowedBehaviours : {"default", "other"}]
        BY ConstantsAssumption
      <3>2. \A m \in Modes : c.modeConfigurations[m] \in
              [status : Statuses, allowedBehaviours : {"default", "other"}]
        BY ControlColumns DEF ModeConfigurations
      <3> HIDE DEF given
      <3>3. MergedModes(c.modeConfigurations, given) \in ModeConfigurations
        BY <3>1, <3>2 DEF MergedModes, ModeConfigurations
      <3> QED BY <3>3 DEF given
    <2> QED BY <2>1, ControlColumns
  <1> HIDE DEF modes
  <1>5. new = [ governanceMode |-> mode, activeModes |-> active,
                modeConfigurations |-> configs ]
    BY <1>1 DEF Updated, modes
  <1> HIDE DEF new, mode, active, configs
  <1>6. new \in Controls
    BY <1>2, <1>3, <1>4, <1>5 DEF Controls
  <1> QED BY <1>5, <1>6 DEF new, mode, active, configs, modes

LEMMA SavedControls ==
  ASSUME NEW row \in Controls, NEW entity \in Controls, NEW stored \in Controls
  PROVE  LET new == [col \in DOMAIN row |-> IF entity[col] # stored[col]
                                            THEN entity[col] ELSE row[col]]
         IN /\ new \in Controls
            /\ stored = row => new = entity
  <1> DEFINE new == [col \in DOMAIN row |-> IF entity[col] # stored[col]
                                            THEN entity[col] ELSE row[col]]
  <1>1. /\ DOMAIN row = {"governanceMode", "activeModes", "modeConfigurations"}
        /\ DOMAIN entity = DOMAIN row
    BY ControlColumns
  <1>2. new = [ governanceMode |-> IF entity.governanceMode # stored.governanceMode
                                   THEN entity.governanceMode ELSE row.governanceMode,
                activeModes |-> IF entity.activeModes # stored.activeModes
                                THEN entity.activeModes ELSE row.activeModes,
                modeConfigurations |->
                  IF entity.modeConfigurations # stored.modeConfigurations
                  THEN entity.modeConfigurations ELSE row.modeConfigurations ]
    BY <1>1
  <1> HIDE DEF new
  <1>3. new \in Controls
    BY <1>2, ControlColumns DEF Controls
  <1>4. stored = row => new = entity
    <2> SUFFICES ASSUME stored = row PROVE new = entity
      OBVIOUS
    <2>1. entity = [ governanceMode |-> entity.governanceMode,
                     activeModes |-> entity.activeModes,
                     modeConfigurations |-> entity.modeConfigurations ]
      BY DEF Controls
    <2> QED BY <1>2, <2>1
  <1> QED BY <1>3, <1>4 DEF new

LEMMA FindControlsIInv ==
  ASSUME IInv, NEW r \in Requests, FindControls(r)
  PROVE  IInv'
  <1> DEFINE l == [loc[r] EXCEPT !.entity = Updated(controls, req[r].dto)]
  <1>1. /\ pc[r] = "find" /\ req[r].op = "controls" /\ boot.step = "up"
        /\ UNCHANGED <<tables, file, boot, req, history>>
        /\ Goto(r, "read", l)
        /\ loc[r] \in Locals /\ req[r] \in RequestRecords
        /\ slips \subseteq Slips
        /\ req' \in [Requests -> RequestRecords \union {Nothing}]
        /\ controls \in Controls
    BY DEF FindControls, IInv, TypesInv, RequestTypes, TableTypes, PlaceOf, InFlight
  <1>2. req[r].dto \in ControlsDtos
    BY <1>1, Records
  <1>3. Updated(controls, req[r].dto) \in Controls
    BY <1>1, <1>2, UpdatedColumns
  <1>4. l \in Locals /\ l.entity = Updated(controls, req[r].dto)
    BY <1>1, <1>3 DEF Locals, Entities
  <1> HIDE DEF l
  <1>5. Step(r, "read", l) /\ pc'[r] = "read" /\ loc'[r] = l
    BY <1>1, <1>4, Moves DEF Step, InFlight, IInv, TypesInv
  <1>6. controls' = controls
    BY <1>1 DEF tables
  <1>7. PlaceOf(r)' /\ RuleOf(r)' /\ ControlOf(r)'
    BY <1>1, <1>3, <1>4, <1>5, <1>6 DEF PlaceOf, RuleOf, ControlOf, InFlight, OnRules
  <1> QED BY <1>1, <1>5, <1>7, LocalStep DEF history, AtWork

LEMMA SaveReadsIInv ==
  ASSUME IInv, NEW r \in Requests, SaveReads(r)
  PROVE  IInv'
  <1> DEFINE found == IF req[r].op = "controls" THEN controls
                      ELSE [status |-> rules[req[r].rule]]
             l == [loc[r] EXCEPT !.stored = found]
  <1>1. /\ pc[r] = "read" /\ boot.step = "up"
        /\ UNCHANGED <<tables, file, boot, req, history>>
        /\ Goto(r, "write", l)
        /\ loc[r] \in Locals /\ req[r] \in RequestRecords
        /\ slips \subseteq Slips
        /\ req' \in [Requests -> RequestRecords \union {Nothing}]
        /\ controls \in Controls /\ PlaceOf(r) /\ RuleOf(r) /\ ControlOf(r)
    BY DEF SaveReads, IInv, TypesInv, RequestTypes, TableTypes, PlaceOf, InFlight,
           RulesInv, ControlsInv
  <1>2. /\ req[r].op \in {"update", "controls"}
        /\ found \in IF req[r].op = "controls" THEN Controls
                     ELSE [status : Statuses \union {NoRule}]
    <2>1. req[r].op \in {"update", "controls"}
      BY <1>1 DEF PlaceOf
    <2>2. CASE req[r].op = "update"
      <3>1. req[r].rule \in RuleIds
        BY <1>1, <2>2, Records DEF OnRules
      <3>2. rules[req[r].rule] \in Statuses \union {NoRule}
        BY <3>1 DEF IInv, TypesInv, TableTypes
      <3> QED BY <2>2, <3>2
    <2> QED BY <1>1, <2>1, <2>2
  <1>3. req[r].op = "controls" => found = controls
    OBVIOUS
  <1> HIDE DEF found
  <1>4. l \in Locals /\ l.entity = loc[r].entity /\ l.stored = found
    BY <1>1, <1>2 DEF Locals, Entities
  <1> HIDE DEF l
  <1>5. Step(r, "write", l) /\ pc'[r] = "write" /\ loc'[r] = l
    BY <1>1, <1>4, Moves DEF Step, InFlight, IInv, TypesInv
  <1>6. controls' = controls /\ rules' = rules /\ overtaken' = overtaken /\ mixed' = mixed
    BY <1>1 DEF tables, history
  <1>7. PlaceOf(r)'
    BY <1>1, <1>2, <1>4, <1>5 DEF PlaceOf, InFlight
  <1>8. ControlOf(r)'
    BY <1>1, <1>3, <1>4, <1>5, <1>6 DEF ControlOf
  <1>9. RuleOf(r)'
    <2>1. req[r].op = "update" => Born(req[r].rule)'
      <3>1. PICK j : j = req[r].rule
        OBVIOUS
      <3>2. req[r].op = "update" => Born(j)
        BY <1>1, <3>1 DEF RuleOf, OnRules
      <3>3. req[r].op = "update" => Born(j)'
        BY <1>1, <1>5, <3>2, BornStays DEF IInv, TypesInv
      <3> QED BY <1>1, <3>1, <3>3 DEF Born
    <2> QED BY <1>1, <1>2, <1>5, <1>6, <2>1 DEF RuleOf, OnRules
  <1> QED BY <1>1, <1>5, <1>7, <1>8, <1>9, LocalStep DEF history, AtWork

LEMMA SaveControlsIInv ==
  ASSUME IInv, NEW r \in Requests, SaveControls(r)
  PROVE  IInv'
  <1> DEFINE l == loc[r]
             new == [col \in DOMAIN controls |->
                       IF l.entity[col] # l.stored[col] THEN l.entity[col]
                                                        ELSE controls[col]]
             dto == req[r].dto
  <1>1. /\ pc[r] = "write" /\ req[r].op = "controls" /\ boot.step = "up"
        /\ controls' = new
        /\ Goto(r, "log", l) /\ Changed(r)
        /\ UNCHANGED <<rules, log, file, boot, req>>
        /\ l \in Locals /\ l.entity \in Controls /\ l.stored \in Controls
        /\ controls \in Controls /\ req[r] \in RequestRecords
        /\ req' \in [Requests -> RequestRecords \union {Nothing}]
        /\ ControlOf(r)
    BY DEF SaveControls, IInv, TypesInv, RequestTypes, TableTypes, PlaceOf, InFlight,
           ControlsInv
  <1>2. new \in Controls /\ (l.stored = controls => new = l.entity)
    BY <1>1, SavedControls
  <1> HIDE DEF new
  <1>3. Step(r, "log", l) /\ pc'[r] = "log" /\ loc'[r] = l
    BY <1>1, Moves DEF Step, InFlight, IInv, TypesInv
  <1>4. About(r) = NoControls
    BY <1>1, AboutOf DEF OnRules
  <1>5. /\ overtaken \subseteq overtaken' /\ overtaken' \subseteq Requests
        /\ mixed' = mixed /\ lastHook' = lastHook
        /\ slips \subseteq slips' /\ slips' \subseteq Slips
    <2>1. {j \in RuleIds : j = About(r) /\ InFlightOn(About(r)) # {r}} = {}
      BY <1>4, ConstantsAssumption
    <2>2. mixed' = mixed /\ lastHook' = lastHook
      BY <1>1, <2>1 DEF Changed
    <2>3. overtaken \subseteq overtaken' /\ overtaken' \subseteq Requests
      BY <1>1 DEF Changed, InFlightOn, IInv, TypesInv, TableTypes
    <2>4. slips \subseteq slips' /\ slips' \subseteq Slips
      BY <1>1 DEF Changed, Slips, IInv, TypesInv, TableTypes
    <2> QED BY <2>2, <2>3, <2>4
  <1>6. PlaceOf(r)' /\ RuleOf(r)'
    <2>1. About(r)' = NoControls
      BY <1>1, <1>4 DEF About
    <2> QED BY <1>1, <1>3, <2>1, ConstantsAssumption
            DEF PlaceOf, RuleOf, OnRules, InFlight
  <1>7. RequestTypes'
    BY <1>1, <1>3, <1>6, RequestStep DEF IInv, TypesInv
  <1>8. TableTypes'
    BY <1>1, <1>2, <1>5, ConstantsAssumption DEF IInv, TypesInv, TableTypes
  <1>9. RulesInv'
    BY <1>1, <1>3, <1>5, <1>6, RulesStand DEF IInv, TypesInv
  <1>10. FileInv'
    BY <1>1, <1>3, <1>5, FileStands DEF IInv, TypesInv, AtWork
  <1>11. ControlsInv'
    <2>1. ASSUME NEW q \in Requests PROVE ControlOf(q)'
      <3>1. CASE q = r
        BY <3>1, <1>3 DEF ControlOf
      <3>2. CASE q # r
        <4>1. pc'[q] = pc[q] /\ req'[q] = req[q]
          BY <3>2, <1>1, <1>3, Moves DEF IInv, TypesInv
        <4>2. pc[q] \in {"read", "write"} /\ req[q].op = "controls" => q \in overtaken'
          <5> SUFFICES ASSUME pc[q] \in {"read", "write"}, req[q].op = "controls"
                       PROVE  q \in overtaken'
            OBVIOUS
          <5>1. About(q) = About(r)
            BY <1>4, AboutOf DEF OnRules
          <5> QED BY <3>2, <5>1, <1>1 DEF Changed, InFlightOn, InFlight
        <4> QED BY <4>1, <4>2 DEF ControlOf
      <3> QED BY <3>1, <3>2
    <2>2. ActiveModesFollow'
      <3> SUFFICES ASSUME slips' \intersect {"stale_save", "set_directly"} = {}
                   PROVE  controls'.activeModes = Active(controls'.modeConfigurations)
        BY DEF ActiveModesFollow
      <3>1. r \notin overtaken /\ "activeModes" \notin DOMAIN dto
        BY <1>1 DEF Changed
      <3>2. new = Updated(controls, dto)
        BY <1>1, <1>2, <3>1 DEF ControlOf
      <3>3. dto \in ControlsDtos
        BY <1>1, Records
      <3>4. controls.activeModes = Active(controls.modeConfigurations)
        BY <1>1, <1>5, ConstantsAssumption DEF IInv, ControlsInv, ActiveModesFollow
      <3> QED BY <1>1, <3>1, <3>2, <3>3, <3>4, UpdatedColumns
    <2> QED BY <2>1, <2>2 DEF ControlsInv
  <1> QED BY <1>7, <1>8, <1>9, <1>10, <1>11 DEF IInv, TypesInv

-----------------------------------------------------------------------------
(***************************************************************************)
(* The settings file                                                       *)
(***************************************************************************)

\* A request at the settings is none of the rules' or the controls'.
LEMMA SettingsStep ==
  ASSUME IInv, NEW r \in Requests, NEW label \in {"done", "truncate", "flush"}, NEW l,
         pc[r] \in {"load"} \union AtWork, Step(r, label, l),
         UNCHANGED <<tables, req, overtaken, mixed>>,
         file' \in [text : Texts \union {"missing", "empty", "garbled"}, length : Nat],
         lastHook' \in Texts, slips \subseteq slips', slips' \subseteq Slips,
         label \in AtWork => IF l.defaults THEN l.text = DefaultHook
                             ELSE req[r].op = "webhook",
         FileInv'
  PROVE  IInv'
  <1>1. /\ req[r].op \in {"webhook", "view"} /\ boot.step = "up" /\ boot' = boot
        /\ pc'[r] = label /\ loc'[r] = l /\ req[r] \in RequestRecords
        /\ UNCHANGED <<rules, controls, log>>
    <2>1. req[r].op \in {"webhook", "view"} /\ boot.step = "up" /\ req[r] \in RequestRecords
      BY DEF IInv, TypesInv, RequestTypes, PlaceOf, AtWork, InFlight
    <2>2. boot' = boot /\ pc'[r] = label /\ loc'[r] = l
      BY Moves DEF Step, IInv, TypesInv
    <2> QED BY <2>1, <2>2 DEF tables
  <1>2. PlaceOf(r)' /\ RuleOf(r)' /\ ControlOf(r)'
    BY <1>1 DEF PlaceOf, RuleOf, ControlOf, OnRules, InFlight, AtWork
  <1>3. RequestTypes'
    BY <1>2, RequestStep DEF IInv, TypesInv, RequestTypes
  <1>4. TableTypes'
    BY <1>1 DEF IInv, TypesInv, TableTypes
  <1>5. RulesInv'
    BY <1>1, <1>2, RulesStand DEF IInv, TypesInv, AtWork
  <1>6. ControlsInv'
    BY <1>1, <1>2, ControlsStand DEF IInv, TypesInv
  <1> QED BY <1>3, <1>4, <1>5, <1>6 DEF IInv, TypesInv

\* Request r opens the file next, alone as long as nothing has slipped.
LEMMA ToTruncate ==
  ASSUME IInv, NEW r \in Requests, Load(r), NEW l, Goto(r, "truncate", l),
         l.defaults => file.text \notin Texts
  PROVE  FileInv'
  <1> SUFFICES ASSUME slips' \intersect {"hook_race", "torn"} = {}
               PROVE  FileInv'
    BY DEF FileInv
  <1>1. /\ slips \intersect {"hook_race", "torn"} = {} /\ AtFile(r) = {}
        /\ file' = file /\ lastHook' = lastHook
    BY DEF Load
  <1>2. \A q \in Requests : q # r => pc[q] \notin AtWork /\ pc'[q] = pc[q]
    BY <1>1, Moves DEF AtFile, AtWork, IInv, TypesInv
  <1>3. pc[r] = "load" /\ pc'[r] = "truncate" /\ loc'[r] = l
    BY Moves DEF Load, IInv, TypesInv
  <1>4. file.text \in {lastHook} \union (IF lastHook = DefaultHook THEN {"missing"} ELSE {})
    BY <1>1, <1>2, <1>3 DEF IInv, FileInv, AtWork
  <1>5. l.defaults => lastHook = DefaultHook
    BY <1>4 DEF IInv, TypesInv, TableTypes
  <1> QED BY <1>1, <1>2, <1>3, <1>4, <1>5 DEF FileInv, AtWork

LEMMA LoadIInv ==
  ASSUME IInv, NEW r \in Requests, Load(r)
  PROVE  IInv'
  <1> DEFINE seen == [loc[r] EXCEPT !.text = file.text]
             own == [seen EXCEPT !.text = req[r].hook, !.defaults = FALSE]
             default == [loc[r] EXCEPT !.text = DefaultHook, !.defaults = TRUE]
  <1>1. /\ pc[r] = "load" /\ loc[r] \in Locals
        /\ UNCHANGED <<tables, file, boot, req, overtaken, mixed, lastHook>>
        /\ slips \subseteq slips' /\ slips' \subseteq Slips
        /\ file \in [text : Texts \union {"missing", "empty", "garbled"}, length : Nat]
        /\ lastHook \in Texts /\ req[r] \in RequestRecords
    BY DEF Load, IInv, TypesInv, RequestTypes, TableTypes, Slips, PlaceOf
  <1>2. CASE file.text \in Texts /\ req[r].op = "view" /\ Goto(r, "done", seen)
    <2>1. seen \in Locals
      BY <1>1, <1>2 DEF Locals
    <2> HIDE DEF seen
    <2>2. Step(r, "done", seen)
      BY <1>1, <1>2, <2>1 DEF Step, InFlight, Answered
    <2>3. FileInv'
      BY <1>1, <2>2, FileStands DEF AtWork, IInv, TypesInv
    <2> QED BY <1>1, <2>2, <2>3, SettingsStep DEF AtWork
  <1>3. CASE file.text \in Texts /\ req[r].op = "webhook" /\ Goto(r, "truncate", own)
    <2>1. req[r].hook \in Texts
      BY <1>1, <1>3, Records DEF Texts
    <2>2. own \in Locals /\ ~ own.defaults
      BY <1>1, <1>3, <2>1 DEF Locals
    <2> HIDE DEF own, seen
    <2>3. Step(r, "truncate", own)
      BY <1>1, <1>3, <2>2 DEF Step, InFlight
    <2>4. FileInv'
      BY <1>3, <2>2, ToTruncate
    <2> QED BY <1>1, <1>3, <2>2, <2>3, <2>4, SettingsStep DEF AtWork
  <1>4. CASE file.text \notin Texts /\ Goto(r, "truncate", default)
    <2>1. default \in Locals /\ default.defaults /\ default.text = DefaultHook
      BY <1>1 DEF Locals, Texts
    <2> HIDE DEF default
    <2>2. Step(r, "truncate", default)
      BY <1>1, <1>4, <2>1 DEF Step, InFlight
    <2>3. FileInv'
      BY <1>4, ToTruncate
    <2> QED BY <1>1, <2>1, <2>2, <2>3, SettingsStep DEF AtWork
  <1> QED BY <1>2, <1>3, <1>4 DEF Load, Own

LEMMA TruncateIInv ==
  ASSUME IInv, NEW r \in Requests, Truncate(r)
  PROVE  IInv'
  <1>1. /\ pc[r] = "truncate" /\ loc[r] \in Locals /\ Goto(r, "flush", loc[r])
        /\ file' = [text |-> "empty", length |-> 0]
        /\ UNCHANGED <<tables, boot, req, overtaken, mixed, lastHook, slips>>
        /\ lastHook \in Texts /\ slips \subseteq Slips /\ PlaceOf(r)
    BY DEF Truncate, history, IInv, TypesInv, RequestTypes, TableTypes
  <1>2. Step(r, "flush", loc[r])
    BY <1>1 DEF Step, InFlight
  <1>3. /\ \A q \in Requests : pc'[q] = IF q = r THEN "flush" ELSE pc[q]
        /\ \A q \in Requests : loc'[q] = loc[q]
    BY <1>1, Moves DEF IInv, TypesInv
  <1>4. FileInv'
    BY <1>1, <1>3 DEF IInv, FileInv, AtWork
  <1>5. loc[r].defaults => loc[r].text = DefaultHook
    BY <1>1 DEF PlaceOf
  <1>6. ~ loc[r].defaults => req[r].op = "webhook"
    BY <1>1 DEF PlaceOf
  <1> QED BY <1>1, <1>2, <1>4, <1>5, <1>6, SettingsStep DEF AtWork

LEMMA FlushIInv ==
  ASSUME IInv, NEW r \in Requests, Flush(r)
  PROVE  IInv'
  <1> DEFINE text == loc[r].text
             own == [loc[r] EXCEPT !.text = req[r].hook, !.defaults = FALSE]
  <1>1. /\ pc[r] = "flush" /\ loc[r] \in Locals /\ text \in Texts
        /\ file' = IF file.length > Length[text] THEN [file EXCEPT !.text = "garbled"]
                   ELSE [text |-> text, length |-> Length[text]]
        /\ lastHook' = IF loc[r].defaults THEN lastHook ELSE text
        /\ UNCHANGED <<tables, boot, req, overtaken, mixed, slips>>
        /\ lastHook \in Texts /\ slips \subseteq Slips /\ PlaceOf(r)
        /\ file \in [text : Texts \union {"missing", "empty", "garbled"}, length : Nat]
        /\ req[r] \in RequestRecords
    BY DEF Flush, IInv, TypesInv, RequestTypes, TableTypes, Locals, PlaceOf
  <1>2. Length[text] \in Nat
    BY <1>1, ConstantsAssumption
  <1>3. /\ file' \in [text : Texts \union {"missing", "empty", "garbled"}, length : Nat]
        /\ lastHook' \in Texts
    BY <1>1, <1>2
  <1>4. loc[r].defaults => text = DefaultHook
    BY <1>1 DEF PlaceOf
  <1>5. PICK label \in {"done", "truncate"}, l \in Locals :
          /\ Goto(r, label, l)
          /\ label = "truncate" => ~ l.defaults /\ req[r].op = "webhook"
    <2>1. CASE Goto(r, "done", loc[r])
      BY <1>1, <2>1
    <2>2. CASE req[r].op = "webhook" /\ Goto(r, "truncate", own)
      <3>1. req[r].hook \in Texts
        BY <1>1, <2>2, Records DEF Texts
      <3>2. own \in Locals /\ ~ own.defaults
        BY <1>1, <3>1 DEF Locals
      <3> QED BY <2>2, <3>2
    <2> QED BY <2>1, <2>2 DEF Flush, Own
  <1> HIDE DEF text, own
  <1>6. Step(r, label, l)
    BY <1>1, <1>5 DEF Step, InFlight, Answered
  <1>7. /\ \A q \in Requests : pc'[q] = IF q = r THEN label ELSE pc[q]
        /\ \A q \in Requests : loc'[q] = IF q = r THEN l ELSE loc[q]
    BY <1>5, Moves DEF IInv, TypesInv
  <1>8. FileInv'
    <2> SUFFICES ASSUME slips' \intersect {"hook_race", "torn"} = {}
                 PROVE  FileInv'
      BY DEF FileInv
    <2>1. /\ file = [text |-> "empty", length |-> 0]
          /\ \A q \in Requests : q # r => pc[q] \notin AtWork
          /\ loc[r].defaults => lastHook = DefaultHook
      BY <1>1 DEF IInv, FileInv, AtWork
    <2>2. file'.text = text
      BY <1>1, <1>2, <2>1
    <2>3. lastHook' = text
      BY <1>1, <1>4, <2>1
    <2> QED BY <1>5, <1>7, <2>1, <2>2, <2>3 DEF FileInv, AtWork
  <1> QED BY <1>1, <1>3, <1>5, <1>6, <1>8, SettingsStep DEF AtWork

-----------------------------------------------------------------------------
(***************************************************************************)
(* Boots and crashes                                                       *)
(***************************************************************************)

\* While a process boots nobody is in flight.
LEMMA BootIInv ==
  ASSUME IInv, SeedRules \/ SeedControls \/ SeedLogs
  PROVE  IInv'
  <1>1. /\ UNCHANGED <<file, pc, req, loc, history>>
        /\ boot' \in [step : {"rules", "controls", "logs", "up"}, number : Boots]
        /\ boot'.number = boot.number /\ boot.step # "up"
        /\ boot.step = "rules" => SeedRules
        /\ boot'.step # "rules"
        /\ boot.number \in Boots
    BY DEF SeedRules, SeedControls, SeedLogs, BootStep, IInv, TypesInv, TableTypes
  <1>2. \A q \in Requests : pc[q] \notin InFlight /\ pc'[q] = pc[q]
    BY <1>1 DEF IInv, TypesInv, RequestTypes, PlaceOf
  <1>3. RequestTypes'
    <2>1. \A q \in Requests : PlaceOf(q)'
      BY <1>1, <1>2 DEF IInv, TypesInv, RequestTypes, PlaceOf, InFlight
    <2> QED BY <1>1, <2>1 DEF IInv, TypesInv, RequestTypes
  <1>4. /\ rules' \in [RuleIds -> Statuses \union {NoRule}]
        /\ \A i \in RuleIds : ~ (i = boot.number /\ SeedRules) => rules'[i] = rules[i]
    <2>1. CASE rules' = rules
      BY <2>1 DEF IInv, TypesInv, TableTypes
    <2>2. CASE SeedRules /\ rules' = [rules EXCEPT ![boot.number] = "ACTIVE"]
      BY <2>2 DEF IInv, TypesInv, TableTypes, Statuses
    <2> QED BY <2>1, <2>2 DEF SeedRules, SeedControls, SeedLogs
  <1>5. /\ log' \in Seq(LogEntries)
        /\ \/ log' = log
           \/ log' = <<[about |-> NoRule, says |-> "changed"]>>
    <2>1. \/ log' = log
          \/ log' = <<[about |-> NoRule, says |-> "changed"]>>
      BY DEF SeedRules, SeedControls, SeedLogs
    <2>2. [about |-> NoRule, says |-> "changed"] \in LogEntries
      BY DEF LogEntries
    <2>3. <<[about |-> NoRule, says |-> "changed"]>> \in Seq(LogEntries)
      BY <2>2
    <2> QED BY <2>1, <2>3 DEF IInv, TypesInv, TableTypes
  <1>6. DefaultControls \in Controls
        /\ DefaultControls.activeModes = Active(DefaultControls.modeConfigurations)
    BY DEF DefaultControls, DefaultModes, Controls, ModeConfigurations, Modes,
           Statuses, Active
  <1>7. /\ controls' \in Controls \union {NoControls}
        /\ boot'.step \in {"logs", "up"} => controls' # NoControls
        /\ controls' = controls \/ controls' = DefaultControls
    <2>1. CASE SeedRules
      BY <2>1 DEF SeedRules, BootStep, IInv, TypesInv, TableTypes
    <2>2. CASE SeedControls
      BY <2>2, <1>6, ConstantsAssumption DEF SeedControls, IInv, TypesInv, TableTypes
    <2>3. CASE SeedLogs
      BY <2>3 DEF SeedLogs, BootStep, IInv, TypesInv, TableTypes
    <2> QED BY <2>1, <2>2, <2>3
  <1>8. TableTypes'
    BY <1>1, <1>4, <1>5, <1>7 DEF IInv, TypesInv, TableTypes, history
  <1>9. \A i : Born(i) => Born(i)'
    BY <1>1, <1>2 DEF Born
  <1>10. SeedRules => ~ Born(boot.number) /\ boot.number \in RuleIds
    BY <1>1, ConstantsAssumption DEF SeedRules, BootStep, Born, Boots, RuleIds
  <1>11. RulesInv'
    <2>1. ASSUME NEW q \in Requests PROVE RuleOf(q)'
      <3>1. RuleOf(q) /\ (pc'[q] \in {"remove", "read", "write", "log", "done"}
                           => pc'[q] = "done" /\ pc[q] = "done")
        BY <1>2 DEF InFlight, IInv, RulesInv
      <3>2. Born(req[q].rule) => Born(req[q].rule)'
        <4>1. PICK j : j = req[q].rule
          OBVIOUS
        <4> QED BY <4>1, <1>1, <1>9 DEF Born
      <3>3. ASSUME pc[q] = "done", req[q].op = "delete"
            PROVE  rules'[req[q].rule] = rules[req[q].rule]
        <4>1. req[q].rule \in RuleIds
          BY <3>3, Records DEF IInv, TypesInv, RequestTypes, PlaceOf, OnRules
        <4>2. Born(req[q].rule)
          BY <3>1, <3>3 DEF RuleOf, OnRules
        <4> QED BY <4>1, <4>2, <1>4, <1>10
      <3> QED BY <3>1, <3>2, <3>3, <1>1 DEF RuleOf, history
    <2>2. ASSUME NEW i \in RuleIds, rules'[i] # NoRule PROVE Born(i)'
      <3>1. CASE i = boot.number /\ SeedRules
        BY <3>1, <1>1 DEF Born
      <3>2. CASE ~ (i = boot.number /\ SeedRules)
        BY <2>2, <3>2, <1>4, <1>9 DEF IInv, RulesInv
      <3> QED BY <3>1, <3>2
    <2>3. ASSUME NEW k \in DOMAIN log', log'[k].about \in RuleIds
          PROVE  log' = log /\ Born(log[k].about) /\ Born(log[k].about)'
      <3>1. log' = log
        BY <2>3, <1>5, ConstantsAssumption
      <3>2. PICK j : j = log[k].about
        OBVIOUS
      <3>3. Born(j) /\ Born(j)'
        BY <2>3, <3>1, <3>2, <1>9 DEF IInv, RulesInv
      <3> QED BY <3>1, <3>2, <3>3 DEF Born
    <2>4. ASSUME NEW i \in RuleIds \ mixed PROVE LogOf(i)'
      <3> SUFFICES ASSUME NEW k \in DOMAIN log', LastAbout(k, i)'
                   PROVE  rules'[i] = Meaning(log'[k].says)
        BY DEF LogOf
      <3>1. log' = log /\ Born(i)
        BY <2>3 DEF LastAbout
      <3>2. rules'[i] = rules[i]
        BY <3>1, <1>4, <1>10
      <3>3. Quiet(i)
        BY <1>2 DEF Quiet, InFlight
      <3>4. LastAbout(k, i)
        BY <3>1 DEF LastAbout
      <3> QED BY <3>1, <3>2, <3>3, <3>4 DEF IInv, RulesInv, LogOf
    <2> QED BY <2>1, <2>2, <2>3, <2>4, <1>1 DEF RulesInv, history
  <1>12. ControlsInv'
    <2>1. \A q \in Requests : ControlOf(q)'
      BY <1>2 DEF ControlOf, InFlight
    <2>2. ActiveModesFollow'
      BY <1>1, <1>6, <1>7 DEF IInv, ControlsInv, ActiveModesFollow, history
    <2> QED BY <2>1, <2>2 DEF ControlsInv
  <1>13. FileInv'
    BY <1>1 DEF IInv, FileInv, history
  <1> QED BY <1>3, <1>8, <1>11, <1>12, <1>13 DEF IInv, TypesInv

LEMMA CrashIInv ==
  ASSUME IInv, Crash
  PROVE  IInv'
  <1>1. /\ UNCHANGED <<tables, file, req, loc, overtaken, lastHook>>
        /\ boot' = [step |-> "rules", number |-> boot.number + 1]
        /\ mixed' = mixed \union {i \in RuleIds : \E r \in InFlightOn(i) : pc[r] = "log"}
        /\ slips' = slips \union {s \in {"torn"} : \E r \in Requests : pc[r] = "flush"}
        /\ boot.number \in Boots /\ boot.number < MaxBoots /\ boot.number + 1 \in Boots
    BY ConstantsAssumption DEF Crash, Boots, IInv, TypesInv, TableTypes
  <1>2. /\ pc' \in [Requests -> {"idle"} \union Answered]
        /\ \A q \in Requests :
             pc'[q] = IF pc[q] \in InFlight THEN "failed" ELSE pc[q]
    BY DEF Crash, Answered, IInv, TypesInv, RequestTypes
  <1>3. \A q \in Requests : pc'[q] \notin InFlight
    BY <1>2 DEF InFlight, Answered
  <1>4. UNCHANGED <<rules, controls, log>>
    BY <1>1 DEF tables
  <1>5. RequestTypes'
    <2>1. \A q \in Requests : PlaceOf(q)'
      BY <1>1, <1>2, <1>3 DEF IInv, TypesInv, RequestTypes, PlaceOf, InFlight
    <2> QED BY <1>1, <1>2, <2>1 DEF IInv, TypesInv, RequestTypes
  <1>6. TableTypes'
    <2>1. boot' \in [step : {"rules", "controls", "logs", "up"}, number : Boots]
          /\ boot'.step = "rules"
      BY <1>1
    <2>2. mixed' \subseteq RuleIds /\ slips' \subseteq Slips
      BY <1>1 DEF IInv, TypesInv, TableTypes, Slips
    <2> QED BY <1>1, <1>4, <2>1, <2>2 DEF IInv, TypesInv, TableTypes
  <1>7. \A i : Born(i) => Born(i)'
    BY <1>1, <1>2 DEF Born, InFlight, Boots
  <1>8. RulesInv'
    <2>1. ASSUME NEW q \in Requests PROVE RuleOf(q)'
      <3>1. RuleOf(q) /\ (pc'[q] \in {"remove", "read", "write", "log", "done"}
                           => pc'[q] = "done" /\ pc[q] = "done")
        BY <1>2, <1>3 DEF InFlight, IInv, RulesInv
      <3>2. Born(req[q].rule) => Born(req[q].rule)'
        <4>1. PICK j : j = req[q].rule
          OBVIOUS
        <4>2. Born(j) => Born(j)'
          BY <1>7
        <4> QED BY <4>1, <4>2, <1>1 DEF Born
      <3>3. "stale_save" \in slips => "stale_save" \in slips'
        BY <1>1
      <3> QED BY <3>1, <3>2, <3>3, <1>4, <1>1 DEF RuleOf
    <2>2. ASSUME NEW i \in RuleIds \ mixed' PROVE LogOf(i)'
      <3>1. Quiet(i) /\ i \notin mixed
        BY <2>2, <1>1 DEF Quiet, InFlightOn, InFlight
      <3> QED BY <3>1, <1>4 DEF IInv, RulesInv, LogOf, LastAbout
    <2>3. ASSUME NEW k \in DOMAIN log, log[k].about \in RuleIds
          PROVE  Born(log[k].about)'
      <3>1. PICK j : j = log[k].about
        OBVIOUS
      <3>2. Born(j)'
        BY <2>3, <3>1, <1>7 DEF IInv, RulesInv
      <3> QED BY <3>1, <3>2, <1>4 DEF Born
    <2>4. \A i \in RuleIds : rules'[i] # NoRule => Born(i)'
      BY <1>4, <1>7 DEF IInv, RulesInv
    <2> QED BY <2>1, <2>2, <2>3, <2>4, <1>4 DEF RulesInv
  <1>9. ControlsInv'
    <2>1. \A q \in Requests : ControlOf(q)'
      BY <1>3 DEF ControlOf, InFlight
    <2>2. ActiveModesFollow'
      BY <1>1, <1>4 DEF IInv, ControlsInv, ActiveModesFollow
    <2> QED BY <2>1, <2>2 DEF ControlsInv
  <1>10. FileInv'
    <2> SUFFICES ASSUME slips' \intersect {"hook_race", "torn"} = {}
                 PROVE  FileInv'
      BY DEF FileInv
    <2>1. /\ slips \intersect {"hook_race", "torn"} = {}
          /\ \A q \in Requests : pc[q] # "flush"
      BY <1>1
    <2>2. \A q \in Requests : pc'[q] \notin AtWork
      BY <1>3 DEF AtWork, InFlight
    <2> QED BY <1>1, <2>1, <2>2 DEF IInv, FileInv, AtWork
  <1> QED BY <1>5, <1>6, <1>8, <1>9, <1>10 DEF IInv, TypesInv

LEMMA StutterIInv ==
  ASSUME IInv, UNCHANGED vars
  PROVE  IInv'
  <1> USE DEF vars, tables, history
  <1>1. TypesInv'
    BY DEF IInv, TypesInv, TableTypes, RequestTypes, PlaceOf
  <1>2. RulesInv'
    BY DEF IInv, RulesInv, Born, RuleOf, LogOf, Quiet, LastAbout, About, Says
  <1>3. ControlsInv' /\ FileInv'
    BY DEF IInv, ControlsInv, ActiveModesFollow, ControlOf, FileInv
  <1> QED BY <1>1, <1>2, <1>3 DEF IInv

LEMMA InitIInv == Init => IInv
  <1> SUFFICES ASSUME Init PROVE IInv
    OBVIOUS
  <1>1. EmptyLoc \in Locals
    BY DEF EmptyLoc, Locals, Entities, Texts
  <1>2. TableTypes
    BY ConstantsAssumption DEF Init, TableTypes, Boots, Texts, LogEntries
  <1>3. RequestTypes
    BY <1>1 DEF Init, RequestTypes, PlaceOf, InFlight
  <1>4. RulesInv
    BY DEF Init, RulesInv, RuleOf, LogOf
  <1>5. ControlsInv
    BY DEF Init, ControlsInv, ActiveModesFollow, ControlOf
  <1>6. FileInv
    BY ConstantsAssumption DEF Init, FileInv, AtWork
  <1> QED BY <1>2, <1>3, <1>4, <1>5, <1>6 DEF IInv, TypesInv

LEMMA StepIInv == IInv /\ [Next]_vars => IInv'
  <1> SUFFICES ASSUME IInv, [Next]_vars PROVE IInv'
    OBVIOUS
  <1>1. ASSUME NEW r \in Requests, Submit(r) \/ Serve(r) PROVE IInv'
    BY <1>1, SubmitIInv, InsertIInv, FindRuleIInv, FindControlsIInv, RemoveIInv,
       SaveReadsIInv, SaveRuleIInv, SaveControlsIInv, WriteLogIInv, LoadIInv,
       TruncateIInv, FlushIInv DEF Serve
  <1>2. CASE SeedRules \/ SeedControls \/ SeedLogs
    BY <1>2, BootIInv
  <1>3. CASE Crash
    BY <1>3, CrashIInv
  <1>4. CASE UNCHANGED vars
    BY <1>4, StutterIInv
  <1> QED BY <1>1, <1>2, <1>3, <1>4 DEF Next, Terminating

LEMMA AlwaysIInv == Spec => []IInv
  BY InitIInv, StepIInv, PTL DEF Spec

-----------------------------------------------------------------------------
(***************************************************************************)
(* What the invariant says                                                 *)
(***************************************************************************)

\* The tables, the file and what the requests work with have their types, and
\* whoever is served finds a row of controls (onModuleInit, updateAdminControls).
THEOREM AdminTypeCorrect == Spec => []TypeOK
  <1>1. IInv => TypeOK
    BY DEF IInv, TypesInv, TableTypes, RequestTypes, PlaceOf, Locals, LogEntries, TypeOK
  <1> QED BY <1>1, AlwaysIInv, PTL

\* What deleteAdminRule has removed no boot, creation or update brings back,
\* except an update that had found the rule before.
THEOREM DeletionsLast == Spec => []DeletedRulesStayDeleted
  <1>1. IInv => DeletedRulesStayDeleted
    BY DEF IInv, RulesInv, RuleOf, DeletedRulesStayDeleted
  <1> QED BY <1>1, AlwaysIInv, PTL

\* The audit log, replayed, gives the rules: what it says last of a rule no two
\* requests have been at together is what the table holds.
THEOREM LogCanBeReplayed == Spec => []LogTellsTheRules
  <1>1. IInv => LogTellsTheRules
    <2> SUFFICES ASSUME IInv, NEW i \in RuleIds \ mixed, NEW k \in DOMAIN log,
                        log[k].about = i,
                        \A j \in k + 1 .. Len(log) : log[j].about # i,
                        \A r \in InFlightOn(i) : pc[r] # "log"
                 PROVE  rules[i] = IF log[k].says = "removed" THEN NoRule
                                   ELSE log[k].says
      BY DEF LogTellsTheRules
    <2>1. Quiet(i)
      BY DEF Quiet, InFlightOn, InFlight
    <2>2. LastAbout(k, i)
      BY DEF LastAbout
    <2> QED BY <2>1, <2>2 DEF IInv, RulesInv, LogOf, Meaning
  <1> QED BY <1>1, AlwaysIInv, PTL

\* updateAdminControls leaves the active modes those whose own status is active,
\* except where they were set by themselves or an early read was saved.
THEOREM ModesFollowTheirStatus == Spec => []ActiveModesFollow
  <1>1. IInv => ActiveModesFollow
    BY DEF IInv, ControlsInv
  <1> QED BY <1>1, AlwaysIInv, PTL

\* The settings file keeps the webhook last set across reads, writes and boots, as
\* long as no two requests meet at it and the process does not die over it.
THEOREM WebhookIsKept == Spec => []WebhookKept
  <1>1. IInv => WebhookKept
    BY DEF IInv, FileInv, WebhookKept
  <1> QED BY <1>1, AlwaysIInv, PTL

-----------------------------------------------------------------------------
(***************************************************************************)
(* What a step may not do                                                  *)
(***************************************************************************)

LEMMA SavedBy ==
  ASSUME IInv, [Next]_vars, NEW r \in Requests,
         pc[r] = "write", pc'[r] = "log", req[r].op = "controls"
  PROVE  SaveControls(r)
  <1>1. ASSUME NEW q \in Requests, Submit(q) PROVE FALSE
    <2>1. PICK label, l : Goto(q, label, l)
      BY <1>1 DEF Submit
    <2>2. q # r
      BY <1>1 DEF Submit
    <2> QED BY <2>1, <2>2, Moves DEF IInv, TypesInv
  <1>2. ASSUME NEW q \in Requests, Serve(q) PROVE SaveControls(r)
    <2>1. \E label, l : Goto(q, label, l)
      BY <1>2 DEF Serve, Insert, FindRule, FindControls, Remove, SaveReads, SaveRule,
                  SaveControls, WriteLog, Load, Truncate, Flush, Own
    <2>2. q = r
      BY <2>1, Moves DEF IInv, TypesInv
    <2> QED BY <1>2, <2>2 DEF Serve, Insert, FindRule, FindControls, Remove,
               SaveReads, SaveRule, WriteLog, Load, Truncate, Flush
  <1>3. ~ SeedRules /\ ~ SeedControls /\ ~ SeedLogs
    BY DEF SeedRules, SeedControls, SeedLogs
  <1>4. ~ Crash /\ ~ UNCHANGED vars
    BY DEF Crash, InFlight, vars
  <1> QED BY <1>1, <1>2, <1>3, <1>4 DEF Next, Terminating

LEMMA StepNamed ==
  ASSUME IInv, [Next]_vars, NEW r \in Requests,
         pc[r] = "write", pc'[r] = "log", req[r].op = "controls", r \notin overtaken
  PROVE  LET dto == req[r].dto
             named == IF "modeConfigurations" \in DOMAIN dto
                      THEN DOMAIN dto.modeConfigurations ELSE {}
         IN /\ \A m \in Modes \ named :
                 controls'.modeConfigurations[m] = controls.modeConfigurations[m]
            /\ "governanceMode" \notin DOMAIN dto =>
                 controls'.governanceMode = controls.governanceMode
  <1> DEFINE l == loc[r]
             new == [col \in DOMAIN controls |->
                       IF l.entity[col] # l.stored[col] THEN l.entity[col]
                                                        ELSE controls[col]]
             dto == req[r].dto
  <1>1. /\ controls' = new /\ l.entity \in Controls /\ l.stored \in Controls
        /\ controls \in Controls /\ req[r] \in RequestRecords
        /\ l.entity = Updated(controls, dto) /\ l.stored = controls
    BY SavedBy DEF SaveControls, IInv, TypesInv, RequestTypes, TableTypes, PlaceOf,
                   InFlight, ControlsInv, ControlOf
  <1>2. new = Updated(controls, dto)
    BY <1>1, SavedControls
  <1>3. dto \in ControlsDtos
    BY <1>1, Records
  <1> HIDE DEF new, dto
  <1>4. /\ controls'.governanceMode = IF "governanceMode" \in DOMAIN dto
                                      THEN dto.governanceMode ELSE controls.governanceMode
        /\ controls'.modeConfigurations =
             IF "modeConfigurations" \in DOMAIN dto
             THEN MergedModes(controls.modeConfigurations, dto.modeConfigurations)
             ELSE controls.modeConfigurations
    BY <1>1, <1>2, <1>3, UpdatedColumns
  <1> QED BY <1>4 DEF MergedModes, dto

\* updateAdminControls changes the modes and columns it is given and no others,
\* unless somebody has changed the row since it was read.
THEOREM UpdatesAreLocal == Spec => UpdatesTouchWhatTheyName
  <1>1. IInv /\ [Next]_vars =>
          \A r \in Requests :
            ( pc[r] = "write" /\ pc'[r] = "log" /\ req[r].op = "controls" ) =>
              LET dto == req[r].dto
                  named == IF "modeConfigurations" \in DOMAIN dto
                           THEN DOMAIN dto.modeConfigurations ELSE {}
              IN \/ r \in overtaken
                 \/ /\ \A m \in Modes \ named :
                         controls'.modeConfigurations[m] = controls.modeConfigurations[m]
                    /\ "governanceMode" \notin DOMAIN dto =>
                         controls'.governanceMode = controls.governanceMode
    BY StepNamed
  <1> QED BY <1>1, AlwaysIInv, PTL DEF Spec, UpdatesTouchWhatTheyName

=============================================================================
