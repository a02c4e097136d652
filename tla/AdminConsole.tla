---------------------------- MODULE AdminConsole ----------------------------
(***************************************************************************)
(* The bank's side of SafiService: the rules, the one row of controls and  *)
(* the audit log, which a process seeds when it boots and then changes on  *)
(* request, and the settings file, which has no locks and no atomic        *)
(* replacement.                                                            *)
(*                                                                         *)
(* There is one process, and it listens only after onModuleInit.  Saves    *)
(* are those of SafiConfigService: a SELECT by id, then an INSERT, or an   *)
(* UPDATE of the columns that differ from it.                              *)
(***************************************************************************)
EXTENDS Naturals, Sequences

CONSTANTS
  Requests,
  ControlsDtos,  \* what an update of the controls may ask for
  Hooks,         \* webhooks a compliance officer may set
  DefaultHook,   \* the webhook of the default settings
  Length,        \* of the file's text with each webhook in it
  InitialTexts,  \* what the settings file may hold at the start
  MaxBoots,      \* bound on the starts of the process
  NoRule, NoControls, Nothing

VARIABLES
  rules,      \* safi_rules: the status of each rule there is
  controls,   \* the row of safi_controls
  log,        \* safi_audit_logs, in order
  file,       \* safi-admin-settings.json: its text, of which only the webhook
              \* matters, or what else it holds, and its length
  boot,       \* how far the process has come, and how often it was started
  pc, req, loc,
  overtaken,  \* history: requests that have read what somebody has changed since
  mixed,      \* history: rules two requests have been at together, or that one
              \* has changed and died before it could log that
  lastHook,   \* history: the webhook last set
  slips       \* history: see Slips

tables == <<rules, controls, log>>
history == <<overtaken, mixed, lastHook, slips>>
vars == <<tables, file, boot, pc, req, loc, history>>

-----------------------------------------------------------------------------
Modes == {"Flexible", "Strict"}
Statuses == {"ACTIVE", "INACTIVE"}

\* The rules a boot seeds are inserted together and stand here as one, with the
\* number of the boot for its id; a rule somebody creates has that request's.  The
\* log is about a rule, about the controls (NoControls) or is seeded (NoRule).
Boots == 1 .. MaxBoots
RuleIds == Boots \union Requests

ModeConfigurations ==
  [Modes -> [status : Statuses, allowedBehaviours : {"default", "other"}]]

Controls ==
  [ governanceMode : Modes, activeModes : SUBSET Modes,
    modeConfigurations : ModeConfigurations ]

DefaultModes == [m \in Modes |-> [status |-> "ACTIVE", allowedBehaviours |-> "default"]]

DefaultControls ==
  [ governanceMode |-> "Flexible", activeModes |-> Modes,
    modeConfigurations |-> DefaultModes ]

Texts == Hooks \union {DefaultHook}

RequestRecords ==
  [op : {"create"}, status : Statuses]
    \union [op : {"update"}, rule : RuleIds, status : Statuses]
    \union [op : {"delete"}, rule : RuleIds]
    \union [op : {"controls"}, dto : ControlsDtos]
    \union [op : {"webhook"}, hook : Hooks]
    \union [op : {"view"}]

\* The markers are none of what they stand for, a process that has not been
\* configured has no file or the defaults in it, and the DTO of an update of the
\* controls gives some of their columns.
ASSUME ConstantsAssumption ==
  /\ MaxBoots \in Nat \ {0} /\ Boots \intersect Requests = {}
  /\ NoRule \notin RuleIds /\ NoRule \notin Statuses
  /\ NoControls \notin RuleIds /\ NoControls \notin Controls
  /\ InitialTexts \subseteq {DefaultHook, "missing"}
  /\ Texts \intersect {"missing", "empty", "garbled"} = {}
  /\ Length \in [Texts -> Nat]
  /\ \A dto \in ControlsDtos :
       /\ "governanceMode" \in DOMAIN dto => dto.governanceMode \in Modes
       /\ "activeModes" \in DOMAIN dto => dto.activeModes \subseteq Modes
       /\ "modeConfigurations" \in DOMAIN dto =>
            \A m \in Modes \intersect DOMAIN dto.modeConfigurations :
              dto.modeConfigurations[m] \in
                [status : Statuses, allowedBehaviours : {"default", "other"}]

\* entity is what a request saves, stored what its save has read, text the
\* settings it has read or is going to write, defaults whether it is writing
\* them because they were not there.
EmptyLoc ==
  [entity |-> Nothing, stored |-> Nothing, text |-> DefaultHook, defaults |-> FALSE]

InFlight ==
  {"insert", "find", "remove", "read", "write", "log", "load", "truncate", "flush"}

Answered == {"done", "declined", "failed"}

\* stale_save: a request in `overtaken` has saved; set_directly: the active modes
\* were set other than by the modes' own statuses; hook_race: two requests have
\* been at the settings file together; torn: the process died over it.
Slips == {"stale_save", "set_directly", "hook_race", "torn"}

\* The type invariant.  Whoever is served finds a row of controls, so the code
\* that would create one on demand is never needed.
TypeOK ==
  /\ rules \in [RuleIds -> Statuses \union {NoRule}]
  /\ controls \in Controls \union {NoControls}
  /\ boot.step \in {"logs", "up"} => controls # NoControls
  /\ log \in Seq([about : RuleIds \union {NoRule, NoControls},
                  says : Statuses \union {"removed", "changed"}])
  /\ file.text \in Texts \union {"missing", "empty", "garbled"}
  /\ boot \in [step : {"rules", "controls", "logs", "up"}, number : Boots]
  /\ pc \in [Requests -> {"idle"} \union InFlight \union Answered]
  /\ \A r \in Requests : pc[r] # "idle" => req[r] \in RequestRecords
  /\ \A r \in Requests : loc[r].text \in Texts /\ loc[r].defaults \in BOOLEAN
  /\ overtaken \subseteq Requests /\ mixed \subseteq RuleIds
  /\ lastHook \in Texts /\ slips \subseteq Slips

Init ==
  /\ rules = [i \in RuleIds |-> NoRule]
  /\ controls = NoControls
  /\ log = <<>>
  /\ \E t \in InitialTexts : file = [text |-> t, length |-> 0]
  /\ boot = [step |-> "rules", number |-> 1]
  /\ pc = [r \in Requests |-> "idle"]
  /\ req = [r \in Requests |-> Nothing]
  /\ loc = [r \in Requests |-> EmptyLoc]
  /\ overtaken = {} /\ mixed = {} /\ slips = {}
  /\ lastHook = DefaultHook

-----------------------------------------------------------------------------
(***************************************************************************)
(* onModuleInit: each table is seeded if it is empty                       *)
(***************************************************************************)

BootStep(from, to) == boot.step = from /\ boot' = [boot EXCEPT !.step = to]

SeedRules ==
  /\ BootStep("rules", "controls")
  /\ rules' = IF \A i \in RuleIds : rules[i] = NoRule
              THEN [rules EXCEPT ![boot.number] = "ACTIVE"] ELSE rules
  /\ UNCHANGED <<controls, log, file, pc, req, loc, history>>

\* Mutant: the controls are left to be created on demand.
SeedControlsLazily ==
  /\ BootStep("controls", "logs")
  /\ UNCHANGED <<tables, file, pc, req, loc, history>>

SeedControls ==
  /\ BootStep("controls", "logs")
  /\ controls' = IF controls = NoControls THEN DefaultControls ELSE controls
  /\ UNCHANGED <<rules, log, file, pc, req, loc, history>>

SeedLogs ==
  /\ BootStep("logs", "up")
  /\ log' = IF log = <<>> THEN <<[about |-> NoRule, says |-> "changed"]>> ELSE log
  /\ UNCHANGED <<rules, controls, file, pc, req, loc, history>>

-----------------------------------------------------------------------------
(***************************************************************************)
(* Rules and controls                                                      *)
(***************************************************************************)

Goto(r, label, l) ==
  /\ pc' = [pc EXCEPT ![r] = label]
  /\ loc' = [loc EXCEPT ![r] = l]

OnRules == {"update", "delete"}

\* The rule a request is about, or NoControls.
About(r) ==
  CASE req[r].op \in OnRules -> req[r].rule
    [] req[r].op = "create" -> r
    [] OTHER -> NoControls

InFlightOn(i) ==
  {q \in Requests : pc[q] \in InFlight \ {"find"} /\ About(q) = i}

\* Request r has changed the row it is about: whoever has read that is overtaken.
Changed(r) ==
  /\ overtaken' = overtaken \union
       {q \in InFlightOn(About(r)) \ {r} : pc[q] \in {"remove", "read", "write"}}
  /\ mixed' = mixed \union
       {i \in RuleIds : i = About(r) /\ InFlightOn(i) # {r}}
  /\ slips' = slips
       \union {s \in {"stale_save"} : r \in overtaken}
       \union {s \in {"set_directly"} : /\ req[r].op = "controls"
                                        /\ "activeModes" \in DOMAIN req[r].dto}
  /\ UNCHANGED lastHook

Submit(r) ==
  /\ boot.step = "up"
  /\ pc[r] = "idle"
  /\ \E c \in RequestRecords :
       /\ req' = [req EXCEPT ![r] = c]
       /\ Goto(r, CASE c.op = "create" -> "insert"
                    [] c.op \in {"webhook", "view"} -> "load"
                    [] OTHER -> "find", EmptyLoc)
  /\ UNCHANGED <<tables, file, boot, history>>

\* createAdminRule.
Insert(r) ==
  /\ pc[r] = "insert"
  /\ rules' = [rules EXCEPT ![r] = req[r].status]
  /\ Goto(r, "log", loc[r])
  /\ Changed(r)
  /\ UNCHANGED <<controls, log, file, boot, req>>

\* Mutant: the defaults go over what was configured before.
MergedModesDefaultsLast(modes, given) ==
  [m \in Modes |-> IF m \in DOMAIN given THEN given[m] ELSE DefaultModes[m]]

MergedModes(modes, given) ==
  [m \in Modes |-> IF m \in DOMAIN given THEN given[m] ELSE modes[m]]

Active(modes) ==
  LET on == {m \in Modes : modes[m].status = "ACTIVE"}
  IN IF on = {} THEN {"Flexible"} ELSE on

\* Mutant: the active modes are derived from the modes as they were.
UpdatedActiveBefore(c, dto) ==
  [col \in DOMAIN c |->
     IF col = "activeModes" /\ "modeConfigurations" \in DOMAIN dto
     THEN Active(c.modeConfigurations)
     ELSE IF col \notin DOMAIN dto THEN c[col]
     ELSE IF col = "modeConfigurations" THEN MergedModes(c[col], dto[col])
     ELSE dto[col]]

\* updateAdminControls: the modes given replace those of the row, and the active
\* modes follow from their statuses.
Updated(c, dto) ==
  [col \in DOMAIN c |->
     IF col = "activeModes" /\ "modeConfigurations" \in DOMAIN dto
     THEN Active(MergedModes(c.modeConfigurations, dto.modeConfigurations))
     ELSE IF col \notin DOMAIN dto THEN c[col]
     ELSE IF col = "modeConfigurations" THEN MergedModes(c[col], dto[col])
     ELSE dto[col]]

FindRule(r) ==
  /\ pc[r] = "find" /\ req[r].op \in OnRules
  /\ IF rules[req[r].rule] = NoRule THEN Goto(r, "declined", loc[r])
     ELSE IF req[r].op = "delete" THEN Goto(r, "remove", loc[r])
     ELSE Goto(r, "read", [loc[r] EXCEPT !.entity = [status |-> req[r].status]])
  /\ UNCHANGED <<tables, file, boot, req, history>>

FindControls(r) ==
  /\ pc[r] = "find" /\ req[r].op = "controls"
  /\ Goto(r, "read", [loc[r] EXCEPT !.entity = Updated(controls, req[r].dto)])
  /\ UNCHANGED <<tables, file, boot, req, history>>

\* Mutant: a deleted rule is only switched off.
RemoveSoftly(r) ==
  /\ pc[r] = "remove"
  /\ rules' = [rules EXCEPT ![req[r].rule] = "INACTIVE"]
  /\ Goto(r, "log", loc[r])
  /\ Changed(r)
  /\ UNCHANGED <<controls, log, file, boot, req>>

\* deleteAdminRule's remove.
Remove(r) ==
  /\ pc[r] = "remove"
  /\ rules' = [rules EXCEPT ![req[r].rule] = NoRule]
  /\ Goto(r, "log", loc[r])
  /\ Changed(r)
  /\ UNCHANGED <<controls, log, file, boot, req>>

SaveReads(r) ==
  /\ pc[r] = "read"
  /\ Goto(r, "write",
          [loc[r] EXCEPT !.stored = IF req[r].op = "controls" THEN controls
                                    ELSE [status |-> rules[req[r].rule]]])
  /\ UNCHANGED <<tables, file, boot, req, history>>

\* An INSERT of what the save has not found, or an UPDATE, which does nothing to
\* a row that has gone meanwhile.
SaveRule(r) ==
  LET i == req[r].rule IN
  /\ pc[r] = "write" /\ req[r].op = "update"
  /\ rules' = IF loc[r].stored.status = NoRule \/ rules[i] # NoRule
              THEN [rules EXCEPT ![i] = loc[r].entity.status] ELSE rules
  /\ Goto(r, "log", loc[r])
  /\ Changed(r)
  /\ UNCHANGED <<controls, log, file, boot, req>>

SaveControls(r) ==
  LET l == loc[r] IN
  /\ pc[r] = "write" /\ req[r].op = "controls"
  /\ controls' = [col \in DOMAIN controls |->
                    IF l.entity[col] # l.stored[col] THEN l.entity[col]
                                                     ELSE controls[col]]
  /\ Goto(r, "log", l)
  /\ Changed(r)
  /\ UNCHANGED <<rules, log, file, boot, req>>

Says(r) ==
  CASE req[r].op \in {"create", "update"} -> req[r].status
    [] req[r].op = "delete" -> "removed"
    [] OTHER -> "changed"

\* Mutant: a deletion is not logged.
WriteLogUnlessDeleted(r) ==
  /\ pc[r] = "log"
  /\ log' = IF req[r].op = "delete" THEN log
            ELSE Append(log, [about |-> About(r), says |-> Says(r)])
  /\ Goto(r, "done", loc[r])
  /\ UNCHANGED <<rules, controls, file, boot, req, history>>

WriteLog(r) ==
  /\ pc[r] = "log"
  /\ log' = Append(log, [about |-> About(r), says |-> Says(r)])
  /\ Goto(r, "done", loc[r])
  /\ UNCHANGED <<rules, controls, file, boot, req, history>>

-----------------------------------------------------------------------------
(***************************************************************************)
(* The settings file.  writeFile truncates it when it opens it and writes  *)
(* the text afterwards, from the start.                                    *)
(***************************************************************************)

\* readSettings has the settings of l: a request that only wanted them is done.
Own(r, l) ==
  \/ req[r].op = "view" /\ Goto(r, "done", l)
  \/ /\ req[r].op = "webhook"
     /\ Goto(r, "truncate", [l EXCEPT !.text = req[r].hook, !.defaults = FALSE])

AtFile(r) == {q \in Requests \ {r} : pc[q] \in {"truncate", "flush"}}

\* Mutant: the settings read are the defaults.
LoadDefaults(r) ==
  LET l == loc[r] IN
  /\ pc[r] = "load"
  /\ Goto(r, "truncate", [l EXCEPT !.text = DefaultHook, !.defaults = TRUE])
  /\ slips' = slips \union {s \in {"hook_race"} : AtFile(r) # {}}
  /\ UNCHANGED <<tables, file, boot, req, overtaken, mixed, lastHook>>

\* readSettings: what cannot be parsed is replaced by the defaults.
Load(r) ==
  LET l == loc[r] IN
  /\ pc[r] = "load"
  /\ IF file.text \in Texts THEN Own(r, [l EXCEPT !.text = file.text])
     ELSE Goto(r, "truncate", [l EXCEPT !.text = DefaultHook, !.defaults = TRUE])
  /\ slips' = slips \union {s \in {"hook_race"} : AtFile(r) # {}}
  /\ UNCHANGED <<tables, file, boot, req, overtaken, mixed, lastHook>>

Truncate(r) ==
  /\ pc[r] = "truncate"
  /\ file' = [text |-> "empty", length |-> 0]
  /\ Goto(r, "flush", loc[r])
  /\ UNCHANGED <<tables, boot, req, history>>

\* A text shorter than what another writer has put there leaves the end of that.
Flush(r) ==
  LET text == loc[r].text IN
  /\ pc[r] = "flush"
  /\ file' = IF file.length > Length[text]
             THEN [file EXCEPT !.text = "garbled"]
             ELSE [text |-> text, length |-> Length[text]]
  /\ IF loc[r].defaults THEN Own(r, loc[r]) ELSE Goto(r, "done", loc[r])
  /\ lastHook' = IF loc[r].defaults THEN lastHook ELSE text
  /\ UNCHANGED <<tables, boot, req, overtaken, mixed, slips>>

-----------------------------------------------------------------------------
\* The process dies and is started again.
Crash ==
  /\ boot.number < MaxBoots
  /\ boot' = [step |-> "rules", number |-> boot.number + 1]
  /\ pc' = [r \in Requests |-> IF pc[r] \in InFlight THEN "failed" ELSE pc[r]]
  /\ mixed' = mixed \union {i \in RuleIds : \E r \in InFlightOn(i) : pc[r] = "log"}
  /\ slips' = slips \union {s \in {"torn"} : \E r \in Requests : pc[r] = "flush"}
  /\ UNCHANGED <<tables, file, req, loc, overtaken, lastHook>>

Serve(r) ==
  \/ Insert(r)
  \/ FindRule(r) \/ FindControls(r) \/ Remove(r)
  \/ SaveReads(r) \/ SaveRule(r) \/ SaveControls(r)
  \/ WriteLog(r)
  \/ Load(r) \/ Truncate(r) \/ Flush(r)

Terminating ==
  /\ \A r \in Requests : pc[r] \in Answered
  /\ UNCHANGED vars

Next ==
  \/ SeedRules \/ SeedControls \/ SeedLogs
  \/ \E r \in Requests : Submit(r) \/ Serve(r)
  \/ Crash
  \/ Terminating

Spec == Init /\ [][Next]_vars

-----------------------------------------------------------------------------
(***************************************************************************)
(* Properties                                                              *)
(***************************************************************************)

\* A rule that somebody was told is deleted is gone, whatever boots and updates
\* come later, unless an update that had found it before saves it again.
DeletedRulesStayDeleted ==
  "stale_save" \notin slips =>
    \A r \in Requests :
      pc[r] = "done" /\ req[r].op = "delete" => rules[req[r].rule] = NoRule

\* What the log says last of a rule is what the table holds, as soon as nobody is
\* between the change and its entry: the trail can be replayed.  Two requests on
\* one rule at a time, and a process that dies in between, leave it wrong.
LogTellsTheRules ==
  \A i \in RuleIds \ mixed :
    \A k \in DOMAIN log :
      ( /\ log[k].about = i
        /\ \A j \in k + 1 .. Len(log) : log[j].about # i
        /\ \A r \in InFlightOn(i) : pc[r] # "log" )
      => rules[i] = IF log[k].says = "removed" THEN NoRule ELSE log[k].says

\* The active modes are those whose status is active, or Flexible if there is
\* none, unless they were set on their own or by saves of rows read too early:
\* the two columns are written only where they differ from the row.
ActiveModesFollow ==
  ( controls # NoControls /\ slips \intersect {"stale_save", "set_directly"} = {} )
  => controls.activeModes = Active(controls.modeConfigurations)

\* An update of the controls leaves every mode and column it does not name as it
\* is, unless somebody has changed the row since it read it: modeConfigurations
\* is one column, merged before the save.
UpdatesTouchWhatTheyName ==
  [][ \A r \in Requests :
        ( pc[r] = "write" /\ pc'[r] = "log" /\ req[r].op = "controls" ) =>
          LET dto == req[r].dto
              named == IF "modeConfigurations" \in DOMAIN dto
                       THEN DOMAIN dto.modeConfigurations ELSE {}
          IN \/ r \in overtaken
             \/ /\ \A m \in Modes \ named :
                     controls'.modeConfigurations[m] = controls.modeConfigurations[m]
                /\ "governanceMode" \notin DOMAIN dto =>
                     controls'.governanceMode = controls.governanceMode ]_vars

\* The webhook last set stays in the file, whoever looks at the settings and
\* however often the process is started, unless two requests have been at the
\* file together or the process died over it.
WebhookKept ==
  ( /\ slips \intersect {"hook_race", "torn"} = {}
    /\ \A r \in Requests : pc[r] # "flush" )
  => file.text \in {lastHook} \union (IF lastHook = DefaultHook THEN {"missing"} ELSE {})

=============================================================================
