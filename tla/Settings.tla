-------------------------------- MODULE Settings --------------------------------
(***************************************************************************)
(* The model, the thinking level, the active tools and the plan mode of a  *)
(* session's executions.  An execution resolves them once, from the branch *)
(* it restores and the command it runs; extensions then change them while  *)
(* it runs, for its next request and, by an entry, for later executions.   *)
(*                                                                         *)
(* A provider and its model are one value.  The tools are "read", which    *)
(* plan mode adds, "write", which it removes, and "todo".                  *)
(***************************************************************************)
EXTENDS Naturals, SequencesExt

CONSTANTS
  Models, \* and Unset is none of them
  Levels,
  Lists,  \* lists of tools
  Unset,
  MaxPath \* bound: entries

ASSUME SettingsAssumption ==
  /\ Unset \notin Models /\ Unset \notin Levels /\ Unset \notin Lists
  /\ MaxPath \in Nat

VARIABLES
  path,        \* the entries of the branch that say something of the settings
  savedPath,   \* those of the last snapshot
  command,     \* model, level, tools and plan, each may be Unset
  override,    \* what extensions set in this execution
  used,        \* what runAgent resolved
  phase,       \* down, starting, between (requests) or asking
  lastRequest, \* the last request: model, level and tools
  late         \* the model was set while a request of another was out

settingsVars == <<path, savedPath, command, override, used, phase, lastRequest, late>>

NothingSet == [model |-> Unset, level |-> Unset, tools |-> Unset]

SettingsInit ==
  /\ path = <<>> /\ savedPath = <<>> /\ override = NothingSet
  /\ command \in [model : Models, level : {Unset}, tools : Lists \cup {Unset},
                  plan : BOOLEAN \cup {Unset}]
  /\ used = NothingSet /\ phase = "down" /\ lastRequest = NothingSet /\ late = FALSE

-----------------------------------------------------------------------------

Default == [level |-> "medium", tools |-> {"read", "write"}]
First(value, other) == IF value = Unset THEN other ELSE value

SettingsEntry(kind, value) == [kind |-> kind, value |-> value]

\* The last value of some kinds of entries.
LastOf(entries, kinds) ==
  LET found == {i \in DOMAIN entries : entries[i].kind \in kinds}
  IN  IF found = {} THEN Unset ELSE entries[Max(found)].value

\* An answer also tells the model it is of.
restoreSettings(entries) ==
  [model |-> LastOf(entries, {"model_change", "answer"}),
   level |-> LastOf(entries, {"thinking_level_change"}),
   tools |-> LastOf(entries, {"active_tools_change"}),
   plan  |-> LastOf(entries, {"plan-mode"})]

effectivePlanMode(entries) ==
  First(command.plan, First(restoreSettings(entries).plan, FALSE))

planTools(names) == (names \ {"write"}) \cup {"read"}

\* runAgent: what was set by extensions before it wins, then what the session
\* says; of tools and plan mode, what the command says.
Resolve(entries, set) ==
  LET settings == restoreSettings(entries)
      plan     == effectivePlanMode(entries)
      names    == First(set.tools, First(command.tools, First(settings.tools, Default.tools)))
  IN  [model |-> First(set.model, First(settings.model, command.model)),
       level |-> First(set.level, First(settings.level, First(command.level, Default.level))),
       tools |-> IF plan THEN planTools(names) ELSE names, plan |-> plan]

Start ==
  /\ phase = "down"
  /\ phase' = "starting" /\ path' = savedPath
  /\ UNCHANGED <<savedPath, command, override, used, lastRequest, late>>

RunAgent ==
  /\ phase = "starting"
  /\ phase' = "between" /\ used' = Resolve(path, override)
  /\ UNCHANGED <<path, savedPath, command, override, lastRequest, late>>

\* A slip, for the check of the properties: what was resolved is used.
BadNextRequest == [model |-> used.model, level |-> used.level, tools |-> used.tools]

\* Tools that were not there when the execution started cannot be had.
NextRequest ==
  [model |-> First(override.model, used.model), level |-> First(override.level, used.level),
   tools |-> IF override.tools = Unset THEN used.tools ELSE used.tools \cap override.tools]

SendRequest ==
  /\ phase = "between" /\ Len(path) < MaxPath
  /\ phase' = "asking" /\ lastRequest' = NextRequest
  /\ used' = [used EXCEPT !.model = lastRequest'.model, !.level = lastRequest'.level]
  /\ UNCHANGED <<path, savedPath, command, override, late>>

AnswerRequest ==
  /\ phase = "asking" /\ Len(path) < MaxPath
  /\ phase' = "between" /\ path' = Append(path, SettingsEntry("answer", lastRequest.model))
  /\ late' = (override.model # Unset /\ override.model # lastRequest.model)
  /\ UNCHANGED <<savedPath, command, override, used, lastRequest>>

-----------------------------------------------------------------------------
(* Extensions: at any time of an execution.                                *)

Sets(kind, value) ==
  /\ phase # "down" /\ Len(path) < MaxPath
  /\ path' = Append(path, SettingsEntry(kind, value))
  /\ UNCHANGED <<savedPath, command, used, phase, lastRequest>>

SetModel(m) ==
  /\ Sets("model_change", m) /\ override' = [override EXCEPT !.model = m]
  /\ late' = (late /\ phase = "asking")
SetThinkingLevel(l) ==
  /\ Sets("thinking_level_change", l) /\ override' = [override EXCEPT !.level = l]
  /\ UNCHANGED late
SetActiveTools(names) ==
  /\ Sets("active_tools_change", names) /\ override' = [override EXCEPT !.tools = names]
  /\ UNCHANGED late

\* The operations set_model, set_thinking_level, set_active_tools and
\* set_plan_mode are executions of their own.
SetOperation(kind, value) ==
  /\ phase = "down" /\ Len(savedPath) < MaxPath
  /\ savedPath' = Append(savedPath, SettingsEntry(kind, value))
  /\ UNCHANGED <<path, command, override, used, phase, lastRequest, late>>

\* A snapshot; the last one of a run that plans, or executes a plan, says so.
SaveBranch ==
  /\ phase = "between" /\ savedPath # path
  /\ savedPath' = path
  /\ UNCHANGED <<path, command, override, used, phase, lastRequest, late>>

Ends == /\ phase' = "down" /\ path' = <<>> /\ override' = NothingSet
        /\ used' = NothingSet /\ lastRequest' = NothingSet /\ late' = FALSE

FinishRun(plans) ==
  /\ phase = "between" /\ Len(path) < MaxPath
  /\ savedPath' = IF plans THEN Append(path, SettingsEntry("plan-mode", effectivePlanMode(path)))
                  ELSE path
  /\ Ends /\ UNCHANGED command

DropRun == phase # "down" /\ Ends /\ UNCHANGED <<savedPath, command>>

SettingsNext ==
  \/ Start \/ RunAgent \/ SendRequest \/ AnswerRequest
  \/ \E m \in Models : SetModel(m) \/ SetOperation("model_change", m)
  \/ \E l \in Levels : SetThinkingLevel(l) \/ SetOperation("thinking_level_change", l)
  \/ \E names \in Lists : SetActiveTools(names) \/ SetOperation("active_tools_change", names)
  \/ \E plan \in BOOLEAN : SetOperation("plan-mode", plan)
  \/ SaveBranch \/ DropRun
  \/ \E plans \in BOOLEAN : FinishRun(plans)

SettingsSpec == SettingsInit /\ [][SettingsNext]_settingsVars

-----------------------------------------------------------------------------
(* Properties.                                                             *)

\* What the entries say agrees with what the execution does: one that went on
\* from here would send the next request to the same model with the same
\* thinking level, and with no tool missing, as the one that runs; and a request
\* in plan mode has no tool that changes files.  Excepted are a model set while
\* another answers, whose answer then counts as the later choice, and tools that
\* the command lists, which win over those set later.
SettingsResume ==
  /\ phase = "between" =>
       LET next    == NextRequest
           resumed == Resolve(path, NothingSet)
       IN  /\ ~late => resumed.model = next.model
           /\ resumed.level = next.level
           /\ command.tools = Unset => next.tools \subseteq resumed.tools
  /\ phase = "asking" /\ used.plan => "write" \notin lastRequest.tools
=============================================================================
