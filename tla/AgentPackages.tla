----------------------------- MODULE AgentPackages ------------------------------
(***************************************************************************)
(* Agent profiles: building a package of an agent and its delegates,       *)
(* installing it, finding the profile of a name among packages, embedded   *)
(* and loose profiles, and delegating from a running agent to another.     *)
(*                                                                         *)
(* A profile is the front matter of its file.  Its prompt is "default"     *)
(* (that of the harness), "own", "missing" (a path to no file) or "local"  *)
(* to its package, its role "none" when the file has none.  Tools are      *)
(* "read" and "subagent": the host offers "subagent" only to an agent that *)
(* may delegate to somebody.                                               *)
(***************************************************************************)
EXTENDS Naturals, Sequences

CONSTANTS
  Catalogs, \* sets of profiles of one resource root, names distinct
  Loose,    \* sets of profiles in the project's own directory, names distinct
  Personal, \* and in the user's
  Patterns, \* settings of an installed package, as PatternsOf below
  MaxDepth

\* What loadAgentDefinition reads.  "*" is no name that a package can have
\* (packageAgentNamePattern), and of two files of a directory with one name the
\* first is the profile.
Profile(p) ==
  /\ p = [name |-> p.name, role |-> p.role, tools |-> p.tools, optional |-> p.optional,
          delegates |-> p.delegates, prompt |-> p.prompt, from |-> p.from]
  /\ p.role \in {"none", "main", "sub", "meta"} /\ p.name # "*"
Profiles(directory, from) ==
  /\ \A p \in directory : Profile(p) /\ p.from = from
  /\ \A p, q \in directory : p.name = q.name => p = q

ASSUME AgentsAssumption ==
  /\ MaxDepth \in Nat
  /\ \A directory \in Catalogs : Profiles(directory, "embedded")
  /\ \A directory \in Loose : Profiles(directory, "loose")
  /\ \A directory \in Personal : Profiles(directory, "personal")

None == [none |-> TRUE]

VARIABLES
  embedded,  \* the profiles of the resource root
  loose,     \* the profiles of the project
  personal,  \* the profiles of the user
  trusted,   \* whether the project is
  bundle,    \* the package that was built, or None
  refusal,   \* why none was
  installed, \* its scope and patterns, or None
  stack      \* the running agents, each delegated to by the one before

agentVars == <<embedded, loose, personal, trusted, bundle, refusal, installed, stack>>

AgentsInit ==
  /\ embedded \in Catalogs /\ loose \in Loose /\ personal \in Personal
  /\ trusted \in BOOLEAN
  /\ bundle = None /\ refusal = "none" /\ installed = None /\ stack = <<>>

-----------------------------------------------------------------------------
(* Profiles.                                                               *)

agentRole(profile) ==
  IF profile.role # "none" THEN profile.role
  ELSE IF "subagent" \in profile.tools THEN "sub" ELSE "meta"

\* The profiles of a set that load.
Loaded(profiles) ==
  {[p EXCEPT !.role = agentRole(p)] : p \in {q \in profiles : q.optional \subseteq q.tools}}

CanDelegateAgent(caller, target) ==
  \/ caller = "main" /\ target \in {"sub", "meta"}
  \/ caller = "sub" /\ target = "meta"

\* A slip, for the check of the properties: the allowlist alone.
BadCanDelegateTo(caller, target) == {"*", target.name} \cap caller.delegates # {}

CanDelegateTo(caller, target) ==
  /\ CanDelegateAgent(caller.role, target.role)
  /\ {"*", target.name} \cap caller.delegates # {}

NamesOf(profiles)      == {p.name : p \in profiles}
Named(profiles, names) == {p \in profiles : p.name \in names}
RequiredTools(p)       == p.tools \ p.optional

-----------------------------------------------------------------------------
(* Building: the entry agent and everybody it may delegate to.             *)

\* An allowlist with "*" becomes the list of those it allows.  The list of an
\* agent without the tool to delegate is left alone.
Frozen(profile, available) ==
  IF {"subagent"} \subseteq profile.tools /\ "*" \in profile.delegates
  THEN {c.name : c \in {d \in available : CanDelegateAgent(profile.role, d.role)}}
  ELSE profile.delegates

DelegatesOf(profile, available) ==
  IF "subagent" \in profile.tools THEN Frozen(profile, available) ELSE {}

\* The names collect visits: the hierarchy of roles has three levels, so that
\* two steps reach all of them.
Collected(entry, available) ==
  LET Next(names) == names \cup UNION {DelegatesOf(p, available) : p \in Named(available, names)}
  IN  Next(Next({entry}))

\* A delegate is missing or has the wrong role.
DelegatesRefused(entry, available) ==
  \/ entry \notin NamesOf(available)
  \/ \E p \in Named(available, Collected(entry, available)) :
       \E name \in DelegatesOf(p, available) :
         \A t \in Named(available, {name}) : ~CanDelegateAgent(p.role, t.role)

\* A tool that somebody requires is not optional.
RequiredBy(profiles) == UNION {RequiredTools(p) : p \in profiles}
OptionalOf(profiles) == UNION {p.optional : p \in profiles} \ RequiredBy(profiles)

Rendered(profile, available) ==
  [profile EXCEPT !.delegates = Frozen(profile, available), !.prompt = "local",
                  !.from = "bundle"]

Package(entry, available) ==
  LET chosen == Named(available, Collected(entry, available))
  IN  [agents |-> {Rendered(p, available) : p \in chosen}, entry |-> entry,
       dependencies |-> NamesOf(chosen) \ {entry},
       required |-> RequiredBy(chosen), optional |-> OptionalOf(chosen)]

ValidateAgentPackage(package) ==
  LET agents == Loaded(package.agents)
  IN  /\ agents = package.agents
      /\ package.entry \in NamesOf(agents)
      /\ package.dependencies = NamesOf(agents) \ {package.entry}
      /\ \A p \in agents :
           /\ "*" \notin p.delegates /\ p.delegates \subseteq NamesOf(agents)
           /\ \A t \in Named(agents, p.delegates) : CanDelegateTo(p, t)
           /\ p.prompt = "local"
      /\ package.required = RequiredBy(agents) /\ package.optional = OptionalOf(agents)

BuildAgentPackage(entry) ==
  LET available == Loaded(embedded)
      package   == Package(entry, available)
  IN  /\ bundle = None /\ refusal = "none" /\ stack = <<>>
      /\ refusal' = IF DelegatesRefused(entry, available) THEN "delegates"
                    ELSE IF \E p \in Named(available, NamesOf(package.agents)) :
                              p.prompt = "missing" THEN "prompt"
                    ELSE IF ~ValidateAgentPackage(package) THEN "invalid"
                    ELSE "none"
      /\ bundle' = IF refusal' = "none" THEN package ELSE None
      /\ UNCHANGED <<embedded, loose, personal, trusted, installed, stack>>

-----------------------------------------------------------------------------
(* Finding a profile.                                                      *)

\* Names stand for the paths the patterns are matched with.
applyPackagePatterns(names, patterns) ==
  (((IF patterns.includes = {} THEN names ELSE names \cap patterns.includes)
      \ patterns.excludes) \cup (names \cap patterns.forced)) \ patterns.barred

\* The settings of a package hide some of its agents from those who look for
\* one by scope, not from the agents of the package.
packageResourcePathsScope(scope) ==
  IF installed = None \/ installed.scope # scope THEN {}
  ELSE Named(Loaded(bundle.agents),
             applyPackagePatterns(NamesOf(bundle.agents), installed.patterns))

Project(scope) == scope \in {"project", "both"}
User(scope)    == scope \in {"user", "both"}

\* Packages are before the embedded profiles, and these before loose ones.
agentPathsAt(scope) ==
  <<IF Project(scope) THEN packageResourcePathsScope("project") ELSE {},
    IF User(scope)    THEN packageResourcePathsScope("user")    ELSE {},
    Loaded(embedded),
    IF Project(scope) THEN Loaded(loose) ELSE {},
    IF User(scope)    THEN Loaded(personal) ELSE {}>>

\* The first profile of each name.
AgentDefinitionsAt(scope) ==
  LET paths == agentPathsAt(scope)
  IN  UNION {{p \in paths[i] : \A j \in 1..(i - 1) : p.name \notin NamesOf(paths[j])} :
               i \in DOMAIN paths}

AgentAt(name, scope) == Named(AgentDefinitionsAt(scope), {name})

AgentInPackage(name) ==
  IF ValidateAgentPackage(bundle) THEN Named(bundle.agents, {name}) ELSE {}

-----------------------------------------------------------------------------
(* Running.                                                                *)

Scope(scope) == IF trusted THEN scope ELSE "user"

\* The agents offered to one that runs.
Offered(agent) ==
  {p \in AgentDefinitionsAt(Scope("both")) : CanDelegateTo(agent, p)}

Packaged(agent) == agent.from = "bundle"

\* What runAgent asks for before the first turn.
Starts(agent, depth) ==
  /\ depth <= MaxDepth
  /\ agent.prompt # "missing"
  /\ Packaged(agent) => /\ ValidateAgentPackage(bundle)
                        /\ "subagent" \in RequiredTools(agent) => Offered(agent) # {}

Run(agent, scope) == [agent |-> agent, scope |-> scope]

EnterAgent(name, scope) ==
  /\ stack = <<>>
  /\ \E agent \in AgentAt(name, Scope(scope)) :
       Starts(agent, 0) /\ stack' = <<Run(agent, Scope(scope))>>
  /\ UNCHANGED <<embedded, loose, personal, trusted, bundle, refusal, installed>>

\* A packaged agent looks into its package first.
Delegate(name, scope) ==
  LET caller     == stack[Len(stack)]
      own        == IF Packaged(caller.agent) THEN AgentInPackage(name) ELSE {}
      childScope == Scope(IF scope = "caller's" THEN caller.scope ELSE scope)
  IN  /\ stack # <<>>
      /\ "subagent" \in caller.agent.tools /\ name \in NamesOf(Offered(caller.agent))
      /\ \E agent \in IF own # {} THEN own ELSE AgentAt(name, childScope) :
           /\ CanDelegateTo(caller.agent, agent) /\ Starts(agent, Len(stack))
           /\ stack' = Append(stack, Run(agent, childScope))
      /\ UNCHANGED <<embedded, loose, personal, trusted, bundle, refusal, installed>>

Install(scope, patterns) ==
  /\ bundle # None /\ installed = None /\ stack = <<>>
  /\ ValidateAgentPackage(bundle)
  /\ installed' = [scope |-> scope, patterns |-> patterns]
  /\ UNCHANGED <<embedded, loose, personal, trusted, bundle, refusal, stack>>

\* A file of the installed package is deleted.
Damage(name) ==
  /\ installed # None /\ stack = <<>> /\ name \in NamesOf(bundle.agents)
  /\ bundle' = [bundle EXCEPT !.agents = {p \in @ : p.name # name}]
  /\ UNCHANGED <<embedded, loose, personal, trusted, refusal, installed, stack>>

Scopes == {"user", "project", "both"}
ProfileFiles == embedded \cup loose \cup personal

AgentsNext ==
  \/ \E name \in NamesOf(embedded) : BuildAgentPackage(name)
  \/ \E scope \in {"user", "project"}, patterns \in Patterns : Install(scope, patterns)
  \/ \E name \in NamesOf(embedded) : Damage(name)
  \/ \E name \in NamesOf(ProfileFiles), scope \in Scopes : EnterAgent(name, scope)
  \/ \E name \in NamesOf(ProfileFiles), scope \in Scopes \cup {"caller's"} :
       Delegate(name, scope)

AgentsSpec == AgentsInit /\ [][AgentsNext]_agentVars

-----------------------------------------------------------------------------
(* Properties.                                                             *)

\* The builder does not produce a package that its own validation refuses, but
\* for an agent with an allowlist and without the tool to use it, and the
\* package has the entry, and for each agent exactly the delegates it had at
\* the source.
PackageBuilds ==
  /\ refusal = "invalid" =>
       \E p \in Loaded(embedded) : p.delegates # {} /\ "subagent" \notin p.tools
  /\ bundle # None /\ installed = None =>
       \A p \in bundle.agents : \A t \in Loaded(embedded) :
         /\ t.name \in p.delegates <=>
              \E source \in Named(Loaded(embedded), {p.name}) : CanDelegateTo(source, t)
         /\ t.name \in p.delegates => t.name \in NamesOf(bundle.agents)

Level == [main |-> 2, sub |-> 1, meta |-> 0]

\* Every agent was allowed by the one that delegated to it, at most two levels
\* deep; an agent of a package delegates to the package's own; a profile of the
\* project runs only if the project is trusted, and neither one of the project
\* nor one of the user takes the place of an embedded namesake.
DelegationsAllowed ==
  /\ Len(stack) <= 3
  /\ \A i \in DOMAIN stack :
       LET agent == stack[i].agent
       IN  /\ agent.from = "loose" => trusted
           /\ agent.from \in {"loose", "personal"} =>
                agent.name \notin NamesOf(Loaded(embedded))
           /\ Packaged(agent) => ValidateAgentPackage(bundle)
           /\ i > 1 => LET caller == stack[i - 1].agent
                       IN  /\ agent.name \in caller.delegates \/ "*" \in caller.delegates
                           /\ Level[agent.role] < Level[caller.role]
                           /\ Packaged(caller) => Packaged(agent)

\* Both, as one property of the whole.
AgentsAllowed == PackageBuilds /\ DelegationsAllowed
=============================================================================
