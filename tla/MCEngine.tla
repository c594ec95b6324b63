-------------------------------- MODULE MCEngine --------------------------------
(***************************************************************************)
(* Small instances of the engine's modules for TLC.  They share no state:  *)
(* a behaviour is one of the module that focus names, the others rest, so  *)
(* that one run checks the sum of the instances and not their product.     *)
(***************************************************************************)
EXTENDS AgentSession, Packages, Delegation, ProviderStream, Todos, Settings, AgentPackages,
        SessionTree, Forks, FileEdits, FilePages

CONSTANTS c1, c2, f1, w1, w2

ByName == [c \in Controls |-> IF c \in {c1, c2} THEN "steer" ELSE "follow_up"]

VARIABLES
  focus,
  schema, arguments, prepared, checked

tool == <<schema, arguments, prepared, checked>>

-----------------------------------------------------------------------------
(* The session: runs of several executions with answers of several calls,  *)
(* to which nobody sends a control; and such with one answer of one call   *)
(* at most, to which users send up to three.                               *)

SmallAnswers == [calls : 0..1, dangerous : {{}}, mode : {"parallel"}]
Quiet == sent' = {}
Sociable ==
  /\ starts' <= 2 /\ starts' + Cardinality(sent') <= 4
  /\ c2 \in sent' => c1 \in sent'
  /\ \A i \in DOMAIN answers' : answers'[i] \in SmallAnswers

-----------------------------------------------------------------------------
(* The session tree: every message is one token.                           *)

OneToken == [kind \in {"user", "assistant", "tool", "custom_message"} |-> 1]
Few == [kind \in {"user", "assistant", "tool", "custom_message", "branch_summary",
                  "compaction", "note"} |->
          CASE kind \in {"user", "assistant"} -> 3
            [] kind = "compaction" -> 2
            [] OTHER -> 1]

-----------------------------------------------------------------------------
(* Edits of small files with both line ends, blanks and quotes.            *)

Contents ==
  {<<"x", "blank", "lf", "x">>, <<"curly", "x", "blank", "crlf", "blank", "x">>,
   <<"x", "x", "x">>, <<"blank", "x", "lf">>, <<"x", "curly", "quote">>, <<>>,
   <<"quote", "blank", "blank", "lf", "curly", "x">>, <<"x", "crlf", "y", "lf", "x">>,
   <<"bom", "curly", "cr", "x", "lf">>, <<"bom", "x", "cr", "crlf", "blank">>}
OldTexts ==
  {<<"x">>, <<"x", "x">>, <<"quote">>, <<"quote", "x">>, <<"x", "blank">>, <<"x", "lf">>,
   <<"blank", "x">>, <<"lf">>, <<"x", "lf", "x">>, <<"blank", "blank">>, <<"y">>,
   <<"quote", "cr", "x">>, <<"bom", "x">>}
Replacement(old, new) == [old |-> old, new |-> new]
Replacements ==
  {<<Replacement(old, new)>> : old \in OldTexts, new \in {<<>>, <<"y">>}}
    \cup {<<Replacement(old, <<"y">>), Replacement(other, <<>>)>> :
            old \in OldTexts, other \in OldTexts}
EditCall(list)     == [tool |-> "edit", edits |-> list, content |-> <<>>]
WriteCall(content) == [tool |-> "write", edits |-> <<>>, content |-> content]
EditBatches ==
  {[c \in {"one", "other"} |-> IF c = "one" THEN EditCall(list) ELSE other] :
     list \in Replacements,
     other \in {EditCall(<<Replacement(<<"x">>, <<"y", "x">>)>>), WriteCall(<<"x", "lf">>)}}

-----------------------------------------------------------------------------
(* Files of up to five lines of up to three bytes, two of each in a page.  *)

SmallFiles == UNION {[1..n -> 0..3] : n \in 1..5}

-----------------------------------------------------------------------------
(* Objects with one property of any atom, and schemas of every form for it.*)

Atom(type, printed) == [type |-> type, text |-> printed, members |-> <<>>]
Object(members)     == [type |-> "object", text |-> "", members |-> members]
AnyValue == [types |-> <<>>, allOf |-> <<>>, anyOf |-> <<>>, oneOf |-> <<>>, not |-> <<>>,
        allowed |-> {}, properties |-> <<>>, required |-> {}, closed |-> FALSE,
        items |-> <<>>]
Of(type) == [AnyValue EXCEPT !.types = <<type>>]

Types == {"null", "boolean", "string", "number", "integer"}
Atoms == {Atom("null", "")} \cup {Atom("boolean", b) : b \in {"true", "false"}}
           \cup {Atom("number", n) : n \in {"0", "1", "0.5", "1.0", "1e3",
                                            "9007199254740993"}}
           \cup {Atom("string", s) : s \in {"", "x", "true", "0", "1", "0.5", "1.0", "+1", "1e3",
                                            "9007199254740993", "Inf"}}
Leaves ==
  {AnyValue, [Of("string") EXCEPT !.allowed = {Atom("string", "x"), Atom("string", "1")}],
   [Of("number") EXCEPT !.allowed = {Atom("number", "1"), Atom("number", "9007199254740992")}],
   [Of("integer") EXCEPT !.not = <<[AnyValue EXCEPT !.allowed = {Atom("number", "0")}]>>],
   [AnyValue EXCEPT !.allOf = <<Of("string"),
                               [AnyValue EXCEPT !.allowed = {Atom("string", "1")}]>>],
   [Of("array") EXCEPT !.items = <<Of("integer")>>]}
  \cup {Of(t) : t \in Types}
  \cup {[AnyValue EXCEPT !.types = <<t, u>>] : t \in Types, u \in Types}
  \cup {[AnyValue EXCEPT !.anyOf = <<Of(t), Of(u)>>] : t \in Types, u \in Types}
  \cup {[AnyValue EXCEPT !.oneOf = <<Of(t), Of(u)>>] : t \in Types, u \in Types}
EditSchema ==
  [Of("object") EXCEPT !.required = {"edits"}, !.closed = TRUE,
     !.properties = [edits |-> [Of("array") EXCEPT !.items = <<[Of("object") EXCEPT
       !.properties = [oldText |-> Of("string"), newText |-> Of("string")],
       !.required = {"oldText", "newText"}]>>]]]

Tool == INSTANCE ToolArguments
          WITH Schemas <- {[Of("object") EXCEPT !.properties = [k |-> s], !.required = {"k"},
                                                !.closed = c] : s \in Leaves, c \in BOOLEAN}
                            \cup {EditSchema},
               Arguments <- {Object([k |-> a]) : a \in Atoms}
                              \cup {Object([k |-> a, l |-> a]) : a \in Atoms}
                              \cup {Object([k |-> [type |-> "array", text |-> "",
                                                   members |-> <<a, a>>]]) : a \in Atoms}
                              \cup {Object([oldText |-> a, newText |-> Atom("string", "x")]) :
                                      a \in Atoms},
               stage <- checked

-----------------------------------------------------------------------------
(* Profiles: a chief that delegates to everybody, to one and to two, with  *)
(* a scout of every form and an aide; namesakes outside the resource root. *)

ProfileOf(name, role, tools, optional, delegates, prompt, from) ==
  [name |-> name, role |-> role, tools |-> tools, optional |-> optional,
   delegates |-> delegates, prompt |-> prompt, from |-> from]
Delegating == {"read", "subagent"}
Chiefs == {ProfileOf("chief", "main", Delegating, {}, delegates, "default", "embedded") :
             delegates \in {{"*"}, {"scout"}, {"scout", "aide"}}}
            \cup {ProfileOf("chief", "main", {"read"}, {}, {"scout"}, "default", "embedded")}
Scouts == {ProfileOf("scout", role, Delegating, optional, delegates, "own", "embedded") :
             role \in {"none", "main"}, optional \in {{}, {"subagent"}},
             delegates \in {{}, {"*"}, {"aide"}}}
            \cup {ProfileOf("scout", "none", {"read"}, optional, {}, prompt, "embedded") :
                    optional \in {{}, {"subagent"}}, prompt \in {"own", "missing"}}
            \cup {ProfileOf("scout", "none", Delegating, {}, {"nobody"}, "own", "embedded")}
Aides  == {ProfileOf("aide", "meta", {"read"}, {}, delegates, "default", "embedded") :
             delegates \in {{}, {"chief"}}}
Stray(name, from) == ProfileOf(name, "none", {"read"}, {}, {}, "own", from)
PatternsOf(includes, excludes, forced, barred) ==
  [includes |-> includes, excludes |-> excludes, forced |-> forced, barred |-> barred]

SmallCatalogs == {{c, s, a} : c \in Chiefs, s \in Scouts, a \in Aides}
SmallLoose    == {{}, {Stray("scout", "loose"), Stray("tester", "loose")}}
SmallPersonal == {{Stray("scout", "personal"), Stray("tester", "personal")}}
SmallPatterns == {PatternsOf({}, {}, {}, {}), PatternsOf({}, {"scout"}, {"aide"}, {"chief"})}

-----------------------------------------------------------------------------
(* Forks of a session and of its forks.                                    *)

ForkOf(key, source, entry, position, id) ==
  [key |-> key, source |-> source, target |-> entry, position |-> position, id |-> id]
AskedWith(key) == {ForkOf(key, source, entry, position, id) :
                     source \in {"s0", "k1"}, entry \in {0, 2}, position \in {"at", "before"},
                     id \in {"none", "s1"}}
TwoAsked == {[r \in {"first", "second"} |-> IF r = "first" THEN a ELSE b] :
               a \in AskedWith("k1"), b \in AskedWith("k1") \cup AskedWith("k2")}

-----------------------------------------------------------------------------
(* The sum.  A module that rests is in its initial state, or in one of     *)
(* them; those of the instances above, in a state of their own.            *)

PackagesRest == /\ before = {}
                /\ \A w \in Workers : call[w] = [operation |-> "package_install",
                                                 source |-> "npm", process |-> "p1"]
ChildrenRest == mode = "single"
StreamRests  == provider = "openai"
ChoicesRest  == command = [model |-> "a", level |-> Unset, tools |-> Unset, plan |-> Unset]
EditsRest    == /\ file = <<>>
                /\ request = [c \in {"one", "other"} |->
                                IF c = "one" THEN EditCall(<<Replacement(<<"x">>, <<>>)>>)
                                ELSE WriteCall(<<"x", "lf">>)]
PagesRest    == lines = <<1>>
ToolRests    == schema = 0 /\ arguments = 0 /\ prepared = 0 /\ checked = 0
ProfilesRest == loose = {} /\ trusted /\ embedded = CHOOSE c \in SmallCatalogs : TRUE
ForksRest    == body = [r \in {"first", "second"} |-> ForkOf("k1", "s0", 0, "at", "none")]

EngineInit ==
  /\ focus \in {"session", "queues", "tree", "edits", "pages", "tool", "packages",
                 "children", "stream", "profiles", "todos", "forks", "settings"}
  /\ Init /\ TreeInit
  /\ PackagesInit   /\ (focus # "packages" => PackagesRest)
  /\ DelegationInit /\ (focus # "children" => ChildrenRest)
  /\ StreamInit     /\ (focus # "stream"   => StreamRests)
  /\ TodosInit
  /\ SettingsInit   /\ (focus # "settings" => ChoicesRest)
  /\ AgentsInit     /\ (focus # "profiles" => ProfilesRest)
  /\ (focus # "edits" => EditsRest) /\ EditInit
  /\ (focus # "pages" => PagesRest) /\ PagesInit
  /\ (focus # "forks" => ForksRest) /\ ForksInit
  /\ IF focus = "tool" THEN Tool!ArgumentsInit ELSE ToolRests

EngineNext ==
  /\ UNCHANGED focus
  /\ \/ focus = "session" /\ Next /\ Quiet
        /\ UNCHANGED <<packageVars, delegationVars, streamVars, todoVars, settingsVars,
                       treeVars, editVars, pageVars, tool, agentVars, forkVars>>
     \/ focus = "queues" /\ Next /\ Sociable
        /\ UNCHANGED <<packageVars, delegationVars, streamVars, todoVars, settingsVars,
                       treeVars, editVars, pageVars, tool, agentVars, forkVars>>
     \/ focus = "packages" /\ PackagesNext
        /\ UNCHANGED <<vars, delegationVars, streamVars, todoVars, settingsVars,
                       treeVars, editVars, pageVars, tool, agentVars, forkVars>>
     \/ focus = "children" /\ DelegationNext
        /\ UNCHANGED <<vars, packageVars, streamVars, todoVars, settingsVars,
                       treeVars, editVars, pageVars, tool, agentVars, forkVars>>
     \/ focus = "stream" /\ StreamNext
        /\ UNCHANGED <<vars, packageVars, delegationVars, todoVars, settingsVars,
                       treeVars, editVars, pageVars, tool, agentVars, forkVars>>
     \/ focus = "todos" /\ TodosNext
        /\ UNCHANGED <<vars, packageVars, delegationVars, streamVars, settingsVars,
                       treeVars, editVars, pageVars, tool, agentVars, forkVars>>
     \/ focus = "settings" /\ SettingsNext
        /\ UNCHANGED <<vars, packageVars, delegationVars, streamVars, todoVars,
                       treeVars, editVars, pageVars, tool, agentVars, forkVars>>
     \/ focus = "tree" /\ TreeNext
        /\ UNCHANGED <<vars, packageVars, delegationVars, streamVars, todoVars, settingsVars,
                       editVars, pageVars, tool, agentVars, forkVars>>
     \/ focus = "edits" /\ EditNext
        /\ UNCHANGED <<vars, packageVars, delegationVars, streamVars, todoVars, settingsVars,
                       treeVars, pageVars, tool, agentVars, forkVars>>
     \/ focus = "pages" /\ PagesNext
        /\ UNCHANGED <<vars, packageVars, delegationVars, streamVars, todoVars, settingsVars,
                       treeVars, editVars, tool, agentVars, forkVars>>
     \/ focus = "tool" /\ Tool!validateToolCall
        /\ UNCHANGED <<vars, packageVars, delegationVars, streamVars, todoVars, settingsVars,
                       treeVars, editVars, pageVars, agentVars, forkVars>>
     \/ focus = "profiles" /\ AgentsNext
        /\ UNCHANGED <<vars, packageVars, delegationVars, streamVars, todoVars, settingsVars,
                       treeVars, editVars, pageVars, tool, forkVars>>
     \/ focus = "forks" /\ ForksNext
        /\ UNCHANGED <<vars, packageVars, delegationVars, streamVars, todoVars, settingsVars,
                       treeVars, editVars, pageVars, tool, agentVars>>

EngineSpec ==
  EngineInit /\
  [][EngineNext]_<<focus, vars, packageVars, delegationVars, streamVars, todoVars, settingsVars,
                   treeVars, editVars, pageVars, tool, agentVars, forkVars>>

\* The property of the instance of ToolArguments.
ArgumentsKept == focus = "tool" => Tool!ArgumentsKept
=============================================================================
