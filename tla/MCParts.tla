------------------------------ MODULE MCParts ------------------------------
EXTENDS Parts

(* The executions and the devices are only quantified over. *)
PartsSymmetry == Permutations(Executions) \cup Permutations(DeviceIds)

(* RiskPolicy: a capability of each kind of base level and strategy, rules of
   every kind, and commands with and without what the rules ask about. *)
MCDefinitions ==
    [read |-> [base |-> Low, always |-> FALSE, strategy |-> "automatic"],
     delete |-> [base |-> Custom, always |-> FALSE, strategy |-> "none"],
     wipe |-> [base |-> High, always |-> TRUE, strategy |-> "none"]]
MCPolicyRules ==
    {Deny({"delete"}, [Anytime EXCEPT !.resources = {"system"}]),
     Deny({"read", "delete"}, [Anytime EXCEPT !.origins = {"agent"}, !.riskAtLeast = High]),
     RequireClarification({"delete"}, [Anytime EXCEPT !.field = "path"]),
     RequireApproval({"delete"}, [Anytime EXCEPT !.riskAtLeast = High], "none"),
     RequireApproval({"read"}, Anytime, "automatic"),
     RequireVerification({"read"}, [Anytime EXCEPT !.origins = {"agent"}], "none"),
     Allow({"read", "delete"}, Anytime, Low),
     Allow({"delete"}, [Anytime EXCEPT !.resources = {"home"}], Critical),
     Override({"read"}, Anytime)}
MCClarifyRules ==
    {[capability |-> "delete", field |-> "path", accepts |-> {"given"}],
     [capability |-> "delete", field |-> "path", accepts |-> {"given", "absent"}]}
MCContexts ==
    [origin : {"agent", "local"}, sensitivity : {"none", "critical"},
     impacts : {{}, {"irreversible", "system"}}]
MCCommands ==
    {[capability |-> cap, origin |-> o, resource |-> r, context |-> x, claimed |-> k,
      input |-> IF r = "home" THEN [path |-> "given"] ELSE <<>>, valid |-> TRUE] :
        cap \in DOMAIN MCDefinitions, r \in {"home", "system"}, k \in {Low, Critical, Unclaimed},
        o \in {"local", "agent"}, x \in MCContexts}

(* McpPolicy: two tools of one server, tenants, and every mix of words. *)
MCTools == {"files/read", "files/delete"}
MCInvocations ==
    [tool : MCTools, server : {"files"}, tenant : {"none", "acme", "other"}, transport : {"http"},
     words : SUBSET {"destructive", "writing", "reading", "administrative"},
     baseline : {"low"}, verified : {TRUE}]
DenyTenant == [instrument |-> "tenant", pattern |-> {"acme"}, allow |-> FALSE]
DenyTool == [instrument |-> "tool", pattern |-> {"files/delete"}, allow |-> FALSE]
AllowServer == [instrument |-> "server", pattern |-> {"files"}, allow |-> TRUE]
NoTools == [op \in Operations |-> {}]
MCMcpPolicies ==
    [rules : {<<>>, <<DenyTenant>>, <<AllowServer, DenyTenant>>, <<DenyTenant, DenyTool>>,
              <<AllowServer, DenyTool>>},
     allowed : {<<>>, [read |-> MCTools], [read |-> {"files/read"}, write |-> {"files/delete"}],
                [op \in {"read", "write", "admin", "credential"} |-> MCTools]},
     denied : {NoTools, [NoTools EXCEPT !["write"] = MCTools]},
     explicitAdmin : BOOLEAN, explicitWrite : BOOLEAN,
     transports : {{"in-memory", "stdio"}, {"in-memory", "stdio", "http"}},
     gates : {<<>>, [tenant |-> {"acme"}]}]

(* ToolSchema: a field of every shape, alone or with others, and values that
   fit, that miss by one, and of another kind. *)
Scalar(kind, size) ==
    [kind |-> kind, size |-> size, whole |-> TRUE, items |-> <<>>, fields |-> <<>>]
Short == Scalar("string", 1)
One == Scalar("number", 1)
Nothing == Scalar("null", 0)
List(items) == [Scalar("array", 0) EXCEPT !.items = items]
Object(fields) == [Scalar("object", 0) EXCEPT !.fields = fields]
MCScalars == {Short, Scalar("string", 3), One, Scalar("number", 3), [One EXCEPT !.whole = FALSE],
              Scalar("boolean", 0), Nothing}
MCLists == {List(<<>>), List(<<Short>>), List(<<One, Nothing>>)}
MCToolArguments ==
    {Short, Nothing, Object(<<>>), Object([toString |-> Short]), Object([constructor |-> Short])}
      \cup {Object(f) : f \in [{"path"} -> MCScalars \cup MCLists \cup {Object([path |-> Short])}]}
      \cup {Object(f) : f \in [{"path", "extra"} -> {Short, One}]}
MCFields ==
    {[type |-> "string"], [type |-> "string", maxLength |-> 1, minLength |-> 1],
     [type |-> "string", pattern |-> {3}, nullable |-> TRUE], [type |-> "string", enum |-> {Short}],
     [type |-> "integer", min |-> 2], [type |-> "number", max |-> 2, enum |-> {Nothing}],
     [type |-> "boolean", enum |-> {Scalar("boolean", 0)}], [type |-> "null"], [type |-> "any"],
     [type |-> "date"], [type |-> "array"], [type |-> "array", tuple |-> TRUE],
     [type |-> "array", items |-> [type |-> "string"], maxItems |-> 1],
     [type |-> "array", items |-> [type |-> "null"], minItems |-> 1],
     [type |-> "object"], [type |-> "object", additional |-> [type |-> "string"]],
     [type |-> "object", properties |-> [path |-> [type |-> "number"]]],
     [types |-> {"string", "null"}], [types |-> {"integer", "number"}], [types |-> {"date"}],
     [enum |-> {Short, One}], [enum |-> {Short}, nullable |-> TRUE],
     [const |-> One, type |-> "string"], [const |-> Short, nullable |-> TRUE],
     [anyOf |-> <<[type |-> "string"], [type |-> "number"]>>],
     [anyOf |-> <<[type |-> "string", maxLength |-> 1]>>], [allOf |-> <<>>], [description |-> 0]}
MCRawSchemas ==
    {[type |-> "object", properties |-> [path |-> f]] @@ required @@ others :
        f \in MCFields, required \in {<<>>, [required |-> {"path"}]},
        others \in {<<>>, [additionalProperties |-> "true"], [additional |-> [type |-> "number"]]}}
      \cup {[properties |-> [path |-> f], required |-> {"path"}] : f \in MCFields}
      \cup {[properties |-> [path |-> [type |-> "any"]]] @@ more :
                more \in {[additionalProperties |-> "true"], [additional |-> [type |-> "number"]],
                         [enum |-> {Object(<<>>)}], [not |-> <<>>]}}
      \cup {[type |-> "object", properties |-> [f \in names |-> [type |-> "any"]]] :
                names \in {{"constructor"}, {"path", "extra", "more"}}}
      \cup {[type |-> "string"], <<>>, [unreadable |-> TRUE]}

(* CredentialVault: one server; every way to leave a scope's fields out. *)
MCScopes == [server : {"files"}, agent : {"none", "a"}, tool : {"none", "t"},
             tenant : {"none", "acme", "other"}]

(* Sandbox: a tree with links, nested directories and a file; what is granted
   lies beside, above, beneath or under another name of what else is granted. *)
Docs == <<"home", "docs">>
Drafts == <<"home", "docs", "drafts">>
Link == <<"home", "link">>
Note == <<"home", "note">>
Work == <<"tmp", "work">>
MCWorkspace == <<"home", "box">>  \* a link to it
MCTmp == <<"tmp">>
Kept == <<"tmp", "work", "kept">>
MCDirectories == {<<>>, <<"home">>, Docs, Drafts, MCTmp, Work, Kept, <<"usr">>}
MCDisk ==
    [p \in MCDirectories \cup {Link, MCWorkspace, Note} |->
        [real |-> IF p = Link THEN Docs ELSE IF p = MCWorkspace THEN Work ELSE p,
         directory |-> p # Note]]
MCPaths == (DOMAIN MCDisk \ {Link, MCWorkspace}) \cup {Append(d, "new") : d \in MCDirectories}
MCSystemDirs == [p \in {"darwin", "linux"} |-> IF p = "darwin" THEN {<<"usr">>, MCTmp} ELSE {<<"usr">>}]
Files(read, write) ==
    [read |-> read, write |-> write, network |-> "none", allow |-> <<>>, deny |-> {}]
MCSandboxSpecs ==
    {Files({}, {}), Files({Docs}, {Drafts}), Files({Drafts}, {Docs}), Files({Docs}, {Link}),
     Files({Kept}, {}), Files({Docs, Kept}, {<<"home">>, Kept}), Files({Note}, {}),
     Files({}, {<<"home", "missing">>}), Files({<<"home">>, Drafts}, {Docs}),
     [Files({}, {}) EXCEPT !.network = "allow"],
     [Files({}, {}) EXCEPT !.allow = <<"Path", "TOKEN", "lang">>, !.deny = {"path", "HOME"}],
     [Files({Link}, {}) EXCEPT !.allow = <<"path", "Token">>, !.deny = {"LANG"}]}
MCExtraNames == {<<"Path", "PATH", "TOKEN", "lang", "HOME">>}
MCFolded ==
    [PATH |-> "path", Path |-> "path", path |-> "path", TOKEN |-> "token", Token |-> "token",
     LANG |-> "lang", lang |-> "lang", HOME |-> "home", TMPDIR |-> "tmpdir"]
=============================================================================
