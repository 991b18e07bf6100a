----------------------------- MODULE MCRuleStore -----------------------------
(* Small instances of RuleStore. *)
EXTENDS RuleStore

\* A module answers `says' when the ask names one of its `on' secrets.
MCAnswer(module, ctx) == IF module.on \cap ctx.secrets # {} THEN module.says ELSE "pass"

Mod(says, on, declares, sound) ==
    [says |-> says, on |-> on, declares |-> declares, sound |-> sound]

Approver == Mod(Approve, {"A", "B"}, <<{"A", "B"}>>, TRUE)
Blocker  == Mod(Deny, {"A"}, <<>>, TRUE)
Trapping == Mod("trap", {"A"}, <<{"A"}>>, TRUE)
Unsound  == Mod("pass", {}, <<>>, FALSE)

Decl(id, decide, trained, wraps, argv, ancestor, cwd) ==
    [id |-> id, enabled |-> TRUE, wraps |-> wraps, trained |-> trained,
     body |-> [kind |-> "decl", wrap |-> "gh", argv |-> argv, ancestor |-> ancestor,
               cwd |-> cwd, decide |-> decide]]

Wasm(id, module, trained) ==
    [id |-> id, enabled |-> TRUE, wraps |-> <<>>, trained |-> trained,
     body |-> [kind |-> "wasm", path |-> id, sha |-> module, declared |-> module.declares]]

GhStar == <<"gh", Space, Star>>
Oss    == <<Slash, "oss">>
Cursor == <<"cursor">>

ApproveA     == Decl(1, Approve, {"A"}, <<>>, <<GhStar>>, <<>>, <<>>)
ApproveInOss == Decl(2, Approve, {}, <<>>, <<>>, <<Cursor>>, <<Oss>>)
DenyTypo     == Decl(4, Deny, {}, <<>>, <<<<"gh", Bracket>>>>, <<>>, <<Oss \o <<Slash, "x">>>>)
DenyApi      == Decl(7, Deny, {}, <<{"gh"}>>, <<<<"gh", Space, "api">>>>, <<>>, <<>>)
WasmApprove  == Wasm(5, Approver, {"B"})
WasmBlock    == Wasm(6, Blocker, {})

MCFirstRules ==
    {<<ApproveA, WasmApprove>>, <<DenyTypo, ApproveInOss>>, <<DenyApi, WasmBlock>>}

MCFormRules == {Decl(9, Approve, {"A", "B"}, <<>>, <<>>, <<>>, <<Oss>>),
                [ApproveA EXCEPT !.trained = {"A", "B"}]}

MCHandRules == {Decl(8, Deny, {}, <<{"gone"}>>, <<>>, <<>>, <<>>)}

Caller(name, exe) == [name |-> name, command |-> name, exe |-> exe]

Ctx(kind, verb, callers, cwd, secrets) ==
    [kind |-> kind, wrap |-> "gh", argv |-> <<"gh", Space, verb>>,
     callers |-> callers, cwd |-> cwd, secrets |-> secrets]

InCursor == <<Caller(<<"zsh">>, <<>>), Caller(<<"x">>, <<<<Slash, "cursor", ".app">>>>)>>

MCAsks == {Ctx("wrap", "api", InCursor, <<Slash, "oss", Slash, "x">>, {"A"}),
           Ctx("wrap", "pr", InCursor, Oss, {"A", "B"}),
           Ctx("scoped", "api", <<>>, Oss, {"A"})}

MCNewModules == {Trapping, Unsound}
MCRequests == {{}, {"A", "B"}}
=============================================================================
