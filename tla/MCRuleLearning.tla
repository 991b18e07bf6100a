--------------------------- MODULE MCRuleLearning ---------------------------
(* A small instance of RuleLearning. *)
EXTENDS RuleLearning

MCAnswer(module, ctx) == IF module.on \cap ctx.secrets # {} THEN module.says ELSE "pass"

Caller(name, exe) == [name |-> <<name>>, command |-> <<name>>, exe |-> <<exe>>]

Zsh      == <<Caller("zsh", <<Slash, "bin", Slash, "zsh">>)>>
OtherZsh == <<Caller("zsh", <<Slash, "tmp", Slash, "zsh">>)>>

Ask(wrap, argv, callers, cwd, secrets, answers) ==
    [wrap |-> wrap, argv |-> argv, callers |-> callers, cwd |-> cwd, secrets |-> secrets,
     claim |-> <<>>, answers |-> answers]

OneRepo  == Ask("gh", <<"gh", Space, "api", Space, "r", Slash, "x">>, Zsh,
                <<Slash, "oss", Slash, "x">>, {"A"}, {"approve", "deny"})
AllRepos == Ask("gh", <<"gh", Space, "api", Space, "r", Slash, "y">>, OtherZsh,
                <<Slash, "oss">>, {"A", "B"}, {"approve", "abandoned"})
Sign     == Ask("ssh", <<"ssh-sign">>, Zsh, <<Slash>>, {}, {"approve"})
Guest    == [Ask("agent", <<>>, <<>>, <<>>, {"B"}, {"deny+out-of-scope"}) EXCEPT !.claim = <<"zsh">>]

MCAsks == {OneRepo, AllRepos, Sign, Guest}

Logged(ask, decided, version) ==
    [kind |-> "row", ts |-> 1, wrap |-> ask.wrap, argv |-> ask.argv, callers |-> ask.callers,
     cwd |-> ask.cwd, secrets |-> ask.secrets, claim |-> ask.claim, decision |-> decided,
     rule |-> <<>>, approvers |-> NoApprovals, version |-> version,
     refused |-> {}, behind |-> FALSE]

MCFirstLogs == {<<>>, <<Logged(OneRepo, "approve", 1), Newline>>,
                <<Logged(AllRepos, "abandoned", 0), Newline, Logged(OneRepo, "approve", 1), Newline>>}

\* A module that approves signatures.
Signer   == [says |-> Approve, on |-> {"ssh"}, declares |-> <<>>, sound |-> TRUE]
SignRule == [id |-> 1, enabled |-> TRUE, wraps |-> <<>>, trained |-> {"ssh"}, created |-> 0,
             body |-> [kind |-> "wasm", path |-> 1, sha |-> Signer, declared |-> <<>>]]

\* A denial that is switched off, and has a scope that may be refused.
Paused   == [id |-> 2, enabled |-> FALSE, wraps |-> <<{"gh"}>>, trained |-> {}, created |-> 0,
             body |-> [kind |-> "decl", wrap |-> "gh", argv |-> <<>>, ancestor |-> <<>>,
                       cwd |-> <<OneRepo.cwd>>, decide |-> Deny]]

MCFirstRules == {<<SignRule, Paused>>}
MCModules == [i \in {1} |-> Signer]
MCBroken == <<"gh", Bracket>>
=============================================================================
