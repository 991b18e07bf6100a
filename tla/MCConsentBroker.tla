--------------------------- MODULE MCConsentBroker ---------------------------
(***************************************************************************)
(* Small instances of ConsentBroker: commands of run sessions, and         *)
(* invocations of a wrap from a shell and from an editor.                  *)
(***************************************************************************)
EXTENDS ConsentBroker

CONSTANTS sh, ide, self, s1, s2, x, y

Shell == Caller(sh, "zsh", "zsh", <<>>)
Editor == Caller(ide, "code", "code", <<>>)
Secreq == Caller(self, Unknown, "secreq", <<>>)

Wrapped == [wrap |-> "gh", claim |-> sh, ancestry |-> <<Shell, Editor>>,
            wants |-> {x}, allow_remember |-> TRUE,
            ignore_remembered |-> FALSE, nested_run |-> FALSE,
            rules |-> {"none"}]
Nested == [Wrapped EXCEPT !.wrap = "run", !.claim = s1,
                          !.ancestry = <<Secreq, Shell>>,
                          !.allow_remember = FALSE, !.nested_run = TRUE]

\* Two commands of one run session that want different secrets, one of them
\* perhaps answered by a rule, and a command of another session.
SessionAsks == 1..3
SessionAsk == <<[Nested EXCEPT !.wants = {x, y}],
                [Nested EXCEPT !.rules = {"none", "approve"}],
                [Nested EXCEPT !.claim = s2]>>

\* Three invocations of one wrap, whose declaration was edited in between, so
\* that they want different secrets: from the shell, from the editor with the
\* shell's name on it, and --no-remember from the shell again.
WrapAsks == 1..3
WrapAsk == <<[Wrapped EXCEPT !.wants = {x, y}],
             [Wrapped EXCEPT !.ancestry = <<Editor>>, !.rules = {"none", "deny"}],
             [Wrapped EXCEPT !.wants = {y}, !.allow_remember = FALSE,
                             !.ignore_remembered = TRUE]>>
=============================================================================
