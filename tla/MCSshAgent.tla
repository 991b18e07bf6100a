------------------------------ MODULE MCSshAgent ------------------------------
(***************************************************************************)
(* A small instance of SshAgent: two pushes from one shell, one of them    *)
(* through secreq, and an ssh from the same shell that forwards the agent; *)
(* two keys, and fewer permits than connections.                           *)
(***************************************************************************)
EXTENDS SshAgent

CONSTANTS zsh, git, make, self, push, pull, fwd

Shell == Caller(zsh, "zsh", "-zsh", <<>>)
Git == Caller(git, Unknown, "git", <<"push">>)
Make == Caller(make, "make", "secreq", <<>>)
Secreq == Caller(self, "secreq", "secreq", <<>>)

MCProcess == <<Caller(push, "ssh", "ssh", <<"-oForwardAgent", "no", "host">>),
               Caller(pull, "ssh", "ssh", <<"host">>),
               Caller(fwd, "ssh", "ssh", <<"-tA", "host">>)>>
MCAncestry == <<<<Git, Secreq, Shell>>, <<Make, Shell>>, <<Shell>>>>
MCWants == <<{[id |-> "github", data |-> "d1"]},
             {[id |-> "github", data |-> "d1"], [id |-> "github", data |-> "d2"],
              [id |-> "deploy", data |-> "d1"]},
             {[id |-> "deploy", data |-> "d1"]}>>
MCRules == [i \in KeyIds |->
               IF i = "deploy" THEN {"approve", "deny"} ELSE {"none"}]

\* The processes of the instance are as SilentSignStaysInSession is proved for.
ASSUME InstanceAssumption == OneAncestry
===============================================================================
