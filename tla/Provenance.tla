------------------------------ MODULE Provenance ------------------------------
(***************************************************************************)
(* Who is asking (provenance.rs): the chain of callers the daemon walks    *)
(* from the pid of a socket's peer, and the process an approval is bound   *)
(* to.  Remembered approvals and ssh grants are keyed by that process, so  *)
(* what is computed here decides how far one approval reaches.             *)
(*                                                                         *)
(* A process is a record: its identity (pid and start time), the file name *)
(* of its executable if the kernel tells, the name it gave itself, and the *)
(* tokens of its command line.                                             *)
(***************************************************************************)
EXTENDS Naturals, Sequences, FiniteSets

CONSTANTS
    SessionFrames,   \* SESSION_FRAMES, with and without the dash of a login shell
    TransportFrames, \* TRANSPORT_FRAMES
    SelfName,        \* the name and the executable of secreq
    Unknown,         \* an executable the kernel does not tell
    MaxChain,        \* MAX_CHAIN: frames that are kept
    MaxWalk,         \* MAX_WALK: processes that are looked at
    MaxDisplay       \* MAX_DISPLAY_CHARS, in tokens

ASSUME ProvenanceAssumption ==
    /\ MaxChain \in Nat \ {0} /\ MaxWalk \in Nat \ {0} /\ MaxDisplay \in Nat
    /\ TransportFrames \cap (SessionFrames \cup {SelfName, Unknown}) = {}

Caller(pid, exe, name, command) ==
    [pid |-> pid, exe |-> exe, name |-> name, command |-> command]

Smaller(m, n) == IF m < n THEN m ELSE n

truncate_at_cluster_edge(text, max) == SubSeq(text, 1, Smaller(max, Len(text)))

\* What the prompt shows of a command line is cut, and the frames of a chain
\* keep the cut form only.
sanitize_display(command) == truncate_at_cluster_edge(command, MaxDisplay)

\* The executable is the kernel's record; a process chooses its name.
frame_identity(p) == IF p.exe # Unknown THEN p.exe ELSE p.name

is_session_frame(p) == frame_identity(p) \in SessionFrames
is_transport_frame(p) == frame_identity(p) \in TransportFrames

\* secreq's own processes, which are no step of who is asking.
is_self_frame(p) ==
    IF p.exe # Unknown THEN p.exe = SelfName ELSE p.name = SelfName

\* The frames among the first n processes.
Kept(ancestry, n) == {i \in 1..n : ~is_self_frame(ancestry[i])}

\* The walk up from the parent of the peer, innermost first.  It ends at the
\* top, after MaxWalk processes, or with MaxChain frames; processes of secreq
\* are looked at and not kept.
walk(ancestry) ==
    LET Enough(n) == n >= MaxWalk \/ Cardinality(Kept(ancestry, n)) >= MaxChain
        stop == CHOOSE n \in 0..Len(ancestry) :
                    /\ n = Len(ancestry) \/ Enough(n)
                    /\ \A i \in 0..(n - 1) : ~Enough(i)
        frame(m) == ancestry[CHOOSE i \in Kept(ancestry, stop) :
                                Cardinality(Kept(ancestry, i)) = m]
    IN  [m \in 1..Cardinality(Kept(ancestry, stop)) |->
            Caller(frame(m).pid, frame(m).exe, frame(m).name,
                   sanitize_display(frame(m).command))]

FirstWith(chain, P(_)) ==
    LET is == {i \in DOMAIN chain : P(chain[i])}
    IN  chain[CHOOSE i \in is : \A j \in is : i <= j]

Has(chain, P(_)) == \E i \in DOMAIN chain : P(chain[i])

\* The nearest shell; without one the first frame that is no ssh; else the last.
select_anchor(chain) ==
    LET NoTransport(p) == ~is_transport_frame(p)
    IN  CASE Has(chain, is_session_frame) -> FirstWith(chain, is_session_frame)
          [] ~Has(chain, is_session_frame) /\ Has(chain, NoTransport) ->
               FirstWith(chain, NoTransport)
          [] OTHER -> chain[Len(chain)]

\* Does a command line ask ssh to forward the agent?  "-tA" stands for a
\* bundle of flags without values that holds an A.
requests_agent_forwarding(command) ==
    \E i \in DOMAIN command :
        \/ command[i] \in {"-A", "-tA"}
        \/ /\ command[i] \in {"ForwardAgent", "-oForwardAgent"}
           /\ i < Len(command) /\ command[i + 1] \in {"yes", "true", "1", "ask"}

Forwards(p) == is_transport_frame(p) /\ requests_agent_forwarding(p.command)

\* Mutant of select_sign_anchor: every sign of a terminal is the terminal's.
select_shell_anchor(peer, chain) == select_anchor(chain).pid

\* The process a sign is bound to: the innermost ssh that forwards the agent,
\* the peer (described from its whole command line) or one behind it; without
\* one the session.  The chain is not empty unless the peer forwards.
select_sign_anchor(peer, chain) ==
    CASE Forwards(peer) -> peer.pid
      [] ~Forwards(peer) /\ Has(chain, Forwards) -> FirstWith(chain, Forwards).pid
      [] OTHER -> select_anchor(chain).pid

\* Mutant of adopted_anchor: the client's word is taken.
claimed_anchor(claim, processes, chain) == claim

\* adopt_peer_provenance: a claim to be asking for a process is replaced by the
\* first frame of the chain; a run session is no process and stays as it is.
adopted_anchor(claim, processes, chain) ==
    IF claim \in processes THEN chain[1].pid ELSE claim
===============================================================================
