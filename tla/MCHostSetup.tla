----------------------------- MODULE MCHostSetup -----------------------------
(***************************************************************************)
(* A small instance of HostSetup: an install from before the first          *)
(* migration, one terminal and one wrapped command.                        *)
(***************************************************************************)
EXTENDS HostSetup

CONSTANT u1

MCFileSeq == <<"config", "rules">>
MCDotSeq == <<"ssh", "rc">>

\* A config that parses, or does not, with rules beside it or alone.
Configs(ok, rules) ==
    [f \in Files |-> IF f = "config" THEN Text(f, 1, ok, {"gh"}, "bin")
                     ELSE IF rules THEN Text(f, 1, TRUE, {}, NoDir) ELSE Nothing]

\* An SSH block under one of its spellings between two lines of the user's.
Wired(sock) ==
    [d \in Dotfiles |->
        IF d = "ssh" THEN <<u1>> \o ssh_block(sock) \o <<Blank, u1>> ELSE <<>>]

\* Beside a block as secreq wrote it, one that 0002 cannot read, which keeps rules
\* and a config waiting until the user spells it out, and one that it passes over,
\* on the way to a config that does not parse.
MCInstalls ==
    {[configs |-> c, dotfiles |-> Wired(sock),
      shims |-> [k \in ShimDirs \X Binaries |-> IF k[1] = "bin" THEN "old" ELSE "none"]] :
        <<c, sock>> \in {<<Configs(TRUE, FALSE), OldUnderHome>>,
                         <<Configs(TRUE, TRUE), OldOdd>>,
                         <<Configs(FALSE, FALSE), OldBraced>>}}

\* A process that is at none of the places that read them has no use for its
\* locals: the next command sets them anew.
Migrating == {"snapshot", "move", "unlink", "link", "record", "read", "repoint",
              "convert", "converted", "stamp"}
Answering == {"prompt", "rescue", "drop", "put", "forward", "level"}
Typing == {"install", "unlist", "path", "shimdir", "wire"}
Locals == <<[p \in {q \in Processes : place[q] \in Migrating} |-> <<at[p], before[p], unread[p]>>],
            [p \in {q \in Processes : place[q] \in Answering} |-> plan[p]],
            IF place[Terminal] \in Typing THEN doing ELSE Idle>>
View == <<disk, level, lock, snaps, saved, sockdir, audit, place, Locals, history,
          bounds, shims>>
=============================================================================
