---------------------------- MODULE ManagedBlocks ----------------------------
(***************************************************************************)
(* The sentinel-bracketed blocks secreq keeps in files that belong to the   *)
(* user: the SSH-agent block in ~/.ssh/config or a shell rc                 *)
(* (ssh_setup.rs) and the PATH block in a shell rc (path_setup.rs).         *)
(*                                                                         *)
(* A dotfile is a sequence of lines.  A line is a sentinel, the one line a  *)
(* block holds, a blank line, or a line of the user's.  Contents are valid  *)
(* UTF-8 and end with a newline.  A line is without its terminator: strip   *)
(* and replace split with str::lines and join with LF, which ends the       *)
(* user's own lines of a CRLF file in LF.                                  *)
(***************************************************************************)
EXTENDS Sequences, SequencesExt, Naturals

CONSTANT UserLines   \* lines the user wrote, opaque

\* ssh_setup's and path_setup's sentinels.
SshBegin == "ssh>>>"
SshEnd == "<<<ssh"
PathBegin == "path>>>"
PathEnd == "<<<path"
PathLine == "prepend shims"
Blank == ""

\* The socket line of an SSH block: the socket of before migration 0002 or the
\* one the daemon listens on today, spelled absolutely, through $HOME or ~ the
\* way `ssh setup` writes it, or edited by hand: expand_home_tokens knows neither
\* the ~ without its quote, nor the braces.
OldAbsolute == "old"
OldUnderHome == "~/old"
OldOdd == "unquoted ~/old"
OldBraced == "${HOME}/old"
NewAbsolute == "new"
NewUnderHome == "~/new"
OldSpellings == {OldAbsolute, OldUnderHome, OldOdd, OldBraced}
SocketLines == OldSpellings \cup {NewAbsolute, NewUnderHome}

\* What the user writes is none of it.
ASSUME UserLinesAssumption ==
    UserLines \cap (SocketLines \cup {SshBegin, SshEnd, PathBegin, PathEnd, PathLine,
                                     Blank}) = {}

\* ssh_config_block and shell_rc_block.
ssh_block(sock) == <<SshBegin, sock, SshEnd>>
\* format_block
path_block == <<PathBegin, PathLine, PathEnd>>

\* The lines before the managed block, the block and the lines after it; no
\* block without both sentinels.
split_around_block(ls) ==
    LET begins == {i \in DOMAIN ls : ls[i] = SshBegin}
        begin == Min(begins)
        ends == {i \in DOMAIN ls : begin <= i /\ ls[i] = SshEnd}
        end == Min(ends)
    IN  IF begins = {} \/ ends = {} THEN <<>>
        ELSE <<SubSeq(ls, 1, begin - 1), SubSeq(ls, begin, end),
               SubSeq(ls, end + 1, Len(ls))>>

\* existing_block and block_in_file: the block, or nothing.
existing_block(ls) ==
    LET s == split_around_block(ls) IN IF s = <<>> THEN <<>> ELSE s[2]

HasBlock(ls) == existing_block(ls) # <<>>

\* Mutant: everything from the begin sentinel on goes.
StripToTheEnd(ls) ==
    LET s == split_around_block(ls) IN IF s = <<>> THEN ls ELSE s[1]

\* The file without its block and without one blank line after it.
strip_block(ls) ==
    LET s == split_around_block(ls)
        after == IF s[3] # <<>> /\ s[3][1] = Blank THEN Tail(s[3]) ELSE s[3]
    IN  IF s = <<>> THEN ls ELSE s[1] \o after

\* The file with its block swapped in place; itself when it has none.
replace_block(ls, block) ==
    LET s == split_around_block(ls)
    IN  IF s = <<>> THEN ls ELSE s[1] \o block \o s[3]

\* Blocks are compared by the path they mean.
expand_home_tokens(block) ==
    [i \in DOMAIN block |->
        CASE block[i] = OldUnderHome -> OldAbsolute
          [] block[i] = NewUnderHome -> NewAbsolute
          [] OTHER -> block[i]]

block_state(ls, want) ==
    CASE ~HasBlock(ls) -> "Absent"
      [] HasBlock(ls)
         /\ expand_home_tokens(existing_block(ls)) = expand_home_tokens(want)
            -> "UpToDate"
      [] OTHER -> "Stale"

\* apply_ssh_config prepends (ssh takes the first IdentityAgent it reads).
apply_ssh_config(ls, block) ==
    IF ls = <<>> THEN block ELSE block \o <<Blank>> \o ls

\* apply_shell_rc appends.
apply_shell_rc(ls, block) == ls \o block

\* ssh_setup::apply, by the state its plan found.
ssh_apply(ls, state, method, block) ==
    CASE state = "UpToDate" -> ls
      [] state = "Stale" -> replace_block(ls, block)
      [] state = "Absent" /\ method = "SshConfig" -> apply_ssh_config(ls, block)
      [] state = "Absent" /\ method = "ShellRc" -> apply_shell_rc(ls, block)

\* path_setup::plan's already_configured and path_setup::apply.
path_configured(ls) == \E i \in DOMAIN ls : ls[i] = PathBegin
path_apply(ls, configured) == IF configured THEN ls ELSE ls \o path_block

\* What the user reads of a file of theirs.
OwnText(ls) ==
    LET read[n \in 0..Len(ls)] ==
            IF n = 0 THEN <<>>
            ELSE IF ls[n] \in UserLines THEN Append(read[n - 1], ls[n])
            ELSE read[n - 1]
    IN  read[Len(ls)]

\* Lines outside a block, and all lines.
PlainLines == UserLines \cup {Blank, PathBegin, PathEnd, PathLine}
Lines == PlainLines \cup SocketLines \cup {SshBegin, SshEnd}

\* A dotfile whose sentinels nobody tampered with: one SSH block or none.
WellFormed(ls) ==
    LET s == split_around_block(ls)
    IN  /\ ls \in Seq(Lines)
        /\ IF s = <<>> THEN ls \in Seq(PlainLines)
           ELSE /\ s[1] \in Seq(PlainLines) /\ s[3] \in Seq(PlainLines)
                /\ \E sock \in SocketLines : s[2] = ssh_block(sock)
=============================================================================
