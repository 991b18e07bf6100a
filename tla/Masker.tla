------------------------------- MODULE Masker -------------------------------
(***************************************************************************)
(* The streaming redactor (mask.rs).  A secret may arrive split over reads *)
(* of the child's output, and one secret may begin another: a position is  *)
(* decided only when no longer secret can still grow from it.  The eight   *)
(* asterisks that stand for a secret are one token here, and are never     *)
(* scanned again.                                                          *)
(***************************************************************************)
EXTENDS Naturals, Sequences, SequencesExt, FiniteSets, FiniteSetsExt

DEFAULT_MASK == "*"

\* Masker::new drops empty values, which would match everywhere.
Redacted(values) == values \ {<<>>}

\* Longest secret at the start of rest, 0 if there is none.
match_at(S, rest) ==
    LET lengths == {Len(s) : s \in {t \in S : IsPrefix(t, rest)}}
    IN  IF lengths = {} THEN 0 ELSE Max(lengths)

is_secret_prefix(S, rest) == \E s \in S : IsStrictPrefix(rest, s)

\* Mutant: a match that is complete is taken although a longer one may follow.
HoldsUnlessMatched(S, rest, eof) ==
    ~eof /\ match_at(S, rest) = 0 /\ is_secret_prefix(S, rest)

HoldsBack(S, rest, eof) == ~eof /\ is_secret_prefix(S, rest)

\* Nothing is left, or the rest is held back.
Stops(S, rest, eof) == rest = <<>> \/ HoldsBack(S, rest, eof)

\* How far one round of the scan goes, and what it emits.
Took(S, rest) == IF match_at(S, rest) > 0 THEN match_at(S, rest) ELSE 1
Emits(S, rest) == IF match_at(S, rest) > 0 THEN DEFAULT_MASK ELSE rest[1]

\* What is emitted of buf, and what is carried over to the next read.
scan(S, buf, eof) ==
    LET from[i \in 1..Len(buf) + 1] ==
          LET rest == SubSeq(buf, i, Len(buf))
              then == from[i + Took(S, rest)]
          IN  IF Stops(S, rest, eof) THEN [out |-> <<>>, carry |-> rest]
              ELSE [out |-> <<Emits(S, rest)>> \o then.out, carry |-> then.carry]
    IN  from[1]

push(S, carry, chunk) ==
    IF S = {} THEN [out |-> chunk, carry |-> <<>>]
    ELSE scan(S, carry \o chunk, FALSE)

finish(S, carry) == IF S = {} THEN <<>> ELSE scan(S, carry, TRUE).out

\* Reference: the stream masked in one piece.
Masked(S, stream) == IF S = {} THEN stream ELSE scan(S, stream, TRUE).out
=============================================================================
