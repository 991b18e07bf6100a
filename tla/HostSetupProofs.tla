-------------------------- MODULE HostSetupProofs --------------------------
(***************************************************************************)
(* Proofs about the files secreq shares with the user, for any number of   *)
(* config files, dotfiles, processes, kills and saves: the migrations and   *)
(* their restore (Migrations), the blocks in the dotfiles (ManagedBlocks)   *)
(* and the commands typed in one terminal (HostSetup).                     *)
(*                                                                         *)
(* The user's lines survive every block operation; a stamped level is a     *)
(* finished one; every shim has its wrap; and no version the user wrote     *)
(* disappears from the disk.                                               *)
(***************************************************************************)
EXTENDS HostSetup, NaturalsInduction, WellFoundedInduction, SequenceTheorems, TLAPS

\* A set of naturals has a least element: < is well-founded.
LEMMA LeastNatural ==
    ASSUME NEW T, T \subseteq Nat, T # {}
    PROVE  \E n \in T : \A m \in T : n <= m
<1>1. IsWellFoundedOn({p \in Nat \X Nat : p[1] < p[2]}, Nat)
  BY NatLessThanWellFounded DEF OpToRel
<1>2. PICK n \in T : \A m \in T : <<m, n>> \notin {p \in Nat \X Nat : p[1] < p[2]}
  BY <1>1, WFMin, Zenon
<1>3. ASSUME NEW m \in T PROVE n <= m
  <2>1. <<m, n>> \notin {p \in Nat \X Nat : p[1] < p[2]}
    BY <1>2
  <2>2. ~(m < n)
    BY <2>1
  <2>3. m \in Nat /\ n \in Nat
    OBVIOUS
  <2>. QED  BY <2>2, <2>3
<1>. QED  BY <1>3

-----------------------------------------------------------------------------
(* The user's lines of a dotfile. *)

\* What the first n lines say, for every n.
Reads(g, ls, n) ==
    /\ g = [m \in 0..n |-> g[m]]
    /\ g[0] = <<>>
    /\ \A m \in 1..n : g[m] = IF ls[m] \in UserLines THEN Append(g[m - 1], ls[m])
                              ELSE g[m - 1]

\* There is such a function.
LEMMA ReadsExists ==
    ASSUME NEW ls, NEW n \in Nat
    PROVE  \E g : Reads(g, ls, n)
<1>. DEFINE T == {k \in Nat : ~\E g : Reads(g, ls, k)}
<1>1. ASSUME T # {} PROVE FALSE
  <2>1. PICK k \in T : \A m \in T : k <= m
    BY <1>1, LeastNatural
  <2>2. CASE k = 0
    <3>. DEFINE g == [m \in 0..0 |-> <<>>]
    <3>1. Reads(g, ls, 0)
      BY DEF Reads
    <3>. QED  BY <2>2, <3>1
  <2>3. CASE k # 0
    <3>1. k \in Nat /\ k - 1 \in Nat /\ ~(k <= k - 1)
      BY <2>3
    <3>2. PICK g : Reads(g, ls, k - 1)
      BY <2>1, <3>1
    <3>. DEFINE last == IF ls[k] \in UserLines THEN Append(g[k - 1], ls[k]) ELSE g[k - 1]
                h == [m \in 0..k |-> IF m = k THEN last ELSE g[m]]
    <3>. HIDE DEF last
    <3>3. h = [m \in 0..k |-> h[m]] /\ h[0] = <<>>
      BY <2>3, <3>1, <3>2 DEF Reads
    <3>4. ASSUME NEW m \in 1..k
          PROVE  h[m] = IF ls[m] \in UserLines THEN Append(h[m - 1], ls[m]) ELSE h[m - 1]
      <4>1. CASE m = k
        <5>1. h[m] = last /\ h[m - 1] = g[k - 1]
          BY <3>1, <4>1
        <5>. QED  BY <4>1, <5>1 DEF last
      <4>2. CASE m # k
        <5>1. m \in 1..(k - 1) /\ h[m] = g[m] /\ h[m - 1] = g[m - 1]
          BY <3>1, <4>2
        <5>2. g[m] = IF ls[m] \in UserLines THEN Append(g[m - 1], ls[m]) ELSE g[m - 1]
          BY <3>2, <5>1 DEF Reads
        <5>. QED  BY <5>1, <5>2
      <4>. QED  BY <4>1, <4>2
    <3>. HIDE DEF h
    <3>5. Reads(h, ls, k)
      BY <3>3, <3>4 DEF Reads
    <3>. QED  BY <3>5
  <2>. QED  BY <2>2, <2>3
<1>2. n \notin T
  BY <1>1
<1>. QED  BY <1>2

\* OwnText is its last value.
LEMMA OwnTextReads ==
    ASSUME NEW S, NEW ls \in Seq(S)
    PROVE  \E g : Reads(g, ls, Len(ls)) /\ OwnText(ls) = g[Len(ls)]
<1>. DEFINE upto(g) == g = [n \in 0..Len(ls) |->
                               IF n = 0 THEN <<>>
                               ELSE IF ls[n] \in UserLines THEN Append(g[n - 1], ls[n])
                               ELSE g[n - 1]]
            read == CHOOSE g : upto(g)
<1>1. OwnText(ls) = read[Len(ls)]
  BY Zenon DEF OwnText
<1>2. PICK h : Reads(h, ls, Len(ls))
  <2>1. Len(ls) \in Nat
    OBVIOUS
  <2>. QED  BY <2>1, ReadsExists, Zenon
<1>3. upto(h)
  <2>1. h = [m \in 0..Len(ls) |-> h[m]]
    BY <1>2 DEF Reads
  <2>2. ASSUME NEW n \in 0..Len(ls)
        PROVE  h[n] = IF n = 0 THEN <<>>
                      ELSE IF ls[n] \in UserLines THEN Append(h[n - 1], ls[n])
                      ELSE h[n - 1]
    <3>1. n = 0 \/ n \in 1..Len(ls)
      OBVIOUS
    <3>. QED  BY <1>2, <3>1 DEF Reads
  <2>. QED  BY <2>1, <2>2
<1>4. upto(read)
  BY <1>3, Zenon
<1>. HIDE DEF read
<1>5. /\ read = [m \in 0..Len(ls) |-> read[m]]
      /\ \A n \in 0..Len(ls) :
            read[n] = IF n = 0 THEN <<>>
                      ELSE IF ls[n] \in UserLines THEN Append(read[n - 1], ls[n])
                      ELSE read[n - 1]
  BY <1>4
<1>6. Reads(read, ls, Len(ls))
  BY <1>5 DEF Reads
<1>. QED  BY <1>1, <1>6

\* What is read is a sequence of the user's lines.
LEMMA ReadsType ==
    ASSUME NEW ls, NEW n \in Nat, NEW g, Reads(g, ls, n), NEW k \in 0..n
    PROVE  g[k] \in Seq(UserLines)
<1>. DEFINE T == {m \in 0..n : g[m] \notin Seq(UserLines)}
<1>1. ASSUME T # {} PROVE FALSE
  <2>0. T \subseteq Nat
    OBVIOUS
  <2>1. PICK m \in T : \A j \in T : m <= j
    BY <1>1, <2>0, LeastNatural
  <2>2. m # 0
    BY DEF Reads
  <2>3. m \in 1..n /\ m - 1 \in 0..n /\ ~(m <= m - 1)
    BY <2>2
  <2>4. g[m - 1] \in Seq(UserLines)
    BY <2>1, <2>3
  <2>5. g[m] = IF ls[m] \in UserLines THEN Append(g[m - 1], ls[m]) ELSE g[m - 1]
    BY <2>3 DEF Reads
  <2>6. g[m] \in Seq(UserLines)
    BY <2>4, <2>5
  <2>. QED  BY <2>6
<1>. QED  BY <1>1

\* What is appended to the second is appended to both.
LEMMA AppendToConcat ==
    ASSUME NEW x \in Seq(UserLines), NEW y \in Seq(UserLines), NEW e \in UserLines
    PROVE  Append(x \o y, e) = x \o Append(y, e)
<1>1. x \o y \in Seq(UserLines) /\ <<e>> \in Seq(UserLines)
  OBVIOUS
<1>2. Append(x \o y, e) = (x \o y) \o <<e>>
  BY <1>1, AppendIsConcat
<1>3. Append(y, e) = y \o <<e>>
  BY AppendIsConcat
<1>. QED  BY <1>1, <1>2, <1>3, ConcatAssociative

\* The lines of two files, one after the other, say what the files say.
LEMMA OwnTextConcat ==
    ASSUME NEW S, NEW a \in Seq(S), NEW b \in Seq(S)
    PROVE  /\ OwnText(a \o b) = OwnText(a) \o OwnText(b)
           /\ OwnText(a) \in Seq(UserLines)
<1>. DEFINE n == Len(a)
            m == Len(b)
            ab == a \o b
<1>1. /\ n \in Nat /\ m \in Nat /\ ab \in Seq(S) /\ Len(ab) = n + m
      /\ \A i \in 1..n : ab[i] = a[i]
      /\ \A i \in 1..m : ab[n + i] = b[i]
  OBVIOUS
<1>2. PICK ga : Reads(ga, a, n) /\ OwnText(a) = ga[n]
  BY OwnTextReads
<1>3. PICK gb : Reads(gb, b, m) /\ OwnText(b) = gb[m]
  BY OwnTextReads
<1>4. PICK g : Reads(g, ab, n + m) /\ OwnText(ab) = g[n + m]
  BY <1>1, OwnTextReads
<1>. HIDE DEF n, m, ab
<1>5. \A k \in 0..n : ga[k] \in Seq(UserLines)
  BY <1>1, <1>2, ReadsType
<1>6. \A k \in 0..m : gb[k] \in Seq(UserLines)
  BY <1>1, <1>3, ReadsType
<1>7. \A k \in 0..n : g[k] = ga[k]
  <2>. DEFINE T == {k \in 0..n : g[k] # ga[k]}
  <2>1. ASSUME T # {} PROVE FALSE
    <3>0. T \subseteq Nat
      BY <1>1
    <3>1. PICK k \in T : \A j \in T : k <= j
      BY <2>1, <3>0, LeastNatural
    <3>2. k # 0
      BY <1>2, <1>4 DEF Reads
    <3>3. k \in 1..n /\ k \in 1..(n + m) /\ k - 1 \in 0..n /\ ~(k <= k - 1)
      BY <1>1, <3>2
    <3>4. g[k - 1] = ga[k - 1]
      BY <3>1, <3>3
    <3>5. /\ g[k] = IF ab[k] \in UserLines THEN Append(g[k - 1], ab[k]) ELSE g[k - 1]
          /\ ga[k] = IF a[k] \in UserLines THEN Append(ga[k - 1], a[k]) ELSE ga[k - 1]
      BY <1>2, <1>4, <3>3 DEF Reads
    <3>. QED  BY <1>1, <3>1, <3>3, <3>4, <3>5
  <2>. QED  BY <2>1
<1>8. ga[n] \in Seq(UserLines) /\ gb[0] = <<>>
  BY <1>1, <1>3, <1>5 DEF Reads
<1>. DEFINE H(k) == ga[n] \o gb[k]
<1>9. H(0) = g[n]
  <2>1. ga[n] \o <<>> = ga[n]
    BY <1>8, ConcatEmptySeq
  <2>2. g[n] = ga[n]
    BY <1>1, <1>7
  <2>. QED  BY <1>8, <2>1, <2>2
<1>10. ASSUME NEW k \in 1..m
       PROVE  H(k) = IF b[k] \in UserLines THEN Append(H(k - 1), b[k]) ELSE H(k - 1)
  <2>1. k - 1 \in 0..m /\ k \in 1..m
    BY <1>1
  <2>2. gb[k] = IF b[k] \in UserLines THEN Append(gb[k - 1], b[k]) ELSE gb[k - 1]
    BY <1>3 DEF Reads
  <2>3. gb[k - 1] \in Seq(UserLines)
    BY <1>6, <2>1
  <2>4. CASE b[k] \in UserLines
    <3>1. Append(ga[n] \o gb[k - 1], b[k]) = ga[n] \o Append(gb[k - 1], b[k])
      <4>1. PICK x \in Seq(UserLines), y \in Seq(UserLines), e \in UserLines :
                x = ga[n] /\ y = gb[k - 1] /\ e = b[k]
        BY <1>8, <2>3, <2>4
      <4>2. Append(x \o y, e) = x \o Append(y, e)
        BY AppendToConcat
      <4>. QED  BY <4>1, <4>2, Zenon
    <3>2. gb[k] = Append(gb[k - 1], b[k])
      BY <2>2, <2>4, Zenon
    <3>. QED  BY <2>4, <3>1, <3>2, Zenon
  <2>5. CASE b[k] \notin UserLines
    BY <2>2, <2>5, Zenon
  <2>. QED  BY <2>4, <2>5
<1>. HIDE DEF H
<1>11. \A k \in 0..m : g[n + k] = H(k)
  <2>. DEFINE T == {k \in 0..m : g[n + k] # H(k)}
  <2>1. ASSUME T # {} PROVE FALSE
    <3>0. T \subseteq Nat
      BY <1>1
    <3>1. PICK k \in T : \A j \in T : k <= j
      BY <2>1, <3>0, LeastNatural
    <3>2. k # 0
      <4>1. n + 0 = n
        BY <1>1
      <4>. QED  BY <1>9, <3>1, <4>1
    <3>3. PICK j : j = n + k
      OBVIOUS
    <3>4. /\ k \in 1..m /\ j \in 1..(n + m) /\ k - 1 \in 0..m /\ ~(k <= k - 1)
          /\ n + (k - 1) = j - 1
      BY <1>1, <3>1, <3>2, <3>3
    <3>5. g[j - 1] = H(k - 1)
      BY <3>1, <3>4
    <3>6. g[j] = IF ab[j] \in UserLines THEN Append(g[j - 1], ab[j]) ELSE g[j - 1]
      BY <1>4, <3>4 DEF Reads
    <3>7. ab[j] = b[k]
      BY <1>1, <3>3, <3>4
    <3>8. g[j] = H(k)
      BY <1>10, <3>4, <3>5, <3>6, <3>7, Zenon
    <3>. QED  BY <3>1, <3>3, <3>8
  <2>. QED  BY <2>1
<1>12. g[n + m] = ga[n] \o gb[m]
  <2>1. m \in 0..m
    BY <1>1
  <2>2. g[n + m] = H(m)
    BY <1>11, <2>1
  <2>. QED  BY <2>2 DEF H
<1>. QED  BY <1>2, <1>3, <1>4, <1>8, <1>12, Zenon DEF ab

\* Lines that are not the user's say nothing.
LEMMA OwnTextOfOthers ==
    ASSUME NEW S, NEW ls \in Seq(S), S \cap UserLines = {}
    PROVE  OwnText(ls) = <<>>
<1>. DEFINE n == Len(ls)
<1>1. n \in Nat /\ \A i \in 1..n : ls[i] \notin UserLines
  OBVIOUS
<1>2. PICK g : Reads(g, ls, n) /\ OwnText(ls) = g[n]
  BY OwnTextReads
<1>. HIDE DEF n
<1>. DEFINE T == {k \in 0..n : g[k] # <<>>}
<1>3. ASSUME T # {} PROVE FALSE
  <2>0. T \subseteq Nat
    BY <1>1
  <2>1. PICK k \in T : \A j \in T : k <= j
    BY <1>3, <2>0, LeastNatural
  <2>2. k # 0
    BY <1>2 DEF Reads
  <2>3. k \in 1..n /\ k - 1 \in 0..n /\ ~(k <= k - 1)
    BY <1>1, <2>2
  <2>4. g[k] = g[k - 1]
    BY <1>1, <1>2, <2>3 DEF Reads
  <2>. QED  BY <2>1, <2>3, <2>4
<1>. QED  BY <1>1, <1>2, <1>3

\* A file with a block that names sock, between two parts without.
Wiring(a, sock, c) == a \o ssh_block(sock) \o c

\* Nothing else is a sentinel.
LEMMA Sentinels ==
    /\ SshBegin \notin PlainLines /\ SshEnd \notin PlainLines
    /\ SshBegin \notin SocketLines /\ SshEnd \notin SocketLines
    /\ SshBegin # SshEnd
    /\ UserLines \cap (SocketLines \cup {SshBegin, SshEnd}) = {}
    /\ PlainLines \cap SocketLines = {}
    /\ PlainLines \subseteq Lines /\ SocketLines \subseteq Lines
    /\ {SshBegin, SshEnd} \subseteq Lines
BY UserLinesAssumption
   DEF PlainLines, SocketLines, Lines, SshBegin, SshEnd, PathBegin, PathEnd, PathLine,
       Blank, OldAbsolute, OldUnderHome, OldOdd, OldBraced, OldSpellings, NewAbsolute, NewUnderHome

\* ls has the lines of a, a block with one socket line, and the lines of c.
LinesAre(ls, a, sock, c) ==
    /\ ls \in Seq(Lines) /\ Len(ls) = Len(a) + 3 + Len(c)
    /\ \A i \in 1..Len(a) : ls[i] = a[i]
    /\ ls[Len(a) + 1] = SshBegin
    /\ ls[Len(a) + 2] = sock
    /\ ls[Len(a) + 3] = SshEnd
    /\ \A i \in 1..Len(c) : ls[Len(a) + 3 + i] = c[i]

\* The lines of a wired file.
LEMMA WiringLines ==
    ASSUME NEW a \in Seq(PlainLines), NEW sock \in SocketLines, NEW c \in Seq(PlainLines)
    PROVE  LinesAre(Wiring(a, sock, c), a, sock, c)
<1>. DEFINE ab == a \o ssh_block(sock)
<1>1. /\ ssh_block(sock) \in Seq(Lines) /\ Len(ssh_block(sock)) = 3
      /\ ssh_block(sock)[1] = SshBegin /\ ssh_block(sock)[2] = sock
      /\ ssh_block(sock)[3] = SshEnd
  BY Sentinels DEF ssh_block
<1>2. a \in Seq(Lines) /\ c \in Seq(Lines)
  BY Sentinels
<1>3. /\ ab \in Seq(Lines) /\ Len(ab) = Len(a) + 3
      /\ \A i \in 1..Len(a) : ab[i] = a[i]
      /\ ab[Len(a) + 1] = SshBegin
      /\ ab[Len(a) + 2] = sock
      /\ ab[Len(a) + 3] = SshEnd
  <2>1. /\ ab \in Seq(Lines) /\ Len(ab) = Len(a) + 3
        /\ \A i \in 1..(Len(a) + 3) :
              ab[i] = IF i <= Len(a) THEN a[i] ELSE ssh_block(sock)[i - Len(a)]
    <3>1. \A x, y \in Seq(Lines) :
             /\ x \o y \in Seq(Lines) /\ Len(x \o y) = Len(x) + Len(y)
             /\ \A i \in 1..(Len(x) + Len(y)) :
                   (x \o y)[i] = IF i <= Len(x) THEN x[i] ELSE y[i - Len(x)]
      BY ConcatProperties
    <3>2. PICK y \in Seq(Lines) : y = ssh_block(sock)
      BY <1>1
    <3>3. /\ a \o y \in Seq(Lines) /\ Len(a \o y) = Len(a) + Len(y)
          /\ \A i \in 1..(Len(a) + Len(y)) :
                (a \o y)[i] = IF i <= Len(a) THEN a[i] ELSE y[i - Len(a)]
      BY <1>2, <3>1
    <3>. QED  BY <1>1, <3>2, <3>3
  <2>. HIDE DEF ab
  <2>2. \A i \in {1, 2, 3} : ab[Len(a) + i] = ssh_block(sock)[i]
    BY <2>1
  <2>3. \A i \in 1..Len(a) : ab[i] = a[i]
    BY <2>1
  <2>. QED  BY <1>1, <2>1, <2>2, <2>3
<1>. HIDE DEF ab
<1>4. /\ ab \o c \in Seq(Lines) /\ Len(ab \o c) = Len(a) + 3 + Len(c)
      /\ \A i \in 1..(Len(a) + 3) : (ab \o c)[i] = ab[i]
      /\ \A i \in 1..Len(c) : (ab \o c)[Len(a) + 3 + i] = c[i]
  <2>1. \A x, y \in Seq(Lines) :
           /\ x \o y \in Seq(Lines) /\ Len(x \o y) = Len(x) + Len(y)
           /\ \A i \in 1..(Len(x) + Len(y)) :
                 (x \o y)[i] = IF i <= Len(x) THEN x[i] ELSE y[i - Len(x)]
    BY ConcatProperties
  <2>2. /\ ab \o c \in Seq(Lines) /\ Len(ab \o c) = Len(ab) + Len(c)
        /\ \A i \in 1..(Len(ab) + Len(c)) :
              (ab \o c)[i] = IF i <= Len(ab) THEN ab[i] ELSE c[i - Len(ab)]
    BY <1>2, <1>3, <2>1
  <2>3. Len(ab) = Len(a) + 3 /\ Len(a) \in Nat /\ Len(c) \in Nat
    BY <1>2, <1>3
  <2>4. \A i \in 1..(Len(a) + 3) : (ab \o c)[i] = ab[i]
    BY <2>2, <2>3
  <2>5. \A i \in 1..Len(c) : (ab \o c)[Len(a) + 3 + i] = c[i]
    BY <2>2, <2>3
  <2>. QED  BY <2>2, <2>3, <2>4, <2>5
<1>5. Wiring(a, sock, c) = ab \o c
  BY DEF Wiring, ab
<1>6. Len(a) \in Nat
  OBVIOUS
<1>. QED  BY <1>3, <1>4, <1>5, <1>6 DEF LinesAre

\* A file without sentinels has no block.
LEMMA SplitPlain ==
    ASSUME NEW ls \in Seq(PlainLines)
    PROVE  split_around_block(ls) = <<>>
<1>1. {i \in DOMAIN ls : ls[i] = SshBegin} = {}
  BY Sentinels
<1>. QED  BY <1>1 DEF split_around_block

\* k lines of a file, after the first m.
LEMMA Slice ==
    ASSUME NEW S, NEW s \in Seq(S), NEW m \in Nat, NEW k \in Nat, m + k <= Len(s)
    PROVE  /\ SubSeq(s, m + 1, m + k) \in Seq(S) /\ Len(SubSeq(s, m + 1, m + k)) = k
           /\ \A i \in 1..k : SubSeq(s, m + 1, m + k)[i] = s[m + i]
<1>1. \A i \in (m + 1)..(m + k) : s[i] \in S
  OBVIOUS
<1>2. m + 1 \in Int /\ m + k \in Int
  OBVIOUS
<1>3. /\ SubSeq(s, m + 1, m + k) \in Seq(S)
      /\ Len(SubSeq(s, m + 1, m + k)) = IF m + 1 <= m + k THEN (m + k) - (m + 1) + 1 ELSE 0
      /\ \A i \in 1..((m + k) - (m + 1) + 1) :
            SubSeq(s, m + 1, m + k)[i] = s[(m + 1) + i - 1]
  BY <1>1, <1>2, SubSeqProperties
<1>. QED  BY <1>3

\* A wired file is split around the block it was wired with.
LEMMA SplitWiring ==
    ASSUME NEW a \in Seq(PlainLines), NEW sock \in SocketLines, NEW c \in Seq(PlainLines)
    PROVE  split_around_block(Wiring(a, sock, c)) = <<a, ssh_block(sock), c>>
<1>. DEFINE ls == Wiring(a, sock, c)
            n == Len(a)
            m == Len(c)
            begins == {i \in DOMAIN ls : ls[i] = SshBegin}
            begin == Min(begins)
            ends == {i \in DOMAIN ls : begin <= i /\ ls[i] = SshEnd}
            end == Min(ends)
<1>1. /\ ls \in Seq(Lines) /\ Len(ls) = n + 3 + m
      /\ \A i \in 1..n : ls[i] = a[i]
      /\ ls[n + 1] = SshBegin /\ ls[n + 2] = sock /\ ls[n + 3] = SshEnd
      /\ \A i \in 1..m : ls[n + 3 + i] = c[i]
  <2>1. LinesAre(Wiring(a, sock, c), a, sock, c)
    BY WiringLines
  <2>. QED  BY <2>1 DEF LinesAre
<1>2. n \in Nat /\ m \in Nat /\ DOMAIN ls = 1..(n + 3 + m)
  <2>1. n \in Nat /\ m \in Nat
    OBVIOUS
  <2>2. ls \in Seq(Lines) /\ Len(ls) = n + 3 + m
    BY <1>1
  <2>. HIDE DEF ls, n, m
  <2>3. DOMAIN ls = 1..Len(ls)
    BY <2>2
  <2>. QED  BY <2>1, <2>2, <2>3
<1>3. /\ \A i \in 1..n : a[i] \in PlainLines
      /\ \A i \in 1..m : c[i] \in PlainLines
  OBVIOUS
<1>. HIDE DEF ls, n, m
<1>4. \A i \in DOMAIN ls : \/ i \in 1..n /\ ls[i] \in PlainLines
                           \/ i \in {n + 1, n + 2, n + 3}
                           \/ i > n + 3 /\ ls[i] \in PlainLines
  <2>1. ASSUME NEW i \in DOMAIN ls, i > n + 3 PROVE ls[i] \in PlainLines
    <3>1. PICK j \in 1..m : i = n + 3 + j
      <4>1. i - (n + 3) \in 1..m /\ i = n + 3 + (i - (n + 3))
        BY <1>2, <2>1
      <4>. QED  BY <4>1
    <3>. QED  BY <1>1, <1>3, <3>1
  <2>2. \A i \in DOMAIN ls : i \in 1..n \/ i \in {n + 1, n + 2, n + 3} \/ i > n + 3
    BY <1>2
  <2>. QED  BY <1>1, <1>3, <2>1, <2>2
<1>5. begins = {n + 1}
  BY <1>1, <1>2, <1>4, Sentinels
<1>6. begin = n + 1
  BY <1>2, <1>5 DEF Min
<1>7. ends = {n + 3}
  <2>1. n + 3 \in DOMAIN ls /\ n + 1 <= n + 3 /\ ls[n + 3] = SshEnd
    BY <1>1, <1>2
  <2>2. ASSUME NEW i \in DOMAIN ls, n + 1 <= i, ls[i] = SshEnd PROVE i = n + 3
    <3>1. i \notin 1..n /\ i # n + 1 /\ i # n + 2 /\ ls[i] \notin PlainLines
      BY <1>1, <1>2, <2>2, Sentinels
    <3>. QED  BY <1>4, <3>1
  <2>3. ends = {i \in DOMAIN ls : n + 1 <= i /\ ls[i] = SshEnd}
    BY <1>6
  <2>. HIDE DEF ends
  <2>. QED  BY <2>1, <2>2, <2>3
<1>8. end = n + 3
  BY <1>2, <1>7 DEF Min
<1>9. split_around_block(ls) = <<SubSeq(ls, 1, begin - 1), SubSeq(ls, begin, end),
                                SubSeq(ls, end + 1, Len(ls))>>
  BY <1>5, <1>7, Zenon DEF split_around_block
<1>. HIDE DEF begin, end, begins, ends
<1>10. ls \in Seq(Lines) /\ Len(ls) \in Nat /\ n + 3 <= Len(ls) /\ (n + 3) + m <= Len(ls)
  BY <1>1, <1>2
<1>11. SubSeq(ls, 1, begin - 1) = a
  <2>1. begin - 1 = n
    BY <1>2, <1>6
  <2>2. SubSeq(ls, 1, n) = a
    BY <1>1, <1>2 DEF n
  <2>. QED  BY <2>1, <2>2
<1>12. SubSeq(ls, begin, end) = ssh_block(sock)
  <2>1. /\ ssh_block(sock) \in Seq(Lines) /\ Len(ssh_block(sock)) = 3
        /\ ssh_block(sock)[1] = SshBegin /\ ssh_block(sock)[2] = sock
        /\ ssh_block(sock)[3] = SshEnd
    BY Sentinels DEF ssh_block
  <2>2. /\ SubSeq(ls, n + 1, n + 3) \in Seq(Lines) /\ Len(SubSeq(ls, n + 1, n + 3)) = 3
        /\ \A i \in 1..3 : SubSeq(ls, n + 1, n + 3)[i] = ls[n + i]
    BY <1>10, <1>2, Slice
  <2>3. \A i \in 1..3 : SubSeq(ls, n + 1, n + 3)[i] = ssh_block(sock)[i]
    <3>1. \A i \in 1..3 : i = 1 \/ i = 2 \/ i = 3
      OBVIOUS
    <3>2. \A i \in 1..3 : ls[n + i] = ssh_block(sock)[i]
      BY <1>1, <2>1, <3>1
    <3>. QED  BY <2>2, <3>2
  <2>4. SubSeq(ls, n + 1, n + 3) = ssh_block(sock)
    BY <2>1, <2>2, <2>3, SeqEqual
  <2>. QED  BY <1>6, <1>8, <2>4
<1>13. SubSeq(ls, end + 1, Len(ls)) = c
  <2>1. end + 1 = n + 4 /\ Len(ls) = n + 3 + m
    BY <1>1, <1>2, <1>8
  <2>2. /\ SubSeq(ls, n + 4, n + 3 + m) \in Seq(Lines)
        /\ Len(SubSeq(ls, n + 4, n + 3 + m)) = m
        /\ \A i \in 1..m : SubSeq(ls, n + 4, n + 3 + m)[i] = ls[n + 3 + i]
    <3>1. /\ SubSeq(ls, (n + 3) + 1, (n + 3) + m) \in Seq(Lines)
          /\ Len(SubSeq(ls, (n + 3) + 1, (n + 3) + m)) = m
          /\ \A i \in 1..m : SubSeq(ls, (n + 3) + 1, (n + 3) + m)[i] = ls[(n + 3) + i]
      BY <1>10, <1>2, Slice
    <3>2. (n + 3) + 1 = n + 4
      BY <1>2
    <3>. QED  BY <3>1, <3>2
  <2>3. c \in Seq(Lines) /\ Len(c) = m
    BY Sentinels DEF m
  <2>4. SubSeq(ls, n + 4, n + 3 + m) = c
    BY <1>1, <2>2, <2>3, SeqEqual
  <2>. QED  BY <2>1, <2>4
<1>. QED  BY <1>9, <1>11, <1>12, <1>13, Zenon DEF ls

\* A file nobody tampered with is plain or wired.
LEMMA WellFormedShape ==
    ASSUME NEW ls, WellFormed(ls)
    PROVE  /\ ls \in Seq(Lines)
           /\ \/ ls \in Seq(PlainLines)
              \/ \E a, c \in Seq(PlainLines), sock \in SocketLines : ls = Wiring(a, sock, c)
<1>. DEFINE s == split_around_block(ls)
            begins == {i \in DOMAIN ls : ls[i] = SshBegin}
            begin == Min(begins)
            ends == {i \in DOMAIN ls : begin <= i /\ ls[i] = SshEnd}
            end == Min(ends)
<1>1. ls \in Seq(Lines) /\ Len(ls) \in Nat /\ DOMAIN ls = 1..Len(ls)
  BY DEF WellFormed
<1>2. CASE s = <<>>
  BY <1>1, <1>2 DEF WellFormed
<1>3. CASE s # <<>>
  <2>1. begins # {} /\ ends # {}
    BY <1>3 DEF split_around_block
  <2>2. s = <<SubSeq(ls, 1, begin - 1), SubSeq(ls, begin, end),
              SubSeq(ls, end + 1, Len(ls))>>
    BY <2>1 DEF split_around_block
  <2>3. begins \subseteq Nat /\ ends \subseteq Nat
    BY <1>1
  <2>4. begin \in begins
    <3>1. \E n \in begins : \A m \in begins : n <= m
      BY <2>1, <2>3, LeastNatural
    <3>. QED  BY <3>1 DEF Min
  <2>5. end \in ends
    <3>1. \E n \in ends : \A m \in ends : n <= m
      BY <2>1, <2>3, LeastNatural
    <3>. QED  BY <3>1 DEF Min
  <2>6. begin \in 1..Len(ls) /\ end \in 1..Len(ls) /\ begin <= end
    BY <1>1, <2>4, <2>5
  <2>. HIDE DEF begin, end
  <2>. DEFINE a == SubSeq(ls, 1, begin - 1)
              b == SubSeq(ls, begin, end)
              c == SubSeq(ls, end + 1, Len(ls))
  <2>0. \A k \in 0..Len(ls) : \A n \in k..Len(ls) :
            SubSeq(ls, 1, k) \o SubSeq(ls, k + 1, n) = SubSeq(ls, 1, n)
    <3>1. ASSUME NEW k \in 0..Len(ls), NEW n \in k..Len(ls)
          PROVE  SubSeq(ls, 1, k) \o SubSeq(ls, k + 1, n) = SubSeq(ls, 1, n)
      <4>1. 1 \in 1..(Len(ls) + 1) /\ k \in (1 - 1)..Len(ls)
        BY <1>1
      <4>. QED  BY <1>1, <4>1, ConcatAdjacentSubSeq
    <3>. QED  BY <3>1
  <2>7. a \o b = SubSeq(ls, 1, end)
    <3>1. PICK k \in 0..Len(ls) : k = begin - 1 /\ k + 1 = begin /\ end \in k..Len(ls)
      BY <1>1, <2>6
    <3>2. SubSeq(ls, 1, k) \o SubSeq(ls, k + 1, end) = SubSeq(ls, 1, end)
      BY <2>0, <3>1
    <3>. QED  BY <3>1, <3>2
  <2>8. SubSeq(ls, 1, end) \o c = SubSeq(ls, 1, Len(ls))
    <3>1. end \in 0..Len(ls) /\ Len(ls) \in end..Len(ls)
      BY <1>1, <2>6
    <3>. QED  BY <2>0, <3>1
  <2>9. SubSeq(ls, 1, Len(ls)) = ls
    <3>1. \A x \in Seq(Lines) : SubSeq(x, 1, Len(x)) = x
      BY SubSeqFull
    <3>. QED  BY <1>1, <3>1
  <2>. HIDE DEF a, b, c
  <2>10. s[1] = a /\ s[2] = b /\ s[3] = c
    <3>1. s = <<a, b, c>>
      BY <2>2, Zenon DEF a, b, c
    <3>. HIDE DEF s
    <3>. QED  BY <3>1
  <2>11. PICK sock \in SocketLines : b = ssh_block(sock)
    BY <1>3, <2>10 DEF WellFormed
  <2>12. a \in Seq(PlainLines) /\ c \in Seq(PlainLines)
    BY <1>3, <2>10 DEF WellFormed
  <2>13. ls = Wiring(a, sock, c)
    BY <2>7, <2>8, <2>9, <2>11, Zenon DEF Wiring
  <2>. QED  BY <1>1, <2>11, <2>12, <2>13
<1>. QED  BY <1>2, <1>3

\* A plain file is well-formed and has no block.
LEMMA PlainWellFormed ==
    ASSUME NEW ls \in Seq(PlainLines)
    PROVE  WellFormed(ls) /\ existing_block(ls) = <<>> /\ ~HasBlock(ls)
<1>1. ls \in Seq(Lines)
  BY Sentinels
<1>2. split_around_block(ls) = <<>>
  BY SplitPlain
<1>. QED  BY <1>1, <1>2 DEF WellFormed, existing_block, HasBlock

\* A file wired with one socket line is well-formed, and the block found in it is the one it was
\* wired with.
LEMMA WiringWellFormed ==
    ASSUME NEW a \in Seq(PlainLines), NEW sock \in SocketLines, NEW c \in Seq(PlainLines)
    PROVE  LET ls == Wiring(a, sock, c) IN
           WellFormed(ls) /\ existing_block(ls) = ssh_block(sock) /\ HasBlock(ls)
<1>. DEFINE ls == Wiring(a, sock, c)
<1>1. ls \in Seq(Lines)
  <2>1. LinesAre(Wiring(a, sock, c), a, sock, c)
    BY WiringLines
  <2>. QED  BY <2>1 DEF LinesAre
<1>2. split_around_block(ls) = <<a, ssh_block(sock), c>>
  BY SplitWiring
<1>. HIDE DEF ls
<1>. DEFINE s == split_around_block(ls)
<1>3. s # <<>> /\ s[1] = a /\ s[2] = ssh_block(sock) /\ s[3] = c
  BY <1>2
<1>. HIDE DEF s
<1>4. existing_block(ls) = ssh_block(sock)
  BY <1>3 DEF existing_block, s
<1>5. ssh_block(sock) # <<>>
  BY DEF ssh_block
<1>6. WellFormed(ls)
  BY <1>1, <1>3 DEF WellFormed, s
<1>. QED  BY <1>4, <1>5, <1>6 DEF HasBlock, ls

\* What the block says of the old socket.
NamesOldSocket(ls) == OldAbsolute \in Range(expand_home_tokens(existing_block(ls)))
\* The path in the block cannot be read.
NamesItOddly(ls) == OldOdd \in Range(expand_home_tokens(existing_block(ls)))
\* Migration 0002 has work to do on these lines.
IsOld(ls) == NamesOldSocket(ls) \/ NamesItOddly(ls)

\* A file without a block leaves migration 0002 nothing to do.
LEMMA PlainNotOld ==
    ASSUME NEW ls \in Seq(PlainLines)
    PROVE  ~IsOld(ls)
<1>1. Range(expand_home_tokens(<<>>)) = {}
  BY DEF Range, expand_home_tokens
<1>. QED  BY <1>1, PlainWellFormed DEF IsOld, NamesOldSocket, NamesItOddly

\* Whether a wired file names the old socket is a matter of its socket line alone.
LEMMA WiringOld ==
    ASSUME NEW a \in Seq(PlainLines), NEW sock \in SocketLines, NEW c \in Seq(PlainLines)
    PROVE  LET ls == Wiring(a, sock, c) IN
           /\ NamesOldSocket(ls) <=> sock \in {OldAbsolute, OldUnderHome}
           /\ NamesItOddly(ls) <=> sock = OldOdd
<1>. DEFINE e == expand_home_tokens(ssh_block(sock))
<1>1. DOMAIN ssh_block(sock) = {1, 2, 3} /\ ssh_block(sock)[1] = SshBegin
      /\ ssh_block(sock)[2] = sock /\ ssh_block(sock)[3] = SshEnd
  BY DEF ssh_block
<1>2. DOMAIN e = {1, 2, 3} /\ e[1] = SshBegin /\ e[3] = SshEnd
      /\ e[2] = (CASE sock = OldUnderHome -> OldAbsolute
                   [] sock = NewUnderHome -> NewAbsolute
                   [] OTHER -> sock)
  BY <1>1 DEF expand_home_tokens, SshBegin, SshEnd, OldUnderHome, NewUnderHome
<1>. HIDE DEF e
<1>3. Range(e) = {e[1], e[2], e[3]}
  BY <1>2 DEF Range
<1>4. /\ OldAbsolute \in Range(e) <=> sock \in {OldAbsolute, OldUnderHome}
      /\ OldOdd \in Range(e) <=> sock = OldOdd
  BY <1>2, <1>3 DEF SshBegin, SshEnd, OldUnderHome, NewUnderHome, OldAbsolute, NewAbsolute,
                    OldOdd, OldBraced, OldSpellings, SocketLines
<1>. QED  BY <1>4, WiringWellFormed DEF NamesOldSocket, NamesItOddly, e

\* The block says nothing of the user's.
LEMMA OwnTextWiring ==
    ASSUME NEW a \in Seq(PlainLines), NEW sock \in SocketLines, NEW c \in Seq(PlainLines)
    PROVE  OwnText(Wiring(a, sock, c)) = OwnText(a) \o OwnText(c)
<1>1. a \in Seq(Lines) /\ c \in Seq(Lines) /\ ssh_block(sock) \in Seq(Lines)
  BY Sentinels DEF ssh_block
<1>2. OwnText(ssh_block(sock)) = <<>>
  <2>1. ssh_block(sock) \in Seq(SocketLines \cup {SshBegin, SshEnd})
    BY DEF ssh_block
  <2>. QED  BY <2>1, OwnTextOfOthers, Sentinels
<1>3. a \o ssh_block(sock) \in Seq(Lines)
  BY <1>1, ConcatProperties
<1>4. OwnText(a \o ssh_block(sock)) = OwnText(a) \o OwnText(ssh_block(sock))
      /\ OwnText(a) \in Seq(UserLines)
  BY <1>1, OwnTextConcat
<1>5. OwnText(a) \o <<>> = OwnText(a)
  BY <1>4, ConcatEmptySeq
<1>6. OwnText((a \o ssh_block(sock)) \o c) = OwnText(a \o ssh_block(sock)) \o OwnText(c)
  BY <1>1, <1>3, OwnTextConcat
<1>. QED  BY <1>2, <1>4, <1>5, <1>6 DEF Wiring

\* Pieces grouped from the left or from the right.
Assoc(a, b, c) == (a \o b) \o c = a \o (b \o c)

\* They are the same either way.
LEMMA Grouping == \A X : \A a, b, c \in Seq(X) : Assoc(a, b, c)
  BY ConcatAssociative, Zenon DEF Assoc

\* One file after the other.
Joined(x, y) == x \o y

\* Plain lines above or below a wired file.
LEMMA AroundWiring ==
    \A a, c, x \in Seq(PlainLines), sock \in SocketLines :
        \E y, z \in Seq(PlainLines) :
            /\ Joined(x, Wiring(a, sock, c)) = Wiring(y, sock, c)
            /\ Joined(Wiring(a, sock, c), x) = Wiring(a, sock, z)
<1>. TAKE a, c, x \in Seq(PlainLines), sock \in SocketLines
<1>. DEFINE b == ssh_block(sock)
<1>1. a \in Seq(Lines) /\ b \in Seq(Lines) /\ c \in Seq(Lines) /\ x \in Seq(Lines)
  BY Sentinels DEF ssh_block
<1>. HIDE DEF b
<1>2. \A p, q \in Seq(Lines) : p \o q \in Seq(Lines)
  BY ConcatProperties
<1>3. \A p, q, r \in Seq(Lines) : Assoc(p, q, r)
  BY Grouping
<1>4. a \o b \in Seq(Lines)
  BY <1>1, <1>2
<1>5. x \o ((a \o b) \o c) = ((x \o a) \o b) \o c
  <2>1. Assoc(x, a \o b, c) /\ Assoc(x, a, b)
    BY <1>1, <1>3, <1>4
  <2>. QED  BY <2>1, Zenon DEF Assoc
<1>6. ((a \o b) \o c) \o x = (a \o b) \o (c \o x)
  <2>1. Assoc(a \o b, c, x)
    BY <1>1, <1>3, <1>4
  <2>. QED  BY <2>1, Zenon DEF Assoc
<1>7. \A p, q \in Seq(PlainLines) : p \o q \in Seq(PlainLines)
  BY ConcatProperties
<1>8. /\ Joined(x, Wiring(a, sock, c)) = Wiring(x \o a, sock, c)
      /\ Joined(Wiring(a, sock, c), x) = Wiring(a, sock, c \o x)
  BY <1>5, <1>6, Zenon DEF Wiring, Joined, b
<1>. QED  BY <1>7, <1>8, Zenon

\* A change of a file that keeps it well-formed, adds no block and no old path.
AddsNone(ls, new) ==
    /\ WellFormed(new)
    /\ HasBlock(new) => HasBlock(ls)
    /\ IsOld(new) => IsOld(ls)

\* Lines of the user's around a file do not make its block an old one.
LEMMA AroundAddsNone ==
    ASSUME NEW ls, WellFormed(ls), NEW x \in Seq(PlainLines)
    PROVE  AddsNone(ls, x \o ls) /\ AddsNone(ls, ls \o x)
<1>1. CASE ls \in Seq(PlainLines)
  <2>1. x \o ls \in Seq(PlainLines) /\ ls \o x \in Seq(PlainLines)
    BY <1>1, ConcatProperties
  <2>. QED  BY <2>1, PlainWellFormed, PlainNotOld DEF AddsNone
<1>2. ASSUME NEW a \in Seq(PlainLines), NEW c \in Seq(PlainLines), NEW sock \in SocketLines,
             ls = Wiring(a, sock, c)
      PROVE  AddsNone(ls, Joined(x, ls)) /\ AddsNone(ls, Joined(ls, x))
  <2>1. PICK y \in Seq(PlainLines), z \in Seq(PlainLines) :
            Joined(x, ls) = Wiring(y, sock, c) /\ Joined(ls, x) = Wiring(a, sock, z)
    BY <1>2, AroundWiring
  <2>. QED  BY <1>2, <2>1, WiringWellFormed, WiringOld DEF AddsNone, IsOld
<1>. QED  BY <1>1, <1>2, WellFormedShape DEF Joined

\* strip_block takes the block, and of the rest at most a blank line.
LEMMA StripKeeps ==
    ASSUME NEW ls, WellFormed(ls)
    PROVE  /\ AddsNone(ls, strip_block(ls)) /\ ~HasBlock(strip_block(ls))
           /\ ~IsOld(strip_block(ls))
           /\ OwnText(strip_block(ls)) = OwnText(ls)
<1>1. CASE ls \in Seq(PlainLines)
  <2>1. strip_block(ls) = ls
    BY <1>1, SplitPlain DEF strip_block
  <2>. QED  BY <1>1, <2>1, PlainWellFormed, PlainNotOld DEF AddsNone
<1>2. ASSUME NEW a \in Seq(PlainLines), NEW c \in Seq(PlainLines), NEW sock \in SocketLines,
             ls = Wiring(a, sock, c)
      PROVE  /\ AddsNone(ls, strip_block(ls)) /\ ~HasBlock(strip_block(ls))
             /\ ~IsOld(strip_block(ls))
             /\ OwnText(strip_block(ls)) = OwnText(ls)
  <2>. DEFINE s == split_around_block(ls)
              after == IF c # <<>> /\ c[1] = Blank THEN Tail(c) ELSE c
  <2>1. s = <<a, ssh_block(sock), c>>
    BY <1>2, SplitWiring
  <2>2. s # <<>> /\ s[1] = a /\ s[3] = c
    <3>. HIDE DEF s
    <3>. QED  BY <2>1
  <2>3. strip_block(ls) = a \o after
    <3>1. strip_block(ls) = IF s = <<>> THEN ls
                            ELSE s[1] \o (IF s[3] # <<>> /\ s[3][1] = Blank THEN Tail(s[3])
                                          ELSE s[3])
      BY Zenon DEF strip_block
    <3>. HIDE DEF s
    <3>. QED  BY <2>2, <3>1
  <2>4. after \in Seq(PlainLines)
    OBVIOUS
  <2>5. OwnText(after) = OwnText(c)
    <3>1. CASE ~(c # <<>> /\ c[1] = Blank)
      BY <3>1
    <3>2. CASE c # <<>> /\ c[1] = Blank
      <4>1. /\ <<Blank>> \in Seq(PlainLines) /\ <<Blank>> \in Seq({Blank})
            /\ Tail(c) \in Seq(PlainLines)
        BY <3>2 DEF PlainLines
      <4>2. c = <<Blank>> \o Tail(c)
        BY <3>2
      <4>3. OwnText(<<Blank>>) = <<>>
        <5>1. {Blank} \cap UserLines = {}
          BY UserLinesAssumption
        <5>. QED  BY <4>1, <5>1, OwnTextOfOthers
      <4>4. OwnText(c) = OwnText(<<Blank>>) \o OwnText(Tail(c))
        BY <4>1, <4>2, OwnTextConcat, Zenon
      <4>5. OwnText(Tail(c)) \in Seq(UserLines)
        BY <4>1, OwnTextConcat
      <4>6. <<>> \o OwnText(Tail(c)) = OwnText(Tail(c))
        BY <4>5, ConcatEmptySeq
      <4>. QED  BY <3>2, <4>3, <4>4, <4>6
    <3>. QED  BY <3>1, <3>2
  <2>. HIDE DEF after
  <2>6. a \o after \in Seq(PlainLines)
    BY <2>4, ConcatProperties
  <2>7. OwnText(a \o after) = OwnText(a) \o OwnText(after)
    BY <2>4, OwnTextConcat
  <2>8. OwnText(ls) = OwnText(a) \o OwnText(c)
    BY <1>2, OwnTextWiring
  <2>. QED  BY <2>3, <2>5, <2>6, <2>7, <2>8, PlainWellFormed, PlainNotOld DEF AddsNone
<1>. QED  BY <1>1, <1>2, WellFormedShape

\* replace_block swaps the block and nothing else.
LEMMA ReplaceKeeps ==
    ASSUME NEW ls, WellFormed(ls)
    PROVE  LET new == replace_block(ls, ssh_block(NewUnderHome)) IN
           /\ AddsNone(ls, new)
           /\ new # ls => ~IsOld(new)
           /\ OwnText(new) = OwnText(ls)
<1>. DEFINE new == replace_block(ls, ssh_block(NewUnderHome))
<1>1. CASE ls \in Seq(PlainLines)
  <2>1. new = ls
    BY <1>1, SplitPlain DEF replace_block
  <2>. QED  BY <1>1, <2>1, PlainWellFormed, PlainNotOld DEF AddsNone
<1>2. ASSUME NEW a \in Seq(PlainLines), NEW c \in Seq(PlainLines), NEW sock \in SocketLines,
             ls = Wiring(a, sock, c)
      PROVE  AddsNone(ls, new) /\ ~IsOld(new) /\ OwnText(new) = OwnText(ls)
  <2>. DEFINE s == split_around_block(ls)
  <2>1. s = <<a, ssh_block(sock), c>>
    BY <1>2, SplitWiring
  <2>2. s # <<>> /\ s[1] = a /\ s[3] = c
    <3>. HIDE DEF s
    <3>. QED  BY <2>1
  <2>3. new = Wiring(a, NewUnderHome, c)
    <3>1. new = IF s = <<>> THEN ls ELSE (s[1] \o ssh_block(NewUnderHome)) \o s[3]
      BY Zenon DEF replace_block
    <3>. HIDE DEF s, new
    <3>. QED  BY <2>2, <3>1, Zenon DEF Wiring
  <2>. HIDE DEF new
  <2>4. NewUnderHome \in SocketLines \ {OldAbsolute, OldUnderHome, OldOdd}
    BY DEF SocketLines, NewUnderHome, OldAbsolute, OldUnderHome, OldOdd
  <2>5. ~IsOld(new)
    BY <2>3, <2>4, WiringOld DEF IsOld
  <2>. QED  BY <1>2, <2>3, <2>4, <2>5, WiringWellFormed, OwnTextWiring DEF AddsNone
<1>. QED  BY <1>1, <1>2, PlainNotOld, WellFormedShape

\* path_apply appends lines of secreq's own.
LEMMA PathApplyKeeps ==
    ASSUME NEW ls, WellFormed(ls), NEW configured \in BOOLEAN
    PROVE  LET new == path_apply(ls, configured) IN
           AddsNone(ls, new) /\ OwnText(new) = OwnText(ls)
<1>1. path_block \in Seq(PlainLines) /\ path_block \in Seq({PathBegin, PathLine, PathEnd})
  BY DEF path_block, PlainLines
<1>2. OwnText(path_block) = <<>>
  BY <1>1, OwnTextOfOthers, UserLinesAssumption
<1>3. ls \in Seq(Lines) /\ path_block \in Seq(Lines)
  BY <1>1, WellFormedShape, Sentinels
<1>4. OwnText(ls \o path_block) = OwnText(ls) \o OwnText(path_block)
      /\ OwnText(ls) \in Seq(UserLines)
  BY <1>3, OwnTextConcat
<1>5. OwnText(ls) \o <<>> = OwnText(ls)
  BY <1>4, ConcatEmptySeq
<1>6. AddsNone(ls, ls \o path_block)
  BY <1>1, AroundAddsNone
<1>7. AddsNone(ls, ls)
  BY DEF AddsNone
<1>. QED  BY <1>2, <1>4, <1>5, <1>6, <1>7 DEF path_apply

\* ssh_setup::apply, of a plan that found no block only where there is none.
LEMMA SshApplyKeeps ==
    ASSUME NEW ls, WellFormed(ls), NEW state \in {"Stale", "Absent"},
           NEW method \in {"SshConfig", "ShellRc"}, state = "Absent" => ~HasBlock(ls)
    PROVE  LET new == ssh_apply(ls, state, method, ssh_block(NewUnderHome)) IN
           /\ WellFormed(new) /\ OwnText(new) = OwnText(ls)
           /\ IsOld(new) => IsOld(ls)
<1>. DEFINE block == ssh_block(NewUnderHome)
            new == ssh_apply(ls, state, method, block)
<1>1. CASE state = "Stale"
  <2>1. new = replace_block(ls, block)
    BY <1>1 DEF ssh_apply
  <2>. QED  BY <2>1, ReplaceKeeps DEF AddsNone
<1>2. CASE state = "Absent"
  <2>1. ls \in Seq(PlainLines)
    BY <1>2, WellFormedShape, WiringWellFormed
  <2>2. /\ NewUnderHome \in SocketLines
        /\ NewUnderHome \notin {OldAbsolute, OldUnderHome, OldOdd}
        /\ <<>> \in Seq(PlainLines) /\ <<Blank>> \in Seq(PlainLines)
        /\ <<Blank>> \in Seq({Blank}) /\ <<>> \in Seq({Blank}) /\ {Blank} \cap UserLines = {}
    <3>1. NewUnderHome \in SocketLines \ {OldAbsolute, OldUnderHome, OldOdd}
      BY DEF SocketLines, NewUnderHome, OldAbsolute, OldUnderHome, OldOdd
    <3>2. Blank \in PlainLines /\ {Blank} \cap UserLines = {}
      BY UserLinesAssumption DEF PlainLines
    <3>3. \A S : \A e \in S : <<>> \in Seq(S) /\ <<e>> \in Seq(S)
      OBVIOUS
    <3>. QED  BY <3>1, <3>2, <3>3
  <2>3. block \in Seq(Lines) /\ OwnText(ls) \in Seq(UserLines)
        /\ OwnText(<<>>) = <<>> /\ OwnText(<<Blank>>) = <<>>
    <3>1. block \in Seq(Lines)
      BY <2>2, Sentinels DEF ssh_block
    <3>2. OwnText(ls) \in Seq(UserLines)
      BY <2>1, OwnTextConcat
    <3>. QED  BY <2>2, <3>1, <3>2, OwnTextOfOthers
  <2>4. ASSUME NEW a \in Seq(PlainLines), NEW c \in Seq(PlainLines),
               new = Wiring(a, NewUnderHome, c), OwnText(a) \o OwnText(c) = OwnText(ls)
        PROVE  WellFormed(new) /\ OwnText(new) = OwnText(ls) /\ ~IsOld(new)
    <3>. HIDE DEF new
    <3>. QED  BY <2>2, <2>4, WiringWellFormed, WiringOld, OwnTextWiring DEF IsOld
  <2>5. CASE method = "ShellRc"
    <3>1. new = ls \o block
      BY <1>2, <2>5 DEF ssh_apply, apply_shell_rc
    <3>2. ls \o block \in Seq(Lines)
      BY <2>1, <2>3, Sentinels, ConcatProperties
    <3>3. new = Wiring(ls, NewUnderHome, <<>>)
      BY <3>1, <3>2, ConcatEmptySeq DEF Wiring
    <3>4. OwnText(ls) \o OwnText(<<>>) = OwnText(ls)
      BY <2>3, ConcatEmptySeq
    <3>. QED  BY <2>1, <2>2, <2>4, <3>3, <3>4
  <2>6. CASE method = "SshConfig" /\ ls = <<>>
    <3>1. new = block
      BY <1>2, <2>6 DEF ssh_apply, apply_ssh_config
    <3>2. block = (<<>> \o block) \o <<>>
      BY <2>3, ConcatEmptySeq
    <3>3. new = Wiring(<<>>, NewUnderHome, <<>>)
      BY <3>1, <3>2 DEF Wiring
    <3>4. OwnText(<<>>) \o OwnText(<<>>) = OwnText(ls)
      BY <2>3, <2>6
    <3>. QED  BY <2>2, <2>4, <3>3, <3>4
  <2>7. CASE method = "SshConfig" /\ ls # <<>>
    <3>1. new = (block \o <<Blank>>) \o ls
      BY <1>2, <2>7 DEF ssh_apply, apply_ssh_config
    <3>2. (block \o <<Blank>>) \o ls = block \o (<<Blank>> \o ls)
      <4>1. <<Blank>> \in Seq(Lines) /\ ls \in Seq(Lines)
        BY <2>1, <2>2, Sentinels
      <4>. QED  BY <2>3, <4>1, ConcatAssociative
    <3>3. block = <<>> \o block
      BY <2>3, ConcatEmptySeq
    <3>4. new = Wiring(<<>>, NewUnderHome, <<Blank>> \o ls)
      BY <3>1, <3>2, <3>3 DEF Wiring
    <3>5. <<Blank>> \o ls \in Seq(PlainLines)
          /\ OwnText(<<Blank>> \o ls) = OwnText(<<Blank>>) \o OwnText(ls)
      BY <2>1, <2>2, ConcatProperties, OwnTextConcat
    <3>6. <<>> \o OwnText(ls) = OwnText(ls)
      BY <2>3, ConcatEmptySeq
    <3>. QED  BY <2>2, <2>3, <2>4, <3>4, <3>5, <3>6
  <2>. QED  BY <2>4, <2>5, <2>6, <2>7
<1>. QED  BY <1>1, <1>2

\* The user spells the path out.
Spelled(ls) == [i \in DOMAIN ls |-> IF ls[i] = OldOdd THEN OldAbsolute ELSE ls[i]]

\* Nor does spelling its path out, if the file was not well already.
LEMMA SpelledAddsNone ==
    ASSUME NEW ls, WellFormed(ls)
    PROVE  AddsNone(ls, Spelled(ls))
<1>1. CASE ls \in Seq(PlainLines)
  <2>1. OldOdd \notin PlainLines
    BY Sentinels DEF SocketLines, OldSpellings
  <2>2. Spelled(ls) = ls
    BY <1>1, <2>1 DEF Spelled
  <2>. QED  BY <2>2 DEF AddsNone
<1>2. ASSUME NEW a \in Seq(PlainLines), NEW c \in Seq(PlainLines), NEW sock \in SocketLines,
             ls = Wiring(a, sock, c)
      PROVE  AddsNone(ls, Spelled(ls))
  <2>. DEFINE n == Len(a)
              m == Len(c)
  <2>1. /\ ls \in Seq(Lines) /\ Len(ls) = n + 3 + m
        /\ \A i \in 1..n : ls[i] = a[i]
        /\ ls[n + 1] = SshBegin /\ ls[n + 2] = sock /\ ls[n + 3] = SshEnd
        /\ \A i \in 1..m : ls[n + 3 + i] = c[i]
    <3>1. LinesAre(ls, a, sock, c)
      BY <1>2, WiringLines
    <3>. QED  BY <3>1 DEF LinesAre
  <2>2. /\ n \in Nat /\ m \in Nat /\ DOMAIN ls = 1..(n + 3 + m)
        /\ \A i \in 1..n : a[i] \in PlainLines
        /\ \A i \in 1..m : c[i] \in PlainLines
    BY <2>1
  <2>. HIDE DEF n, m
  <2>3. OldOdd \notin PlainLines /\ OldOdd # SshBegin /\ OldOdd # SshEnd
        /\ OldAbsolute \in SocketLines /\ OldAbsolute \in Lines
    BY Sentinels DEF SocketLines, OldSpellings, Lines
  <2>4. \A i \in DOMAIN ls : i # n + 2 => ls[i] # OldOdd
    <3>1. \A i \in DOMAIN ls : i > n + 3 => i - (n + 3) \in 1..m /\ i = n + 3 + (i - (n + 3))
      BY <2>2
    <3>2. ASSUME NEW i \in DOMAIN ls, i > n + 3 PROVE ls[i] # OldOdd
      <4>1. PICK j \in 1..m : i = n + 3 + j
        BY <3>1, <3>2
      <4>. QED  BY <2>1, <2>2, <2>3, <4>1
    <3>3. \A i \in DOMAIN ls : i \in 1..n \/ i = n + 1 \/ i = n + 2 \/ i = n + 3 \/ i > n + 3
      BY <2>2
    <3>. QED  BY <2>1, <2>2, <2>3, <3>2, <3>3
  <2>5. CASE sock # OldOdd
    <3>1. \A i \in DOMAIN ls : ls[i] # OldOdd
      BY <2>1, <2>4, <2>5
    <3>2. Spelled(ls) = ls
      BY <2>1, <3>1 DEF Spelled
    <3>. QED  BY <3>2 DEF AddsNone
  <2>6. CASE sock = OldOdd
    <3>. DEFINE new == Wiring(a, OldAbsolute, c)
    <3>1. /\ new \in Seq(Lines) /\ Len(new) = n + 3 + m
          /\ \A i \in 1..n : new[i] = a[i]
          /\ new[n + 1] = SshBegin /\ new[n + 2] = OldAbsolute /\ new[n + 3] = SshEnd
          /\ \A i \in 1..m : new[n + 3 + i] = c[i]
      <4>1. LinesAre(Wiring(a, OldAbsolute, c), a, OldAbsolute, c)
        BY <2>3, WiringLines
      <4>. QED  BY <4>1 DEF LinesAre, n, m
    <3>. HIDE DEF new
    <3>2. \A i \in DOMAIN ls : i # n + 2 => new[i] = ls[i]
      <4>1. \A i \in DOMAIN ls : i > n + 3 => i - (n + 3) \in 1..m /\ i = n + 3 + (i - (n + 3))
        BY <2>2
      <4>2. ASSUME NEW i \in DOMAIN ls, i > n + 3 PROVE new[i] = ls[i]
        <5>1. PICK j \in 1..m : i = n + 3 + j
          BY <4>1, <4>2
        <5>. QED  BY <2>1, <3>1, <5>1
      <4>3. \A i \in DOMAIN ls : i \in 1..n \/ i = n + 1 \/ i = n + 2 \/ i = n + 3 \/ i > n + 3
        BY <2>2
      <4>. QED  BY <2>1, <3>1, <4>2, <4>3
    <3>3. n + 2 \in DOMAIN ls
      BY <2>2
    <3>4. DOMAIN new = DOMAIN ls /\ new = [i \in DOMAIN new |-> new[i]]
      BY <2>1, <3>1
    <3>5. Spelled(ls) = new
      BY <2>1, <2>4, <2>6, <3>1, <3>2, <3>3, <3>4 DEF Spelled
    <3>. QED  BY <1>2, <2>3, <2>6, <3>5, WiringWellFormed, WiringOld DEF AddsNone, IsOld, new
  <2>. QED  BY <2>5, <2>6
<1>. QED  BY <1>1, <1>2, WellFormedShape

-----------------------------------------------------------------------------
(* The invariant.                                                          *)

\* Where a process is: in a migration, in a restore that has its answer, in a command it was typed
\* for; or at none of them.
Moving == {"snapshot", "move", "unlink", "link", "record", "read", "repoint",
           "convert", "converted", "stamp"}
Putting == {"rescue", "drop", "put", "forward", "level"}
Typing == {"body", "install", "unlist", "path", "shimdir", "ssh", "wire"}
Places == Moving \cup Putting \cup Typing \cup {"idle", "gate", "lock", "prompt"}

\* Who holds the lock migrates from the level that is stamped, or restores; the
\* terminal alone types commands, at the last level.
LockAt(p) ==
    /\ place[p] \in Moving \cup Putting <=> lock = p
    /\ place[p] \in Moving => level = at[p].m - 1 /\ level < 3
    /\ place[p] \in {"move", "unlink", "link"} => at[p].m = 1
    /\ place[p] \in {"read", "repoint"} => at[p].m = 2
    /\ place[p] \in {"convert", "converted"} => at[p].m = 3
    /\ place[p] = "snapshot" => at[p].i = 1
    /\ place[p] \in {"unlink", "link", "converted"} => at[p].i \in DOMAIN FileSeq
    /\ place[p] = "repoint" => at[p].i \in DOMAIN DotSeq
    /\ place[p] \in Putting \cup (Typing \ {"body"}) \cup {"prompt"} => p = Terminal

\* Who holds the lock and who is where: migrations run under it, one level above the stamp; a
\* command's own part comes after the last migration.
LockInv ==
    /\ place \in [Processes -> Places]
    /\ lock \in Processes \cup {NoOne}
    /\ level \in 0..3
    /\ at \in [Processes -> [m : Nat, i : Nat]]
    /\ \A p \in Processes : LockAt(p)
    /\ place[Terminal] \in Typing => level = 3

\* What a config file may say of its shim directory.
DirValues == ShimDirs \cup {NoDir}
\* Config files, of a version no later than the last.
Texts(f) == [t : {"text"}, f : {f}, v : 0..(edits + 1), ok : BOOLEAN,
             wraps : SUBSET Binaries, dir : DirValues]
\* A dotfile with one SSH block or none.
IsDot(b) == b.t = "dot" /\ b = Lined(b.lines) /\ WellFormed(b.lines)
\* The bodies of Texts, by what they are made of.
TextOf(f, n, b) == \E v \in 0..(n + 1), ok \in BOOLEAN, dir \in DirValues, wraps \in SUBSET Binaries :
                       b = Text(f, v, ok, wraps, dir)
\* A body that belongs at a path, with versions up to n.
FitsTo(n, q, b) ==
    \/ \E f \in Files : q \in {Legacy(f), Json5(f), Toml(f)} /\ TextOf(f, n, b)
    \/ \E d \in Dotfiles : q = Dot(d) /\ IsDot(b)
Fits(q, b) == FitsTo(edits, q, b)

\* What may be at each path: a symlink at an old path only, one block at most in a dotfile.
DiskInv ==
    /\ disk = [q \in Paths |-> disk[q]]
    /\ \A f \in Files : /\ disk[Legacy(f)] \in {Nothing, Link} \cup Texts(f)
                        /\ disk[Json5(f)] \in {Nothing} \cup Texts(f)
                        /\ disk[Toml(f)] \in {Nothing} \cup Texts(f)
    /\ \A d \in Dotfiles : disk[Dot(d)] = Nothing \/ IsDot(disk[Dot(d)])

\* The paths a level's snapshot may hold: what its migration declares.
SnapPaths(l) == CASE l = 0 -> {Legacy(f) : f \in Files}
                  [] l = 1 -> {Dot(d) : d \in Dotfiles}
                  [] l = 2 -> {Json5(f) : f \in Files} \cup {Toml(f) : f \in Files}
Snap(l) == snaps[l][1].files

\* A snapshot holds bodies that belong at its paths.
SnapAt(l) ==
    /\ \E c, post : snaps[l] = <<[files |-> Snap(l), created |-> c, post |-> post]>>
    /\ Snap(l) = [q \in DOMAIN Snap(l) |-> Snap(l)[q]]
    /\ DOMAIN Snap(l) \subseteq SnapPaths(l) /\ DOMAIN Snap(l) # {}
    /\ \A q \in DOMAIN Snap(l) : Fits(q, Snap(l)[q])
    /\ snaps[l][1].created \subseteq Paths

\* Every snapshot that was taken does.
SnapInv ==
    /\ snaps = [l \in 0..2 |-> snaps[l]]
    /\ \A l \in 0..2 : snaps[l] # <<>> => SnapAt(l)

\* The types of what the other parts do not type.
TypeInv ==
    /\ shims \in [ShimDirs \X Binaries -> ShimStates]
    /\ plan = [p \in Processes |-> plan[p]]
    /\ before = [p \in Processes |-> before[p]]
    /\ \A p \in Processes : before[p].declared \subseteq Paths
    /\ unread = [p \in Processes |-> unread[p]]
    /\ own = [d \in Dotfiles |-> own[d]]
    /\ inforce \in [Files -> Nat]
    /\ kept \subseteq Files \X (0..(edits + 1))
    /\ torn \subseteq 0..2
    /\ undone \subseteq {"down", "up", "late", "twice"}
    /\ edits \in Nat

\* A restore is under way.
Asked == place[Terminal] \in Putting \cup {"prompt"}
Plan == plan[Terminal]

\* A restore's plan, and what it was made from.
PlanShape(P) ==
    /\ P = [l |-> P.l, entries |-> P.entries, stale |-> P.stale, edited |-> P.edited,
            seen |-> P.seen, left |-> P.left, target |-> P.target]
    /\ P.l \in 0..2 /\ snaps[P.l] # <<>>
    /\ DOMAIN P.entries = DOMAIN Snap(P.l)
    /\ \A q \in DOMAIN P.entries :
        /\ P.entries[q].snapshot = Snap(P.l)[q]
        /\ \/ P.entries[q].live = q
           \/ \E f \in Files : q = Legacy(f) /\ P.entries[q].live = Json5(f)
        /\ P.seen[P.entries[q].live].t = "text" =>
                P.entries[q].body = P.seen[P.entries[q].live]
    /\ DOMAIN P.stale \subseteq {Json5(f) : f \in Files} \cup {Toml(f) : f \in Files}
    /\ DOMAIN P.stale \cap DOMAIN P.entries = {}
    /\ \A q \in DOMAIN P.stale : P.seen[q].t = "text" => P.stale[q] = P.seen[q]
    /\ P.left \subseteq DOMAIN P.entries \cup DOMAIN P.stale
    /\ DOMAIN P.seen = DOMAIN P.entries \cup DOMAIN P.stale
                       \cup {P.entries[q].live : q \in DOMAIN P.entries}

\* Up to its answer a restore has everything left to do; the file it is at is one it has begun.
PlanInv ==
    Asked =>
        /\ PlanShape(Plan)
        /\ place[Terminal] \in {"prompt", "rescue"} =>
                Plan.left = DOMAIN Plan.entries \cup DOMAIN Plan.stale
        /\ place[Terminal] \in {"put", "forward"} =>
                Plan.target \in DOMAIN Plan.entries \ Plan.left

\* The restore has taken a file away.
Begun == \/ place[Terminal] \in {"put", "forward", "level"}
         \/ place[Terminal] = "drop" /\ DOMAIN Plan.entries \ Plan.left # {}

\* A restore that began is torn; one that is not upwards comes from a level
\* above its own, which no torn one is below.
RunInv ==
    /\ torn # {} => undone # {}
    /\ Begun => /\ Plan.l \in torn
                /\ "up" \in undone \/ (Plan.l <= level /\ \A k \in torn : Plan.l <= k)
    /\ place[Terminal] = "level" => Plan.left = {}
    /\ place[Terminal] = "put" => disk[Plan.target] = Nothing
    /\ place[Terminal] = "forward" =>
            disk[Plan.target] = Plan.entries[Plan.target].snapshot

\* A real file, not a symlink.
IsText(q) == disk[q].t = "text"
OldBlock(d) == NamesOld(d) \/ Unexpanded(d)

\* How far the migration of p has come.
MigAt(p) ==
    /\ place[p] \in Moving /\ at[p].m = 1 =>
        \A j \in DOMAIN FileSeq : j < at[p].i \/ place[p] \in {"record", "stamp"}
            => ~IsText(Legacy(FileSeq[j]))
    /\ place[p] = "unlink" =>
        /\ IsText(Legacy(FileSeq[at[p].i]))
        /\ disk[Json5(FileSeq[at[p].i])] = disk[Legacy(FileSeq[at[p].i])]
    /\ place[p] \in Moving /\ at[p].m = 2 =>
        /\ \A j \in DOMAIN DotSeq : j < at[p].i /\ OldBlock(DotSeq[j])
                => DotSeq[j] \in unread[p]
        /\ place[p] \in {"record", "stamp"} => \A d \in Dotfiles : ~OldBlock(d)
    /\ place[p] \in Moving /\ at[p].m = 3 =>
        /\ \A j \in DOMAIN FileSeq : j < at[p].i \/ place[p] \in {"record", "stamp"}
                => disk[Json5(FileSeq[j])] = Nothing
        /\ place[p] \in {"record", "stamp"} => \A f \in Files : disk[Legacy(f)] # Link
    /\ place[p] = "converted" =>
        /\ IsText(Json5(FileSeq[at[p].i]))
        /\ disk[Toml(FileSeq[at[p].i])] = disk[Json5(FileSeq[at[p].i])]

\* How far every migration has come.
MigInv == \A p \in Processes : MigAt(p)

\* What a stamped level means.
LevelInv ==
    /\ level >= 1 /\ 0 \notin torn /\ "up" \notin undone =>
            \A f \in Files : ~IsText(Legacy(f))
    /\ level >= 2 /\ 1 \notin torn /\ "up" \notin undone =>
            \A d \in Dotfiles : ~OldBlock(d)
    /\ level = 3 /\ 2 \notin torn => \A f \in Files : disk[Json5(f)] = Nothing
    /\ level = 3 => \A f \in Files : disk[Legacy(f)] # Link

\* Where a config file may be.
Places3(f) == {Legacy(f), Json5(f), Toml(f)}
Has(q, v) == disk[q].t = "text" /\ disk[q].v = v

\* The version in force is live, or a restore that is torn will put another in
\* force; what the restore under way has put back is.
CovInv ==
    /\ \A f \in Files :
        \/ inforce[f] = 0
        \/ \E q \in Places3(f) : Has(q, inforce[f])
        \/ \E l \in torn : snaps[l] # <<>> /\ DOMAIN Snap(l) \cap Places3(f) # {}
    /\ Begun => \A f \in Files :
        (DOMAIN Plan.entries \ (Plan.left \cup (IF place[Terminal] = "put" THEN {Plan.target} ELSE {})))
             \cap Places3(f) # {} =>
            \E q \in (DOMAIN Plan.entries \ Plan.left) \cap Places3(f) : Has(q, inforce[f])
    /\ place[Terminal] = "forward" => \A f \in Files :
            Plan.target \in Places3(f) => Has(Plan.target, inforce[f])

\* The user's lines of d are as the user left them, unless a save was undone.
InStep(d) == d \in outrun \/ OwnText(LinesOf(d)) = own[d]

\* A dotfile is as the user left it, or a torn restore will put it back.
OwnInv ==
    /\ \A d \in Dotfiles : InStep(d) \/ \E l \in torn : snaps[l] # <<>> /\ Dot(d) \in DOMAIN Snap(l)
    /\ Begun => \A d \in Dotfiles :
            /\ Dot(d) \in DOMAIN Plan.entries \ Plan.left
            /\ ~(place[Terminal] = "put" /\ Plan.target = Dot(d))
            => InStep(d)

\* Before the first restore every copy of the config declares the shims.
ManagedShims == {b \in Binaries \ orphans : Managed(b)}
\* As long as no restore has written anything, every copy of the config declares the shims, and the
\* one `wrap` is about to install; `unwrap` has removed its shim; and what `ssh setup` planned on has
\* no block if the plan says so.
ShimInv ==
    /\ undone = {} =>
        /\ \A q \in Places3(Config) : IsText(q) => ManagedShims \subseteq disk[q].wraps
        /\ ManagedShims # {} => \E q \in Places3(Config) : IsText(q)
        /\ place[Terminal] = "install" /\ doing.binary \notin orphans =>
            /\ \A q \in Places3(Config) : IsText(q) => doing.binary \in disk[q].wraps
            /\ \E q \in Places3(Config) : IsText(q)
    /\ place[Terminal] = "unlist" => ~Managed(doing.binary) \/ doing.binary \in orphans
    /\ place[Terminal] \in {"install", "unlist"} => doing.binary \in Binaries
    /\ place[Terminal] \in {"install", "path", "shimdir"} => doing.dir \in ShimDirs
    /\ place[Terminal] = "wire" =>
        /\ doing.method \in Methods
        /\ doing.state \in {"Stale", "Absent"}
        /\ doing.state = "Absent" => ~HasBlock(LinesOf(MethodFile(doing.method)))
   
\* Versions that a snapshot or a rescue holds.
InRescues == {s.body : s \in saved}
Safe(f, v) == \E b \in InRescues \cup UNION {Range(Snap(l)) : l \in {k \in 0..2 : snaps[k] # <<>>}} :
                  b.t = "text" /\ b.f = f /\ b.v = v
\* The user wrote over it, or secreq did and the file is an exception.
Gone(f, v) == <<f, v>> \notin kept \/ f \in outrun
\* No restore was one of the exceptions of NoWorkIsLost.
Straight == undone \cap {"up", "late", "twice"} = {}

\* Every version the user wrote is live or safe; of two real files at the places of a migrated one
\* the older is safe, gone or a copy; what a restore read at an old path it will overwrite is live
\* elsewhere, or safe; and what it is about to remove it has saved.
WorkInv ==
    Straight =>
        /\ \A f \in Files, v \in 0..(edits + 1) :
            Gone(f, v) \/ Safe(f, v) \/ \E q \in Places3(f) : Has(q, v)
        /\ \A f \in Files : IsText(Legacy(f)) /\ IsText(Json5(f)) =>
            \/ Gone(f, disk[Legacy(f)].v) \/ Safe(f, disk[Legacy(f)].v)
            \/ disk[Json5(f)].v = disk[Legacy(f)].v
        /\ place[Terminal] \in {"prompt", "rescue"} => \A f \in Files :
            /\ Legacy(f) \in DOMAIN Plan.entries
            /\ Plan.entries[Legacy(f)].live = Json5(f)
            /\ Plan.seen[Legacy(f)].t = "text"
            => LET v == Plan.seen[Legacy(f)].v IN
                /\ v \in 0..(edits + 1)
                /\ Gone(f, v) \/ Safe(f, v) \/ Has(Json5(f), v) \/ Has(Toml(f), v)
        /\ place[Terminal] \in {"drop", "put", "forward", "level"} =>
            /\ \A q \in DOMAIN Plan.entries :
                (q \in Plan.left \/ Plan.entries[q].live # q)
                    /\ IsText(Plan.entries[q].live) => disk[Plan.entries[q].live] \in InRescues
            /\ \A q \in DOMAIN Plan.stale : IsText(q) => disk[q] \in InRescues
            /\ \A f \in Files :
                /\ Legacy(f) \in DOMAIN Plan.entries \cap Plan.left
                /\ Plan.entries[Legacy(f)].live = Json5(f)
                /\ IsText(Legacy(f))
                => LET v == disk[Legacy(f)].v IN
                   Gone(f, v) \/ Safe(f, v) \/ Has(Json5(f), v) \/ Has(Toml(f), v)

-----------------------------------------------------------------------------
(* The steps, by what they may write.                                      *)

\* A process that holds the lock, at its migration.
Migrates(p) ==
    \/ snapshot_if_absent(p) \/ migrate_config_file(p) \/ RemoveOld(p) \/ ensure_symlink(p)
    \/ migrate_audit_log(p) \/ ReadBlock(p) \/ rewrite_in_place(p)
    \/ clean_legacy_runtime_dir(p) \/ convert(p) \/ RemoveFrom(p)
    \/ clear_legacy_symlinks(p) \/ record_post_state(p) \/ Stamp(p)

\* On the way to the lock, or out.
Passes(p) ==
    \/ Start(p) \/ run_pending_in(p) \/ acquire_lock(p) \/ Confirm(p) \/ Kill(p)
    \/ \E l \in 0..2 : restore_in(p, l)
Exits(p) == Passes(p) \/ OtherCommand(p)

\* The terminal, once a restore has its answer.
Restores ==
    \/ Rescue(Terminal) \/ DropTarget(Terminal) \/ PutTarget(Terminal)
    \/ RemoveForward(Terminal) \/ RemoveStale(Terminal) \/ AllRestored(Terminal)
    \/ RollBackLevel(Terminal)

\* The user in an editor.
Saves ==
    \/ \E f \in Files : Edit(f)
    \/ \E f \in Files, q \in Paths : Tidy(f, q)
    \/ \E d \in Dotfiles : EditDotfile(d)

\* The user at the terminal.
Types ==
    \/ \E b \in Binaries : wrap(b) \/ unwrap_cmd(b)
    \/ InstallShim \/ RemoveEntry \/ doctor \/ init \/ AppendPath \/ SetShimDir
    \/ \E method \in Methods : ssh_setup_wiring_step(method) \/ remove(method)
    \/ WireAgent

\* The inductive invariant, part by part.
HInv == /\ LockInv /\ DiskInv /\ SnapInv /\ TypeInv /\ PlanInv /\ RunInv
        /\ MigInv /\ LevelInv /\ CovInv /\ OwnInv /\ ShimInv /\ WorkInv

-----------------------------------------------------------------------------
(* Who holds the lock.                                                     *)

\* A step of p leaves the others where they are.
LEMMA LockStep ==
    ASSUME LockInv, NEW p \in Processes,
           place' \in [Processes -> Places],
           at' \in [Processes -> [m : Nat, i : Nat]],
           \A r \in Processes \ {p} : place'[r] = place[r] /\ at'[r] = at[r],
           lock' = lock \/ {lock, lock'} \subseteq {p, NoOne},
           level' \in 0..3, level' = level \/ lock = p,
           LockAt(p)', p = Terminal /\ place'[p] \in Typing => level' = 3,
           place[Terminal] \in Typing => level' = level
    PROVE  LockInv'
<1>1. ASSUME NEW r \in Processes, r # p PROVE LockAt(r)'
  <2>1. place'[r] = place[r] /\ at'[r] = at[r]
    BY <1>1
  <2>2. NoOne \notin Processes
    BY MigrationAssumption
  <2>3. lock' = r <=> lock = r
    BY <1>1, <2>2
  <2>4. place[r] \in Moving => level' = level
    BY <1>1 DEF LockInv, LockAt
  <2>. QED  BY <2>1, <2>3, <2>4 DEF LockInv, LockAt
<1>2. place' \in [Processes -> Places] /\ lock' \in Processes \cup {NoOne}
  BY DEF LockInv
<1>3. place'[Terminal] \in Typing => level' = 3
  BY MigrationAssumption DEF LockInv
<1>. QED  BY <1>1, <1>2, <1>3 DEF LockInv

\* On to the next file of the migration.
LEMMA NextFileEffect ==
    ASSUME NEW p \in Processes, at \in [Processes -> [m : Nat, i : Nat]], NextFile(p)
    PROVE  /\ at' \in [Processes -> [m : Nat, i : Nat]]
           /\ at'[p].m = at[p].m /\ at'[p].i = at[p].i + 1
           /\ \A r \in Processes \ {p} : at'[r] = at[r]
BY DEF NextFile

\* A migration keeps its lock, and its level.
LEMMA LockMigrates ==
    ASSUME LockInv, NEW p \in Processes, Migrates(p)
    PROVE  LockInv'
<1>0. /\ at \in [Processes -> [m : Nat, i : Nat]] /\ LockAt(p) /\ level \in 0..3
      /\ NoOne # p /\ place \in [Processes -> Places] /\ lock \in Processes \cup {NoOne}
      /\ place[Terminal] \in Typing => level = 3
  BY MigrationAssumption DEF LockInv
<1>1. ASSUME snapshot_if_absent(p)
       PROVE  /\ at[p].m = 1 => Goto(p, "move")
              /\ at[p].m = 2 => Goto(p, "read")
              /\ at[p].m = 3 => Goto(p, "convert")
              /\ level' = level /\ lock' = lock /\ at' = at /\ place[p] = "snapshot"
  <2>1. /\ Goto(p, CASE at[p].m = 1 -> "move" [] at[p].m = 2 -> "read"
                     [] at[p].m = 3 -> "convert")
        /\ level' = level /\ lock' = lock /\ at' = at /\ place[p] = "snapshot"
    BY <1>1, Zenon DEF snapshot_if_absent
  <2>. QED  BY <2>1
<1>2. ASSUME clean_legacy_runtime_dir(p)
       PROVE  /\ place[p] = "read" /\ level' = level /\ at' = at
              /\ (Stop(p) \/ (Goto(p, "record") /\ lock' = lock))
  BY <1>2, Zenon DEF clean_legacy_runtime_dir
<1>. USE <1>0, LockStep, NextFileEffect
         DEF Goto, Stop, LockAt, Moving, Putting, Typing, Places, Latest
<1>4. CASE snapshot_if_absent(p)
  <2>1. at[p].m \in {1, 2, 3} /\ at[p].i = 1
    <3>1. place[p] = "snapshot"
      BY <1>4 DEF snapshot_if_absent
    <3>2. level = at[p].m - 1 /\ level < 3 /\ at[p].m \in Nat /\ at[p].i = 1
      BY <3>1
    <3>. QED  BY <3>2
  <2>2. /\ at[p].m = 1 => Goto(p, "move")
        /\ at[p].m = 2 => Goto(p, "read")
        /\ at[p].m = 3 => Goto(p, "convert")
        /\ level' = level /\ lock' = lock /\ at' = at /\ place[p] = "snapshot"
    BY <1>4, <1>1
  <2>3. CASE at[p].m = 1
    BY <2>1, <2>2, <2>3
  <2>4. CASE at[p].m = 2
    BY <2>1, <2>2, <2>4
  <2>5. CASE at[p].m = 3
    BY <2>1, <2>2, <2>5
  <2>. QED  BY <2>1, <2>3, <2>4, <2>5
<1>5. CASE migrate_config_file(p)
  <2>1. /\ place[p] = "move" /\ at[p].i \in DOMAIN FileSeq
        /\ level' = level
        /\ \/ NextFile(p) /\ place' = place /\ lock' = lock
           \/ \E w \in {"link", "unlink"} : Goto(p, w) /\ at' = at /\ lock' = lock
           \/ Stop(p) /\ at' = at
    BY <1>5 DEF migrate_config_file
  <2>2. CASE NextFile(p) /\ place' = place /\ lock' = lock
    BY <2>1, <2>2
  <2>3. CASE \E w \in {"link", "unlink"} : Goto(p, w) /\ at' = at /\ lock' = lock
    BY <2>1, <2>3
  <2>4. CASE Stop(p) /\ at' = at
    BY <2>1, <2>4
  <2>. QED  BY <2>1, <2>2, <2>3, <2>4
<1>6. CASE RemoveOld(p)
  BY <1>6 DEF RemoveOld
<1>7. CASE ensure_symlink(p)
  BY <1>7 DEF ensure_symlink
<1>8. CASE migrate_audit_log(p)
  BY <1>8 DEF migrate_audit_log
<1>9. CASE ReadBlock(p)
  BY <1>9 DEF ReadBlock
<1>10. CASE rewrite_in_place(p)
  BY <1>10 DEF rewrite_in_place
<1>11. CASE clean_legacy_runtime_dir(p)
  <2>1. /\ place[p] = "read" /\ level' = level /\ at' = at
        /\ (Stop(p) \/ (Goto(p, "record") /\ lock' = lock))
    BY <1>11, <1>2
  <2>2. CASE Stop(p)
    BY <2>1, <2>2
  <2>3. CASE Goto(p, "record") /\ lock' = lock
    BY <2>1, <2>3
  <2>. QED  BY <2>1, <2>2, <2>3
<1>12. CASE convert(p)
  BY <1>12 DEF convert
<1>13. CASE RemoveFrom(p)
  <2>1. NextFile(p) /\ place' = [place EXCEPT ![p] = "convert"] /\ place[p] = "converted"
        /\ level' = level /\ lock' = lock
    BY <1>13 DEF RemoveFrom
  <2>2. LockAt(p)'
    BY <2>1
  <2>. QED  BY <2>1, <2>2
<1>14. CASE clear_legacy_symlinks(p)
  BY <1>14 DEF clear_legacy_symlinks
<1>15. CASE record_post_state(p)
  BY <1>15 DEF record_post_state
<1>16. CASE Stamp(p)
  BY <1>16 DEF Stamp
<1>. QED
  BY <1>4, <1>5, <1>6, <1>7, <1>8, <1>9, <1>10, <1>11, <1>12, <1>13, <1>14, <1>15, <1>16
     DEF Migrates

\* So does every step to the lock and away from it.
LEMMA LockExits ==
    ASSUME LockInv, NEW p \in Processes, Exits(p)
    PROVE  LockInv'
<1>1. /\ at \in [Processes -> [m : Nat, i : Nat]] /\ LockAt(p) /\ level \in 0..3
      /\ NoOne # p /\ place \in [Processes -> Places] /\ lock \in Processes \cup {NoOne}
      /\ place[Terminal] \in Typing => level = 3
  BY MigrationAssumption DEF LockInv
<1>. USE <1>1, LockStep DEF Goto, Stop, LockAt, Moving, Putting, Typing, Places, Latest
<1>2. CASE Start(p)
  BY <1>2 DEF Start
<1>3. CASE run_pending_in(p)
  BY <1>3 DEF run_pending_in
<1>4. CASE acquire_lock(p)
  BY <1>4 DEF acquire_lock
<1>5. CASE Confirm(p)
  BY <1>5 DEF Confirm
<1>6. CASE Kill(p)
  BY <1>6 DEF Kill
<1>7. CASE \E l \in 0..2 : restore_in(p, l)
  BY <1>7 DEF restore_in
<1>8. CASE OtherCommand(p)
  BY <1>8 DEF OtherCommand
<1>. QED  BY <1>2, <1>3, <1>4, <1>5, <1>6, <1>7, <1>8 DEF Exits, Passes

\* So does a restore that has its answer.
LEMMA LockRestores ==
    ASSUME LockInv, plan[Terminal].l \in 0..2 \/ place[Terminal] \notin Putting, Restores
    PROVE  LockInv'
<1>. DEFINE p == Terminal
<1>1. /\ at \in [Processes -> [m : Nat, i : Nat]] /\ LockAt(p) /\ level \in 0..3
      /\ p \in Processes /\ NoOne # p /\ place \in [Processes -> Places]
      /\ lock \in Processes \cup {NoOne} /\ (place[Terminal] \in Typing => level = 3)
  BY MigrationAssumption DEF LockInv
<1>. USE <1>1, LockStep DEF Goto, Stop, LockAt, Moving, Putting, Typing, Places, Latest
<1>2. CASE Rescue(p)
  BY <1>2 DEF Rescue
<1>3. CASE DropTarget(p)
  BY <1>3 DEF DropTarget
<1>4. CASE PutTarget(p)
  BY <1>4 DEF PutTarget
<1>5. CASE RemoveForward(p)
  BY <1>5 DEF RemoveForward
<1>6. CASE RemoveStale(p)
  BY <1>6 DEF RemoveStale
<1>7. CASE AllRestored(p)
  BY <1>7 DEF AllRestored
<1>8. CASE RollBackLevel(p)
  BY <1>8 DEF RollBackLevel
<1>. QED  BY <1>2, <1>3, <1>4, <1>5, <1>6, <1>7, <1>8 DEF Restores

\* The user at an editor leaves them alone.
LEMMA LockSaves ==
    ASSUME LockInv, \/ Saves
                    \/ \E s \in ShimDirs, b \in Binaries : DropForeign(s, b)
                    \/ UNCHANGED <<place, lock, level, at>>
    PROVE  LockInv'
<1>1. UNCHANGED <<place, lock, level, at>>
  BY DEF Saves, Edit, Tidy, EditDotfile, DropForeign, procs
<1>. QED  BY <1>1 DEF LockInv, LockAt

\* A command of the terminal moves on, or ends.
LEMMA TypesMove ==
    ASSUME LockInv, Types
    PROVE  /\ place[Terminal] \in Typing
           /\ \E w \in Typing \cup {"idle"} : place' = [place EXCEPT ![Terminal] = w]
           /\ UNCHANGED <<level, lock, snaps, saved, sockdir, audit, at, before, unread,
                          plan, torn, undone, starts, kills>>
<1>. USE DEF UnchangedByCommand, At, Step, Goto, Typing
<1>1. CASE \E b \in Binaries : wrap(b)
  BY <1>1 DEF wrap
<1>2. CASE \E b \in Binaries : unwrap_cmd(b)
  BY <1>2 DEF unwrap_cmd
<1>3. CASE InstallShim
  BY <1>3 DEF InstallShim
<1>4. CASE RemoveEntry
  BY <1>4 DEF RemoveEntry
<1>5. CASE doctor
  BY <1>5 DEF doctor
<1>6. CASE init
  BY <1>6 DEF init
<1>7. CASE AppendPath
  BY <1>7 DEF AppendPath
<1>8. CASE SetShimDir
  BY <1>8 DEF SetShimDir
<1>9. CASE \E method \in Methods : ssh_setup_wiring_step(method)
  BY <1>9 DEF ssh_setup_wiring_step
<1>10. CASE \E method \in Methods : remove(method)
  BY <1>10 DEF remove
<1>11. CASE WireAgent
  BY <1>11 DEF WireAgent
<1>. QED
  BY <1>1, <1>2, <1>3, <1>4, <1>5, <1>6, <1>7, <1>8, <1>9, <1>10, <1>11 DEF Types

\* So do the commands, which come after the gate.
LEMMA LockTypes ==
    ASSUME LockInv, Types
    PROVE  LockInv'
<1>0. PICK p \in Processes : p = Terminal
  BY MigrationAssumption
<1>1. /\ at \in [Processes -> [m : Nat, i : Nat]] /\ LockAt(p) /\ level \in 0..3
      /\ p \in Processes /\ NoOne # p /\ place \in [Processes -> Places]
      /\ lock \in Processes \cup {NoOne} /\ (place[Terminal] \in Typing => level = 3)
  BY <1>0, MigrationAssumption DEF LockInv
<1>2. PICK w \in Typing \cup {"idle"} : place' = [place EXCEPT ![Terminal] = w]
  BY TypesMove
<1>3. place[p] \in Typing /\ UNCHANGED <<level, lock, at>>
  BY <1>0, TypesMove
<1>4. /\ place' \in [Processes -> Places] /\ place'[p] = w
      /\ \A r \in Processes \ {p} : place'[r] = place[r]
  BY <1>0, <1>1, <1>2 DEF Places, Typing
<1>5. LockAt(p)'
  BY <1>0, <1>1, <1>2, <1>3, <1>4 DEF LockAt, Moving, Putting, Typing
<1>6. /\ at' \in [Processes -> [m : Nat, i : Nat]] /\ lock' = lock /\ level' = level
      /\ level' \in 0..3 /\ level' = 3 /\ \A r \in Processes : at'[r] = at[r]
  BY <1>0, <1>1, <1>3
<1>. QED  BY <1>0, <1>1, <1>4, <1>5, <1>6, LockStep

\* The paths, and what tells them apart.
LEMMA PathFacts ==
    /\ \A f \in Files : Legacy(f) \in Paths /\ Json5(f) \in Paths /\ Toml(f) \in Paths
    /\ \A d \in Dotfiles : Dot(d) \in Paths
    /\ \A q \in Paths : \/ \E f \in Files : q \in Places3(f)
                        \/ \E d \in Dotfiles : q = Dot(d)
    /\ \A f, g \in Files :
          /\ Legacy(f) = Legacy(g) \/ Json5(f) = Json5(g) \/ Toml(f) = Toml(g) => f = g
          /\ Legacy(f) # Json5(g) /\ Legacy(f) # Toml(g) /\ Json5(f) # Toml(g)
    /\ \A f \in Files, d \in Dotfiles :
          Legacy(f) # Dot(d) /\ Json5(f) # Dot(d) /\ Toml(f) # Dot(d)
    /\ \A d, e \in Dotfiles : Dot(d) = Dot(e) => d = e
    /\ \A f \in Files : /\ Legacy(f)[1] = "legacy" /\ Legacy(f)[2] = f
                        /\ Json5(f)[1] = "json5" /\ Json5(f)[2] = f
                        /\ Toml(f)[1] = "toml" /\ Toml(f)[2] = f
    /\ \A d \in Dotfiles : Dot(d)[1] = "dot" /\ Dot(d)[2] = d
BY DEF Paths, Places3, Legacy, Json5, Toml, Dot

\* The places of one config file are paths of no other.
LEMMA PlacesOfOne ==
    ASSUME NEW f \in Files, NEW q \in Places3(f)
    PROVE  /\ q \in Paths /\ q[2] = f /\ q[1] \in {"legacy", "json5", "toml"}
           /\ \A g \in Files : q \in Places3(g) => g = f
           /\ \A d \in Dotfiles : q # Dot(d)
BY PathFacts DEF Places3

\* The two lists name the config files and the dotfiles, all of them.
LEMMA SeqFacts ==
    /\ \A i \in DOMAIN FileSeq : FileSeq[i] \in Files
    /\ \A i \in DOMAIN DotSeq : DotSeq[i] \in Dotfiles
    /\ \A f \in Files : \E i \in DOMAIN FileSeq : FileSeq[i] = f
    /\ \A d \in Dotfiles : \E i \in DOMAIN DotSeq : DotSeq[i] = d
    /\ DOMAIN FileSeq = 1..Len(FileSeq) /\ Len(FileSeq) \in Nat
    /\ DOMAIN DotSeq = 1..Len(DotSeq) /\ Len(DotSeq) \in Nat
BY MigrationAssumption DEF Files, Dotfiles, Range

\* A config file's text.
LEMMA TextFields ==
    ASSUME NEW f, NEW b \in Texts(f)
    PROVE  /\ b.t = "text" /\ b.f = f /\ b.v \in 0..(edits + 1) /\ b.ok \in BOOLEAN
           /\ b.wraps \in SUBSET Binaries /\ b.dir \in DirValues
           /\ b # Nothing /\ b # Link
BY DEF Texts, Nothing, Link

-----------------------------------------------------------------------------
(* What is at each path.                                                   *)

\* A body of Texts is a Text.
LEMMA TextsAre ==
    ASSUME NEW f, NEW b
    PROVE  b \in Texts(f) <=> TextOf(f, edits, b)
BY DEF Texts, TextOf, Text

\* And after the step.
LEMMA TextsAreNext ==
    ASSUME NEW f, NEW b
    PROVE  b \in Texts(f)' <=> TextOf(f, edits', b)
BY DEF Texts, TextOf, Text

\* With more versions, more bodies.
LEMMA TextsGrow ==
    ASSUME edits \in Nat, edits' \in Nat, edits <= edits', NEW f
    PROVE  Texts(f) \subseteq Texts(f)'
BY DEF Texts

\* The kinds of body are told apart.
LEMMA Bodies ==
    /\ Nothing.t = "nothing" /\ Link.t = "link" /\ Nothing # Link
    /\ \A ls : /\ Lined(ls).t = "dot" /\ Lined(ls).lines = ls
               /\ Lined(ls) # Nothing /\ Lined(ls) # Link
BY DEF Nothing, Link, Lined

\* What is at a path of a config file.
LEMMA DiskKinds ==
    ASSUME DiskInv, NEW f \in Files, NEW q \in Places3(f)
    PROVE  /\ disk[q] \in {Nothing, Link} \cup Texts(f)
           /\ disk[q] = Link => q = Legacy(f)
           /\ IsText(q) <=> disk[q] \in Texts(f)
           /\ IsText(q) <=> disk[q] # Nothing /\ disk[q] # Link
BY Bodies, TextFields DEF DiskInv, Places3, IsText

\* What is read of a dotfile is well-formed, there or not.
LEMMA DotKinds ==
    ASSUME DiskInv, NEW d \in Dotfiles
    PROVE  /\ disk[Dot(d)] # Nothing => disk[Dot(d)] = Lined(LinesOf(d))
           /\ WellFormed(LinesOf(d))
           /\ ~IsText(Dot(d)) /\ disk[Dot(d)] # Link
           /\ OldBlock(d) <=> IsOld(LinesOf(d))
<1>1. disk[Dot(d)] = Nothing \/ IsDot(disk[Dot(d)])
  BY DEF DiskInv
<1>2. WellFormed(<<>>)
  <2>1. <<>> \in Seq(PlainLines)
    OBVIOUS
  <2>. QED  BY <2>1, PlainWellFormed
<1>3. OldBlock(d) <=> IsOld(LinesOf(d))
  BY DEF OldBlock, NamesOld, Unexpanded, Expanded, IsOld, NamesOldSocket, NamesItOddly
<1>. QED  BY <1>1, <1>2, <1>3, Bodies DEF IsDot, LinesOf, IsText

\* One path is written.
Sets(q, b) == disk'[q] = b /\ \A r \in Paths \ {q} : disk'[r] = disk[r]

\* A write changes the path it writes to.
LEMMA PutSets ==
    ASSUME DiskInv, NEW q \in Paths, NEW b, Put(q, b)
    PROVE  Sets(q, b) /\ disk' = [r \in Paths |-> disk'[r]]
<1>1. DOMAIN disk = Paths
  BY DEF DiskInv
<1>. QED  BY <1>1 DEF Put, Sets

\* A write to a dotfile is what is read of it, and of no other.
LEMMA SetsDot ==
    ASSUME DiskInv, NEW d \in Dotfiles, NEW ls, Sets(Dot(d), Lined(ls))
    PROVE  /\ LinesOf(d)' = ls
           /\ \A e \in Dotfiles \ {d} : LinesOf(e)' = LinesOf(e)
           /\ \A f \in Files : \A q \in Places3(f) : disk'[q] = disk[q]
<1>1. \A e \in Dotfiles \ {d} : disk'[Dot(e)] = disk[Dot(e)]
  BY PathFacts DEF Sets
<1>2. \A f \in Files : \A q \in Places3(f) : disk'[q] = disk[q]
  BY PlacesOfOne, PathFacts DEF Sets
<1>3. LinesOf(d)' = ls
  BY Bodies DEF LinesOf, Sets
<1>. QED  BY <1>1, <1>2, <1>3 DEF LinesOf

\* A place of a config file is written: the dotfiles stay.
LEMMA SetsPlace ==
    ASSUME NEW f \in Files, NEW q \in Places3(f), NEW b, Sets(q, b)
    PROVE  /\ \A d \in Dotfiles : disk'[Dot(d)] = disk[Dot(d)] /\ LinesOf(d)' = LinesOf(d)
           /\ \A g \in Files \ {f} : \A r \in Places3(g) : disk'[r] = disk[r]
           /\ \A r \in Places3(f) \ {q} : disk'[r] = disk[r]
<1>1. \A d \in Dotfiles : disk'[Dot(d)] = disk[Dot(d)]
  BY PlacesOfOne, PathFacts DEF Sets
<1>2. \A g \in Files \ {f} : \A r \in Places3(g) : disk'[r] = disk[r]
  BY PlacesOfOne DEF Sets
<1>3. \A r \in Places3(f) \ {q} : disk'[r] = disk[r]
  BY PlacesOfOne DEF Sets
<1>. QED  BY <1>1, <1>2, <1>3 DEF LinesOf

\* What may be written where.
LEMMA DiskPut ==
    ASSUME DiskInv, edits \in Nat, edits' \in Nat, edits <= edits',
           NEW q \in Paths, NEW b, Put(q, b),
           \/ b = Nothing
           \/ \E f \in Files : q \in Places3(f) /\ b \in Texts(f)'
           \/ b = Link /\ \E f \in Files : q = Legacy(f)
           \/ \E d \in Dotfiles : \E ls : q = Dot(d) /\ b = Lined(ls) /\ WellFormed(ls)
    PROVE  DiskInv'
<1>1. Sets(q, b) /\ disk' = [r \in Paths |-> disk'[r]]
  BY PutSets
<1>2. \A f \in Files : Texts(f) \subseteq Texts(f)'
  BY TextsGrow
<1>3. ASSUME NEW f \in Files
      PROVE  /\ disk'[Legacy(f)] \in {Nothing, Link} \cup Texts(f)'
             /\ disk'[Json5(f)] \in {Nothing} \cup Texts(f)'
             /\ disk'[Toml(f)] \in {Nothing} \cup Texts(f)'
  <2>1. /\ disk[Legacy(f)] \in {Nothing, Link} \cup Texts(f)'
        /\ disk[Json5(f)] \in {Nothing} \cup Texts(f)'
        /\ disk[Toml(f)] \in {Nothing} \cup Texts(f)'
    BY <1>2 DEF DiskInv
  <2>2. \A r \in Places3(f) \ {q} : disk'[r] = disk[r]
    BY <1>1, PlacesOfOne DEF Sets
  <2>3. q \in Places3(f) => /\ b = Nothing \/ b \in Texts(f)' \/ (b = Link /\ q = Legacy(f))
    BY PathFacts, PlacesOfOne DEF Places3
  <2>4. disk'[q] = b
    BY <1>1 DEF Sets
  <2>5. /\ Legacy(f) \in Places3(f) /\ Json5(f) \in Places3(f) /\ Toml(f) \in Places3(f)
        /\ Legacy(f) # Json5(f) /\ Legacy(f) # Toml(f) /\ Json5(f) # Toml(f)
    BY PathFacts DEF Places3
  <2>. QED  BY <2>1, <2>2, <2>3, <2>4, <2>5
<1>4. ASSUME NEW d \in Dotfiles
      PROVE  disk'[Dot(d)] = Nothing \/ IsDot(disk'[Dot(d)])
  <2>1. CASE q # Dot(d)
    <3>1. disk'[Dot(d)] = disk[Dot(d)]
      BY <1>1, <2>1, PathFacts DEF Sets
    <3>. QED  BY <3>1 DEF DiskInv
  <2>2. CASE q = Dot(d)
    <3>1. disk'[Dot(d)] = b
      BY <1>1, <2>2 DEF Sets
    <3>2. b = Nothing \/ \E ls : b = Lined(ls) /\ WellFormed(ls)
      BY <2>2, PathFacts, PlacesOfOne
    <3>3. b = Nothing \/ IsDot(b)
      BY <3>2, Bodies DEF IsDot
    <3>. QED  BY <3>1, <3>3
  <2>. QED  BY <2>1, <2>2
<1>. QED  BY <1>1, <1>3, <1>4 DEF DiskInv, IsDot

\* Later versions leave the disk as it may be.
LEMMA DiskSame ==
    ASSUME DiskInv, edits \in Nat, edits' \in Nat, edits <= edits', UNCHANGED disk
    PROVE  DiskInv'
BY TextsGrow DEF DiskInv, IsDot

\* The file the user opens is a text.
LEMMA CurrentText ==
    ASSUME DiskInv, NEW f \in Files, Exists(Current(f))
    PROVE  /\ Current(f) \in Places3(f) /\ IsText(Current(f))
           /\ Body(Current(f)) = disk[Current(f)]
<1>1. /\ Legacy(f) \in Places3(f) /\ Json5(f) \in Places3(f) /\ Toml(f) \in Places3(f)
      /\ Legacy(f)[2] = f
  BY PathFacts DEF Places3
<1>2. /\ disk[Json5(f)] # Link /\ disk[Toml(f)] # Link
      /\ Exists(Json5(f)) <=> disk[Json5(f)] # Nothing
      /\ Exists(Toml(f)) <=> disk[Toml(f)] # Nothing
  BY <1>1, DiskKinds, PathFacts DEF Exists, Body, Deref
<1>3. CASE disk[Current(f)] = Link
  <2>1. Current(f) = Legacy(f)
    BY <1>2, <1>3 DEF Current
  <2>2. Body(Legacy(f)) = disk[Json5(f)]
    BY <1>1, <1>3, <2>1 DEF Body, Deref
  <2>3. disk[Json5(f)] = Nothing
    BY <1>2, <2>1, PathFacts DEF Current
  <2>. QED  BY <2>1, <2>2, <2>3 DEF Exists
<1>4. CASE disk[Current(f)] # Link
  <2>1. Body(Current(f)) = disk[Current(f)]
    BY <1>4 DEF Body, Deref
  <2>2. Current(f) \in Places3(f)
    BY <1>1 DEF Current
  <2>. QED  BY <1>4, <2>1, <2>2, DiskKinds DEF Exists
<1>. QED  BY <1>3, <1>4

\* A migration leaves at each path what may be there.
LEMMA DiskMigrates ==
    ASSUME LockInv, DiskInv, edits \in Nat, NEW p \in Processes, Migrates(p)
    PROVE  DiskInv' /\ edits' \in Nat /\ edits <= edits'
<1>0. edits' \in Nat /\ edits <= edits' /\ at[p].i \in Nat
  <2>1. CASE rewrite_in_place(p)
    BY <2>1 DEF rewrite_in_place, Rewrite, LockInv
  <2>2. CASE ~rewrite_in_place(p)
    <3>1. edits' = edits
      BY <2>2 DEF Migrates, snapshot_if_absent, migrate_config_file, RemoveOld,
         ensure_symlink, migrate_audit_log, ReadBlock, clean_legacy_runtime_dir, convert,
         RemoveFrom, clear_legacy_symlinks, record_post_state, Stamp, bounds
    <3>. QED  BY <3>1 DEF LockInv
  <2>. QED  BY <2>1, <2>2
<1>1. CASE UNCHANGED disk
  BY <1>0, <1>1, DiskSame
<1>2. ASSUME NEW q \in Paths, NEW b, Put(q, b),
             \/ b = Nothing
             \/ \E f \in Files : q \in Places3(f) /\ b \in Texts(f)
             \/ b = Link /\ \E f \in Files : q = Legacy(f)
             \/ \E d \in Dotfiles : \E ls : q = Dot(d) /\ b = Lined(ls) /\ WellFormed(ls)
      PROVE  DiskInv'
  BY <1>0, <1>2, TextsGrow, DiskPut
<1>3. CASE migrate_config_file(p)
  <2>. DEFINE f == FileSeq[at[p].i]
  <2>1. f \in Files /\ Json5(f) \in Paths /\ Json5(f) \in Places3(f) /\ Legacy(f) \in Places3(f)
    BY <1>3, SeqFacts, PathFacts DEF migrate_config_file, Places3
  <2>2. UNCHANGED disk \/ (disk[Legacy(f)].t = "text" /\ Put(Json5(f), disk[Legacy(f)]))
    BY <1>3, Zenon DEF migrate_config_file
  <2>3. disk[Legacy(f)].t = "text" => disk[Legacy(f)] \in Texts(f)
    BY <2>1, DiskKinds DEF IsText
  <2>. HIDE DEF f
  <2>. QED  BY <1>0, <1>1, <1>2, <2>1, <2>2, <2>3
<1>4. CASE RemoveOld(p)
  <2>1. Put(Legacy(FileSeq[at[p].i]), Nothing) /\ FileSeq[at[p].i] \in Files
    BY <1>4, SeqFacts DEF RemoveOld, LockInv, LockAt
  <2>. QED  BY <1>0, <1>2, <2>1, PathFacts
<1>5. CASE ensure_symlink(p)
  <2>1. FileSeq[at[p].i] \in Files
    BY <1>5, SeqFacts DEF ensure_symlink, LockInv, LockAt
  <2>2. UNCHANGED disk \/ Put(Legacy(FileSeq[at[p].i]), Link)
    BY <1>5 DEF ensure_symlink
  <2>. QED  BY <1>0, <1>1, <1>2, <2>1, <2>2, PathFacts
<1>6. CASE rewrite_in_place(p)
  <2>. DEFINE d == DotSeq[at[p].i]
              new == replace_block(LinesOf(d), ssh_block(NewUnderHome))
  <2>1. d \in Dotfiles
    BY <1>6, SeqFacts DEF rewrite_in_place, LockInv, LockAt
  <2>2. UNCHANGED disk \/ Put(Dot(d), Lined(new))
    BY <1>6 DEF rewrite_in_place, Rewrite
  <2>3. WellFormed(new)
    BY <2>1, DotKinds, ReplaceKeeps DEF AddsNone
  <2>. HIDE DEF d, new
  <2>. QED  BY <1>0, <1>1, <1>2, <2>1, <2>2, <2>3, PathFacts
<1>7. CASE convert(p)
  <2>. DEFINE f == FileSeq[at[p].i]
  <2>1. f \in Files /\ Toml(f) \in Paths /\ Toml(f) \in Places3(f) /\ Json5(f) \in Places3(f)
        /\ Json5(f) # Legacy(f)
    BY <1>7, SeqFacts, PathFacts DEF convert, Places3
  <2>2. UNCHANGED disk \/ (disk[Json5(f)] # Nothing /\ Put(Toml(f), disk[Json5(f)]))
    BY <1>7, Zenon DEF convert
  <2>3. disk[Json5(f)] # Nothing => disk[Json5(f)] \in Texts(f)
    BY <2>1, DiskKinds
  <2>. HIDE DEF f
  <2>. QED  BY <1>0, <1>1, <1>2, <2>1, <2>2, <2>3
<1>8. CASE RemoveFrom(p)
  <2>1. Put(Json5(FileSeq[at[p].i]), Nothing) /\ FileSeq[at[p].i] \in Files
    BY <1>8, SeqFacts DEF RemoveFrom, LockInv, LockAt
  <2>. QED  BY <1>0, <1>2, <2>1, PathFacts
<1>9. CASE clear_legacy_symlinks(p)
  <2>1. /\ disk' = [q \in Paths |-> disk'[q]]
        /\ \A q \in Paths : disk'[q] = IF disk[q] = Link THEN Nothing ELSE disk[q]
    BY <1>9 DEF clear_legacy_symlinks
  <2>2. \A f : Texts(f) \subseteq Texts(f)'
    BY <1>0, TextsGrow
  <2>3. \A d \in Dotfiles : disk'[Dot(d)] = Nothing \/ IsDot(disk'[Dot(d)])
    BY <2>1, PathFacts DEF DiskInv
  <2>4. \A d \in Dotfiles : disk'[Dot(d)] = Nothing \/ IsDot(disk[Dot(d)])'
    BY <2>3 DEF IsDot
  <2>5. ASSUME NEW f \in Files
        PROVE  /\ disk'[Legacy(f)] \in {Nothing, Link} \cup Texts(f)
               /\ disk'[Json5(f)] \in {Nothing} \cup Texts(f)
               /\ disk'[Toml(f)] \in {Nothing} \cup Texts(f)
    <3>1. Legacy(f) \in Paths /\ Json5(f) \in Paths /\ Toml(f) \in Paths
      BY PathFacts
    <3>. QED  BY <2>1, <3>1 DEF DiskInv
  <2>6. \A f \in Files : /\ disk'[Legacy(f)] \in {Nothing, Link} \cup Texts(f)'
                        /\ disk'[Json5(f)] \in {Nothing} \cup Texts(f)'
                        /\ disk'[Toml(f)] \in {Nothing} \cup Texts(f)'
    BY <2>2, <2>5
  <2>. QED  BY <1>0, <2>1, <2>4, <2>6 DEF DiskInv
<1>10. CASE \/ snapshot_if_absent(p) \/ migrate_audit_log(p) \/ ReadBlock(p)
            \/ clean_legacy_runtime_dir(p) \/ record_post_state(p) \/ Stamp(p)
  <2>1. UNCHANGED disk
    BY <1>10 DEF snapshot_if_absent, migrate_audit_log, ReadBlock, clean_legacy_runtime_dir,
                 record_post_state, Stamp
  <2>. QED  BY <1>1, <2>1
<1>. QED  BY <1>0, <1>3, <1>4, <1>5, <1>6, <1>7, <1>8, <1>9, <1>10 DEF Migrates

\* What is chosen is one of those there are.
LEMMA SomeIsIn ==
    ASSUME NEW S, S # {}
    PROVE  Some(S) \in S
BY DEF Some

\* Each level's paths, one by one.
LEMMA SnapPathsArePaths ==
    ASSUME NEW l \in 0..2
    PROVE  /\ SnapPaths(l) \subseteq Paths
           /\ l = 0 => SnapPaths(l) = {Legacy(f) : f \in Files}
           /\ l = 1 => SnapPaths(l) = {Dot(d) : d \in Dotfiles}
           /\ l = 2 => SnapPaths(l) = {Json5(f) : f \in Files} \cup {Toml(f) : f \in Files}
BY PathFacts DEF SnapPaths

\* The plan of a restore names paths, and holds what fits there.
LEMMA PlanFacts ==
    ASSUME SnapInv, PlanInv, Asked
    PROVE  /\ Plan.l \in 0..2
           /\ \A q \in DOMAIN Plan.entries :
                /\ q \in SnapPaths(Plan.l) /\ q \in Paths
                /\ Fits(q, Plan.entries[q].snapshot)
                /\ Plan.entries[q].live \in Paths
                /\ \/ Plan.entries[q].live = q
                   \/ \E f \in Files : q = Legacy(f) /\ Plan.entries[q].live = Json5(f)
           /\ \A q \in DOMAIN Plan.stale : q \in Paths /\ \E f \in Files : q \in {Json5(f), Toml(f)}
           /\ Plan.left \subseteq DOMAIN Plan.entries \cup DOMAIN Plan.stale
<1>1. /\ Plan.l \in 0..2 /\ snaps[Plan.l] # <<>>
      /\ DOMAIN Plan.entries = DOMAIN Snap(Plan.l)
      /\ \A q \in DOMAIN Plan.entries :
            /\ Plan.entries[q].snapshot = Snap(Plan.l)[q]
            /\ \/ Plan.entries[q].live = q
               \/ \E f \in Files : q = Legacy(f) /\ Plan.entries[q].live = Json5(f)
      /\ DOMAIN Plan.stale \subseteq {Json5(f) : f \in Files} \cup {Toml(f) : f \in Files}
      /\ Plan.left \subseteq DOMAIN Plan.entries \cup DOMAIN Plan.stale
  BY DEF PlanInv, PlanShape
<1>2. /\ DOMAIN Snap(Plan.l) \subseteq SnapPaths(Plan.l)
      /\ \A q \in DOMAIN Snap(Plan.l) : Fits(q, Snap(Plan.l)[q])
  BY <1>1 DEF SnapInv, SnapAt
<1>. QED  BY <1>1, <1>2, SnapPathsArePaths, PathFacts

\* What fits a path may be put there.
LEMMA DiskFits ==
    ASSUME DiskInv, edits \in Nat, edits' = edits, NEW q \in Paths, NEW b, Put(q, b),
           b = Nothing \/ Fits(q, b)
    PROVE  DiskInv'
<1>1. edits' \in Nat /\ edits <= edits' /\ \A f : Texts(f)' = Texts(f)
  BY DEF Texts
<1>2. \/ b = Nothing
      \/ \E f \in Files : q \in Places3(f) /\ b \in Texts(f)
      \/ \E d \in Dotfiles : \E ls : q = Dot(d) /\ b = Lined(ls) /\ WellFormed(ls)
  BY TextsAre DEF Fits, FitsTo, IsDot, Places3
<1>. QED  BY <1>1, <1>2, DiskPut

\* A restore leaves at each path what may be there: its bodies come from snapshots.
LEMMA DiskRestores ==
    ASSUME LockInv, DiskInv, SnapInv, PlanInv, edits \in Nat, Restores
    PROVE  DiskInv' /\ edits' = edits
<1>. DEFINE p == Terminal
<1>0. edits' = edits
  BY DEF Restores, Rescue, DropTarget, PutTarget, RemoveForward, RemoveStale, AllRestored,
         RollBackLevel, bounds, history
<1>1. place[p] \in Putting
  BY DEF Restores, Rescue, DropTarget, PutTarget, RemoveForward, RemoveStale, AllRestored,
         RollBackLevel, Putting
<1>2. Asked
  BY <1>1 DEF Asked
<1>3. CASE UNCHANGED disk
  BY <1>0, <1>3, DiskSame
<1>4. CASE DropTarget(p)
  <2>. DEFINE q == Some(Targets(p))
  <2>1. q \in DOMAIN Plan.entries /\ Put(q, Nothing)
    BY <1>4, SomeIsIn DEF DropTarget, Targets, Plan
  <2>. HIDE DEF q
  <2>. QED  BY <1>0, <1>2, <2>1, PlanFacts, DiskFits
<1>5. CASE PutTarget(p)
  <2>. DEFINE q == Plan.target
              b == Plan.entries[q].snapshot
  <2>1. Put(q, b) /\ q \in DOMAIN Plan.entries
    BY <1>2, <1>5 DEF PutTarget, Plan, PlanInv
  <2>2. q \in Paths /\ Fits(q, b)
    BY <1>2, <2>1, PlanFacts
  <2>. HIDE DEF q, b
  <2>. QED  BY <1>0, <2>1, <2>2, DiskFits
<1>6. CASE RemoveForward(p)
  <2>. DEFINE q == Plan.target
  <2>1. /\ UNCHANGED disk \/ Put(Plan.entries[q].live, Nothing)
        /\ q \in DOMAIN Plan.entries
    BY <1>2, <1>6 DEF RemoveForward, Plan, PlanInv
  <2>2. Plan.entries[q].live \in Paths
    BY <1>2, <2>1, PlanFacts
  <2>. QED  BY <1>0, <1>3, <2>1, <2>2, DiskFits
<1>7. CASE RemoveStale(p)
  <2>. DEFINE q == Some(Plan.left)
  <2>1. UNCHANGED disk \/ Put(q, Nothing)
    BY <1>7 DEF RemoveStale, Plan
  <2>2. q \in Plan.left
    BY <1>7, SomeIsIn DEF RemoveStale, Plan
  <2>3. q \in Paths
    BY <1>2, <2>2, PlanFacts
  <2>. HIDE DEF q
  <2>. QED  BY <1>0, <1>3, <2>1, <2>3, DiskFits
<1>8. CASE Rescue(p) \/ AllRestored(p) \/ RollBackLevel(p)
  BY <1>0, <1>3, <1>8 DEF Rescue, AllRestored, RollBackLevel
<1>. QED  BY <1>4, <1>5, <1>6, <1>7, <1>8 DEF Restores

\* The edits a save may make of a dotfile keep its block in order.
LEMMA DotfileEdits ==
    ASSUME DiskInv, NEW d \in Dotfiles, EditDotfile(d)
    PROVE  \E new : /\ Put(Dot(d), Lined(new)) /\ own' = [own EXCEPT ![d] = OwnText(new)]
                    /\ AddsNone(LinesOf(d), new)
<1>. DEFINE ls == LinesOf(d)
<1>1. PICK new : /\ Put(Dot(d), Lined(new)) /\ own' = [own EXCEPT ![d] = OwnText(new)]
                 /\ \/ new = strip_block(ls)
                    \/ \E u \in UserLines : new = <<u>> \o ls \/ new = ls \o <<u>>
                    \/ new = Spelled(ls)
  BY DEF EditDotfile, UserSaves, Spelled
<1>2. WellFormed(ls)
  BY DotKinds
<1>3. \A u \in UserLines : <<u>> \in Seq(PlainLines)
  BY DEF PlainLines
<1>. HIDE DEF ls
<1>4. AddsNone(ls, new)
  BY <1>1, <1>2, <1>3, StripKeeps, AroundAddsNone, SpelledAddsNone
<1>. QED  BY <1>1, <1>4 DEF ls

\* So does the user at an editor.
LEMMA DiskSaves ==
    ASSUME DiskInv, edits \in Nat, Saves
    PROVE  /\ DiskInv' /\ edits' \in Nat /\ edits <= edits'
<1>1. edits' \in {edits, edits + 1}
  <2>1. ASSUME NEW f \in Files, Edit(f) PROVE edits' = edits + 1
    <3>1. PICK left, dir : Author(f, Current(f), Text(f, NewVersion, TRUE, left, dir), {})
      BY <2>1 DEF Edit
    <3>2. PICK b : b = Text(f, NewVersion, TRUE, left, dir)
      OBVIOUS
    <3>3. b.v = edits + 2
      BY <3>2 DEF Text, NewVersion
    <3>4. edits' = b.v - 1
      BY <3>1, <3>2, Zenon DEF Author
    <3>. QED  BY <3>3, <3>4
  <2>2. ASSUME NEW f \in Files, NEW q \in Paths, Tidy(f, q) PROVE edits' = edits
    BY <2>2 DEF Tidy, bounds
  <2>3. ASSUME NEW d \in Dotfiles, EditDotfile(d) PROVE edits' = edits + 1
    BY <2>3 DEF EditDotfile
  <2>. QED  BY <2>1, <2>2, <2>3 DEF Saves
<1>2. edits' \in Nat /\ edits <= edits'
  BY <1>1
<1>3. ASSUME NEW f \in Files, Edit(f) PROVE DiskInv'
  <2>. DEFINE q == Current(f)
  <2>0. PICK left \in SUBSET Body(q).wraps, dir \in {Body(q).dir, NoDir} :
            Author(f, q, Text(f, NewVersion, TRUE, left, dir), {})
    BY <1>3 DEF Edit
  <2>. DEFINE b == Text(f, NewVersion, TRUE, left, dir)
  <2>1. Put(q, b) /\ Exists(q) /\ edits' = edits + 1
    <3>1. b.v = edits + 2
      BY DEF Text, NewVersion
    <3>2. Put(q, b) /\ edits' = b.v - 1
      BY <2>0, Zenon DEF Author
    <3>3. Exists(q)
      BY <1>3 DEF Edit
    <3>. HIDE DEF b
    <3>. QED  BY <3>1, <3>2, <3>3
  <2>2. q \in Places3(f) /\ Body(q) \in Texts(f)
    BY <2>1, CurrentText, DiskKinds
  <2>3. b \in Texts(f)'
    <3>1. left \in SUBSET Binaries /\ dir \in DirValues
      BY <2>0, <2>2, TextFields DEF DirValues
    <3>2. edits + 2 \in 0..(edits' + 1)
      BY <2>1
    <3>. QED  BY <3>1, <3>2 DEF Texts, Text, NewVersion
  <2>4. q \in Paths
    BY <2>2, PlacesOfOne
  <2>. HIDE DEF q, b
  <2>. QED  BY <1>2, <2>1, <2>2, <2>3, <2>4, DiskPut
<1>4. ASSUME NEW f \in Files, NEW q \in Paths, Tidy(f, q) PROVE DiskInv'
  BY <1>2, <1>4, DiskPut DEF Tidy, Put
<1>5. ASSUME NEW d \in Dotfiles, EditDotfile(d) PROVE DiskInv'
  <2>1. PICK new : Put(Dot(d), Lined(new)) /\ WellFormed(new)
    BY <1>5, DotfileEdits DEF AddsNone
  <2>. QED  BY <1>2, <2>1, PathFacts, DiskPut
<1>. QED  BY <1>2, <1>3, <1>4, <1>5 DEF Saves

\* What a command leaves in config.toml.
LEMMA EditConfigEffect ==
    ASSUME DiskInv, edits \in Nat, NEW wraps \in SUBSET Binaries, NEW dir \in DirValues,
           edit_config(wraps, dir)
    PROVE  LET b == Text(Config, edits' + 1, TRUE, wraps, dir) IN
           /\ Put(Toml(Config), b) /\ b \in Texts(Config)'
           /\ edits' \in {edits + 1, edits + 2} /\ edits' \in Nat /\ DiskInv'
           /\ inforce' = [inforce EXCEPT ![Config] = edits' + 1]
           /\ outrun \subseteq outrun' /\ outrun' \subseteq outrun \cup {Config}
           /\ <<Config, edits' + 1>> \in kept'
           /\ kept' \subseteq kept \cup {<<Config, v>> : v \in {edits + 2, edits' + 1}}
           /\ Exists(Toml(Config)) => <<Config, disk[Toml(Config)].v>> \notin kept'
                    \/ disk[Toml(Config)].v \in {edits + 2, edits' + 1}
           /\ Config \in outrun' \/ kept' \subseteq kept \cup {<<Config, edits' + 1>>}
<1>. DEFINE b == Text(Config, edits' + 1, TRUE, wraps, dir)
<1>0. PICK raced \in BOOLEAN :
            /\ Author(Config, Toml(Config),
                      Text(Config, IF raced THEN NewVersion + 1 ELSE NewVersion, TRUE, wraps, dir),
                      IF raced THEN {NewVersion} ELSE {})
            /\ outrun' = IF raced THEN outrun \cup {Config} ELSE outrun
  BY DEF edit_config
<1>1. PICK c : c = Text(Config, IF raced THEN NewVersion + 1 ELSE NewVersion, TRUE, wraps, dir)
  OBVIOUS
<1>13. PICK new : new = IF raced THEN NewVersion + 1 ELSE NewVersion
  OBVIOUS
<1>2. PICK lost : lost = IF raced THEN {NewVersion} ELSE {}
  OBVIOUS
<1>3. c.v = new /\ new \in {edits + 2, edits + 3}
  BY <1>1, <1>13 DEF Text, NewVersion
<1>4. /\ Put(Toml(Config), c) /\ edits' = c.v - 1
      /\ inforce' = [inforce EXCEPT ![Config] = c.v]
      /\ kept' = {w \in kept : Exists(Toml(Config)) => w # <<Config, disk[Toml(Config)].v>>}
                 \cup {<<Config, c.v>>} \cup {<<Config, v>> : v \in lost}
  BY <1>0, <1>1, <1>2, Zenon DEF Author
<1>5. edits' + 1 = c.v /\ edits' \in {edits + 1, edits + 2} /\ edits' \in Nat
  BY <1>3, <1>4
<1>6. c = b
  <2>1. c = Text(Config, new, TRUE, wraps, dir)
    BY <1>1, <1>13, Zenon
  <2>2. edits' + 1 = new
    BY <1>3, <1>5
  <2>. QED  BY <2>1, <2>2, Zenon
<1>7. b \in Texts(Config)'
  <2>1. edits' + 1 \in 0..(edits' + 1)
    <3>1. \A n \in Nat : n + 1 \in 0..(n + 1)
      OBVIOUS
    <3>2. edits' \in Nat
      BY <1>5, Zenon
    <3>. QED  BY <3>1, <3>2, Zenon
  <2>2. PICK w : w = edits' + 1
    OBVIOUS
  <2>4. b = Text(Config, w, TRUE, wraps, dir)
    BY <2>2, Zenon
  <2>3. Text(Config, w, TRUE, wraps, dir) \in
            [t : {"text"}, f : {Config}, v : 0..(edits' + 1), ok : BOOLEAN,
             wraps : SUBSET Binaries, dir : DirValues]
    BY <2>1, <2>2 DEF Text
  <2>. HIDE DEF b
  <2>. QED  BY <2>3, <2>4 DEF Texts
<1>8. Toml(Config) \in Paths /\ Toml(Config) \in Places3(Config) /\ Config \in Files
  BY HostAssumption, PathFacts DEF Places3
<1>9. lost \subseteq {edits + 2} /\ (raced => Config \in outrun') /\ (~raced => lost = {})
  BY <1>0, <1>2 DEF NewVersion
<1>10. outrun \subseteq outrun' /\ outrun' \subseteq outrun \cup {Config}
  BY <1>0
<1>. HIDE DEF b
<1>11. DiskInv'
  BY <1>4, <1>5, <1>6, <1>7, <1>8, DiskPut
<1>12. /\ <<Config, edits' + 1>> \in kept'
       /\ kept' \subseteq kept \cup {<<Config, v>> : v \in {edits + 2, edits' + 1}}
       /\ Config \in outrun' \/ kept' \subseteq kept \cup {<<Config, edits' + 1>>}
       /\ Exists(Toml(Config)) => <<Config, disk[Toml(Config)].v>> \notin kept'
                    \/ disk[Toml(Config)].v \in {edits + 2, edits' + 1}
  BY <1>4, <1>5, <1>9
<1>. QED  BY <1>4, <1>5, <1>6, <1>7, <1>10, <1>11, <1>12 DEF b

\* The config a command reads declares binaries.
LEMMA ConfigFields ==
    ASSUME DiskInv, HasConfig
    PROVE  /\ config \in Texts(Config) /\ config.wraps \in SUBSET Binaries
           /\ config.dir \in DirValues /\ Exists(Toml(Config)) /\ IsText(Toml(Config))
<1>1. Config \in Files /\ Toml(Config) \in Places3(Config) /\ Toml(Config) # Legacy(Config)
  BY HostAssumption, PathFacts DEF Places3
<1>2. config \in Texts(Config)
  BY <1>1, DiskKinds DEF HasConfig, config
<1>3. Exists(Toml(Config))
  BY <1>1, <1>2, TextFields, Bodies DEF Exists, Body, Deref, config
<1>. QED  BY <1>2, <1>3, TextFields DEF config, IsText

\* Every step is one of these.
LEMMA HostSteps ==
    ASSUME LockInv, HostNext
    PROVE  \/ \E p \in Processes : (Migrates(p) \/ Exits(p)) /\ UNCHANGED <<shims, doing>>
           \/ Restores /\ UNCHANGED <<shims, doing>>
           \/ Saves /\ UNCHANGED <<shims, doing>>
           \/ Types
           \/ \E s \in ShimDirs, b \in Binaries : DropForeign(s, b)
<1>1. \A p \in Processes : place[p] \in Putting => p = Terminal
  BY DEF LockInv, LockAt
<1>2. ASSUME NEW p \in Processes,
             \/ Rescue(p) \/ DropTarget(p) \/ PutTarget(p) \/ RemoveForward(p)
             \/ RemoveStale(p) \/ AllRestored(p) \/ RollBackLevel(p)
      PROVE  Restores
  <2>1. place[p] \in Putting
    BY <1>2 DEF Rescue, DropTarget, PutTarget, RemoveForward, RemoveStale, AllRestored,
                RollBackLevel, Putting
  <2>2. p = Terminal
    BY <1>1, <2>1
  <2>. QED  BY <1>2, <2>2 DEF Restores
<1>3. CASE MigrationNext /\ UNCHANGED <<shims, doing>>
  BY <1>2, <1>3 DEF MigrationNext, Migrates, Exits, Passes, Saves
<1>4. CASE \E p \in Processes : OtherCommand(p)
  BY <1>4 DEF OtherCommand, Exits
<1>. QED  BY <1>3, <1>4 DEF HostNext, Types

\* On the way to the lock, and out, nothing is written.
LEMMA ExitsFrame ==
    ASSUME NEW p \in Processes, Exits(p)
    PROVE  /\ UNCHANGED <<disk, level, snaps, saved, before, unread, kept, inforce, own, torn,
                          undone, outrun, orphans, edits>>
           /\ plan' = plan \/ \E l \in 0..2 : restore_in(p, l)
BY DEF Exits, Passes, Start, run_pending_in, acquire_lock, Confirm, Kill, restore_in,
       OtherCommand, history, bounds

\* While a restore has its answer, only it writes.
LEMMA HeldStill ==
    ASSUME LockInv, place[Terminal] \in Putting, HostNext, ~Restores
    PROVE  /\ UNCHANGED <<disk, level, snaps, saved, plan, kept, inforce, own, torn, undone,
                          outrun, orphans>>
           /\ place'[Terminal] = place[Terminal] \/ place'[Terminal] = "idle"
<1>1. /\ Terminal \in Processes /\ lock = Terminal /\ place \in [Processes -> Places]
      /\ \A p \in Processes : place[p] \in Moving => lock = p
      /\ place[Terminal] \notin Moving \cup Typing \cup {"idle", "gate", "lock", "prompt"}
      /\ lock # NoOne
  BY MigrationAssumption DEF LockInv, LockAt, Moving, Putting, Typing
<1>2. ASSUME NEW p \in Processes, Migrates(p) PROVE FALSE
  <2>1. place[p] \in Moving
    BY <1>2 DEF Migrates, snapshot_if_absent, migrate_config_file, RemoveOld, ensure_symlink,
           migrate_audit_log, ReadBlock, rewrite_in_place, clean_legacy_runtime_dir, convert,
           RemoveFrom, clear_legacy_symlinks, record_post_state, Stamp, Moving
  <2>. QED  BY <1>1, <2>1
<1>3. ASSUME NEW p \in Processes, Exits(p)
      PROVE  /\ plan' = plan
             /\ place'[Terminal] = place[Terminal] \/ place'[Terminal] = "idle"
  <2>1. CASE p # Terminal
    BY <1>1, <1>3, <2>1 DEF Exits, Passes, Start, run_pending_in, acquire_lock, Confirm, Kill,
       restore_in, OtherCommand, history, Goto
  <2>2. CASE p = Terminal
    <3>1. place[p] # "body"
      BY <1>1, <2>2 DEF Typing
    <3>2. Kill(p)
      BY <1>1, <1>3, <2>2, <3>1 DEF Exits, Passes, Start, run_pending_in, acquire_lock, Confirm,
         restore_in, OtherCommand
    <3>. QED  BY <1>1, <2>2, <3>2 DEF Kill, Goto
  <2>. QED  BY <2>1, <2>2
<1>4. ~Saves
  BY DEF Saves, Edit, Tidy, EditDotfile, NobodyMoves, Restoring, Putting
<1>5. ~Types
  BY <1>1, TypesMove
<1>6. CASE \E s \in ShimDirs, b \in Binaries : DropForeign(s, b)
  BY <1>6 DEF DropForeign, history, procs
<1>. QED  BY <1>2, <1>3, <1>4, <1>5, <1>6, HostSteps, ExitsFrame

\* What a command of the terminal writes: nothing, an entry of config.toml, or lines
\* of its own in a dotfile.
WritesNothing == UNCHANGED <<disk, kept, inforce, outrun, edits>>
\* A command that writes the config, and with which wraps.
WritesConfig ==
    \E wraps \in SUBSET Binaries, dir \in DirValues :
        /\ edit_config(wraps, dir)
        /\ \/ \E b \in Binaries : /\ wrap(b) /\ HasConfig
                                  /\ wraps = config.wraps \cup {b}
           \/ RemoveEntry /\ wraps = IF HasConfig THEN config.wraps \ {doing.binary} ELSE {}
           \/ SetShimDir /\ wraps = IF HasConfig THEN config.wraps ELSE {}
\* A command that writes a dotfile keeps the user's lines, and brings back no old block.
WritesDotfile ==
    /\ AppendPath \/ WireAgent \/ \E method \in Methods : remove(method)
    /\ UNCHANGED <<kept, inforce>> /\ edits' \in {edits, edits + 1}
    /\ \E d \in Dotfiles : \E new :
        /\ Put(Dot(d), Lined(new)) /\ WellFormed(new)
        /\ OwnText(new) = OwnText(LinesOf(d))
        /\ IsOld(new) => IsOld(LinesOf(d))
\* The user's lines are as they were, but in a file whose save was undone.
OwnStays ==
    /\ outrun \subseteq outrun'
    /\ own' = own \/ \E d \in Dotfiles : \E x : own' = [own EXCEPT ![d] = x] /\ d \in outrun'

\* A dotfile rewritten, perhaps over a save.
LEMMA RewriteEffect ==
    ASSUME NEW d \in Dotfiles, NEW new, Rewrite(d, new)
    PROVE  Put(Dot(d), Lined(new)) /\ edits' \in {edits, edits + 1} /\ OwnStays
<1>1. CASE UNCHANGED <<own, outrun, edits>>
  BY <1>1 DEF Rewrite, OwnStays
<1>2. ASSUME NEW text, edits' = edits + 1, own' = [own EXCEPT ![d] = OwnText(text)],
             outrun' = outrun \cup {d}
      PROVE  edits' = edits + 1 /\ OwnStays
  BY <1>2 DEF OwnStays
<1>. QED  BY <1>1, <1>2 DEF Rewrite

\* Every step of a command does one of the three.
LEMMA TypesWrites ==
    ASSUME DiskInv, ShimInv, Types
    PROVE  /\ OwnStays /\ orphans \subseteq orphans'
           /\ WritesNothing \/ WritesConfig \/ WritesDotfile
<1>0. \/ AppendPath \/ WireAgent \/ \E method \in Methods : remove(method)
      \/ UNCHANGED own
  BY DEF Types, wrap, unwrap_cmd, InstallShim, RemoveEntry, doctor, init,
         SetShimDir, ssh_setup_wiring_step, KeepsFiles
<1>1. ASSUME \/ \E b \in Binaries : unwrap_cmd(b)
             \/ InstallShim \/ doctor \/ init
             \/ \E method \in Methods : ssh_setup_wiring_step(method)
      PROVE  OwnStays /\ WritesNothing
  <2>1. UNCHANGED <<disk, kept, inforce, own, outrun, edits>>
    BY <1>1 DEF unwrap_cmd, InstallShim, doctor, init, ssh_setup_wiring_step, KeepsFiles,
       KeepsWraps
  <2>. QED  BY <2>1 DEF WritesNothing, OwnStays
<1>2. ASSUME NEW b \in Binaries, wrap(b) PROVE WritesConfig
  <2>1. HasConfig /\ edit_config(config.wraps \cup {b}, config.dir)
    BY <1>2 DEF wrap
  <2>2. config.wraps \cup {b} \in SUBSET Binaries /\ config.dir \in DirValues
    BY <2>1, ConfigFields
  <2>. QED  BY <1>2, <2>1, <2>2 DEF WritesConfig
<1>3. ASSUME RemoveEntry PROVE WritesConfig
  <2>. DEFINE wraps == IF HasConfig THEN config.wraps \ {doing.binary} ELSE {}
              dir == IF HasConfig THEN config.dir ELSE NoDir
  <2>1. edit_config(wraps, dir)
    BY <1>3 DEF RemoveEntry
  <2>2. wraps \in SUBSET Binaries /\ dir \in DirValues
    BY ConfigFields DEF DirValues
  <2>3. wraps = IF HasConfig THEN config.wraps \ {doing.binary} ELSE {}
    OBVIOUS
  <2>. HIDE DEF wraps, dir
  <2>. QED  BY <1>3, <2>1, <2>2, <2>3 DEF WritesConfig
<1>4. ASSUME SetShimDir PROVE WritesConfig
  <2>. DEFINE wraps == IF HasConfig THEN config.wraps ELSE {}
  <2>1. edit_config(wraps, doing.dir)
    BY <1>4 DEF SetShimDir
  <2>2. wraps \in SUBSET Binaries
    BY ConfigFields
  <2>3. doing.dir \in DirValues
    BY <1>4 DEF SetShimDir, At, ShimInv, DirValues
  <2>4. wraps = IF HasConfig THEN config.wraps ELSE {}
    OBVIOUS
  <2>. HIDE DEF wraps
  <2>. QED  BY <1>4, <2>1, <2>2, <2>3, <2>4 DEF WritesConfig
<1>5. /\ "ssh" \in Dotfiles /\ "rc" \in Dotfiles
      /\ \A method : MethodFile(method) \in Dotfiles
  BY HostAssumption DEF MethodFile
<1>6. ASSUME NEW d \in Dotfiles, NEW new, RewriteIfNew(d, new), UNCHANGED <<kept, inforce>>,
             AppendPath \/ WireAgent \/ \E method \in Methods : remove(method),
             WellFormed(new), OwnText(new) = OwnText(LinesOf(d)), IsOld(new) => IsOld(LinesOf(d))
      PROVE  OwnStays /\ (WritesNothing \/ WritesDotfile)
  <2>1. CASE UNCHANGED <<disk, own, outrun, edits>>
    BY <1>6, <2>1 DEF WritesNothing, OwnStays
  <2>2. CASE Rewrite(d, new)
    BY <1>6, <2>2, RewriteEffect DEF WritesDotfile
  <2>. QED  BY <1>6, <2>1, <2>2 DEF RewriteIfNew
<1>7. ASSUME AppendPath PROVE OwnStays /\ (WritesNothing \/ WritesDotfile)
  <2>1. PICK ls : ls = LinesOf("rc")
    OBVIOUS
  <2>2. PICK configured \in BOOLEAN : RewriteIfNew("rc", path_apply(ls, configured))
    BY <1>7, <2>1 DEF AppendPath
  <2>3. WellFormed(ls)
    BY <1>5, <2>1, DotKinds
  <2>4. UNCHANGED <<kept, inforce>>
    BY <1>7 DEF AppendPath, KeepsWraps
  <2>5. /\ AddsNone(ls, path_apply(ls, configured))
        /\ OwnText(path_apply(ls, configured)) = OwnText(ls)
    BY <2>3, PathApplyKeeps
  <2>. QED  BY <1>5, <1>6, <1>7, <2>1, <2>2, <2>4, <2>5 DEF AddsNone
<1>8. ASSUME WireAgent PROVE OwnStays /\ (WritesNothing \/ WritesDotfile)
  <2>1. PICK d \in Dotfiles : d = MethodFile(doing.method)
    BY <1>5
  <2>2. PICK ls : ls = LinesOf(d)
    OBVIOUS
  <2>. DEFINE new == ssh_apply(ls, doing.state, doing.method, ssh_block(NewUnderHome))
  <2>3. RewriteIfNew(d, new) \/ RewriteIfNew(d, ls)
    BY <1>8, <2>1, <2>2 DEF WireAgent
  <2>4. UNCHANGED <<kept, inforce>>
    BY <1>8 DEF WireAgent, KeepsWraps
  <2>5. /\ doing.method \in {"SshConfig", "ShellRc"} /\ doing.state \in {"Stale", "Absent"}
        /\ doing.state = "Absent" => ~HasBlock(ls)
    BY <1>8, <2>1, <2>2 DEF WireAgent, At, ShimInv, Methods
  <2>6. WellFormed(ls)
    BY <2>2, DotKinds
  <2>7. WellFormed(new) /\ OwnText(new) = OwnText(ls) /\ (IsOld(new) => IsOld(ls))
    BY <2>5, <2>6, SshApplyKeeps
  <2>. HIDE DEF new
  <2>. QED  BY <1>6, <1>8, <2>2, <2>3, <2>4, <2>6, <2>7
<1>9. ASSUME NEW method \in Methods, remove(method)
      PROVE  OwnStays /\ (WritesNothing \/ WritesDotfile)
  <2>1. PICK d \in Dotfiles : d = MethodFile(method)
    BY <1>5
  <2>2. PICK ls : ls = LinesOf(d)
    OBVIOUS
  <2>3. RewriteIfNew(d, strip_block(ls)) /\ UNCHANGED <<kept, inforce>>
    BY <1>9, <2>1, <2>2 DEF remove, KeepsWraps
  <2>4. WellFormed(ls)
    BY <2>2, DotKinds
  <2>5. AddsNone(ls, strip_block(ls)) /\ OwnText(strip_block(ls)) = OwnText(ls)
    BY <2>4, StripKeeps
  <2>. QED  BY <1>6, <1>9, <2>2, <2>3, <2>5 DEF AddsNone
<1>10. WritesConfig => outrun \subseteq outrun'
  BY DEF WritesConfig, edit_config
<1>11. orphans \subseteq orphans'
  BY DEF Types, wrap, unwrap_cmd, InstallShim, RemoveEntry, doctor, init, AppendPath,
         SetShimDir, ssh_setup_wiring_step, remove, WireAgent, KeepsFiles, KeepsWraps
<1>12. ASSUME WritesConfig, ~AppendPath, ~WireAgent, ~\E method \in Methods : remove(method)
       PROVE  OwnStays
  BY <1>0, <1>10, <1>12 DEF OwnStays
<1>13. WritesConfig => OwnStays \/ AppendPath \/ WireAgent \/ \E method \in Methods : remove(method)
  BY <1>12
<1>. QED  BY <1>1, <1>2, <1>3, <1>4, <1>7, <1>8, <1>9, <1>11, <1>13 DEF Types

\* So the commands leave at each path what may be there.
LEMMA DiskTypes ==
    ASSUME DiskInv, ShimInv, edits \in Nat, Types
    PROVE  DiskInv' /\ edits' \in Nat /\ edits <= edits'
<1>1. CASE WritesNothing
  BY <1>1, DiskSame DEF WritesNothing
<1>2. CASE WritesConfig
  <2>1. PICK wraps \in SUBSET Binaries, dir \in DirValues : edit_config(wraps, dir)
    BY <1>2 DEF WritesConfig
  <2>2. DiskInv' /\ edits' \in {edits + 1, edits + 2}
    BY <2>1, EditConfigEffect
  <2>. QED  BY <2>2
<1>3. CASE WritesDotfile
  <2>1. edits' \in Nat /\ edits <= edits'
    BY <1>3 DEF WritesDotfile
  <2>. QED  BY <1>3, <2>1, PathFacts, DiskPut DEF WritesDotfile
<1>. QED  BY <1>1, <1>2, <1>3, TypesWrites

\* And so does every step.
LEMMA DiskHolds ==
    ASSUME HInv, HostNext
    PROVE  DiskInv' /\ edits' \in Nat /\ edits <= edits'
<1>. USE DEF HInv
<1>1. edits \in Nat
  BY DEF TypeInv
<1>2. ASSUME NEW p \in Processes, Exits(p)
      PROVE  DiskInv' /\ edits' = edits
  BY <1>1, <1>2, ExitsFrame, DiskSame
<1>3. CASE \E s \in ShimDirs, b \in Binaries : DropForeign(s, b)
  BY <1>1, <1>3, DiskSame DEF DropForeign
<1>. QED
  BY <1>1, <1>2, <1>3, HostSteps, DiskMigrates, DiskRestores, DiskSaves, DiskTypes

\* Every step keeps who holds the lock, and who is where.
LEMMA LockHolds ==
    ASSUME HInv, HostNext
    PROVE  LockInv'
<1>. USE DEF HInv
<1>1. plan[Terminal].l \in 0..2 \/ place[Terminal] \notin Putting
  BY DEF PlanInv, PlanShape, Asked, Plan
<1>2. LockInv
  OBVIOUS
<1>. QED
  BY <1>1, <1>2, HostSteps, LockMigrates, LockExits, LockRestores, LockSaves, LockTypes

-----------------------------------------------------------------------------
(* Snapshots.                                                              *)

\* A body that belongs somewhere still does with more versions.
LEMMA FitsGrow ==
    ASSUME NEW m \in Nat, NEW n \in Nat, m <= n
    PROVE  \A q, b : FitsTo(m, q, b) => FitsTo(n, q, b)
<1>1. \A v : v \in 0..(m + 1) => v \in 0..(n + 1)
  OBVIOUS
<1>2. \A f, b : TextOf(f, m, b) => TextOf(f, n, b)
  BY <1>1 DEF TextOf
<1>. QED  BY <1>2 DEF FitsTo

\* A snapshot that is left alone stays well-formed.
LEMMA SnapAtStays ==
    ASSUME NEW l \in 0..2, SnapAt(l), snaps'[l] = snaps[l],
           edits \in Nat, edits' \in Nat, edits <= edits'
    PROVE  SnapAt(l)'
<1>1. Snap(l)' = Snap(l)
  BY DEF Snap
<1>2. (\A q \in DOMAIN Snap(l) : Fits(q, Snap(l)[q]))'
  <2>1. \A q \in DOMAIN Snap(l) : FitsTo(edits', q, Snap(l)[q])
    BY FitsGrow DEF SnapAt, Fits
  <2>. QED  BY <1>1, <2>1 DEF Fits
<1>3. (\E c, post : snaps[l] = <<[files |-> Snap(l), created |-> c, post |-> post]>>)'
  BY <1>1 DEF SnapAt
<1>4. /\ (Snap(l) = [q \in DOMAIN Snap(l) |-> Snap(l)[q]])'
      /\ (DOMAIN Snap(l) \subseteq SnapPaths(l) /\ DOMAIN Snap(l) # {})'
      /\ (snaps[l][1].created \subseteq Paths)'
  BY <1>1 DEF SnapAt
<1>. QED  BY <1>2, <1>3, <1>4 DEF SnapAt

\* So do all of them.
LEMMA SnapSame ==
    ASSUME SnapInv, edits \in Nat, edits' \in Nat, edits <= edits', UNCHANGED snaps
    PROVE  SnapInv'
<1>1. ASSUME NEW l \in 0..2, snaps[l] # <<>> PROVE SnapAt(l)'
  BY <1>1, SnapAtStays DEF SnapInv
<1>. QED  BY <1>1 DEF SnapInv

\* What is at a path fits it, also through a symlink.
LEMMA BodyFits ==
    ASSUME DiskInv, NEW q \in Paths, Exists(q), \A f \in Files : q = Legacy(f) => Exists(Json5(f))
                                                        \/ disk[q] # Link
    PROVE  Fits(q, Body(q))
<1>1. ASSUME NEW f \in Files, q \in Places3(f) PROVE Fits(q, Body(q))
  <2>1. Json5(f) \in Places3(f) /\ Json5(f) # Legacy(f) /\ q[2] = f /\ Legacy(f)[2] = f
    BY <1>1, PlacesOfOne, PathFacts DEF Places3
  <2>2. CASE disk[q] = Link
    <3>1. Body(q) = disk[Json5(f)] /\ disk[Json5(f)] # Nothing
      BY <2>1, <2>2 DEF Body, Deref, Exists
    <3>. QED  BY <1>1, <2>1, <3>1, DiskKinds, TextsAre DEF Fits, FitsTo, Places3
  <2>3. CASE disk[q] # Link
    <3>1. Body(q) = disk[q] /\ disk[q] # Nothing
      BY <2>3 DEF Body, Deref, Exists
    <3>. QED  BY <1>1, <2>3, <3>1, DiskKinds, TextsAre DEF Fits, FitsTo, Places3
  <2>. QED  BY <2>2, <2>3
<1>2. ASSUME NEW d \in Dotfiles, q = Dot(d) PROVE Fits(q, Body(q))
  <2>1. disk[q] # Link
    BY <1>2, DotKinds
  <2>2. Body(q) = disk[q] /\ disk[q] # Nothing
    BY <2>1 DEF Body, Deref, Exists
  <2>. QED  BY <1>2, <2>2 DEF DiskInv, Fits, FitsTo
<1>. QED  BY <1>1, <1>2, PathFacts

\* A migration declares paths of its own level.
LEMMA DeclaredPaths ==
    ASSUME NEW m \in 1..3
    PROVE  declared(m) \subseteq SnapPaths(m - 1) /\ declared(m) \subseteq Paths
<1>1. m = 1 \/ m = 2 \/ m = 3
  OBVIOUS
<1>2. CASE m = 1
  BY <1>2, PathFacts DEF declared, SnapPaths
<1>3. CASE m = 2
  BY <1>3, PathFacts DEF declared, SnapPaths
<1>4. CASE m = 3
  BY <1>4, PathFacts DEF declared, SnapPaths
<1>. QED  BY <1>1, <1>2, <1>3, <1>4

\* A new snapshot holds what is at the paths its migration declares, symlinks followed.
LEMMA CapturedFits ==
    ASSUME DiskInv, NEW l \in 0..2, NEW m, m = l + 1, Captured(m) # <<>>
    PROVE  LET files == Captured(m)[1].files IN
           /\ \E c, post : Captured(m) = <<[files |-> files, created |-> c, post |-> post]>>
           /\ files = [q \in DOMAIN files |-> files[q]]
           /\ DOMAIN files \subseteq SnapPaths(l) /\ DOMAIN files # {}
           /\ \A q \in DOMAIN files : Fits(q, files[q])
           /\ Captured(m)[1].created \subseteq Paths
           /\ DOMAIN files = {q \in declared(m) : Exists(q)}
           /\ \A q \in DOMAIN files : files[q] = Body(q)
<1>. DEFINE sources == {q \in declared(m) : Exists(q)}
            files == [q \in sources |-> Body(q)]
            one == [files |-> files, created |-> {}, post |-> [q \in {} |-> Nothing]]
<1>1. sources # {} /\ Captured(m) = <<one>>
  BY DEF Captured
<1>2. Captured(m)[1].files = files /\ Captured(m)[1].created = {}
  BY <1>1
<1>3. sources \subseteq SnapPaths(l) /\ sources \subseteq Paths
  <2>1. m \in 1..3 /\ m - 1 = l
    OBVIOUS
  <2>. QED  BY <2>1, DeclaredPaths
<1>4. ASSUME NEW q \in sources PROVE Fits(q, Body(q))
  <2>1. \A f \in Files : q = Legacy(f) => (Exists(Json5(f)) \/ disk[q] # Link)
    <3>1. ASSUME NEW f \in Files, q = Legacy(f), disk[q] = Link PROVE Exists(Json5(f))
      <4>1. Json5(f) \in Places3(f) /\ Json5(f) # Legacy(f) /\ q[2] = f
        BY <3>1, PathFacts DEF Places3
      <4>2. disk[Json5(f)] # Link
        BY <4>1, DiskKinds
      <4>3. Body(q) = disk[Json5(f)] /\ Body(Json5(f)) = disk[Json5(f)]
        BY <3>1, <4>1, <4>2 DEF Body, Deref
      <4>4. Exists(q)
        OBVIOUS
      <4>. QED  BY <4>3, <4>4 DEF Exists
    <3>. QED  BY <3>1
  <2>. QED  BY <1>3, <2>1, BodyFits
<1>. HIDE DEF sources
<1>5. DOMAIN files = sources /\ \A q \in sources : files[q] = Body(q)
  OBVIOUS
<1>6. \E c, post : Captured(m) = <<[files |-> files, created |-> c, post |-> post]>>
  BY <1>1
<1>. HIDE DEF files
<1>. QED  BY <1>1, <1>2, <1>3, <1>4, <1>5, <1>6 DEF files, sources

\* Snapshots that there are stay as they were taken.
LEMMA SnapHolds ==
    ASSUME HInv, HostNext
    PROVE  /\ SnapInv'
           /\ \A l \in 0..2 : snaps[l] # <<>> => snaps'[l] # <<>> /\ Snap(l)' = Snap(l)
<1>. USE DEF HInv
<1>1. DiskInv' /\ edits' \in Nat /\ edits <= edits' /\ edits \in Nat
  BY DiskHolds DEF TypeInv
<1>2. CASE UNCHANGED snaps
  BY <1>1, <1>2, SnapSame DEF Snap
<1>3. ASSUME NEW p \in Processes,
             snapshot_if_absent(p) \/ record_post_state(p)
      PROVE  /\ at[p].m \in 1..3 /\ edits' = edits
             /\ snaps = [l \in 0..2 |-> snaps[l]]
  <2>1. place[p] \in {"snapshot", "record"} /\ edits' = edits
    BY <1>3 DEF snapshot_if_absent, record_post_state, bounds
  <2>2. at[p].m \in Nat /\ level = at[p].m - 1 /\ level \in 0..3 /\ level < 3
    BY <2>1 DEF LockInv, LockAt, Moving
  <2>. QED  BY <2>1, <2>2 DEF SnapInv
<1>4. ASSUME NEW p \in Processes, snapshot_if_absent(p)
      PROVE  /\ SnapInv'
             /\ \A l \in 0..2 : snaps[l] # <<>> => snaps'[l] # <<>> /\ Snap(l)' = Snap(l)
  <2>1. PICK k \in 0..2 : k = at[p].m - 1 /\ at[p].m \in 1..3
    BY <1>3, <1>4
  <2>2. snaps' = [snaps EXCEPT ![k] = IF snaps[k] # <<>> THEN snaps[k] ELSE Captured(k + 1)]
    <3>1. k + 1 = at[p].m
      BY <2>1
    <3>. QED  BY <1>4, <2>1, <3>1 DEF snapshot_if_absent
  <2>3. /\ \A l \in 0..2 : l # k \/ snaps[l] # <<>> => snaps'[l] = snaps[l]
        /\ snaps[k] = <<>> => snaps'[k] = Captured(k + 1)
        /\ snaps' = [l \in 0..2 |-> snaps'[l]]
    BY <1>3, <1>4, <2>1, <2>2
  <2>4. \A q, b : FitsTo(edits, q, b) => FitsTo(edits', q, b)
    BY <1>1, FitsGrow
  <2>5. ASSUME NEW l \in 0..2, snaps'[l] = snaps[l], snaps[l] # <<>>
        PROVE  SnapAt(l)'
    BY <1>1, <2>5, SnapAtStays DEF SnapInv
  <2>6. ASSUME snaps'[k] = Captured(k + 1), Captured(k + 1) # <<>>
        PROVE  SnapAt(k)'
    <3>1. PICK m : m = k + 1
      OBVIOUS
    <3>2. Snap(k)' = Captured(k + 1)[1].files
      BY <2>6 DEF Snap
    <3>3. /\ snaps'[k] = Captured(k + 1)
          /\ \E c, post : Captured(k + 1) = <<[files |-> Snap(k)', created |-> c, post |-> post]>>
          /\ Snap(k)' = [q \in DOMAIN Snap(k)' |-> Snap(k)'[q]]
          /\ DOMAIN Snap(k)' \subseteq SnapPaths(k) /\ DOMAIN Snap(k)' # {}
          /\ \A q \in DOMAIN Snap(k)' : Fits(q, Captured(k + 1)[1].files[q])
          /\ Captured(k + 1)[1].created \subseteq Paths
      <4>1. \A q \in DOMAIN Captured(k + 1)[1].files : Fits(q, Captured(k + 1)[1].files[q])
        BY <2>6, <3>1, CapturedFits
      <4>2. /\ Captured(k + 1)[1].files
                 = [q \in DOMAIN Captured(k + 1)[1].files |-> Captured(k + 1)[1].files[q]]
            /\ DOMAIN Captured(k + 1)[1].files \subseteq SnapPaths(k)
            /\ DOMAIN Captured(k + 1)[1].files # {}
            /\ Captured(k + 1)[1].created \subseteq Paths
        BY <2>6, <3>1, CapturedFits
      <4>3. \E c, post : Captured(k + 1)
                = <<[files |-> Captured(k + 1)[1].files, created |-> c, post |-> post]>>
        BY <2>6, <3>1, CapturedFits
      <4>. QED  BY <2>6, <3>2, <4>1, <4>2, <4>3
    <3>. QED  BY <2>4, <3>2, <3>3 DEF SnapAt, Fits
  <2>7. SnapInv'
    BY <2>1, <2>3, <2>5, <2>6 DEF SnapInv
  <2>. QED  BY <2>3, <2>7 DEF Snap
<1>5. ASSUME NEW p \in Processes, record_post_state(p)
      PROVE  /\ SnapInv'
             /\ \A l \in 0..2 : snaps[l] # <<>> => snaps'[l] # <<>> /\ Snap(l)' = Snap(l)
  <2>1. PICK k \in 0..2 : k = at[p].m - 1
    BY <1>3, <1>5
  <2>2. PICK created \in SUBSET Paths : \E post :
            \/ UNCHANGED snaps
            \/ /\ snaps[k] # <<>>
               /\ snaps' = [snaps EXCEPT ![k] = <<[snaps[k][1] EXCEPT !.created = created,
                                                                      !.post = post]>>]
    <3>. DEFINE there == {q \in before[p].declared : Exists(q)}
    <3>1. before[p].absent \cap there \in SUBSET Paths
      BY DEF TypeInv
    <3>2. \/ UNCHANGED snaps
          \/ /\ snaps[k] # <<>>
             /\ snaps' = [snaps EXCEPT ![k] =
                    <<[snaps[k][1] EXCEPT !.created = before[p].absent \cap there,
                                          !.post = [q \in there |-> Body(q)]]>>]
      BY <1>5, <2>1 DEF record_post_state
    <3>. HIDE DEF there
    <3>. QED  BY <3>1, <3>2
  <2>3. PICK post :
            \/ UNCHANGED snaps
            \/ /\ snaps[k] # <<>>
               /\ snaps' = [snaps EXCEPT ![k] = <<[snaps[k][1] EXCEPT !.created = created,
                                                                      !.post = post]>>]
    BY <2>2
  <2>4. CASE /\ snaps[k] # <<>>
             /\ snaps' = [snaps EXCEPT ![k] = <<[snaps[k][1] EXCEPT !.created = created,
                                                                    !.post = post]>>]
    <3>1. snaps[k] = <<[files |-> Snap(k), created |-> snaps[k][1].created,
                       post |-> snaps[k][1].post]>>
      BY <2>1, <2>4 DEF SnapInv, SnapAt
    <3>2. [snaps[k][1] EXCEPT !.created = created, !.post = post]
          = [files |-> Snap(k), created |-> created, post |-> post]
      <4>1. PICK s, f, c, x : s = snaps[k][1] /\ f = Snap(k)
                              /\ s = [files |-> f, created |-> c, post |-> x]
        BY <3>1
      <4>2. PICK t : t = [s EXCEPT !.created = created]
        OBVIOUS
      <4>3. t = [files |-> f, created |-> created, post |-> x]
        BY <4>1, <4>2
      <4>4. [t EXCEPT !.post = post] = [files |-> f, created |-> created, post |-> post]
        BY <4>3
      <4>5. [snaps[k][1] EXCEPT !.created = created, !.post = post] = [t EXCEPT !.post = post]
        BY <4>1, <4>2
      <4>. QED  BY <4>1, <4>4, <4>5
    <3>3. /\ snaps'[k] = <<[files |-> Snap(k), created |-> created, post |-> post]>>
          /\ \A l \in 0..2 \ {k} : snaps'[l] = snaps[l]
          /\ snaps' = [l \in 0..2 |-> snaps'[l]]
      BY <1>3, <1>5, <2>1, <2>4, <3>2
    <3>4. Snap(k)' = Snap(k) /\ snaps'[k][1].created = created /\ snaps'[k] # <<>>
      BY <3>3 DEF Snap
    <3>5. \A l \in 0..2 : snaps[l] # <<>> => snaps'[l] # <<>> /\ Snap(l)' = Snap(l)
      BY <3>3, <3>4 DEF Snap
    <3>6. \A q, b : FitsTo(edits, q, b) => FitsTo(edits', q, b)
      BY <1>1, FitsGrow
    <3>7. ASSUME NEW l \in 0..2, snaps'[l] # <<>>
          PROVE  SnapAt(l)'
      <4>1. CASE l = k
        <5>1. SnapAt(k)
          BY <2>1, <2>4 DEF SnapInv
        <5>2. \E c, x : snaps'[k] = <<[files |-> Snap(k)', created |-> c, post |-> x]>>
          BY <3>3, <3>4
        <5>3. \A q \in DOMAIN Snap(k) : FitsTo(edits', q, Snap(k)[q])
          BY <3>6, <5>1 DEF SnapAt, Fits
        <5>4. /\ Snap(k) = [q \in DOMAIN Snap(k) |-> Snap(k)[q]]
              /\ DOMAIN Snap(k) \subseteq SnapPaths(k) /\ DOMAIN Snap(k) # {}
          BY <5>1 DEF SnapAt
        <5>5. snaps'[k][1].created \subseteq Paths
          BY <2>2, <3>4
        <5>. QED
          BY <3>4, <4>1, <5>2, <5>3, <5>4, <5>5 DEF SnapAt, Fits
      <4>2. CASE l # k
        <5>1. snaps'[l] = snaps[l] /\ snaps[l] # <<>> /\ Snap(l)' = Snap(l)
          BY <3>3, <3>5, <3>7, <4>2
        <5>. QED  BY <1>1, <5>1, SnapAtStays DEF SnapInv
      <4>. QED  BY <4>1, <4>2
    <3>8. SnapInv'
      BY <3>3, <3>7 DEF SnapInv
    <3>. QED  BY <3>5, <3>8
  <2>. QED  BY <1>2, <2>3, <2>4
<1>6. CASE ~\E p \in Processes : snapshot_if_absent(p) \/ record_post_state(p)
  <2>1. ASSUME NEW p \in Processes, Migrates(p) PROVE UNCHANGED snaps
    BY <1>6, <2>1 DEF Migrates, migrate_config_file, RemoveOld, ensure_symlink,
       migrate_audit_log, ReadBlock, rewrite_in_place, clean_legacy_runtime_dir, convert,
       RemoveFrom, clear_legacy_symlinks, Stamp
  <2>2. CASE Restores
    BY <1>2, <2>2 DEF Restores, Rescue, DropTarget, PutTarget, RemoveForward, RemoveStale,
       AllRestored, RollBackLevel
  <2>3. CASE Saves
    BY <1>2, <2>3 DEF Saves, Edit, Tidy, EditDotfile
  <2>4. CASE \E s \in ShimDirs, b \in Binaries : DropForeign(s, b)
    BY <1>2, <2>4 DEF DropForeign
  <2>. QED  BY <1>2, <2>1, <2>2, <2>3, <2>4, HostSteps, ExitsFrame, TypesMove
<1>. QED  BY <1>4, <1>5, <1>6

\* A migration leaves the plan and the history alone, but for a save its rewrite undoes.
LEMMA MigratesFrame ==
    ASSUME LockInv, NEW p \in Processes, Migrates(p)
    PROVE  /\ UNCHANGED <<saved, plan, kept, inforce, torn, undone, orphans>>
           /\ OwnStays /\ edits' \in {edits, edits + 1}
           /\ rewrite_in_place(p) \/ UNCHANGED <<own, outrun, edits>>
           /\ place[p] \in Moving
<1>1. CASE rewrite_in_place(p)
  <2>1. PICK d \in Dotfiles : d = DotSeq[at[p].i]
    BY <1>1, SeqFacts DEF rewrite_in_place, LockInv, LockAt
  <2>2. UNCHANGED <<own, outrun, edits>> \/ \E new : Rewrite(d, new)
    BY <1>1, <2>1 DEF rewrite_in_place
  <2>3. OwnStays /\ edits' \in {edits, edits + 1}
    BY <2>2, RewriteEffect DEF OwnStays
  <2>. QED  BY <1>1, <2>3 DEF rewrite_in_place, Moving
<1>2. CASE ~rewrite_in_place(p)
  <2>1. /\ UNCHANGED <<saved, plan, kept, inforce, torn, undone, orphans, own, outrun, edits>>
        /\ place[p] \in Moving
    BY <1>2 DEF Migrates, snapshot_if_absent, migrate_config_file, RemoveOld, ensure_symlink,
       migrate_audit_log, ReadBlock, clean_legacy_runtime_dir, convert,
       RemoveFrom, clear_legacy_symlinks, record_post_state, Stamp, history, bounds, Moving
  <2>. QED  BY <2>1 DEF OwnStays
<1>. QED  BY <1>1, <1>2

\* A restore leaves the shims' files and the snapshots alone.
LEMMA RestoresFrame ==
    ASSUME Restores
    PROVE  /\ UNCHANGED <<snaps, before, unread, kept, outrun, orphans, edits, at>>
           /\ place[Terminal] \in Putting
BY DEF Restores, Rescue, DropTarget, PutTarget, RemoveForward, RemoveStale, AllRestored,
       RollBackLevel, history, bounds, Putting

\* What the user at an editor leaves alone.
LEMMA SavesFrame ==
    ASSUME Saves
    PROVE  /\ UNCHANGED <<level, lock, snaps, saved, place, at, before, unread, plan, torn,
                          undone, outrun>>
           /\ orphans \subseteq orphans'
BY DEF Saves, Edit, Tidy, EditDotfile, procs

\* What a program of the user's at a shim's place leaves alone.
LEMMA ForeignFrame ==
    ASSUME NEW s \in ShimDirs, NEW b \in Binaries, DropForeign(s, b)
    PROVE  /\ UNCHANGED <<disk, level, lock, snaps, saved, place, at, before, unread, plan, kept,
                          inforce, own, torn, undone, outrun, orphans, doing>>
           /\ edits' = edits + 1
BY DEF DropForeign, procs, history

\* A command leaves shims of a known kind.
LEMMA TypesShims ==
    ASSUME shims \in [ShimDirs \X Binaries -> ShimStates], Types
    PROVE  shims' \in [ShimDirs \X Binaries -> ShimStates]
<1>1. \A s \in ShimStates : install(s) \in ShimStates
  BY DEF install, ShimStates
<1>2. CASE \E b \in Binaries : unwrap_cmd(b)
  BY <1>2 DEF unwrap_cmd, ShimStates
<1>3. CASE InstallShim
  <2>1. shims' = [shims EXCEPT ![<<doing.dir, doing.binary>>] = install(@)]
    BY <1>3 DEF InstallShim
  <2>. QED  BY <1>1, <2>1
<1>4. CASE doctor
  <2>. DEFINE due(k) == k[1] = config.dir /\ k[2] \in config.wraps /\ shims[k] = "old"
  <2>1. shims' = [k \in ShimDirs \X Binaries |-> IF due(k) THEN "ours" ELSE shims[k]]
    BY <1>4 DEF doctor
  <2>. HIDE DEF due
  <2>. QED  BY <2>1 DEF ShimStates
<1>5. CASE SetShimDir
  <2>. DEFINE wraps == IF HasConfig THEN config.wraps ELSE {}
              due(k) == k[1] = doing.dir /\ k[2] \in wraps /\ shims[k] = "old"
  <2>1. shims' = [k \in ShimDirs \X Binaries |-> IF due(k) THEN install(shims[k]) ELSE shims[k]]
    BY <1>5 DEF SetShimDir
  <2>. HIDE DEF due
  <2>. QED  BY <1>1, <2>1
<1>6. CASE UNCHANGED shims
  BY <1>6
<1>. QED
  BY <1>2, <1>3, <1>4, <1>5, <1>6
     DEF Types, wrap, RemoveEntry, init, AppendPath, ssh_setup_wiring_step, remove, WireAgent

\* Versions of before a save are versions after it.
LEMMA KeptGrows ==
    ASSUME NEW m \in Nat, NEW n \in Nat, m <= n
    PROVE  0..(m + 1) \subseteq 0..(n + 1)
OBVIOUS

-----------------------------------------------------------------------------
(* Types.                                                                  *)

\* A migration keeps the types.
LEMMA TypeMigrates ==
    ASSUME LockInv, TypeInv, NEW p \in Processes, Migrates(p), UNCHANGED <<shims, doing>>
    PROVE  TypeInv'
<1>0. /\ UNCHANGED <<plan, inforce, torn, undone, shims>> /\ edits' \in {edits, edits + 1}
      /\ kept' = kept /\ OwnStays
  BY MigratesFrame
<1>1. /\ UNCHANGED <<plan, inforce, torn, undone, shims>> /\ edits' \in Nat
      /\ kept' \subseteq Files \X (0..(edits' + 1)) /\ own' = [d \in Dotfiles |-> own'[d]]
  <2>1. edits' \in Nat /\ edits <= edits'
    BY <1>0 DEF TypeInv
  <2>2. own' = [d \in Dotfiles |-> own'[d]]
    BY <1>0 DEF OwnStays, TypeInv
  <2>. QED  BY <1>0, <2>1, <2>2, KeptGrows DEF TypeInv
<1>2. CASE snapshot_if_absent(p)
  <2>1. at[p].m \in 1..3
    <3>1. place[p] = "snapshot"
      BY <1>2 DEF snapshot_if_absent
    <3>2. level = at[p].m - 1 /\ level < 3 /\ at[p].m \in Nat /\ level \in 0..3
      BY <3>1 DEF LockInv, LockAt, Moving
    <3>. QED  BY <3>2
  <2>2. declared(at[p].m) \subseteq Paths
    BY <2>1, DeclaredPaths
  <2>3. /\ before' = [before EXCEPT ![p] = [declared |-> declared(at[p].m),
                         absent |-> {q \in declared(at[p].m) : ~Exists(q)}]]
        /\ unread' = [unread EXCEPT ![p] = {}]
    BY <1>2 DEF snapshot_if_absent
  <2>. QED  BY <1>1, <2>2, <2>3 DEF TypeInv
<1>3. CASE ReadBlock(p)
  <2>1. UNCHANGED before /\ unread' = [q \in Processes |-> unread'[q]]
    BY <1>3 DEF ReadBlock, TypeInv
  <2>. QED  BY <1>1, <2>1 DEF TypeInv
<1>4. CASE UNCHANGED <<before, unread>>
  BY <1>1, <1>4 DEF TypeInv
<1>. QED
  BY <1>2, <1>3, <1>4
     DEF Migrates, migrate_config_file, RemoveOld, ensure_symlink, migrate_audit_log,
         rewrite_in_place, clean_legacy_runtime_dir, convert, RemoveFrom,
         clear_legacy_symlinks, record_post_state, Stamp

\* A restore keeps the types.
LEMMA TypeRestores ==
    ASSUME SnapInv, PlanInv, TypeInv, Restores, UNCHANGED <<shims, doing>>
    PROVE  TypeInv'
<1>0. PICK p \in Processes : p = Terminal
  BY MigrationAssumption
<1>1. UNCHANGED <<before, unread, kept, edits, shims>> /\ Asked
  BY RestoresFrame DEF Asked
<1>2. CASE Rescue(p)
  BY <1>0, <1>1, <1>2 DEF Rescue, TypeInv
<1>3. CASE DropTarget(p)
  <2>1. Plan.l \in 0..2
    BY <1>1, PlanFacts
  <2>. QED  BY <1>0, <1>1, <1>3, <2>1 DEF DropTarget, TypeInv, Plan
<1>4. CASE PutTarget(p)
  <2>. DEFINE q == Plan.target
              b == Plan.entries[q].snapshot
  <2>1. /\ own' = IF q[1] = "dot" THEN [own EXCEPT ![q[2]] = OwnText(b.lines)] ELSE own
        /\ inforce' = IF q[1] = "dot" THEN inforce ELSE [inforce EXCEPT ![q[2]] = b.v]
        /\ q \in DOMAIN Plan.entries
        /\ UNCHANGED <<plan, torn, undone>>
    BY <1>0, <1>1, <1>4 DEF PutTarget, Plan, PlanInv
  <2>2. Fits(q, b)
    BY <1>1, <2>1, PlanFacts
  <2>. HIDE DEF q, b
  <2>3. q[1] # "dot" => b.v \in Nat
    BY <2>2, PathFacts, TextFields, TextsAre DEF Fits, FitsTo, TypeInv
  <2>4. own' = [d \in Dotfiles |-> own'[d]] /\ inforce' \in [Files -> Nat]
    BY <2>1, <2>3 DEF TypeInv
  <2>. QED  BY <1>1, <2>1, <2>4 DEF TypeInv
<1>5. CASE RemoveStale(p)
  <2>1. inforce' \in [Files -> Nat]
    BY <1>5 DEF RemoveStale, TypeInv
  <2>. QED  BY <1>0, <1>1, <1>5, <2>1 DEF RemoveStale, TypeInv
<1>6. CASE RemoveForward(p) \/ AllRestored(p) \/ RollBackLevel(p)
  BY <1>0, <1>1, <1>6 DEF RemoveForward, AllRestored, RollBackLevel, TypeInv, history
<1>. QED  BY <1>0, <1>2, <1>3, <1>4, <1>5, <1>6 DEF Restores

\* So does every step to the lock and away from it.
LEMMA TypeExits ==
    ASSUME TypeInv, NEW p \in Processes, Exits(p), UNCHANGED <<shims, doing>>
    PROVE  TypeInv'
<1>1. plan' = [r \in Processes |-> plan'[r]]
  BY ExitsFrame DEF restore_in, TypeInv
<1>. QED  BY <1>1, ExitsFrame DEF TypeInv

\* What a save leaves.
LEMMA EditEffect ==
    ASSUME DiskInv, edits \in Nat, NEW f \in Files, Edit(f)
    PROVE  /\ Current(f) \in Places3(f) /\ IsText(Current(f)) /\ Exists(Current(f))
           /\ edits < MaxEdits /\ NobodyMoves
           /\ edits' = edits + 1 /\ UNCHANGED own
           /\ inforce' = [inforce EXCEPT ![f] = edits + 2]
           /\ kept' = {w \in kept : w # <<f, disk[Current(f)].v>>} \cup {<<f, edits + 2>>}
           /\ \E b : /\ Put(Current(f), b) /\ b.t = "text" /\ b.v = edits + 2
                     /\ orphans' = orphans \cup (disk[Current(f)].wraps \ b.wraps)
<1>1. PICK q : q = Current(f)
  OBVIOUS
<1>2. PICK left, dir : /\ Author(f, q, Text(f, NewVersion, TRUE, left, dir), {})
                       /\ orphans' = orphans \cup (Body(q).wraps \ left)
  BY <1>1 DEF Edit
<1>3. PICK b : b = Text(f, NewVersion, TRUE, left, dir)
  OBVIOUS
<1>4. b.t = "text" /\ b.v = edits + 2 /\ b.wraps = left
  BY <1>3 DEF Text, NewVersion
<1>5. /\ Exists(q) /\ edits < MaxEdits /\ NobodyMoves /\ UNCHANGED own
      /\ Put(q, b) /\ edits' = b.v - 1
      /\ kept' = {w \in kept : Exists(q) => w # <<f, disk[q].v>>} \cup {<<f, b.v>>}
                 \cup {<<f, v>> : v \in {}}
      /\ inforce' = [inforce EXCEPT ![f] = b.v]
  BY <1>1, <1>2, <1>3, Zenon DEF Edit, Author
<1>6. q \in Places3(f) /\ IsText(q) /\ Body(q) = disk[q]
  BY <1>1, <1>5, CurrentText
<1>. QED  BY <1>1, <1>2, <1>4, <1>5, <1>6

\* So does the user at an editor.
LEMMA TypeSaves ==
    ASSUME DiskInv, TypeInv, Saves, UNCHANGED <<shims, doing>>
    PROVE  TypeInv'
<1>1. UNCHANGED <<before, unread, plan, torn, undone, shims>> /\ edits \in Nat
  BY SavesFrame DEF TypeInv
<1>2. ASSUME NEW f \in Files, Edit(f) PROVE TypeInv'
  <2>1. /\ edits' = edits + 1 /\ UNCHANGED own
        /\ inforce' = [inforce EXCEPT ![f] = edits + 2]
        /\ kept' \subseteq kept \cup {<<f, edits + 2>>}
    BY <1>1, <1>2, EditEffect
  <2>2. kept' \subseteq Files \X (0..(edits' + 1))
    BY <1>1, <2>1, KeptGrows DEF TypeInv
  <2>3. edits + 2 \in Nat /\ edits' \in Nat
    BY <1>1, <2>1
  <2>4. inforce' \in [Files -> Nat]
    BY <1>1, <2>1, <2>3 DEF TypeInv
  <2>. QED  BY <1>1, <2>1, <2>2, <2>3, <2>4 DEF TypeInv
<1>3. ASSUME NEW f \in Files, NEW q \in Paths, Tidy(f, q) PROVE TypeInv'
  <2>1. PICK r \in Places3(f) : disk[r].t = "text" /\ inforce' = [inforce EXCEPT ![f] = disk[r].v]
    BY <1>3 DEF Tidy, Places3
  <2>2. disk[r].v \in Nat
    BY <1>1, <2>1, DiskKinds, TextFields DEF IsText
  <2>3. UNCHANGED <<own, edits>> /\ kept' \subseteq kept
    BY <1>3 DEF Tidy, bounds
  <2>. QED  BY <1>1, <2>1, <2>2, <2>3 DEF TypeInv
<1>4. ASSUME NEW d \in Dotfiles, EditDotfile(d) PROVE TypeInv'
  <2>1. edits' = edits + 1 /\ UNCHANGED <<kept, inforce>> /\ own' = [e \in Dotfiles |-> own'[e]]
    BY <1>4 DEF EditDotfile, TypeInv
  <2>2. kept' \subseteq Files \X (0..(edits' + 1))
    BY <1>1, <2>1, KeptGrows DEF TypeInv
  <2>. QED  BY <1>1, <2>1, <2>2 DEF TypeInv
<1>. QED  BY <1>2, <1>3, <1>4 DEF Saves

\* So do the commands.
LEMMA TypeTypes ==
    ASSUME LockInv, DiskInv, ShimInv, TypeInv, Types
    PROVE  TypeInv'
<1>1. /\ UNCHANGED <<before, unread, plan, torn, undone>> /\ edits \in Nat
      /\ shims' \in [ShimDirs \X Binaries -> ShimStates]
      /\ own' = [d \in Dotfiles |-> own'[d]]
  BY TypesMove, TypesWrites, TypesShims DEF TypeInv, OwnStays
<1>2. CASE WritesNothing
  BY <1>1, <1>2 DEF WritesNothing, TypeInv
<1>3. CASE WritesConfig
  <2>1. PICK wraps \in SUBSET Binaries, dir \in DirValues : edit_config(wraps, dir)
    BY <1>3 DEF WritesConfig
  <2>2. /\ edits' \in {edits + 1, edits + 2} /\ inforce' = [inforce EXCEPT ![Config] = edits' + 1]
        /\ kept' \subseteq kept \cup {<<Config, v>> : v \in {edits + 2, edits' + 1}}
    BY <1>1, <2>1, EditConfigEffect
  <2>3. kept' \subseteq Files \X (0..(edits' + 1))
    <3>1. /\ edits' \in Nat /\ edits <= edits'
          /\ edits + 2 \in 0..(edits' + 1) /\ edits' + 1 \in 0..(edits' + 1)
      BY <1>1, <2>2
    <3>2. \A w \in kept' : w \in kept \/ \E v \in {edits + 2, edits' + 1} : w = <<Config, v>>
      BY <2>2
    <3>. QED  BY <1>1, <3>1, <3>2, KeptGrows, HostAssumption DEF TypeInv
  <2>4. edits' + 1 \in Nat /\ edits' \in Nat
    BY <1>1, <2>2
  <2>5. inforce' \in [Files -> Nat]
    BY <1>1, <2>2, <2>4 DEF TypeInv
  <2>. QED  BY <1>1, <2>3, <2>4, <2>5 DEF TypeInv
<1>4. CASE WritesDotfile
  <2>1. UNCHANGED <<kept, inforce>> /\ edits' \in Nat /\ edits <= edits'
    BY <1>1, <1>4 DEF WritesDotfile
  <2>. QED  BY <1>1, <2>1, KeptGrows DEF TypeInv
<1>. QED  BY <1>2, <1>3, <1>4, TypesWrites

\* So does a program at a shim's place.
LEMMA TypeForeign ==
    ASSUME TypeInv, NEW s \in ShimDirs, NEW b \in Binaries, DropForeign(s, b)
    PROVE  TypeInv'
<1>1. shims' \in [ShimDirs \X Binaries -> ShimStates]
  BY DEF DropForeign, TypeInv, ShimStates
<1>2. kept' \subseteq Files \X (0..(edits' + 1))
  BY ForeignFrame, KeptGrows DEF TypeInv
<1>. QED  BY <1>1, <1>2, ForeignFrame DEF TypeInv

\* Every step keeps the types.
LEMMA TypeHolds ==
    ASSUME HInv, HostNext
    PROVE  TypeInv'
<1>1. LockInv /\ DiskInv /\ SnapInv /\ PlanInv /\ ShimInv /\ TypeInv
  BY DEF HInv
<1>. QED
  BY <1>1, HostSteps, TypeMigrates, TypeRestores, TypeExits, TypeSaves, TypeTypes, TypeForeign

-----------------------------------------------------------------------------
(* The plan of a restore.                                                  *)

\* A plan stays what it is as long as the snapshot it was made from does.
LEMMA ShapeStays ==
    ASSUME NEW P, PlanShape(P), snaps'[P.l] # <<>>, Snap(P.l)' = Snap(P.l)
    PROVE  PlanShape(P)'
BY DEF PlanShape

\* A plan with less left of it.
LEMMA ShapeLess ==
    ASSUME NEW P, PlanShape(P), NEW s, s \subseteq P.left, NEW t, NEW N,
           N = [l |-> P.l, entries |-> P.entries, stale |-> P.stale, edited |-> P.edited,
                seen |-> P.seen, left |-> s, target |-> t]
    PROVE  PlanShape(N)
BY DEF PlanShape

\* Doing one of a plan's files leaves the rest of the plan as it is.
LEMMA WithoutIs ==
    ASSUME NEW P, PlanShape(P), NEW q
    PROVE  /\ Without(P, q) =
                [l |-> P.l, entries |-> P.entries, stale |-> P.stale, edited |-> P.edited,
                 seen |-> P.seen, left |-> P.left \ {q}, target |-> q]
           /\ PlanShape(Without(P, q))
<1>1. PICK t : t = [P EXCEPT !.left = P.left \ {q}]
  OBVIOUS
<1>2. t = [l |-> P.l, entries |-> P.entries, stale |-> P.stale, edited |-> P.edited,
           seen |-> P.seen, left |-> P.left \ {q}, target |-> P.target]
  BY <1>1 DEF PlanShape
<1>3. [t EXCEPT !.target = q] = [l |-> P.l, entries |-> P.entries, stale |-> P.stale,
            edited |-> P.edited, seen |-> P.seen, left |-> P.left \ {q}, target |-> q]
  BY <1>2
<1>4. Without(P, q) = [t EXCEPT !.target = q]
  BY <1>1 DEF Without
<1>5. PICK N : N = Without(P, q)
  OBVIOUS
<1>6. PlanShape(N)
  BY <1>3, <1>4, <1>5, ShapeLess
<1>. QED  BY <1>3, <1>4, <1>5, <1>6

\* What is to do, one file at a time.
LEMMA DropEffect ==
    ASSUME LockInv, TypeInv, SnapInv, PlanInv, DropTarget(Terminal)
    PROVE  \E q \in DOMAIN Plan.entries \cap Plan.left :
             /\ q \in Paths /\ Put(q, Nothing)
             /\ Plan' = Without(Plan, q)
             /\ PlanShape(Plan)' /\ place'[Terminal] = "put"
<1>1. PICK p \in Processes : p = Terminal
  BY MigrationAssumption
<1>2. PICK P : P = Plan
  OBVIOUS
<1>3. PICK q : q = Some(Targets(p))
  OBVIOUS
<1>4. /\ place[p] = "drop" /\ Targets(p) # {} /\ Put(q, Nothing)
      /\ plan' = [plan EXCEPT ![p] = Without(plan[p], q)]
      /\ Goto(p, "put") /\ UNCHANGED snaps
  BY <1>1, <1>3 DEF DropTarget
<1>5. q \in DOMAIN P.entries \cap P.left
  BY <1>1, <1>2, <1>3, <1>4, SomeIsIn DEF Targets, Plan
<1>6. PlanShape(P) /\ Asked
  BY <1>1, <1>2, <1>4 DEF PlanInv, Asked, Putting
<1>7. PICK N : N = Without(P, q)
  OBVIOUS
<1>8. Plan' = N /\ place'[p] = "put"
  BY <1>1, <1>2, <1>4, <1>7 DEF TypeInv, Plan, Goto, LockInv
<1>9. PlanShape(N)
  BY <1>6, <1>7, WithoutIs
<1>10. PlanShape(N)'
  BY <1>4, <1>9 DEF PlanShape, Snap
<1>11. PlanShape(Plan)'
  BY <1>8, <1>10 DEF PlanShape, Snap
<1>12. q \in Paths
  BY <1>2, <1>5, <1>6, PlanFacts
<1>. QED  BY <1>1, <1>2, <1>4, <1>5, <1>7, <1>8, <1>11, <1>12

\* Removing an artifact: which one, and what else changes.
LEMMA StaleEffect ==
    ASSUME LockInv, TypeInv, SnapInv, PlanInv, RemoveStale(Terminal)
    PROVE  \E q \in Plan.left :
             /\ q \in Paths /\ q \in DOMAIN Plan.stale /\ q \notin DOMAIN Plan.entries
             /\ Plan.left \cap DOMAIN Plan.entries = {}
             /\ Plan' = Without(Plan, q)
             /\ PlanShape(Plan)'
             /\ \/ /\ UNCHANGED <<disk, inforce>> /\ ~Exists(q)
                   /\ place'[Terminal] = "idle"
                \/ /\ Put(q, Nothing) /\ place' = place /\ Exists(q)
                   /\ inforce' = IF \E r \in DOMAIN Plan.entries : r[1] # "dot" /\ r[2] = q[2]
                                 THEN inforce ELSE [inforce EXCEPT ![q[2]] = 0]
<1>1. PICK p \in Processes : p = Terminal
  BY MigrationAssumption
<1>2. PICK P : P = Plan
  OBVIOUS
<1>3. PICK q : q = Some(P.left)
  OBVIOUS
<1>4. /\ place[p] = "drop" /\ Targets(p) = {} /\ plan[p].left # {}
      /\ plan' = [plan EXCEPT ![p] = Without(plan[p], q)]
      /\ UNCHANGED snaps
      /\ IF ~Exists(q) THEN Stop(p) /\ UNCHANGED <<disk, inforce>>
         ELSE /\ Put(q, Nothing)
              /\ inforce' = IF \E r \in DOMAIN P.entries : r[1] # "dot" /\ r[2] = q[2]
                            THEN inforce ELSE [inforce EXCEPT ![q[2]] = 0]
              /\ UNCHANGED <<place, lock>>
  BY <1>1, <1>2, <1>3 DEF RemoveStale, Plan
<1>5. q \in P.left /\ P.left \cap DOMAIN P.entries = {}
  BY <1>1, <1>2, <1>3, <1>4, SomeIsIn DEF Targets, Plan
<1>6. PlanShape(P) /\ Asked
  BY <1>1, <1>2, <1>4 DEF PlanInv, Asked, Putting
<1>7. PICK N : N = Without(P, q)
  OBVIOUS
<1>8. Plan' = N
  BY <1>1, <1>2, <1>4, <1>7 DEF TypeInv, Plan
<1>9. PlanShape(N)
  BY <1>6, <1>7, WithoutIs
<1>10. PlanShape(N)'
  BY <1>4, <1>9 DEF PlanShape, Snap
<1>11. PlanShape(Plan)'
  BY <1>8, <1>10 DEF PlanShape, Snap
<1>12. q \in DOMAIN P.stale /\ q \notin DOMAIN P.entries
  BY <1>5, <1>6 DEF PlanShape
<1>13. q \in Paths
  BY <1>2, <1>12, <1>6, PlanFacts
<1>14. Stop(p) => place'[p] = "idle"
  BY DEF Stop, Goto, LockInv
<1>. QED  BY <1>1, <1>2, <1>4, <1>5, <1>7, <1>8, <1>11, <1>12, <1>13, <1>14

\* The plan a restore makes.
LEMMA PlanOfShape ==
    ASSUME SnapInv, DiskInv, NEW l \in 0..2, snaps[l] # <<>>
    PROVE  /\ PlanShape(PlanOf(l))
           /\ PlanOf(l).left = DOMAIN PlanOf(l).entries \cup DOMAIN PlanOf(l).stale
<1>. DEFINE P == PlanOf(l)
            stale == stale_root_artifacts(l)
            D == DOMAIN Snap(l)
<1>1. D \subseteq SnapPaths(l) /\ D \subseteq Paths
  BY SnapPathsArePaths DEF SnapInv, SnapAt
<1>2. /\ stale \subseteq {Json5(f) : f \in Files} \cup {Toml(f) : f \in Files}
      /\ stale \cap D = {}
  <2>1. ASSUME NEW q \in stale
        PROVE  /\ q \in {Json5(f) : f \in Files} \cup {Toml(f) : f \in Files}
               /\ q \notin D
    <3>1. /\ \E h \in 0..2 : snaps[h] # <<>> /\ q \in snaps[h][1].created
          /\ q[1] \in {"json5", "toml"} /\ q \notin D
      BY DEF stale_root_artifacts, Snap
    <3>2. q \in Paths
      BY <3>1 DEF SnapInv, SnapAt
    <3>. QED  BY <3>1, <3>2, PathFacts DEF Places3
  <2>. QED  BY <2>1
<1>3. \A q \in D : \/ live_path(q) = q
                   \/ \E f \in Files : q = Legacy(f) /\ live_path(q) = Json5(f)
  <2>1. ASSUME NEW q \in D, live_path(q) # q
        PROVE  \E f \in Files : q = Legacy(f) /\ live_path(q) = Json5(f)
    <3>1. q[1] = "legacy" /\ live_path(q) = Json5(q[2])
      BY <2>1 DEF live_path
    <3>2. \E f \in Files : q = Legacy(f)
      BY <1>1, <3>1, PathFacts DEF Places3
    <3>. QED  BY <3>1, <3>2, PathFacts
  <2>. QED  BY <2>1
<1>4. \A q : disk[q].t = "text" => Body(q) = disk[q]
  BY Bodies DEF Body, Deref
<1>. HIDE DEF stale
<1>5. /\ P = [l |-> P.l, entries |-> P.entries, stale |-> P.stale, edited |-> P.edited,
              seen |-> P.seen, left |-> P.left, target |-> P.target]
      /\ P.l = l
      /\ P.entries = [q \in D |-> [live |-> live_path(q), body |-> Body(live_path(q)),
                                   snapshot |-> Snap(l)[q]]]
      /\ P.stale = [q \in stale |-> Body(q)]
      /\ P.seen = [q \in D \cup stale \cup {live_path(r) : r \in D} |-> disk[q]]
      /\ P.left = D \cup stale
  BY DEF PlanOf, Snap, stale
<1>. HIDE DEF P, D
<1>6. /\ DOMAIN P.entries = D /\ DOMAIN P.stale = stale
      /\ DOMAIN P.seen = D \cup stale \cup {live_path(r) : r \in D}
      /\ \A q \in D : /\ P.entries[q].live = live_path(q)
                      /\ P.entries[q].body = Body(live_path(q))
                      /\ P.entries[q].snapshot = Snap(l)[q]
                      /\ P.seen[live_path(q)] = disk[live_path(q)]
      /\ \A q \in stale : P.stale[q] = Body(q) /\ P.seen[q] = disk[q]
  BY <1>5
<1>7. DOMAIN P.seen = DOMAIN P.entries \cup DOMAIN P.stale
                     \cup {P.entries[q].live : q \in DOMAIN P.entries}
  BY <1>6
<1>8. \A q \in DOMAIN P.entries :
        /\ P.entries[q].snapshot = Snap(P.l)[q]
        /\ \/ P.entries[q].live = q
           \/ \E f \in Files : q = Legacy(f) /\ P.entries[q].live = Json5(f)
        /\ P.seen[P.entries[q].live].t = "text" =>
                P.entries[q].body = P.seen[P.entries[q].live]
  BY <1>3, <1>4, <1>5, <1>6
<1>9. \A q \in DOMAIN P.stale : P.seen[q].t = "text" => P.stale[q] = P.seen[q]
  BY <1>4, <1>6
<1>10. DOMAIN P.entries = DOMAIN Snap(P.l) /\ P.left = DOMAIN P.entries \cup DOMAIN P.stale
  BY <1>5, <1>6 DEF D
<1>11. /\ P = [l |-> P.l, entries |-> P.entries, stale |-> P.stale, edited |-> P.edited,
               seen |-> P.seen, left |-> P.left, target |-> P.target]
       /\ P.l \in 0..2 /\ snaps[P.l] # <<>>
       /\ P.left \subseteq DOMAIN P.entries \cup DOMAIN P.stale
       /\ DOMAIN P.stale \subseteq {Json5(f) : f \in Files} \cup {Toml(f) : f \in Files}
       /\ DOMAIN P.stale \cap DOMAIN P.entries = {}
  BY <1>2, <1>5, <1>6, <1>10
<1>12. PlanShape(P)
  BY <1>7, <1>8, <1>9, <1>10, <1>11, Zenon DEF PlanShape
<1>. QED  BY <1>10, <1>12 DEF P

\* Where a migration's step takes its process.
LEMMA MigratesTo ==
    ASSUME LockInv, NEW p \in Processes, Migrates(p)
    PROVE  /\ place'[p] \in Moving \cup {"idle", "body"}
           /\ \A r \in Processes \ {p} : place'[r] = place[r]
<1>1. place \in [Processes -> Places] /\ at[p].m \in Nat /\ LockAt(p) /\ level \in 0..3
  BY DEF LockInv
<1>. USE <1>1 DEF Goto, Stop, Moving, NextFile
<1>2. CASE snapshot_if_absent(p)
  <2>1. /\ place[p] = "snapshot"
        /\ Goto(p, CASE at[p].m = 1 -> "move" [] at[p].m = 2 -> "read"
                     [] at[p].m = 3 -> "convert")
    BY <1>2, Zenon DEF snapshot_if_absent
  <2>2. at[p].m \in {1, 2, 3}
    BY <2>1 DEF LockAt
  <2>. QED  BY <2>1, <2>2
<1>3. CASE migrate_config_file(p)
  <2>1. \/ place' = place /\ place[p] = "move"
        \/ \E w \in {"link", "unlink"} : Goto(p, w)
        \/ Stop(p)
    BY <1>3 DEF migrate_config_file
  <2>. QED  BY <2>1
<1>4. CASE RemoveOld(p)
  BY <1>4 DEF RemoveOld
<1>5. CASE ensure_symlink(p)
  BY <1>5 DEF ensure_symlink
<1>6. CASE migrate_audit_log(p)
  BY <1>6 DEF migrate_audit_log
<1>7. CASE ReadBlock(p)
  BY <1>7 DEF ReadBlock
<1>8. CASE rewrite_in_place(p)
  BY <1>8 DEF rewrite_in_place
<1>9. CASE clean_legacy_runtime_dir(p)
  <2>1. Stop(p) \/ Goto(p, "record")
    BY <1>9, Zenon DEF clean_legacy_runtime_dir
  <2>. QED  BY <2>1
<1>10. CASE convert(p)
  BY <1>10 DEF convert
<1>11. CASE RemoveFrom(p)
  BY <1>11 DEF RemoveFrom
<1>12. CASE clear_legacy_symlinks(p)
  BY <1>12 DEF clear_legacy_symlinks
<1>13. CASE record_post_state(p)
  BY <1>13 DEF record_post_state
<1>14. CASE Stamp(p)
  BY <1>14 DEF Stamp
<1>. QED
  BY <1>2, <1>3, <1>4, <1>5, <1>6, <1>7, <1>8, <1>9, <1>10, <1>11, <1>12, <1>13, <1>14
     DEF Migrates

\* Where a process on the way to the lock or out may be next.
LEMMA ExitsTo ==
    ASSUME LockInv, NEW p \in Processes, Exits(p)
    PROVE  /\ \A r \in Processes \ {p} : place'[r] = place[r]
           /\ \/ place'[p] \in {"gate", "body", "lock", "idle"}
              \/ place[p] = "lock" /\ place'[p] = "snapshot"
              \/ place[p] = "prompt" /\ place'[p] = "rescue" /\ plan' = plan
              \/ \E l \in 0..2 : restore_in(p, l) /\ place'[p] = "prompt"
BY DEF LockInv, Exits, Passes, Start, run_pending_in, acquire_lock, Confirm, Kill, restore_in,
       OtherCommand, Goto

\* A restore's plan is made when it starts, and its left over is what its steps did not do.
LEMMA AskedBefore ==
    ASSUME LockInv, HostNext, Asked', ~Restores, ~\E l \in 0..2 : restore_in(Terminal, l)
    PROVE  /\ Plan' = Plan /\ Asked
           /\ \/ place'[Terminal] = place[Terminal]
              \/ place[Terminal] = "prompt" /\ place'[Terminal] = "rescue"
<1>1. PICK t \in Processes : t = Terminal
  BY MigrationAssumption
<1>2. place'[t] \in Putting \cup {"prompt"}
  BY <1>1 DEF Asked
<1>3. ASSUME NEW p \in Processes, Migrates(p)
      PROVE  Plan' = Plan /\ place'[t] = place[t]
  <2>1. p # t
    BY <1>2, <1>3, MigratesTo DEF Moving, Putting
  <2>. QED  BY <1>1, <1>3, <2>1, MigratesTo, MigratesFrame DEF Plan
<1>4. ASSUME NEW p \in Processes, Exits(p)
      PROVE  /\ Plan' = Plan
             /\ place'[t] = place[t] \/ (place[t] = "prompt" /\ place'[t] = "rescue")
  <2>1. CASE p = t
    BY <1>1, <1>2, <1>4, <2>1, ExitsTo DEF Putting, Plan
  <2>2. CASE p # t
    <3>1. ~\E l \in 0..2 : restore_in(p, l)
      BY <1>1, <2>2 DEF restore_in
    <3>. QED  BY <1>1, <1>4, <2>2, <3>1, ExitsTo, ExitsFrame DEF Plan
  <2>. QED  BY <2>1, <2>2
<1>5. ~Types
  <2>1. ASSUME Types PROVE place'[t] \in Typing \cup {"idle"}
    BY <1>1, <2>1, TypesMove DEF LockInv
  <2>. QED  BY <1>2, <2>1 DEF Typing, Putting
<1>6. ASSUME Saves PROVE Plan' = Plan /\ place'[t] = place[t]
  BY <1>6, SavesFrame DEF Plan
<1>7. ASSUME NEW s \in ShimDirs, NEW b \in Binaries, DropForeign(s, b) PROVE Plan' = Plan /\ place'[t] = place[t]
  BY <1>7, ForeignFrame DEF Plan
<1>8. Plan' = Plan /\ (place'[t] = place[t] \/ (place[t] = "prompt" /\ place'[t] = "rescue"))
  BY <1>3, <1>4, <1>5, <1>6, <1>7, HostSteps
<1>. QED  BY <1>1, <1>2, <1>8 DEF Asked, Putting

\* Every step keeps the plan of the restore under way.
LEMMA PlanHolds ==
    ASSUME HInv, HostNext
    PROVE  PlanInv'
<1>1. SUFFICES ASSUME Asked'
               PROVE  PlanInv'
  BY DEF PlanInv
<1>2. LockInv /\ DiskInv /\ SnapInv /\ TypeInv /\ PlanInv
  BY DEF HInv
<1>3. \A l \in 0..2 : snaps[l] # <<>> => snaps'[l] # <<>> /\ Snap(l)' = Snap(l)
  BY SnapHolds
<1>4. PICK t \in Processes : t = Terminal
  BY MigrationAssumption
<1>5. ASSUME Asked, Plan' = Plan PROVE PlanShape(Plan)'
  <2>1. PICK P : P = Plan
    OBVIOUS
  <2>2. PlanShape(P)
    BY <1>2, <1>5, <2>1 DEF PlanInv
  <2>3. snaps'[P.l] # <<>> /\ Snap(P.l)' = Snap(P.l)
    BY <1>3, <2>2 DEF PlanShape
  <2>4. PlanShape(P)'
    BY <2>2, <2>3, ShapeStays
  <2>. QED  BY <1>5, <2>1, <2>4 DEF PlanShape, Snap
<1>6. CASE ~Restores /\ ~\E l \in 0..2 : restore_in(Terminal, l)
  <2>1. /\ Plan' = Plan /\ Asked
        /\ \/ place'[Terminal] = place[Terminal]
           \/ place[Terminal] = "prompt" /\ place'[Terminal] = "rescue"
    BY <1>1, <1>2, <1>6, AskedBefore
  <2>. QED  BY <1>2, <1>5, <2>1 DEF PlanInv
<1>7. ASSUME NEW l \in 0..2, restore_in(Terminal, l) PROVE PlanInv'
  <2>1. PICK P : P = PlanOf(l)
    OBVIOUS
  <2>2. Plan' = P /\ place'[t] = "prompt" /\ UNCHANGED snaps /\ snaps[l] # <<>>
    BY <1>2, <1>4, <1>7, <2>1 DEF restore_in, Plan, TypeInv, LockInv, Goto
  <2>3. PlanShape(P) /\ P.left = DOMAIN P.entries \cup DOMAIN P.stale
    BY <1>2, <2>1, <2>2, PlanOfShape
  <2>4. PlanShape(P)'
    BY <2>2, <2>3 DEF PlanShape, Snap
  <2>5. PlanShape(Plan)'
    BY <2>2, <2>4 DEF PlanShape, Snap
  <2>. QED  BY <1>4, <2>2, <2>3, <2>5 DEF PlanInv
<1>8. CASE Restores
  <2>1. /\ place[t] \in Putting /\ Asked /\ place \in [Processes -> Places]
    BY <1>2, <1>4, <1>8, RestoresFrame DEF Asked, LockInv
  <2>2. CASE DropTarget(t)
    <3>1. PICK q \in DOMAIN Plan.entries \cap Plan.left :
              Plan' = Without(Plan, q) /\ PlanShape(Plan)' /\ place'[t] = "put"
      BY <1>2, <1>4, <2>2, DropEffect
    <3>2. PICK P : P = Plan
      OBVIOUS
    <3>3. PlanShape(P)
      BY <1>2, <2>1, <3>2 DEF PlanInv
    <3>4. PICK N : N = Without(P, q)
      OBVIOUS
    <3>5. N.target = q /\ N.left = P.left \ {q} /\ N.entries = P.entries
      BY <3>3, <3>4, WithoutIs
    <3>. QED  BY <1>4, <3>1, <3>2, <3>4, <3>5 DEF PlanInv
  <2>3. CASE RemoveStale(t)
    <3>1. PlanShape(Plan)' /\ place'[t] \in {"idle", "drop"}
      <4>1. place[t] = "drop"
        BY <2>3 DEF RemoveStale
      <4>. QED  BY <1>2, <1>4, <2>3, <4>1, StaleEffect
    <3>. QED  BY <1>4, <3>1 DEF PlanInv
  <2>4. CASE Rescue(t) \/ RemoveForward(t) \/ AllRestored(t) \/ RollBackLevel(t)
    <3>1. Plan' = Plan /\ place'[t] \in {"drop", "level", "idle"}
      BY <1>4, <2>1, <2>4
         DEF Rescue, RemoveForward, AllRestored, RollBackLevel, Goto, Stop, Plan
    <3>. QED  BY <1>4, <1>5, <2>1, <3>1 DEF PlanInv
  <2>5. CASE PutTarget(t)
    <3>1. Plan' = Plan /\ place'[t] = "forward" /\ place[t] = "put"
      BY <1>4, <2>1, <2>5 DEF PutTarget, Goto, Plan
    <3>. QED  BY <1>2, <1>4, <1>5, <2>1, <3>1 DEF PlanInv
  <2>. QED  BY <1>4, <1>8, <2>2, <2>3, <2>4, <2>5 DEF Restores
<1>. QED  BY <1>6, <1>7, <1>8

\* Only a restore tears, or undoes.
LEMMA OthersFrame ==
    ASSUME LockInv, HostNext, ~Restores
    PROVE  UNCHANGED <<torn, undone, saved>>
<1>1. ASSUME Types PROVE UNCHANGED <<torn, undone, saved>>
  BY <1>1, TypesMove
<1>. QED  BY <1>1, HostSteps, MigratesFrame, ExitsFrame, SavesFrame, ForeignFrame

\* Where another step may leave a restore.
LEMMA OthersPutting ==
    ASSUME LockInv, HostNext, ~Restores,
           place'[Terminal] \in {"drop", "put", "forward", "level"}
    PROVE  /\ place[Terminal] = place'[Terminal]
           /\ UNCHANGED <<disk, level, snaps, saved, plan, kept, inforce, own, torn, undone,
                          outrun>>
<1>1. PICK t \in Processes : t = Terminal
  BY MigrationAssumption
<1>2. CASE \E l \in 0..2 : restore_in(Terminal, l)
  <2>1. place'[t] = "prompt"
    BY <1>1, <1>2 DEF restore_in, Goto, LockInv
  <2>. QED  BY <1>1, <2>1
<1>3. CASE ~\E l \in 0..2 : restore_in(Terminal, l)
  <2>1. place[Terminal] = place'[Terminal]
    BY <1>3, AskedBefore DEF Asked, Putting
  <2>. QED  BY <2>1, HeldStill DEF Putting
<1>. QED  BY <1>2, <1>3

-----------------------------------------------------------------------------
(* Which restores are torn.                                                *)

\* Only a restore changes what is torn or undone, or how far it has come.
LEMMA RunOthers ==
    ASSUME LockInv, RunInv, HostNext, ~Restores
    PROVE  RunInv'
<1>1. UNCHANGED <<torn, undone>>
  BY OthersFrame
<1>2. CASE place'[Terminal] \in {"drop", "put", "forward", "level"}
  <2>1. /\ place'[Terminal] = place[Terminal] /\ UNCHANGED <<plan, disk, level>>
    BY <1>2, OthersPutting
  <2>. QED  BY <1>1, <2>1 DEF RunInv, Begun, Plan
<1>3. CASE place'[Terminal] \notin {"drop", "put", "forward", "level"}
  BY <1>1, <1>3 DEF RunInv, Begun
<1>. QED  BY <1>2, <1>3

\* A restore that began is torn, and it is upwards or the lowest one.
LEMMA RunRestores ==
    ASSUME LockInv, DiskInv, SnapInv, TypeInv, PlanInv, RunInv, Restores
    PROVE  RunInv'
<1>1. PICK t \in Processes : t = Terminal
  BY MigrationAssumption
<1>2. /\ place[t] \in Putting /\ Asked /\ place \in [Processes -> Places] /\ level \in 0..3
      /\ DOMAIN disk = Paths /\ torn \subseteq 0..2
  BY <1>1, RestoresFrame DEF Asked, LockInv, DiskInv, TypeInv
<1>3. PICK P : P = Plan
  OBVIOUS
<1>4. PlanShape(P) /\ P.l \in 0..2 /\ DOMAIN P.entries # {}
  BY <1>2, <1>3 DEF PlanInv, PlanShape, SnapInv, SnapAt
<1>5. CASE Rescue(t)
  <2>1. /\ place'[t] = "drop" /\ Plan' = P /\ torn' = torn /\ undone \subseteq undone'
        /\ P.left = DOMAIN P.entries \cup DOMAIN P.stale
    BY <1>1, <1>2, <1>3, <1>5 DEF Rescue, Goto, Plan, PlanInv
  <2>. QED  BY <1>1, <2>1 DEF RunInv, Begun
<1>6. CASE DropTarget(t)
  <2>1. PICK q \in DOMAIN P.entries \cap P.left :
            q \in Paths /\ Put(q, Nothing) /\ Plan' = Without(P, q) /\ place'[t] = "put"
    BY <1>1, <1>3, <1>6, DropEffect
  <2>2. /\ torn' = torn \cup {P.l} /\ level' = level
        /\ undone' = undone \cup {IF \E k \in torn \cup {level} : k < P.l THEN "up" ELSE "down"}
    BY <1>1, <1>3, <1>6 DEF DropTarget, Plan
  <2>3. "up" \in undone' \/ (P.l <= level /\ \A k \in torn' : P.l <= k)
    <3>1. CASE \E k \in torn \cup {level} : k < P.l
      BY <2>2, <3>1
    <3>2. CASE ~\E k \in torn \cup {level} : k < P.l
      BY <1>2, <1>4, <2>2, <3>2
    <3>. QED  BY <3>1, <3>2
  <2>4. PICK N : N = Without(P, q)
    OBVIOUS
  <2>5. N.target = q /\ N.l = P.l
    BY <1>4, <2>4, WithoutIs
  <2>6. disk'[q] = Nothing
    BY <2>1, PutSets DEF Sets
  <2>. QED  BY <1>1, <2>1, <2>2, <2>3, <2>4, <2>5, <2>6 DEF RunInv, Begun
<1>7. CASE PutTarget(t)
  <2>1. /\ place[t] = "put" /\ place'[t] = "forward" /\ Plan' = P
        /\ UNCHANGED <<torn, undone, level>> /\ Put(P.target, P.entries[P.target].snapshot)
        /\ P.target \in DOMAIN P.entries
    BY <1>1, <1>2, <1>3, <1>7 DEF PutTarget, Goto, Plan, PlanInv
  <2>2. P.target \in Paths
    BY <1>2, <1>3, <2>1, PlanFacts
  <2>3. disk'[P.target] = P.entries[P.target].snapshot
    BY <2>1, <2>2, PutSets DEF Sets
  <2>. QED  BY <1>1, <1>3, <2>1, <2>3 DEF RunInv, Begun
<1>8. CASE RemoveForward(t)
  <2>1. /\ place[t] = "forward" /\ place'[t] = "drop" /\ Plan' = P
        /\ UNCHANGED <<torn, undone, level>>
    BY <1>1, <1>2, <1>3, <1>8 DEF RemoveForward, Goto, Plan, history
  <2>. QED  BY <1>1, <1>3, <2>1 DEF RunInv, Begun
<1>9. CASE RemoveStale(t)
  <2>1. PICK q \in P.left :
            /\ q \notin DOMAIN P.entries /\ Plan' = Without(P, q)
            /\ place'[t] = "idle" \/ place' = place
    BY <1>1, <1>3, <1>9, StaleEffect
  <2>2. UNCHANGED <<torn, undone, level>> /\ place[t] = "drop"
    BY <1>1, <1>9 DEF RemoveStale
  <2>3. PICK N : N = Without(P, q)
    OBVIOUS
  <2>4. N.l = P.l /\ N.entries = P.entries /\ N.left = P.left \ {q}
    BY <1>4, <2>3, WithoutIs
  <2>. QED  BY <1>1, <1>3, <2>1, <2>2, <2>3, <2>4 DEF RunInv, Begun
<1>10. CASE AllRestored(t)
  <2>1. /\ place[t] = "drop" /\ place'[t] = "level" /\ Plan' = P /\ P.left = {}
        /\ UNCHANGED <<torn, undone, level>>
    BY <1>1, <1>2, <1>3, <1>10 DEF AllRestored, Goto, Plan, history
  <2>. QED  BY <1>1, <1>3, <1>4, <2>1 DEF RunInv, Begun
<1>11. CASE RollBackLevel(t)
  <2>1. place'[t] = "idle" /\ torn' \subseteq torn /\ undone' = undone
    BY <1>1, <1>2, <1>11 DEF RollBackLevel, Stop, Goto
  <2>. QED  BY <1>1, <2>1 DEF RunInv, Begun
<1>. QED  BY <1>1, <1>5, <1>6, <1>7, <1>8, <1>9, <1>10, <1>11 DEF Restores

\* So it is after every step.
LEMMA RunHolds ==
    ASSUME HInv, HostNext
    PROVE  RunInv'
BY RunOthers, RunRestores DEF HInv

\* Migration 0002's test is one on the lines.
LEMMA OldBlockIs ==
    ASSUME NEW d
    PROVE  /\ OldBlock(d) <=> IsOld(LinesOf(d))
           /\ OldBlock(d)' <=> IsOld(LinesOf(d)')
BY DEF OldBlock, NamesOld, Unexpanded, Expanded, IsOld, NamesOldSocket, NamesItOddly

\* A step that writes no text where a migration has been leaves it as far as it was.
LEMMA MigStays ==
    ASSUME NEW p \in Processes, LockAt(p), MigAt(p),
           place'[p] = place[p], at'[p] = at[p], unread'[p] = unread[p],
           \A f \in Files :
               /\ IsText(Legacy(f))' => IsText(Legacy(f))
               /\ disk[Json5(f)] = Nothing => disk'[Json5(f)] = Nothing
               /\ disk'[Legacy(f)] = Link => disk[Legacy(f)] = Link,
           \A d \in Dotfiles : OldBlock(d)' => OldBlock(d),
           place[p] \in {"unlink", "converted"} => UNCHANGED disk
    PROVE  MigAt(p)'
<1>1. /\ \A j \in DOMAIN FileSeq : FileSeq[j] \in Files
      /\ \A j \in DOMAIN DotSeq : DotSeq[j] \in Dotfiles
  BY SeqFacts
<1>2. CASE place[p] \in {"unlink", "converted"}
  <2>1. UNCHANGED disk
    BY <1>2
  <2>. QED  BY <1>1, <1>2, <2>1 DEF MigAt, IsText, OldBlock, NamesOld, Unexpanded, Expanded, LinesOf
<1>3. CASE place[p] \notin {"unlink", "converted"}
  <2>. QED  BY <1>1, <1>3 DEF MigAt
<1>. QED  BY <1>2, <1>3

-----------------------------------------------------------------------------
(* How far a migration has come.                                           *)

\* A process that is not in a migration, or at the beginning of one, has nothing to show.
LEMMA MigBegins ==
    ASSUME NEW p \in Processes,
           \/ place'[p] \notin Moving
           \/ /\ place'[p] \notin {"unlink", "record", "stamp", "converted"}
              /\ at'[p].i = 1
    PROVE  MigAt(p)'
<1>1. \A j \in DOMAIN FileSeq \cup DOMAIN DotSeq : ~(j < 1)
  BY SeqFacts
<1>. QED  BY <1>1 DEF MigAt, Moving

\* Steps to the lock and away from it leave every migration as far as it was.
LEMMA MigExits ==
    ASSUME LockInv, MigInv, NEW p \in Processes, Exits(p), NEW r \in Processes
    PROVE  MigAt(r)'
<1>1. UNCHANGED <<disk, unread>> /\ LockAt(r) /\ MigAt(r)
  BY ExitsFrame DEF LockInv, MigInv
<1>2. CASE r # p
  <2>1. at'[r] = at[r] /\ place'[r] = place[r]
    BY <1>2, ExitsTo
       DEF Exits, Passes, Start, run_pending_in, acquire_lock, Confirm, Kill, restore_in,
           OtherCommand, LockInv
  <2>. QED  BY <1>1, <2>1, MigStays DEF IsText, OldBlock, NamesOld, Unexpanded, Expanded, LinesOf
<1>3. CASE r = p
  <2>1. CASE place'[p] = "snapshot"
    <3>1. at'[p].i = 1
      BY <2>1
         DEF Exits, Passes, Start, run_pending_in, acquire_lock, Confirm, Kill, restore_in,
             OtherCommand, LockInv, Goto
    <3>. QED  BY <1>3, <2>1, <3>1, MigBegins
  <2>2. CASE place'[p] # "snapshot"
    <3>1. place'[p] \notin Moving
      BY <2>2, ExitsTo DEF Moving
    <3>. QED  BY <1>3, <3>1, MigBegins
  <2>. QED  BY <2>1, <2>2
<1>. QED  BY <1>2, <1>3

\* Beside a migration only an editor writes.
LEMMA MigOthers ==
    ASSUME HInv, HostNext, ~\E q \in Processes : Migrates(q) \/ Exits(q), NEW r \in Processes
    PROVE  MigAt(r)'
<1>1. /\ LockInv /\ DiskInv /\ LockAt(r) /\ MigAt(r) /\ edits \in Nat
      /\ place \in [Processes -> Places] /\ lock \in Processes \cup {NoOne}
      /\ Terminal \in Processes /\ NoOne \notin Processes
  BY MigrationAssumption DEF HInv, LockInv, MigInv, TypeInv
<1>2. CASE place[r] \notin Moving
  <2>1. place'[r] \notin Moving
    <3>1. CASE Types
      <4>1. PICK w \in Typing \cup {"idle"} : place' = [place EXCEPT ![Terminal] = w]
        BY <1>1, <3>1, TypesMove
      <4>2. w \notin Moving
        BY DEF Typing, Moving
      <4>. QED  BY <1>1, <1>2, <4>1, <4>2
    <3>2. CASE Restores
      <4>1. \E w \in Putting \cup {"idle"} : place' = [place EXCEPT ![Terminal] = w] \/ place' = place
        BY <3>2 DEF Restores, Rescue, DropTarget, PutTarget, RemoveForward, RemoveStale,
           AllRestored, RollBackLevel, Goto, Stop, Putting
      <4>2. Putting \cup {"idle"} \subseteq Places \ Moving
        BY DEF Places, Putting, Moving
      <4>. QED  BY <1>1, <1>2, <4>1, <4>2
    <3>. QED  BY <1>1, <1>2, <3>1, <3>2, HostSteps, SavesFrame, ForeignFrame
  <2>. QED  BY <2>1, MigBegins
<1>3. CASE place[r] \in Moving
  <2>1. lock = r /\ level < 3
    BY <1>1, <1>3 DEF LockAt
  <2>2. ~Types
    <3>1. ASSUME Types PROVE FALSE
      <4>1. place[Terminal] \in Typing
        BY <1>1, <3>1, TypesMove
      <4>2. level = 3
        BY <1>1, <4>1 DEF LockInv
      <4>. QED  BY <2>1, <4>2
    <3>. QED  BY <3>1
  <2>3. ~Restores
    <3>1. ASSUME Restores PROVE FALSE
      <4>1. place[Terminal] \in Putting /\ lock = Terminal
        BY <1>1, <3>1, RestoresFrame DEF LockInv, LockAt
      <4>. QED  BY <1>3, <2>1, <4>1 DEF Moving, Putting
    <3>. QED  BY <3>1
  <2>4. ASSUME Saves \/ \E s \in ShimDirs, b \in Binaries : DropForeign(s, b)
        PROVE  place'[r] = place[r] /\ at'[r] = at[r] /\ unread'[r] = unread[r]
    BY <2>4, SavesFrame, ForeignFrame
  <2>5. CASE \E s \in ShimDirs, b \in Binaries : DropForeign(s, b)
    <3>1. UNCHANGED disk
      BY <2>5, ForeignFrame
    <3>. QED
      BY <1>1, <2>4, <2>5, <3>1, MigStays
         DEF IsText, OldBlock, NamesOld, Unexpanded, Expanded, LinesOf
  <2>6. ASSUME NEW f \in Files, Edit(f) PROVE MigAt(r)'
    <3>1. PICK b : /\ Put(Current(f), b) /\ b.t = "text"
                   /\ Current(f) \in Places3(f) /\ IsText(Current(f)) /\ NobodyMoves
      BY <1>1, <2>6, EditEffect
    <3>2. PICK q \in Places3(f) : q = Current(f) /\ q \in Paths
      BY <3>1, PlacesOfOne
    <3>3. Sets(q, b)
      BY <1>1, <3>1, <3>2, PutSets
    <3>4. /\ disk[q].t = "text" /\ disk'[q].t = "text"
          /\ \A x \in Paths : x # q => disk'[x] = disk[x]
      BY <3>1, <3>2, <3>3 DEF Sets, IsText
    <3>5. \A g \in Files : /\ IsText(Legacy(g))' => IsText(Legacy(g))
                           /\ disk[Json5(g)] = Nothing => disk'[Json5(g)] = Nothing
                           /\ disk'[Legacy(g)] = Link => disk[Legacy(g)] = Link
      BY <3>4, PathFacts, Bodies DEF IsText
    <3>6. \A d \in Dotfiles : LinesOf(d)' = LinesOf(d)
      BY <3>2, <3>3, SetsPlace
    <3>7. \A d \in Dotfiles : OldBlock(d)' => OldBlock(d)
      BY <3>6, OldBlockIs
    <3>8. place[r] \notin {"unlink", "converted"}
      BY <3>1 DEF NobodyMoves
    <3>9. place'[r] = place[r] /\ at'[r] = at[r] /\ unread'[r] = unread[r]
      BY <2>4, <2>6 DEF Saves
    <3>. QED  BY <1>1, <3>5, <3>7, <3>8, <3>9, MigStays
  <2>7. ASSUME NEW f \in Files, NEW q \in Paths, Tidy(f, q) PROVE FALSE
    BY <1>1, <2>1, <2>7 DEF Tidy
  <2>8. ASSUME NEW d \in Dotfiles, EditDotfile(d) PROVE MigAt(r)'
    <3>1. PICK new : Put(Dot(d), Lined(new)) /\ AddsNone(LinesOf(d), new)
      BY <1>1, <2>8, DotfileEdits
    <3>2. Sets(Dot(d), Lined(new))
      BY <1>1, <3>1, PathFacts, PutSets
    <3>3. /\ LinesOf(d)' = new /\ \A e \in Dotfiles \ {d} : LinesOf(e)' = LinesOf(e)
          /\ \A f \in Files : \A q \in Places3(f) : disk'[q] = disk[q]
      BY <1>1, <3>2, SetsDot
    <3>4. \A e \in Dotfiles : OldBlock(e)' => OldBlock(e)
      BY <3>1, <3>3, OldBlockIs DEF AddsNone
    <3>5. \A g \in Files : disk'[Legacy(g)] = disk[Legacy(g)] /\ disk'[Json5(g)] = disk[Json5(g)]
                           /\ disk'[Toml(g)] = disk[Toml(g)]
      BY <3>3 DEF Places3
    <3>6. place'[r] = place[r] /\ at'[r] = at[r] /\ unread'[r] = unread[r]
      BY <2>4, <2>8 DEF Saves
    <3>7. CASE place[r] \in {"unlink", "converted"}
      <4>1. at[r].i \in DOMAIN FileSeq /\ FileSeq[at[r].i] \in Files
        BY <1>1, <3>7, SeqFacts DEF LockAt
      <4>. QED
        BY <1>1, <3>4, <3>5, <3>6, <3>7, <4>1, SeqFacts DEF MigAt, IsText
    <3>8. CASE place[r] \notin {"unlink", "converted"}
      <4>1. \A f \in Files :
               /\ IsText(Legacy(f))' => IsText(Legacy(f))
               /\ disk[Json5(f)] = Nothing => disk'[Json5(f)] = Nothing
               /\ disk'[Legacy(f)] = Link => disk[Legacy(f)] = Link
        BY <3>5 DEF IsText
      <4>. QED  BY <1>1, <3>4, <3>6, <3>8, <4>1, MigStays
    <3>. QED  BY <3>7, <3>8
  <2>. QED  BY <1>1, <2>2, <2>3, <2>5, <2>6, <2>7, <2>8, HostSteps DEF Saves
<1>. QED  BY <1>2, <1>3

\* The files of the first migration.
LEMMA MigFirst ==
    ASSUME LockInv, DiskInv, NEW p \in Processes, MigAt(p),
           \/ migrate_config_file(p) \/ RemoveOld(p) \/ ensure_symlink(p)
           \/ migrate_audit_log(p)
    PROVE  MigAt(p)'
<1>1. /\ at \in [Processes -> [m : Nat, i : Nat]] /\ place \in [Processes -> Places]
      /\ LockAt(p) /\ DOMAIN disk = Paths
  BY DEF LockInv, DiskInv
<1>2. place[p] \in {"move", "unlink", "link"} /\ at[p].m = 1 /\ at[p].i \in Nat
  BY <1>1 DEF migrate_config_file, RemoveOld, ensure_symlink, migrate_audit_log, LockAt
<1>3. \A j \in DOMAIN FileSeq : j \in Nat /\ (j < at[p].i => ~IsText(Legacy(FileSeq[j])))
  BY <1>1, <1>2, SeqFacts DEF MigAt, Moving
<1>4. PICK i : i = at[p].i
  OBVIOUS
<1>. USE DEF Goto, Stop
<1>5. ASSUME NextFile(p), place'[p] = "move", i \in DOMAIN FileSeq,
             ~IsText(Legacy(FileSeq[i]))',
             \A j \in DOMAIN FileSeq : IsText(Legacy(FileSeq[j]))' => IsText(Legacy(FileSeq[j]))
      PROVE  MigAt(p)'
  <2>1. at'[p].m = 1 /\ at'[p].i = i + 1 /\ i \in Nat
    BY <1>1, <1>2, <1>4, <1>5, NextFileEffect
  <2>2. \A j \in DOMAIN FileSeq : j < at'[p].i => ~IsText(Legacy(FileSeq[j]))'
    BY <1>3, <1>4, <1>5, <2>1
  <2>. QED  BY <1>5, <2>1, <2>2 DEF MigAt
<1>6. CASE migrate_config_file(p)
  <2>1. PICK f \in Files : f = FileSeq[i] /\ i \in DOMAIN FileSeq /\ place[p] = "move"
    BY <1>4, <1>6, SeqFacts DEF migrate_config_file
  <2>2. CASE NextFile(p) /\ UNCHANGED <<disk, place>> /\ ~IsText(Legacy(f))
    BY <1>5, <2>1, <2>2 DEF IsText
  <2>3. CASE Stop(p)
    <3>1. place'[p] \notin Moving
      BY <1>1, <2>3 DEF Moving
    <3>. QED  BY <3>1, MigBegins
  <2>4. CASE Goto(p, "link") /\ UNCHANGED <<disk, at>>
    <3>1. place'[p] = "link" /\ at'[p].m = 1
      BY <1>1, <1>2, <2>4
    <3>. QED  BY <1>3, <2>4, <3>1 DEF MigAt, IsText
  <2>5. CASE /\ Goto(p, "unlink") /\ UNCHANGED at /\ disk[Legacy(f)].t = "text"
             /\ disk'[Legacy(f)] = disk[Legacy(f)] /\ disk'[Json5(f)] = disk[Legacy(f)]
             /\ \A g \in Files : disk'[Legacy(g)] = disk[Legacy(g)]
    <3>1. place'[p] = "unlink" /\ at'[p].m = 1 /\ at'[p].i = i
      BY <1>1, <1>2, <1>4, <2>5
    <3>2. \A j \in DOMAIN FileSeq : disk'[Legacy(FileSeq[j])] = disk[Legacy(FileSeq[j])]
      BY <2>5, SeqFacts
    <3>. QED  BY <1>3, <1>4, <2>1, <2>5, <3>1, <3>2 DEF MigAt, IsText
  <2>6. \/ NextFile(p) /\ UNCHANGED <<disk, place>> /\ ~IsText(Legacy(f))
        \/ Stop(p)
        \/ Goto(p, "link") /\ UNCHANGED <<disk, at>>
        \/ /\ Goto(p, "unlink") /\ UNCHANGED at /\ disk[Legacy(f)].t = "text"
           /\ Put(Json5(f), disk[Legacy(f)]) \/ (UNCHANGED disk /\ disk[Json5(f)] = disk[Legacy(f)])
    <3>1. PICK old, new : old = disk[Legacy(f)] /\ new = disk[Json5(f)]
      OBVIOUS
    <3>2. \/ (old = Link \/ (old = Nothing /\ new = Nothing)) /\ NextFile(p) /\ UNCHANGED <<disk, place>>
          \/ Goto(p, "link") /\ UNCHANGED <<disk, at>>
          \/ old.t = "text" /\ new = old /\ Goto(p, "unlink") /\ UNCHANGED <<disk, at>>
          \/ Stop(p)
          \/ old.t = "text" /\ new = Nothing /\ Put(Json5(f), old) /\ Goto(p, "unlink") /\ UNCHANGED at
      BY <1>4, <1>6, <2>1, <3>1 DEF migrate_config_file
    <3>. QED  BY <3>1, <3>2, Bodies DEF IsText
  <2>7. ASSUME Put(Json5(f), disk[Legacy(f)])
        PROVE  /\ disk'[Legacy(f)] = disk[Legacy(f)] /\ disk'[Json5(f)] = disk[Legacy(f)]
               /\ \A g \in Files : disk'[Legacy(g)] = disk[Legacy(g)]
    BY <1>1, <2>7, PathFacts DEF Put
  <2>. QED  BY <2>2, <2>3, <2>4, <2>5, <2>6, <2>7
<1>7. CASE RemoveOld(p)
  <2>1. /\ place'[p] = "link" /\ UNCHANGED at /\ Put(Legacy(FileSeq[i]), Nothing)
        /\ FileSeq[i] \in Files
    BY <1>1, <1>4, <1>7, SeqFacts DEF RemoveOld, LockAt
  <2>2. \A g \in Files : disk'[Legacy(g)] = disk[Legacy(g)] \/ disk'[Legacy(g)] = Nothing
    BY <1>1, <2>1, PathFacts DEF Put
  <2>3. \A j \in DOMAIN FileSeq : j < at[p].i => ~IsText(Legacy(FileSeq[j]))'
    BY <1>3, <2>2, SeqFacts, Bodies DEF IsText
  <2>. QED  BY <1>2, <2>1, <2>3 DEF MigAt
<1>8. CASE ensure_symlink(p)
  <2>1. CASE Stop(p)
    <3>1. place'[p] \notin Moving
      BY <1>1, <2>1 DEF Moving
    <3>. QED  BY <3>1, MigBegins
  <2>2. CASE Put(Legacy(FileSeq[i]), Link) /\ NextFile(p) /\ Goto(p, "move")
    <3>1. i \in DOMAIN FileSeq /\ FileSeq[i] \in Files
      BY <1>1, <1>4, <1>8, SeqFacts DEF ensure_symlink, LockAt
    <3>2. /\ disk'[Legacy(FileSeq[i])] = Link
          /\ \A g \in Files : disk'[Legacy(g)] = disk[Legacy(g)] \/ disk'[Legacy(g)] = Link
      BY <1>1, <2>2, <3>1, PathFacts DEF Put
    <3>3. \A j \in DOMAIN FileSeq : IsText(Legacy(FileSeq[j]))' => IsText(Legacy(FileSeq[j]))
      BY <3>2, SeqFacts, Bodies DEF IsText
    <3>4. ~IsText(Legacy(FileSeq[i]))'
      BY <3>2, Bodies DEF IsText
    <3>. QED  BY <1>1, <1>5, <2>2, <3>1, <3>3, <3>4
  <2>. QED  BY <1>4, <1>8, <2>1, <2>2 DEF ensure_symlink
<1>9. CASE migrate_audit_log(p)
  <2>1. /\ place'[p] = "record" /\ UNCHANGED <<at, disk>> /\ at[p].i > Len(FileSeq)
    BY <1>1, <1>9 DEF migrate_audit_log
  <2>2. \A j \in DOMAIN FileSeq : ~IsText(Legacy(FileSeq[j]))
    BY <1>2, <1>3, <2>1, SeqFacts
  <2>. QED  BY <1>2, <2>1, <2>2 DEF MigAt, IsText
<1>. QED  BY <1>6, <1>7, <1>8, <1>9

\* The dotfiles of the second.
LEMMA MigSecond ==
    ASSUME LockInv, DiskInv, TypeInv, NEW p \in Processes, MigAt(p),
           ReadBlock(p) \/ rewrite_in_place(p) \/ clean_legacy_runtime_dir(p)
    PROVE  MigAt(p)'
<1>1. /\ at \in [Processes -> [m : Nat, i : Nat]] /\ place \in [Processes -> Places]
      /\ LockAt(p) /\ DOMAIN disk = Paths /\ unread = [q \in Processes |-> unread[q]]
  BY DEF LockInv, DiskInv, TypeInv
<1>2. place[p] \in {"read", "repoint"} /\ at[p].m = 2 /\ at[p].i \in Nat
  BY <1>1 DEF ReadBlock, rewrite_in_place, clean_legacy_runtime_dir, LockAt
<1>3. /\ \A j \in DOMAIN DotSeq : j \in Nat /\ DotSeq[j] \in Dotfiles
      /\ \A j \in DOMAIN DotSeq : j < at[p].i /\ OldBlock(DotSeq[j]) => DotSeq[j] \in unread[p]
  BY <1>1, <1>2, SeqFacts DEF MigAt, Moving
<1>4. PICK i : i = at[p].i
  OBVIOUS
<1>5. ASSUME NextFile(p), place'[p] = "read", i \in DOMAIN DotSeq,
             unread[p] \subseteq unread'[p],
             OldBlock(DotSeq[i])' => DotSeq[i] \in unread'[p],
             \A d \in Dotfiles : OldBlock(d)' => OldBlock(d)
      PROVE  MigAt(p)'
  <2>1. at'[p].m = 2 /\ at'[p].i = i + 1 /\ i \in Nat
    BY <1>1, <1>2, <1>4, <1>5, NextFileEffect
  <2>2. \A j \in DOMAIN DotSeq : j < at'[p].i /\ OldBlock(DotSeq[j])' => DotSeq[j] \in unread'[p]
    BY <1>3, <1>4, <1>5, <2>1
  <2>. QED  BY <1>5, <2>1, <2>2 DEF MigAt
<1>6. CASE ReadBlock(p)
  <2>1. PICK d \in Dotfiles : d = DotSeq[i] /\ i \in DOMAIN DotSeq /\ place[p] = "read"
    BY <1>3, <1>4, <1>6 DEF ReadBlock
  <2>2. UNCHANGED disk
    BY <1>6 DEF ReadBlock
  <2>3. \A e : OldBlock(e)' = OldBlock(e)
    BY <2>2 DEF OldBlock, NamesOld, Unexpanded, Expanded, LinesOf
  <2>4. CASE Goto(p, "repoint") /\ UNCHANGED <<at, unread>>
    <3>1. place'[p] = "repoint"
      BY <1>1, <2>4 DEF Goto
    <3>. QED  BY <1>2, <1>3, <2>3, <2>4, <3>1 DEF MigAt
  <2>5. CASE /\ ~NamesOld(d) /\ NextFile(p) /\ UNCHANGED place
             /\ unread' = IF Unexpanded(d) THEN [unread EXCEPT ![p] = @ \cup {d}] ELSE unread
    <3>1. unread[p] \subseteq unread'[p] /\ (Unexpanded(d) => d \in unread'[p])
      BY <1>1, <2>5
    <3>. QED  BY <1>5, <2>1, <2>3, <2>5, <3>1 DEF OldBlock
  <2>. QED  BY <1>4, <1>6, <2>1, <2>4, <2>5 DEF ReadBlock
<1>7. CASE rewrite_in_place(p)
  <2>1. PICK d \in Dotfiles : d = DotSeq[i] /\ i \in DOMAIN DotSeq
    BY <1>1, <1>3, <1>4, <1>7 DEF rewrite_in_place, LockAt
  <2>2. PICK new : new = replace_block(LinesOf(d), ssh_block(NewUnderHome))
    OBVIOUS
  <2>3. CASE Stop(p)
    <3>1. place'[p] \notin Moving
      BY <1>1, <2>3 DEF Moving, Stop, Goto
    <3>. QED  BY <3>1, MigBegins
  <2>4. CASE /\ new # LinesOf(d) /\ Put(Dot(d), Lined(new)) /\ NextFile(p) /\ Goto(p, "read")
             /\ UNCHANGED unread
    <3>1. ~IsOld(new)
      BY <2>2, <2>4, DotKinds, ReplaceKeeps
    <3>2. /\ LinesOf(d)' = new /\ \A e \in Dotfiles \ {d} : LinesOf(e)' = LinesOf(e)
      BY <2>4, PathFacts, PutSets, SetsDot
    <3>3. ~OldBlock(d)' /\ \A e \in Dotfiles : OldBlock(e)' => OldBlock(e)
      BY <3>1, <3>2, OldBlockIs
    <3>. QED  BY <1>1, <1>5, <2>1, <2>4, <3>3 DEF Goto
  <2>5. \/ Stop(p)
        \/ new # LinesOf(d) /\ Rewrite(d, new) /\ NextFile(p) /\ Goto(p, "read") /\ UNCHANGED unread
    BY <1>4, <1>7, <2>1, <2>2 DEF rewrite_in_place
  <2>. QED  BY <2>3, <2>4, <2>5 DEF Rewrite
<1>8. CASE clean_legacy_runtime_dir(p)
  <2>1. /\ Stop(p) \/ (unread[p] = {} /\ Goto(p, "record"))
        /\ UNCHANGED <<disk, at, unread>> /\ at[p].i > Len(DotSeq)
    BY <1>8, Zenon DEF clean_legacy_runtime_dir
  <2>2. CASE Stop(p)
    <3>1. place'[p] \notin Moving
      BY <1>1, <2>2 DEF Moving, Stop, Goto
    <3>. QED  BY <3>1, MigBegins
  <2>3. CASE unread[p] = {} /\ Goto(p, "record")
    <3>1. \A j \in DOMAIN DotSeq : ~OldBlock(DotSeq[j])
      BY <1>2, <1>3, <2>1, <2>3, SeqFacts
    <3>2. \A e : OldBlock(e)' = OldBlock(e)
      BY <2>1 DEF OldBlock, NamesOld, Unexpanded, Expanded, LinesOf
    <3>3. \A d \in Dotfiles : ~OldBlock(d)'
      BY <3>1, <3>2, SeqFacts
    <3>4. place'[p] = "record" /\ at'[p].m = 2
      BY <1>1, <1>2, <2>1, <2>3 DEF Goto
    <3>. QED  BY <3>3, <3>4, SeqFacts DEF MigAt
  <2>. QED  BY <2>1, <2>2, <2>3
<1>. QED  BY <1>6, <1>7, <1>8

\* The files of the third.
LEMMA MigThird ==
    ASSUME LockInv, DiskInv, NEW p \in Processes, MigAt(p),
           convert(p) \/ RemoveFrom(p) \/ clear_legacy_symlinks(p)
    PROVE  MigAt(p)'
<1>1. /\ at \in [Processes -> [m : Nat, i : Nat]] /\ place \in [Processes -> Places]
      /\ LockAt(p) /\ DOMAIN disk = Paths
  BY DEF LockInv, DiskInv
<1>2. place[p] \in {"convert", "converted"} /\ at[p].m = 3 /\ at[p].i \in Nat
  BY <1>1 DEF convert, RemoveFrom, clear_legacy_symlinks, LockAt
<1>3. /\ \A j \in DOMAIN FileSeq : j \in Nat /\ FileSeq[j] \in Files
      /\ \A j \in DOMAIN FileSeq : j < at[p].i => disk[Json5(FileSeq[j])] = Nothing
  BY <1>1, <1>2, SeqFacts DEF MigAt, Moving
<1>4. PICK i : i = at[p].i
  OBVIOUS
<1>. USE DEF Goto, Stop
<1>5. ASSUME NextFile(p), place'[p] = "convert", i \in DOMAIN FileSeq,
             disk'[Json5(FileSeq[i])] = Nothing,
             \A f \in Files : disk[Json5(f)] = Nothing => disk'[Json5(f)] = Nothing
      PROVE  MigAt(p)'
  <2>1. at'[p].m = 3 /\ at'[p].i = i + 1 /\ i \in Nat
    BY <1>1, <1>2, <1>4, <1>5, NextFileEffect
  <2>2. \A j \in DOMAIN FileSeq : j < at'[p].i => disk'[Json5(FileSeq[j])] = Nothing
    BY <1>3, <1>4, <1>5, <2>1
  <2>. QED  BY <1>5, <2>1, <2>2 DEF MigAt
<1>6. CASE convert(p)
  <2>1. PICK f \in Files : f = FileSeq[i] /\ i \in DOMAIN FileSeq /\ place[p] = "convert"
    BY <1>3, <1>4, <1>6 DEF convert
  <2>2. PICK from : from = disk[Json5(f)]
    OBVIOUS
  <2>3. \/ from = Nothing /\ NextFile(p) /\ UNCHANGED <<disk, place>>
        \/ Stop(p)
        \/ from # Nothing /\ Put(Toml(f), from) /\ Goto(p, "converted") /\ UNCHANGED at
    BY <1>4, <1>6, <2>1, <2>2, Zenon DEF convert
  <2>4. CASE from = Nothing /\ NextFile(p) /\ UNCHANGED <<disk, place>>
    BY <1>5, <2>1, <2>2, <2>4
  <2>5. CASE Stop(p)
    <3>1. place'[p] \notin Moving
      BY <1>1, <2>5 DEF Moving
    <3>. QED  BY <3>1, MigBegins
  <2>6. CASE from # Nothing /\ Put(Toml(f), from) /\ Goto(p, "converted") /\ UNCHANGED at
    <3>1. /\ disk'[Toml(f)] = from /\ \A g \in Files : disk'[Json5(g)] = disk[Json5(g)]
      BY <1>1, <2>6, PathFacts DEF Put
    <3>2. from.t = "text"
      BY <2>2, <2>6, DiskKinds, PathFacts DEF Places3, IsText
    <3>3. place'[p] = "converted" /\ at'[p].m = 3 /\ at'[p].i = i
      BY <1>1, <1>2, <1>4, <2>6
    <3>. QED  BY <1>3, <1>4, <2>1, <2>2, <3>1, <3>2, <3>3 DEF MigAt, IsText
  <2>. QED  BY <2>3, <2>4, <2>5, <2>6
<1>7. CASE RemoveFrom(p)
  <2>1. /\ NextFile(p) /\ place' = [place EXCEPT ![p] = "convert"]
        /\ Put(Json5(FileSeq[i]), Nothing) /\ i \in DOMAIN FileSeq
    BY <1>1, <1>4, <1>7 DEF RemoveFrom, LockAt
  <2>2. /\ disk'[Json5(FileSeq[i])] = Nothing
        /\ \A f \in Files : disk[Json5(f)] = Nothing => disk'[Json5(f)] = Nothing
    BY <1>1, <1>3, <2>1, PathFacts DEF Put
  <2>3. place'[p] = "convert"
    BY <1>1, <2>1
  <2>. QED  BY <1>5, <2>1, <2>2, <2>3
<1>8. CASE clear_legacy_symlinks(p)
  <2>1. /\ place'[p] = "record" /\ at'[p].m = 3 /\ at[p].i > Len(FileSeq)
        /\ \A q \in Paths : disk'[q] = IF disk[q] = Link THEN Nothing ELSE disk[q]
    BY <1>1, <1>2, <1>8 DEF clear_legacy_symlinks
  <2>2. \A j \in DOMAIN FileSeq : disk[Json5(FileSeq[j])] = Nothing
    BY <1>2, <1>3, <2>1, SeqFacts
  <2>3. \A j \in DOMAIN FileSeq : disk'[Json5(FileSeq[j])] = Nothing
    BY <1>3, <2>1, <2>2, PathFacts
  <2>4. \A f \in Files : disk'[Legacy(f)] # Link
    BY <2>1, PathFacts, Bodies
  <2>. QED  BY <2>1, <2>3, <2>4 DEF MigAt
<1>. QED  BY <1>6, <1>7, <1>8

\* A step of a migration: it is as far as it says.
LEMMA MigMigrates ==
    ASSUME LockInv, DiskInv, TypeInv, MigInv, NEW p \in Processes, Migrates(p),
           NEW r \in Processes
    PROVE  MigAt(r)'
<1>1. LockAt(p) /\ LockAt(r) /\ MigAt(p) /\ place[p] \in Moving
      /\ at \in [Processes -> [m : Nat, i : Nat]] /\ place \in [Processes -> Places]
  BY MigratesFrame DEF LockInv, MigInv
<1>2. CASE r # p
  <2>1. place[r] \notin Moving
    BY <1>1, <1>2 DEF LockAt
  <2>2. place'[r] \notin Moving
    BY <1>2, <2>1, MigratesTo
  <2>. QED  BY <2>2, MigBegins
<1>3. CASE r = p /\ snapshot_if_absent(p)
  <2>1. /\ place[p] = "snapshot" /\ at' = at
        /\ Goto(p, CASE at[p].m = 1 -> "move" [] at[p].m = 2 -> "read"
                     [] at[p].m = 3 -> "convert")
    BY <1>3, Zenon DEF snapshot_if_absent
  <2>2. at[p].m \in {1, 2, 3} /\ at[p].i = 1
    <3>1. level = at[p].m - 1 /\ level < 3 /\ at[p].m \in Nat /\ at[p].i = 1 /\ level \in 0..3
      BY <1>1, <2>1 DEF LockAt, LockInv
    <3>. QED  BY <3>1
  <2>3. place'[p] \in {"move", "read", "convert"}
    BY <1>1, <2>1, <2>2 DEF Goto
  <2>. QED  BY <1>3, <2>1, <2>2, <2>3, MigBegins
<1>4. CASE r = p /\ record_post_state(p)
  <2>1. place[p] = "record" /\ place'[p] = "stamp" /\ UNCHANGED <<disk, at, unread>>
    BY <1>1, <1>4 DEF record_post_state, Goto
  <2>2. \A e : OldBlock(e)' = OldBlock(e)
    BY <2>1 DEF OldBlock, NamesOld, Unexpanded, Expanded, LinesOf
  <2>. QED  BY <1>1, <1>4, <2>1, <2>2 DEF MigAt, IsText, Moving
<1>5. CASE r = p /\ Stamp(p)
  <2>1. at'[p].i = 1 /\ place'[p] \in {"body", "snapshot"}
    BY <1>1, <1>5 DEF Stamp, Goto
  <2>. QED  BY <1>5, <2>1, MigBegins
<1>. QED
  BY <1>1, <1>2, <1>3, <1>4, <1>5, MigFirst, MigSecond, MigThird DEF Migrates

\* So it is after every step: the lock keeps restores out, and NobodyMoves the user.
LEMMA MigHolds ==
    ASSUME HInv, HostNext
    PROVE  MigInv'
<1>1. LockInv /\ DiskInv /\ TypeInv /\ MigInv
  BY DEF HInv
<1>2. ASSUME NEW r \in Processes PROVE MigAt(r)'
  BY <1>1, MigMigrates, MigExits, MigOthers
<1>. QED  BY <1>2 DEF MigInv

\* A path's write away from a dotfile leaves its lines.
LEMMA AwayFromDot ==
    ASSUME DiskInv, NEW d \in Dotfiles, NEW q \in Paths, NEW b, Put(q, b), q # Dot(d)
    PROVE  LinesOf(d)' = LinesOf(d)
<1>1. disk'[Dot(d)] = disk[Dot(d)]
  BY PutSets, PathFacts DEF Sets
<1>. QED  BY <1>1 DEF LinesOf

\* Beside a restore nothing takes a line of the user's away but the user.
LEMMA StepKeepsOwn ==
    ASSUME HInv, HostNext, ~Restores, NEW d \in Dotfiles, InStep(d)
    PROVE  InStep(d)'
<1>1. LockInv /\ DiskInv /\ TypeInv /\ ShimInv /\ edits \in Nat
  BY DEF HInv, TypeInv
<1>2. ASSUME OwnStays, OwnText(LinesOf(d)') = OwnText(LinesOf(d)) PROVE InStep(d)'
  <2>1. d \in outrun' \/ own'[d] = own[d]
    BY <1>1, <1>2 DEF OwnStays, TypeInv
  <2>. QED  BY <1>2, <2>1 DEF InStep, OwnStays
<1>3. ASSUME OwnStays, UNCHANGED disk PROVE InStep(d)'
  BY <1>2, <1>3 DEF LinesOf
<1>4. ASSUME NEW p \in Processes, Migrates(p) PROVE InStep(d)'
  <2>1. OwnStays
    BY <1>1, <1>4, MigratesFrame
  <2>2. CASE rewrite_in_place(p)
    <3>1. PICK e \in Dotfiles : e = DotSeq[at[p].i]
      BY <1>1, <2>2, SeqFacts DEF rewrite_in_place, LockInv, LockAt
    <3>2. PICK new : new = replace_block(LinesOf(e), ssh_block(NewUnderHome))
      OBVIOUS
    <3>3. UNCHANGED disk \/ Put(Dot(e), Lined(new))
      BY <2>2, <3>1, <3>2 DEF rewrite_in_place, Rewrite
    <3>4. OwnText(new) = OwnText(LinesOf(e))
      BY <1>1, <3>2, DotKinds, ReplaceKeeps
    <3>5. CASE Put(Dot(e), Lined(new))
      <4>1. LinesOf(e)' = new /\ \A x \in Dotfiles \ {e} : LinesOf(x)' = LinesOf(x)
        BY <1>1, <3>5, PathFacts, PutSets, SetsDot
      <4>. QED  BY <1>2, <2>1, <3>4, <4>1
    <3>. QED  BY <1>3, <2>1, <3>3, <3>5
  <2>3. CASE clear_legacy_symlinks(p)
    <3>1. disk'[Dot(d)] = disk[Dot(d)]
      BY <1>1, <2>3, PathFacts, DotKinds DEF clear_legacy_symlinks
    <3>. QED  BY <1>2, <2>1, <3>1 DEF LinesOf
  <2>4. ASSUME NEW f \in Files, NEW q \in Places3(f), NEW b, Put(q, b) PROVE InStep(d)'
    BY <1>1, <1>2, <2>1, <2>4, PlacesOfOne, AwayFromDot
  <2>5. ASSUME NEW f \in Files, NEW b,
               Put(Legacy(f), b) \/ Put(Json5(f), b) \/ Put(Toml(f), b)
        PROVE  InStep(d)'
    BY <2>4, <2>5 DEF Places3
  <2>6. CASE migrate_config_file(p) \/ RemoveOld(p) \/ ensure_symlink(p) \/ convert(p) \/ RemoveFrom(p)
    <3>1. PICK f \in Files : f = FileSeq[at[p].i]
      BY <1>1, <2>6, SeqFacts
         DEF migrate_config_file, RemoveOld, ensure_symlink, convert, RemoveFrom, LockInv, LockAt
    <3>2. UNCHANGED disk \/ \E b : Put(Legacy(f), b) \/ Put(Json5(f), b) \/ Put(Toml(f), b)
      BY <2>6, <3>1, Zenon DEF migrate_config_file, RemoveOld, ensure_symlink, convert, RemoveFrom
    <3>. QED  BY <1>3, <2>1, <2>5, <3>2
  <2>7. CASE \/ snapshot_if_absent(p) \/ migrate_audit_log(p) \/ ReadBlock(p)
             \/ clean_legacy_runtime_dir(p) \/ record_post_state(p) \/ Stamp(p)
    <3>1. UNCHANGED disk
      BY <2>7 DEF snapshot_if_absent, migrate_audit_log, ReadBlock, clean_legacy_runtime_dir,
                  record_post_state, Stamp
    <3>. QED  BY <1>3, <2>1, <3>1
  <2>. QED  BY <1>4, <2>2, <2>3, <2>6, <2>7 DEF Migrates
<1>5. ASSUME Saves PROVE InStep(d)'
  <2>0. outrun' = outrun
    BY <1>5, SavesFrame
  <2>1. ASSUME NEW f \in Files, Edit(f) PROVE InStep(d)'
    <3>1. PICK q \in Places3(f) : q = Current(f) /\ UNCHANGED own /\ \E b : Put(q, b)
      BY <1>1, <2>1, EditEffect
    <3>. QED  BY <1>1, <1>2, <2>0, <3>1, PlacesOfOne, AwayFromDot DEF OwnStays
  <2>2. ASSUME NEW f \in Files, NEW q \in Paths, Tidy(f, q) PROVE InStep(d)'
    <3>1. q \in Places3(f) /\ UNCHANGED own /\ Put(q, Nothing)
      BY <2>2 DEF Tidy, Put, Places3
    <3>. QED  BY <1>1, <1>2, <2>0, <3>1, PlacesOfOne, AwayFromDot DEF OwnStays
  <2>3. ASSUME NEW e \in Dotfiles, EditDotfile(e) PROVE InStep(d)'
    <3>1. PICK new : Put(Dot(e), Lined(new)) /\ own' = [own EXCEPT ![e] = OwnText(new)]
      BY <1>1, <2>3, DotfileEdits
    <3>2. LinesOf(e)' = new /\ \A x \in Dotfiles \ {e} : LinesOf(x)' = LinesOf(x)
      BY <1>1, <3>1, PathFacts, PutSets, SetsDot
    <3>. QED  BY <1>1, <2>0, <3>1, <3>2 DEF InStep, TypeInv
  <2>. QED  BY <1>5, <2>1, <2>2, <2>3 DEF Saves
<1>6. ASSUME Types PROVE InStep(d)'
  <2>1. OwnStays /\ (WritesNothing \/ WritesConfig \/ WritesDotfile)
    BY <1>1, <1>6, TypesWrites
  <2>2. CASE WritesNothing
    BY <1>3, <2>1, <2>2 DEF WritesNothing
  <2>3. CASE WritesConfig
    <3>1. PICK wraps \in SUBSET Binaries, dir \in DirValues : edit_config(wraps, dir)
      BY <2>3 DEF WritesConfig
    <3>2. \E b : Put(Toml(Config), b)
      BY <1>1, <3>1, EditConfigEffect
    <3>. QED  BY <1>1, <1>2, <2>1, <3>2, HostAssumption, PathFacts, AwayFromDot
  <2>4. CASE WritesDotfile
    <3>1. PICK e, new : /\ e \in Dotfiles /\ Put(Dot(e), Lined(new))
                        /\ OwnText(new) = OwnText(LinesOf(e))
      BY <2>4 DEF WritesDotfile
    <3>2. LinesOf(e)' = new /\ \A x \in Dotfiles \ {e} : LinesOf(x)' = LinesOf(x)
      BY <1>1, <3>1, PathFacts, PutSets, SetsDot
    <3>. QED  BY <1>2, <2>1, <3>1, <3>2
  <2>. QED  BY <2>1, <2>2, <2>3, <2>4
<1>7. ASSUME NEW p \in Processes, Exits(p) PROVE InStep(d)'
  <2>1. UNCHANGED <<disk, own, outrun>>
    BY <1>7, ExitsFrame
  <2>. QED  BY <1>3, <2>1 DEF OwnStays
<1>8. ASSUME NEW s \in ShimDirs, NEW b \in Binaries, DropForeign(s, b) PROVE InStep(d)'
  <2>1. UNCHANGED <<disk, own, outrun>>
    BY <1>8, ForeignFrame
  <2>. QED  BY <1>3, <2>1 DEF OwnStays
<1>. QED  BY <1>1, <1>4, <1>5, <1>6, <1>7, <1>8, HostSteps

-----------------------------------------------------------------------------
(* The user's lines of a dotfile, step by step.                            *)

\* No step but a restore's touches a line of the user's.
LEMMA OwnOthers ==
    ASSUME HInv, HostNext, ~Restores
    PROVE  OwnInv'
<1>1. LockInv /\ OwnInv /\ torn' = torn
  BY OthersFrame DEF HInv
<1>2. \A l \in 0..2 : snaps[l] # <<>> => snaps'[l] # <<>> /\ Snap(l)' = Snap(l)
  BY SnapHolds
<1>3. \A d \in Dotfiles : InStep(d) => InStep(d)'
  BY StepKeepsOwn
<1>4. torn \subseteq 0..2
  BY DEF HInv, TypeInv
<1>5. \A d \in Dotfiles : InStep(d)' \/ \E l \in torn' : snaps'[l] # <<>> /\ Dot(d) \in DOMAIN Snap(l)'
  BY <1>1, <1>2, <1>3, <1>4 DEF OwnInv
<1>6. Begun' => place' \in [Processes -> Places] /\ place'[Terminal] = place[Terminal] /\ Plan' = Plan /\ Begun
  <2>1. ASSUME Begun' PROVE place'[Terminal] = place[Terminal] /\ UNCHANGED plan
    BY <1>1, <2>1, OthersPutting DEF Begun
  <2>. QED  BY <2>1, LockHolds DEF Begun, Plan, LockInv
<1>. QED  BY <1>1, <1>3, <1>5, <1>6 DEF OwnInv

\* Dotfiles that a restore under way has put back, or not taken.
PutBack(d) == /\ Dot(d) \in DOMAIN Plan.entries \ Plan.left
              /\ ~(place[Terminal] = "put" /\ Plan.target = Dot(d))
\* A torn restore will put d back.
Away(d) == \E l \in torn : snaps[l] # <<>> /\ Dot(d) \in DOMAIN Snap(l)

\* OwnInv in its two parts, before the step and after it.
LEMMA OwnParts ==
    /\ OwnInv <=> /\ \A d \in Dotfiles : InStep(d) \/ Away(d)
                  /\ Begun => \A d \in Dotfiles : PutBack(d) => InStep(d)
    /\ OwnInv' <=> /\ \A d \in Dotfiles : InStep(d)' \/ Away(d)'
                   /\ Begun' => \A d \in Dotfiles : PutBack(d)' => InStep(d)'
BY DEF OwnInv, PutBack, Away

\* A restore puts the user's lines back as they were in the snapshot.
LEMMA OwnRestores ==
    ASSUME HInv, Restores
    PROVE  OwnInv'
<1>0. /\ LockInv /\ DiskInv /\ SnapInv /\ TypeInv /\ PlanInv /\ RunInv
      /\ \A d \in Dotfiles : InStep(d) \/ Away(d)
      /\ Begun => \A d \in Dotfiles : PutBack(d) => InStep(d)
  BY OwnParts DEF HInv
<1>1. PICK t \in Processes : t = Terminal
  BY MigrationAssumption
<1>2. /\ place[t] \in Putting /\ Asked /\ place \in [Processes -> Places]
      /\ UNCHANGED <<snaps, outrun>> /\ own = [d \in Dotfiles |-> own[d]]
  BY <1>0, <1>1, RestoresFrame DEF Asked, LockInv, TypeInv
<1>3. PICK P : P = Plan
  OBVIOUS
<1>4. /\ PlanShape(P) /\ P.l \in 0..2 /\ DOMAIN P.entries = DOMAIN Snap(P.l) /\ snaps[P.l] # <<>>
  BY <1>0, <1>2, <1>3 DEF PlanInv, PlanShape
<1>5. CASE Rescue(t) \/ AllRestored(t)
  <2>1. /\ UNCHANGED <<disk, own, torn>> /\ Plan' = P
        /\ \/ place[t] = "rescue" /\ place'[t] = "drop" /\ P.left = DOMAIN P.entries \cup DOMAIN P.stale
           \/ place[t] = "drop" /\ place'[t] = "level" /\ P.left = {}
    BY <1>0, <1>1, <1>2, <1>3, <1>5 DEF Rescue, AllRestored, Goto, Plan, history, PlanInv
  <2>2. \A d : InStep(d)' = InStep(d) /\ Away(d)' = Away(d)
    BY <1>2, <2>1 DEF InStep, LinesOf, Away, Snap
  <2>3. ASSUME Begun', NEW d \in Dotfiles, PutBack(d)' PROVE InStep(d)
    <3>1. place[t] = "drop" /\ P.left = {} /\ Dot(d) \in DOMAIN P.entries
      BY <1>1, <2>1, <2>3 DEF Begun, PutBack
    <3>2. Begun /\ PutBack(d)
      BY <1>1, <1>3, <3>1 DEF Begun, PutBack
    <3>. QED  BY <1>0, <3>2
  <2>. QED  BY <1>0, <2>2, <2>3, OwnParts
<1>6. CASE DropTarget(t)
  <2>1. PICK q \in DOMAIN P.entries \cap P.left :
            q \in Paths /\ Put(q, Nothing) /\ Plan' = Without(P, q) /\ place'[t] = "put"
    BY <1>0, <1>1, <1>3, <1>6, DropEffect
  <2>2. torn' = torn \cup {P.l} /\ own' = own /\ place[t] = "drop"
    BY <1>1, <1>3, <1>6 DEF DropTarget, Plan
  <2>3. PICK N : N = Without(P, q)
    OBVIOUS
  <2>4. N.l = P.l /\ N.target = q /\ N.entries = P.entries /\ N.left = P.left \ {q}
    BY <1>4, <2>3, WithoutIs
  <2>5. \A d \in Dotfiles : q # Dot(d) => InStep(d)' = InStep(d)
    BY <1>0, <1>2, <2>1, <2>2, AwayFromDot DEF InStep
  <2>6. \A d \in Dotfiles : Away(d)' <=> Away(d) \/ Dot(d) \in DOMAIN P.entries
    BY <1>2, <1>4, <2>2 DEF Away, Snap
  <2>7. ASSUME NEW d \in Dotfiles, PutBack(d)' PROVE InStep(d)'
    <3>1. Dot(d) # q /\ Dot(d) \in DOMAIN P.entries \ P.left
      BY <1>1, <2>1, <2>3, <2>4, <2>7 DEF PutBack
    <3>2. Begun /\ PutBack(d)
      BY <1>1, <1>3, <2>2, <3>1 DEF Begun, PutBack
    <3>. QED  BY <1>0, <2>5, <3>1, <3>2
  <2>. QED  BY <1>0, <2>1, <2>5, <2>6, <2>7, OwnParts
<1>7. CASE PutTarget(t)
  <2>1. PICK q, b : q = P.target /\ b = P.entries[q].snapshot
    OBVIOUS
  <2>2. /\ place[t] = "put" /\ place'[t] = "forward" /\ Plan' = P /\ torn' = torn
        /\ Put(q, b) /\ q \in DOMAIN P.entries \ P.left
        /\ own' = IF q[1] = "dot" THEN [own EXCEPT ![q[2]] = OwnText(b.lines)] ELSE own
    BY <1>0, <1>1, <1>2, <1>3, <1>7, <2>1 DEF PutTarget, Goto, Plan, PlanInv
  <2>3. q \in Paths /\ Fits(q, b)
    BY <1>0, <1>2, <1>3, <2>1, <2>2, PlanFacts
  <2>4. \A d \in Dotfiles : q # Dot(d) => InStep(d)' = InStep(d)
    <3>1. ASSUME NEW d \in Dotfiles, q # Dot(d) PROVE LinesOf(d)' = LinesOf(d) /\ own'[d] = own[d]
      <4>1. own'[d] = own[d]
        <5>1. q[1] = "dot" => q[2] # d
          BY <2>3, <3>1, PathFacts DEF Places3
        <5>. QED  BY <1>2, <2>2, <5>1
      <4>. QED  BY <1>0, <2>2, <2>3, <3>1, <4>1, AwayFromDot
    <3>. QED  BY <1>2, <3>1 DEF InStep
  <2>5. ASSUME NEW d \in Dotfiles, q = Dot(d) PROVE InStep(d)'
    <3>1. q[1] = "dot" /\ q[2] = d /\ b = Lined(b.lines)
      BY <2>3, <2>5, PathFacts DEF Fits, FitsTo, IsDot
    <3>2. LinesOf(d)' = b.lines
      BY <1>0, <2>2, <2>5, <3>1, PathFacts, PutSets, SetsDot
    <3>3. own'[d] = OwnText(b.lines)
      BY <1>2, <2>2, <3>1
    <3>. QED  BY <3>2, <3>3 DEF InStep
  <2>6. \A d : Away(d)' = Away(d)
    BY <1>2, <2>2 DEF Away, Snap
  <2>7. ASSUME NEW d \in Dotfiles, PutBack(d)', q # Dot(d) PROVE InStep(d)'
    <3>1. PutBack(d)
      BY <1>1, <1>3, <2>1, <2>2, <2>7 DEF PutBack
    <3>2. Begun
      BY <1>1, <2>2 DEF Begun
    <3>. QED  BY <1>0, <2>4, <2>7, <3>1, <3>2
  <2>. QED  BY <1>0, <2>4, <2>5, <2>6, <2>7, OwnParts
<1>8. CASE RemoveForward(t)
  <2>1. PICK q : q = P.target
    OBVIOUS
  <2>2. /\ place[t] = "forward" /\ place'[t] = "drop" /\ Plan' = P /\ torn' = torn /\ own' = own
        /\ q \in DOMAIN P.entries
        /\ UNCHANGED disk \/ (P.entries[q].live # q /\ Put(P.entries[q].live, Nothing))
    BY <1>0, <1>1, <1>2, <1>3, <1>8, <2>1 DEF RemoveForward, Goto, Plan, history, PlanInv
  <2>3. P.entries[q].live # q => \E f \in Files : P.entries[q].live = Json5(f)
    BY <1>0, <1>2, <1>3, <2>2, PlanFacts
  <2>4. \A d \in Dotfiles : InStep(d)' = InStep(d)
    <3>1. CASE UNCHANGED disk
      BY <1>2, <2>2, <3>1 DEF InStep, LinesOf
    <3>2. ASSUME NEW f \in Files, Put(Json5(f), Nothing), NEW d \in Dotfiles
          PROVE  InStep(d)' = InStep(d)
      BY <1>0, <1>2, <2>2, <3>2, PathFacts, AwayFromDot DEF InStep
    <3>. QED  BY <2>2, <2>3, <3>1, <3>2
  <2>5. \A d : Away(d)' = Away(d)
    BY <1>2, <2>2 DEF Away, Snap
  <2>6. Begun /\ \A d : PutBack(d)' => PutBack(d)
    BY <1>1, <1>3, <2>2 DEF Begun, PutBack
  <2>. QED  BY <1>0, <2>4, <2>5, <2>6, OwnParts
<1>9. CASE RemoveStale(t)
  <2>1. PICK q \in P.left :
            /\ q \in DOMAIN P.stale /\ q \notin DOMAIN P.entries /\ Plan' = Without(P, q)
            /\ UNCHANGED disk \/ Put(q, Nothing)
            /\ place'[t] = "idle" \/ place' = place
    BY <1>0, <1>1, <1>3, <1>9, StaleEffect
  <2>2. torn' = torn /\ own' = own /\ place[t] = "drop"
    BY <1>1, <1>9 DEF RemoveStale
  <2>3. q \in Paths /\ \E f \in Files : q \in {Json5(f), Toml(f)}
    BY <1>0, <1>2, <1>3, <2>1, PlanFacts
  <2>4. \A d \in Dotfiles : InStep(d)' = InStep(d)
    <3>1. CASE UNCHANGED disk
      BY <1>2, <2>2, <3>1 DEF InStep, LinesOf
    <3>2. CASE Put(q, Nothing)
      BY <1>0, <1>2, <2>2, <2>3, <3>2, PathFacts, AwayFromDot DEF InStep
    <3>. QED  BY <2>1, <3>1, <3>2
  <2>5. \A d : Away(d)' = Away(d)
    BY <1>2, <2>2 DEF Away, Snap
  <2>6. PICK N : N = Without(P, q)
    OBVIOUS
  <2>7. N.entries = P.entries /\ N.left = P.left \ {q}
    BY <1>4, <2>6, WithoutIs
  <2>8. Begun' => Begun /\ \A d : PutBack(d)' => PutBack(d)
    BY <1>1, <1>3, <2>1, <2>2, <2>6, <2>7 DEF Begun, PutBack
  <2>. QED  BY <1>0, <2>4, <2>5, <2>8, OwnParts
<1>10. CASE RollBackLevel(t)
  <2>1. /\ place[t] = "level" /\ place'[t] = "idle" /\ torn' = torn \ {P.l} /\ UNCHANGED <<disk, own>>
    BY <1>1, <1>2, <1>3, <1>10 DEF RollBackLevel, Goto, Stop, Plan
  <2>2. P.left = {} /\ Begun
    BY <1>0, <1>1, <1>3, <2>1 DEF RunInv, Begun
  <2>3. \A d : InStep(d)' = InStep(d)
    BY <1>2, <2>1 DEF InStep, LinesOf
  <2>4. ASSUME NEW d \in Dotfiles, ~InStep(d) PROVE Away(d)'
    <3>1. PICK l \in torn : snaps[l] # <<>> /\ Dot(d) \in DOMAIN Snap(l)
      BY <1>0, <2>4 DEF Away
    <3>2. l # P.l
      <4>1. ASSUME l = P.l PROVE FALSE
        <5>1. PutBack(d)
          BY <1>1, <1>3, <1>4, <2>1, <2>2, <3>1, <4>1 DEF PutBack
        <5>. QED  BY <1>0, <2>2, <2>4, <5>1
      <4>. QED  BY <4>1
    <3>. QED  BY <1>2, <2>1, <3>1, <3>2 DEF Away, Snap
  <2>5. ~Begun'
    BY <1>1, <2>1 DEF Begun
  <2>. QED  BY <2>3, <2>4, <2>5, OwnParts
<1>. QED  BY <1>1, <1>5, <1>6, <1>7, <1>8, <1>9, <1>10 DEF Restores

\* Every step leaves the dotfiles in step, or a torn restore that has them.
LEMMA OwnHolds ==
    ASSUME HInv, HostNext
    PROVE  OwnInv'
BY OwnOthers, OwnRestores

\* Nothing a stamped level rules out is written.
Settled ==
    /\ \A f \in Files : IsText(Legacy(f))' => IsText(Legacy(f))
    /\ \A f \in Files : disk[Json5(f)] = Nothing => disk'[Json5(f)] = Nothing
    /\ \A f \in Files : disk'[Legacy(f)] = Link => disk[Legacy(f)] = Link
    /\ \A d \in Dotfiles : OldBlock(d)' => OldBlock(d)

-----------------------------------------------------------------------------
(* What a stamped level means.                                             *)

\* A step that writes no file brings back no old one.
LEMMA SettledSame ==
    ASSUME UNCHANGED disk
    PROVE  Settled
BY DEF Settled, IsText, OldBlock, NamesOld, Unexpanded, Expanded, LinesOf

\* Nor does one that writes a dotfile without an old block.
LEMMA SettledDot ==
    ASSUME DiskInv, NEW d \in Dotfiles, NEW new, Put(Dot(d), Lined(new)),
           IsOld(new) => IsOld(LinesOf(d))
    PROVE  Settled
<1>1. Sets(Dot(d), Lined(new))
  BY PathFacts, PutSets
<1>2. /\ LinesOf(d)' = new /\ \A e \in Dotfiles \ {d} : LinesOf(e)' = LinesOf(e)
      /\ \A f \in Files : \A q \in Places3(f) : disk'[q] = disk[q]
  BY <1>1, SetsDot
<1>3. \A e \in Dotfiles : OldBlock(e)' => OldBlock(e)
  BY <1>2, OldBlockIs
<1>4. \A f \in Files : disk'[Legacy(f)] = disk[Legacy(f)] /\ disk'[Json5(f)] = disk[Json5(f)]
  BY <1>2 DEF Places3
<1>. QED  BY <1>3, <1>4 DEF Settled, IsText

\* Nor does one that writes a config file where there was one.
LEMMA SettledPlace ==
    ASSUME DiskInv, NEW f \in Files, NEW q \in Places3(f), NEW b, Put(q, b), b # Link,
           q = Legacy(f) => b.t # "text" \/ IsText(q),
           q = Json5(f) => b = Nothing \/ disk[q] # Nothing
    PROVE  Settled
<1>1. q \in Paths /\ Sets(q, b)
  BY PlacesOfOne, PutSets
<1>2. \A d \in Dotfiles : LinesOf(d)' = LinesOf(d)
  BY <1>1, SetsPlace
<1>3. \A d \in Dotfiles : OldBlock(d)' => OldBlock(d)
  BY <1>2, OldBlockIs
<1>4. disk'[q] = b /\ \A r \in Paths : r # q => disk'[r] = disk[r]
  BY <1>1 DEF Sets
<1>5. \A g \in Files : /\ IsText(Legacy(g))' => IsText(Legacy(g))
                       /\ disk[Json5(g)] = Nothing => disk'[Json5(g)] = Nothing
                       /\ disk'[Legacy(g)] = Link => disk[Legacy(g)] = Link
  BY <1>4, PathFacts, Bodies DEF IsText, Places3
<1>. QED  BY <1>3, <1>5 DEF Settled

\* A removal.
LEMMA SettledNothing ==
    ASSUME DiskInv, NEW q \in Paths, Put(q, Nothing)
    PROVE  Settled
<1>1. Sets(q, Nothing)
  BY PutSets
<1>2. ASSUME NEW d \in Dotfiles PROVE OldBlock(d)' => OldBlock(d)
  <2>1. CASE q = Dot(d)
    <3>1. LinesOf(d)' = <<>>
      BY <1>1, <2>1 DEF Sets, LinesOf
    <3>2. ~IsOld(<<>>)
      BY PlainNotOld, EmptySeq
    <3>. QED  BY <3>1, <3>2, OldBlockIs
  <2>2. CASE q # Dot(d)
    BY <2>2, AwayFromDot, OldBlockIs
  <2>. QED  BY <2>1, <2>2
<1>3. \A f \in Files : /\ IsText(Legacy(f))' => IsText(Legacy(f))
                       /\ disk[Json5(f)] = Nothing => disk'[Json5(f)] = Nothing
                       /\ disk'[Legacy(f)] = Link => disk[Legacy(f)] = Link
  BY <1>1, PathFacts, Bodies DEF IsText, Sets
<1>. QED  BY <1>2, <1>3 DEF Settled

\* Saves and commands leave what a level means.
LEMMA SavesSettled ==
    ASSUME DiskInv, edits \in Nat, Saves
    PROVE  Settled
<1>1. ASSUME NEW f \in Files, Edit(f) PROVE Settled
  <2>1. PICK q, b : q \in Places3(f) /\ q = Current(f) /\ IsText(q) /\ Put(q, b) /\ b.t = "text"
    BY <1>1, EditEffect
  <2>2. disk[q] # Nothing /\ b # Link
    BY <2>1, Bodies DEF IsText
  <2>. QED  BY <2>1, <2>2, SettledPlace
<1>2. ASSUME NEW f \in Files, NEW q \in Paths, Tidy(f, q) PROVE Settled
  BY <1>2, SettledNothing DEF Tidy, Put
<1>3. ASSUME NEW d \in Dotfiles, EditDotfile(d) PROVE Settled
  BY <1>3, DotfileEdits, SettledDot DEF AddsNone
<1>. QED  BY <1>1, <1>2, <1>3 DEF Saves

\* So no command does.
LEMMA TypesSettled ==
    ASSUME DiskInv, ShimInv, edits \in Nat, Types
    PROVE  Settled
<1>1. CASE WritesNothing
  BY <1>1, SettledSame DEF WritesNothing
<1>2. CASE WritesConfig
  <2>1. PICK wraps \in SUBSET Binaries, dir \in DirValues : edit_config(wraps, dir)
    BY <1>2 DEF WritesConfig
  <2>2. PICK b : Put(Toml(Config), b) /\ b \in Texts(Config)'
    BY <2>1, EditConfigEffect
  <2>3. b # Link
    BY <2>2, Bodies DEF Texts
  <2>4. Config \in Files /\ Toml(Config) \in Places3(Config)
        /\ Toml(Config) # Legacy(Config) /\ Toml(Config) # Json5(Config)
    BY HostAssumption, PathFacts DEF Places3
  <2>. QED  BY <2>2, <2>3, <2>4, SettledPlace
<1>3. CASE WritesDotfile
  BY <1>3, SettledDot DEF WritesDotfile
<1>. QED  BY <1>1, <1>2, <1>3, TypesWrites

\* A level that stays, and at least as much torn and undone as before.
LEMMA LevelStays ==
    ASSUME LevelInv, level' = level, torn \subseteq torn', undone \subseteq undone', Settled
    PROVE  LevelInv'
BY DEF LevelInv, Settled

\* A migration that stamps its level has done its work.
LEMMA LevelMigrates ==
    ASSUME LockInv, DiskInv, TypeInv, MigInv, LevelInv, NEW p \in Processes, Migrates(p)
    PROVE  LevelInv'
<1>1. /\ at \in [Processes -> [m : Nat, i : Nat]] /\ place \in [Processes -> Places]
      /\ LockAt(p) /\ MigAt(p) /\ level \in 0..3 /\ DOMAIN disk = Paths
      /\ UNCHANGED <<torn, undone>> /\ place[p] \in Moving
  BY MigratesFrame DEF LockInv, DiskInv, MigInv
<1>2. level = at[p].m - 1 /\ level < 3 /\ at[p].m \in Nat
  BY <1>1 DEF LockAt
<1>3. CASE Stamp(p)
  <2>1. /\ level' = at[p].m /\ UNCHANGED disk /\ place[p] = "stamp"
    BY <1>3 DEF Stamp
  <2>2. Settled
    BY <2>1, SettledSame
  <2>3. at[p].m = 1 => \A f \in Files : ~IsText(Legacy(f))
    BY <1>1, <2>1, SeqFacts DEF MigAt
  <2>4. at[p].m = 2 => \A d \in Dotfiles : ~OldBlock(d)
    BY <1>1, <2>1 DEF MigAt
  <2>5. at[p].m = 3 => \A f \in Files : disk[Json5(f)] = Nothing /\ disk[Legacy(f)] # Link
    BY <1>1, <2>1, SeqFacts DEF MigAt
  <2>6. \/ at[p].m = 1 /\ level = 0 /\ level' = 1
        \/ at[p].m = 2 /\ level = 1 /\ level' = 2
        \/ at[p].m = 3 /\ level = 2 /\ level' = 3
    BY <1>1, <1>2, <2>1
  <2>. QED  BY <1>1, <2>1, <2>2, <2>3, <2>4, <2>5, <2>6 DEF LevelInv, Settled
<1>4. CASE ~Stamp(p)
  <2>1. level' = level
    BY <1>4 DEF Migrates, snapshot_if_absent, migrate_config_file, RemoveOld, ensure_symlink,
       migrate_audit_log, ReadBlock, rewrite_in_place, clean_legacy_runtime_dir, convert,
       RemoveFrom, clear_legacy_symlinks, record_post_state
  <2>2. CASE level = 0
    BY <2>1, <2>2 DEF LevelInv
  <2>3. ASSUME at[p].m \in {2, 3}
        PROVE  /\ \A f \in Files : IsText(Legacy(f))' => IsText(Legacy(f))
               /\ \A d \in Dotfiles : OldBlock(d)' => OldBlock(d)
    <3>1. CASE rewrite_in_place(p)
      <4>1. PICK e \in Dotfiles : e = DotSeq[at[p].i]
        BY <1>1, <3>1, SeqFacts DEF rewrite_in_place, LockAt
      <4>2. PICK new : new = replace_block(LinesOf(e), ssh_block(NewUnderHome))
        OBVIOUS
      <4>3. UNCHANGED disk \/ (Put(Dot(e), Lined(new)) /\ new # LinesOf(e))
        BY <3>1, <4>1, <4>2 DEF rewrite_in_place, Rewrite
      <4>4. AddsNone(LinesOf(e), new)
        BY <4>2, DotKinds, ReplaceKeeps
      <4>. QED  BY <4>3, <4>4, SettledSame, SettledDot DEF Settled, AddsNone
    <3>2. CASE convert(p)
      <4>1. PICK f \in Files : f = FileSeq[at[p].i]
        BY <3>2, SeqFacts DEF convert
      <4>2. UNCHANGED disk \/ (Put(Toml(f), disk[Json5(f)]) /\ disk[Json5(f)] # Nothing)
        BY <3>2, <4>1, Zenon DEF convert
      <4>3. disk[Json5(f)] # Link /\ Toml(f) # Legacy(f) /\ Toml(f) # Json5(f)
            /\ Toml(f) \in Places3(f)
        BY DiskKinds, PathFacts, Bodies DEF Places3
      <4>. QED  BY <4>2, <4>3, SettledSame, SettledPlace DEF Settled
    <3>3. CASE RemoveFrom(p)
      <4>1. PICK f \in Files : f = FileSeq[at[p].i]
        BY <1>1, <3>3, SeqFacts DEF RemoveFrom, LockAt
      <4>. QED  BY <3>3, <4>1, PathFacts, SettledNothing DEF RemoveFrom, Settled
    <3>4. CASE clear_legacy_symlinks(p)
      <4>1. \A q \in Paths : disk'[q] = IF disk[q] = Link THEN Nothing ELSE disk[q]
        BY <3>4 DEF clear_legacy_symlinks
      <4>2. \A d \in Dotfiles : disk'[Dot(d)] = disk[Dot(d)]
        BY <4>1, PathFacts, DotKinds
      <4>3. \A d \in Dotfiles : LinesOf(d)' = LinesOf(d)
        BY <4>2 DEF LinesOf
      <4>4. \A f \in Files : IsText(Legacy(f))' => IsText(Legacy(f))
        BY <4>1, PathFacts, Bodies DEF IsText
      <4>. QED  BY <4>3, <4>4, OldBlockIs
    <3>5. CASE \/ snapshot_if_absent(p) \/ migrate_audit_log(p) \/ ReadBlock(p)
               \/ clean_legacy_runtime_dir(p) \/ record_post_state(p)
      <4>1. UNCHANGED disk
        BY <3>5 DEF snapshot_if_absent, migrate_audit_log, ReadBlock, clean_legacy_runtime_dir,
                    record_post_state
      <4>. QED  BY <4>1, SettledSame DEF Settled
    <3>6. ~(migrate_config_file(p) \/ RemoveOld(p) \/ ensure_symlink(p))
      BY <1>1, <2>3 DEF migrate_config_file, RemoveOld, ensure_symlink, LockAt
    <3>. QED  BY <1>4, <3>1, <3>2, <3>3, <3>4, <3>5, <3>6 DEF Migrates
  <2>4. CASE level # 0
    <3>1. at[p].m \in {2, 3}
      BY <1>1, <1>2, <2>4
    <3>. QED  BY <1>1, <1>2, <2>1, <2>3, <3>1 DEF LevelInv
  <2>. QED  BY <2>2, <2>4
<1>. QED  BY <1>3, <1>4

\* A restore that stamps a level leaves the levels below it done, unless it went upwards.
LEMMA LevelRestores ==
    ASSUME LockInv, DiskInv, SnapInv, TypeInv, PlanInv, RunInv, LevelInv, Restores
    PROVE  LevelInv'
<1>1. PICK t \in Processes : t = Terminal
  BY MigrationAssumption
<1>2. place[t] \in Putting /\ Asked
  BY <1>1, RestoresFrame DEF Asked
<1>3. PICK P : P = Plan
  OBVIOUS
<1>4. P.l \in 0..2 /\ DOMAIN P.entries = DOMAIN Snap(P.l)
  BY <1>2, <1>3 DEF PlanInv, PlanShape
<1>5. ASSUME level' = level, torn \subseteq torn', undone \subseteq undone',
             UNCHANGED disk \/ \E q \in Paths : Put(q, Nothing)
      PROVE  LevelInv'
  BY <1>5, SettledSame, SettledNothing, LevelStays
<1>6. CASE Rescue(t) \/ AllRestored(t)
  <2>1. level' = level /\ torn \subseteq torn' /\ undone \subseteq undone' /\ UNCHANGED disk
    BY <1>6 DEF Rescue, AllRestored, history
  <2>. QED  BY <1>5, <2>1
<1>7. CASE DropTarget(t)
  <2>1. \E q \in Paths : Put(q, Nothing)
    BY <1>1, <1>7, DropEffect
  <2>2. level' = level /\ torn \subseteq torn' /\ undone \subseteq undone'
    BY <1>7 DEF DropTarget
  <2>. QED  BY <1>5, <2>1, <2>2
<1>8. CASE RemoveForward(t)
  <2>1. PICK q : q = P.target
    OBVIOUS
  <2>2. /\ level' = level /\ torn' = torn /\ undone' = undone /\ q \in DOMAIN P.entries
        /\ UNCHANGED disk \/ Put(P.entries[q].live, Nothing)
    BY <1>1, <1>2, <1>3, <1>8, <2>1 DEF RemoveForward, Plan, history, PlanInv
  <2>3. P.entries[q].live \in Paths
    BY <1>2, <1>3, <2>2, PlanFacts
  <2>. QED  BY <1>5, <2>2, <2>3
<1>9. CASE RemoveStale(t)
  <2>1. UNCHANGED disk \/ \E q \in Paths : Put(q, Nothing)
    BY <1>1, <1>9, StaleEffect
  <2>2. level' = level /\ torn' = torn /\ undone' = undone
    BY <1>9 DEF RemoveStale
  <2>. QED  BY <1>5, <2>1, <2>2
<1>10. CASE PutTarget(t)
  <2>1. PICK q, b : q = P.target /\ b = P.entries[q].snapshot
    OBVIOUS
  <2>2. /\ level' = level /\ torn' = torn /\ undone' = undone /\ Put(q, b)
        /\ q \in DOMAIN P.entries /\ P.l \in torn
    BY <1>1, <1>2, <1>3, <1>10, <2>1 DEF PutTarget, Plan, PlanInv, RunInv, Begun
  <2>3. q \in SnapPaths(P.l) /\ q \in Paths /\ Fits(q, b)
    BY <1>2, <1>3, <2>1, <2>2, PlanFacts
  <2>4. disk'[q] = b /\ \A r \in Paths \ {q} : disk'[r] = disk[r]
    BY <2>2, <2>3, PutSets DEF Sets
  <2>5. CASE P.l = 1
    <3>1. PICK d \in Dotfiles : q = Dot(d)
      BY <2>3, <2>5, SnapPathsArePaths
    <3>2. \A f \in Files : disk'[Legacy(f)] = disk[Legacy(f)] /\ disk'[Json5(f)] = disk[Json5(f)]
      BY <2>4, <3>1, PathFacts
    <3>. QED  BY <2>2, <2>5, <3>2 DEF LevelInv, IsText
  <2>6. CASE P.l # 1
    <3>1. PICK f \in Files : q \in Places3(f) /\ (P.l = 0 <=> q = Legacy(f))
      BY <1>4, <2>3, <2>6, SnapPathsArePaths, PathFacts DEF Places3
    <3>2. b.t = "text"
      BY <2>3, <3>1, PathFacts, TextsAre, TextFields DEF Fits, FitsTo, Places3
    <3>3. \A d \in Dotfiles : disk'[Dot(d)] = disk[Dot(d)]
      BY <2>4, <3>1, PlacesOfOne, PathFacts
    <3>4. \A d \in Dotfiles : OldBlock(d)' => OldBlock(d)
      BY <3>3, OldBlockIs DEF LinesOf
    <3>5. \A g \in Files : /\ P.l # 0 => disk'[Legacy(g)] = disk[Legacy(g)]
                           /\ P.l = 0 => disk'[Json5(g)] = disk[Json5(g)]
                           /\ disk'[Legacy(g)] = Link => disk[Legacy(g)] = Link
      BY <2>4, <3>1, <3>2, PathFacts, Bodies DEF Places3
    <3>6. CASE P.l = 0
      BY <2>2, <3>4, <3>5, <3>6 DEF LevelInv
    <3>7. CASE P.l = 2
      BY <2>2, <3>4, <3>5, <3>7 DEF LevelInv, IsText
    <3>. QED  BY <1>4, <2>6, <3>6, <3>7
  <2>. QED  BY <2>5, <2>6
<1>11. CASE RollBackLevel(t)
  <2>1. /\ level' = P.l /\ torn' = torn \ {P.l} /\ undone' = undone /\ UNCHANGED disk
        /\ place[t] = "level"
    BY <1>1, <1>3, <1>11 DEF RollBackLevel, Plan
  <2>2. "up" \in undone \/ (P.l <= level /\ \A k \in torn : P.l <= k)
    BY <1>1, <1>3, <2>1 DEF RunInv, Begun
  <2>3. Settled
    BY <2>1, SettledSame
  <2>4. level \in 0..3
    BY DEF LockInv
  <2>5. P.l = 0 \/ P.l = 1 \/ P.l = 2
    BY <1>4
  <2>. QED  BY <2>1, <2>2, <2>3, <2>4, <2>5 DEF LevelInv, Settled
<1>. QED  BY <1>1, <1>6, <1>7, <1>8, <1>9, <1>10, <1>11 DEF Restores

\* What a stamped level means holds after every step.
LEMMA LevelHolds ==
    ASSUME HInv, HostNext
    PROVE  LevelInv'
<1>1. /\ LockInv /\ DiskInv /\ SnapInv /\ TypeInv /\ PlanInv /\ RunInv /\ MigInv /\ LevelInv
      /\ ShimInv /\ edits \in Nat
  BY DEF HInv, TypeInv
<1>2. ASSUME level' = level, torn' = torn, undone' = undone, Settled PROVE LevelInv'
  BY <1>1, <1>2, LevelStays
<1>3. ASSUME NEW p \in Processes, Exits(p) PROVE LevelInv'
  BY <1>2, <1>3, ExitsFrame, SettledSame
<1>4. ASSUME Saves PROVE LevelInv'
  BY <1>1, <1>2, <1>4, SavesFrame, SavesSettled
<1>5. ASSUME Types PROVE LevelInv'
  BY <1>1, <1>2, <1>5, TypesMove, TypesSettled
<1>6. ASSUME NEW s \in ShimDirs, NEW b \in Binaries, DropForeign(s, b) PROVE LevelInv'
  BY <1>2, <1>6, ForeignFrame, SettledSame
<1>. QED  BY <1>1, <1>3, <1>4, <1>5, <1>6, LevelMigrates, LevelRestores, HostSteps

\* The texts of a config file, wherever they are.
TextsAt(f) == {disk[q] : q \in {r \in Places3(f) : IsText(r)}}

-----------------------------------------------------------------------------
(* The version in force.                                                   *)

\* A version that is live is one of the bodies that are.
LEMMA TextsAtHas ==
    ASSUME NEW f, NEW v
    PROVE  (\E q \in Places3(f) : Has(q, v)) <=> \E b \in TextsAt(f) : b.v = v
BY DEF TextsAt, Has, IsText

\* And after the step.
LEMMA TextsAtHasNext ==
    ASSUME NEW f, NEW v
    PROVE  (\E q \in Places3(f) : Has(q, v)') <=> \E b \in TextsAt(f)' : b.v = v
BY DEF TextsAt, Has, IsText

\* Bodies that stay where they are stay the bodies that are live.
LEMMA TextsAtSame ==
    ASSUME NEW f, \A q \in Places3(f) : IsText(q) \/ IsText(q)' => disk'[q] = disk[q]
    PROVE  TextsAt(f)' = TextsAt(f)
BY DEF TextsAt, IsText

\* A copy adds no body.
LEMMA TextsAtCopy ==
    ASSUME DiskInv, NEW f \in Files, NEW a \in Places3(f), NEW c \in Places3(f),
           disk[c] = Nothing, Put(c, disk[a]), NEW g \in Files
    PROVE  TextsAt(g)' = TextsAt(g)
<1>1. c \in Paths /\ Sets(c, disk[a])
  BY PlacesOfOne, PutSets
<1>2. CASE g # f
  <2>1. \A q \in Places3(g) : disk'[q] = disk[q]
    BY <1>1, <1>2, SetsPlace
  <2>. QED  BY <2>1, TextsAtSame
<1>3. CASE g = f
  <2>1. \A q \in Places3(f) \ {c} : disk'[q] = disk[q]
    BY <1>1, SetsPlace
  <2>2. disk'[c] = disk[a] /\ ~IsText(c)
    BY <1>1, Bodies DEF Sets, IsText
  <2>3. CASE a = c
    BY <1>3, <2>1, <2>2, <2>3, TextsAtSame DEF IsText
  <2>4. CASE a # c
    BY <1>3, <2>1, <2>2, <2>4 DEF TextsAt, IsText
  <2>. QED  BY <2>3, <2>4
<1>. QED  BY <1>2, <1>3

\* Dropping one of two copies loses no body.
LEMMA TextsAtDrop ==
    ASSUME DiskInv, NEW f \in Files, NEW a \in Places3(f), NEW c \in Places3(f), a # c,
           disk[c] = disk[a], Put(c, Nothing), NEW g \in Files
    PROVE  TextsAt(g)' = TextsAt(g)
<1>1. c \in Paths /\ Sets(c, Nothing)
  BY PlacesOfOne, PutSets
<1>2. CASE g # f
  <2>1. \A q \in Places3(g) : disk'[q] = disk[q]
    BY <1>1, <1>2, SetsPlace
  <2>. QED  BY <2>1, TextsAtSame
<1>3. CASE g = f
  <2>1. \A q \in Places3(f) \ {c} : disk'[q] = disk[q]
    BY <1>1, SetsPlace
  <2>2. disk'[c] = Nothing /\ ~IsText(c)'
    BY <1>1, Bodies DEF Sets, IsText
  <2>. QED  BY <1>3, <2>1, <2>2 DEF TextsAt, IsText
<1>. QED  BY <1>2, <1>3

\* Neither there before nor after.
LEMMA TextsAtNone ==
    ASSUME DiskInv, NEW q \in Paths, NEW b, Put(q, b), ~IsText(q), b.t # "text", NEW g \in Files
    PROVE  TextsAt(g)' = TextsAt(g)
<1>1. Sets(q, b)
  BY PutSets
<1>2. \A r \in Places3(g) : r \in Paths
  BY PathFacts DEF Places3
<1>. QED  BY <1>1, <1>2, TextsAtSame DEF Sets, IsText

\* A migration moves the user's files: it makes none and loses none.
LEMMA MigratesTexts ==
    ASSUME LockInv, DiskInv, MigInv, NEW p \in Processes, Migrates(p), NEW g \in Files
    PROVE  TextsAt(g)' = TextsAt(g)
<1>1. /\ LockAt(p) /\ MigAt(p) /\ DOMAIN disk = Paths /\ place[p] \in Moving
  BY MigratesFrame DEF LockInv, DiskInv, MigInv
<1>2. \A f \in Files : /\ Legacy(f) \in Places3(f) /\ Json5(f) \in Places3(f) /\ Toml(f) \in Places3(f)
                       /\ Legacy(f) \in Paths
                       /\ Legacy(f) # Json5(f) /\ Json5(f) # Toml(f)
  BY PathFacts DEF Places3
<1>3. CASE UNCHANGED disk
  BY <1>3, TextsAtSame
<1>4. CASE migrate_config_file(p)
  <2>1. PICK f \in Files : f = FileSeq[at[p].i]
    BY <1>4, SeqFacts DEF migrate_config_file
  <2>2. UNCHANGED disk \/ (Put(Json5(f), disk[Legacy(f)]) /\ disk[Json5(f)] = Nothing)
    BY <1>4, <2>1, Zenon DEF migrate_config_file
  <2>. QED  BY <1>2, <1>3, <2>2, TextsAtCopy
<1>5. CASE RemoveOld(p)
  <2>1. PICK f \in Files : f = FileSeq[at[p].i]
    BY <1>1, <1>5, SeqFacts DEF RemoveOld, LockAt
  <2>2. Put(Legacy(f), Nothing) /\ disk[Json5(f)] = disk[Legacy(f)]
    BY <1>1, <1>5, <2>1 DEF RemoveOld, MigAt
  <2>. QED  BY <1>2, <2>2, TextsAtDrop
<1>6. CASE ensure_symlink(p)
  <2>1. PICK f \in Files : f = FileSeq[at[p].i]
    BY <1>1, <1>6, SeqFacts DEF ensure_symlink, LockAt
  <2>2. UNCHANGED disk \/ (Put(Legacy(f), Link) /\ ~IsText(Legacy(f)))
    BY <1>6, <2>1 DEF ensure_symlink, IsText
  <2>3. Link.t # "text"
    BY Bodies
  <2>. QED  BY <1>2, <1>3, <2>2, <2>3, TextsAtNone
<1>7. CASE rewrite_in_place(p)
  <2>1. PICK e \in Dotfiles : e = DotSeq[at[p].i]
    BY <1>1, <1>7, SeqFacts DEF rewrite_in_place, LockAt
  <2>2. UNCHANGED disk \/ \E ls : Put(Dot(e), Lined(ls))
    BY <1>7, <2>1 DEF rewrite_in_place, Rewrite
  <2>3. \A ls : Lined(ls).t # "text"
    BY Bodies
  <2>4. ~IsText(Dot(e)) /\ Dot(e) \in Paths
    BY DotKinds, PathFacts
  <2>. QED  BY <1>3, <2>2, <2>3, <2>4, TextsAtNone
<1>8. CASE convert(p)
  <2>1. PICK f \in Files : f = FileSeq[at[p].i]
    BY <1>8, SeqFacts DEF convert
  <2>2. disk[Toml(f)] # Link
    BY <1>2, DiskKinds, PathFacts
  <2>3. UNCHANGED disk \/ (Put(Toml(f), disk[Json5(f)]) /\ ~Exists(Toml(f)))
    BY <1>8, <2>1, Zenon DEF convert
  <2>4. ~Exists(Toml(f)) => disk[Toml(f)] = Nothing
    BY <2>2 DEF Exists, Body, Deref
  <2>. QED  BY <1>2, <1>3, <2>3, <2>4, TextsAtCopy
<1>9. CASE RemoveFrom(p)
  <2>1. PICK f \in Files : f = FileSeq[at[p].i]
    BY <1>1, <1>9, SeqFacts DEF RemoveFrom, LockAt
  <2>2. Put(Json5(f), Nothing) /\ disk[Toml(f)] = disk[Json5(f)]
    BY <1>1, <1>9, <2>1 DEF RemoveFrom, MigAt
  <2>. QED  BY <1>2, <2>2, TextsAtDrop
<1>10. CASE clear_legacy_symlinks(p)
  <2>1. \A q \in Paths : disk'[q] = IF disk[q] = Link THEN Nothing ELSE disk[q]
    BY <1>10 DEF clear_legacy_symlinks
  <2>2. \A q \in Places3(g) : q \in Paths
    BY PathFacts DEF Places3
  <2>3. \A q \in Places3(g) : IsText(q) \/ IsText(q)' => disk'[q] = disk[q]
    BY <2>1, <2>2, Bodies DEF IsText
  <2>. QED  BY <2>3, TextsAtSame
<1>11. CASE \/ snapshot_if_absent(p) \/ migrate_audit_log(p) \/ ReadBlock(p)
            \/ clean_legacy_runtime_dir(p) \/ record_post_state(p) \/ Stamp(p)
  BY <1>3, <1>11 DEF snapshot_if_absent, migrate_audit_log, ReadBlock, clean_legacy_runtime_dir,
                record_post_state, Stamp
<1>. QED  BY <1>4, <1>5, <1>6, <1>7, <1>8, <1>9, <1>10, <1>11 DEF Migrates

\* So does a write of a dotfile.
LEMMA DotTexts ==
    ASSUME DiskInv, NEW d \in Dotfiles, NEW ls, Put(Dot(d), Lined(ls)), NEW g \in Files
    PROVE  TextsAt(g)' = TextsAt(g)
<1>1. ~IsText(Dot(d)) /\ Dot(d) \in Paths /\ Lined(ls).t # "text"
  BY DotKinds, PathFacts, Bodies
<1>. QED  BY <1>1, TextsAtNone

\* A text written over another, or where there was none.
LEMMA PutTexts ==
    ASSUME DiskInv, NEW f \in Files, NEW q \in Places3(f), NEW b, Put(q, b), b.t = "text"
    PROVE  /\ TextsAt(f)' = {b} \cup {disk[r] : r \in {x \in Places3(f) \ {q} : IsText(x)}}
           /\ \A g \in Files \ {f} : TextsAt(g)' = TextsAt(g)
<1>1. q \in Paths /\ Sets(q, b)
  BY PlacesOfOne, PutSets
<1>2. \A g \in Files \ {f} : \A r \in Places3(g) : disk'[r] = disk[r]
  BY <1>1, SetsPlace
<1>3. \A r \in Places3(f) \ {q} : disk'[r] = disk[r]
  BY <1>1, SetsPlace
<1>4. disk'[q] = b
  BY <1>1 DEF Sets
<1>5. TextsAt(f)' = {b} \cup {disk[r] : r \in {x \in Places3(f) \ {q} : IsText(x)}}
  BY <1>3, <1>4 DEF TextsAt, IsText
<1>. QED  BY <1>2, <1>5, TextsAtSame

\* A torn restore will put a version of f in force; the one under way has put one
\* back; what it put back is the version in force.
Owed(f) == \E l \in torn : snaps[l] # <<>> /\ DOMAIN Snap(l) \cap Places3(f) # {}
\* The version in force is live, or a torn restore owes the file.
Covered(f) == \/ inforce[f] = 0
              \/ \E q \in Places3(f) : Has(q, inforce[f])
              \/ Owed(f)
\* A place of f is back.
Returned(f) ==
    (DOMAIN Plan.entries \ (Plan.left \cup (IF place[Terminal] = "put" THEN {Plan.target} ELSE {})))
         \cap Places3(f) # {}
\* And it has the version in force.
Back(f) == \E q \in (DOMAIN Plan.entries \ Plan.left) \cap Places3(f) : Has(q, inforce[f])

\* CovInv in its three parts, before the step and after it.
LEMMA CovParts ==
    /\ CovInv <=> /\ \A f \in Files : Covered(f)
                  /\ Begun => \A f \in Files : Returned(f) => Back(f)
                  /\ place[Terminal] = "forward" => \A f \in Files :
                        Plan.target \in Places3(f) => Has(Plan.target, inforce[f])
    /\ CovInv' <=> /\ \A f \in Files : Covered(f)'
                   /\ Begun' => \A f \in Files : Returned(f)' => Back(f)'
                   /\ place'[Terminal] = "forward" => \A f \in Files :
                        Plan'.target \in Places3(f) => Has(Plan.target, inforce[f])'
BY DEF CovInv, Covered, Owed, Returned, Back

\* A file whose bodies stay is covered as it was.
LEMMA CoveredStays ==
    ASSUME NEW f \in Files, Covered(f), inforce'[f] = inforce[f], TextsAt(f)' = TextsAt(f),
           torn' = torn, torn \subseteq 0..2,
           \A l \in 0..2 : snaps[l] # <<>> => snaps'[l] # <<>> /\ Snap(l)' = Snap(l)
    PROVE  Covered(f)'
<1>1. CASE inforce[f] = 0
  BY <1>1 DEF Covered
<1>2. CASE \E q \in Places3(f) : Has(q, inforce[f])
  <2>1. PICK v : v = inforce[f]
    OBVIOUS
  <2>2. \E b \in TextsAt(f)' : b.v = v
    BY <1>2, <2>1, TextsAtHas
  <2>3. \E q \in Places3(f) : Has(q, v)'
    BY <2>2, TextsAtHasNext
  <2>. QED  BY <2>1, <2>3 DEF Covered, Has
<1>3. CASE Owed(f)
  BY <1>3 DEF Covered, Owed
<1>. QED  BY <1>1, <1>2, <1>3 DEF Covered

\* The new version is live.
LEMMA CoveredNew ==
    ASSUME NEW f \in Files, NEW q \in Places3(f), disk'[q].t = "text",
           disk'[q].v = inforce'[f]
    PROVE  Covered(f)'
BY DEF Covered, Has

\* What the user saves is in force and live.
LEMMA CovSaves ==
    ASSUME DiskInv, TypeInv, Saves, \A f \in Files : Covered(f), UNCHANGED <<torn, snaps>>,
           NEW g \in Files
    PROVE  Covered(g)'
<1>1. /\ edits \in Nat /\ torn \subseteq 0..2 /\ inforce \in [Files -> Nat]
      /\ \A l \in 0..2 : snaps[l] # <<>> => snaps'[l] # <<>> /\ Snap(l)' = Snap(l)
  BY DEF TypeInv, Snap
<1>2. ASSUME NEW f \in Files, Edit(f) PROVE Covered(g)'
  <2>1. PICK q, b : /\ q \in Places3(f) /\ q = Current(f)
                      /\ Put(q, b) /\ b.t = "text" /\ b.v = edits + 2
    BY <1>1, <1>2, EditEffect
  <2>2. inforce' = [inforce EXCEPT ![f] = edits + 2]
    BY <1>1, <1>2, EditEffect
  <2>3. disk'[q] = b
    BY <2>1, PlacesOfOne, PutSets DEF Sets
  <2>4. CASE g = f
    BY <1>1, <2>1, <2>2, <2>3, <2>4, CoveredNew
  <2>5. CASE g # f
    <3>1. TextsAt(g)' = TextsAt(g) /\ inforce'[g] = inforce[g]
      BY <1>1, <2>1, <2>2, <2>5, PutTexts
    <3>. QED  BY <1>1, <3>1, CoveredStays
  <2>. QED  BY <2>4, <2>5
<1>3. ASSUME NEW f \in Files, NEW q \in Paths, Tidy(f, q) PROVE Covered(g)'
  <2>1. PICK r \in Places3(f) \ {q} : /\ disk[r].t = "text" /\ q \in Places3(f)
                                      /\ Put(q, Nothing)
                                      /\ inforce' = [inforce EXCEPT ![f] = disk[r].v]
    BY <1>3 DEF Tidy, Places3, Put
  <2>2. Sets(q, Nothing)
    BY <2>1, PutSets
  <2>3. disk'[r] = disk[r]
    BY <2>1, <2>2, SetsPlace
  <2>4. CASE g = f
    BY <1>1, <2>1, <2>3, <2>4, CoveredNew
  <2>5. CASE g # f
    <3>1. \A x \in Places3(g) : disk'[x] = disk[x]
      BY <2>1, <2>2, <2>5, SetsPlace
    <3>2. TextsAt(g)' = TextsAt(g) /\ inforce'[g] = inforce[g]
      BY <1>1, <2>1, <2>5, <3>1, TextsAtSame
    <3>. QED  BY <1>1, <3>2, CoveredStays
  <2>. QED  BY <2>4, <2>5
<1>4. ASSUME NEW d \in Dotfiles, EditDotfile(d) PROVE Covered(g)'
  <2>1. \E new : Put(Dot(d), Lined(new))
    BY <1>4, DotfileEdits
  <2>2. TextsAt(g)' = TextsAt(g) /\ inforce' = inforce
    BY <1>4, <2>1, DotTexts DEF EditDotfile
  <2>. QED  BY <1>1, <2>2, CoveredStays
<1>. QED  BY <1>2, <1>3, <1>4 DEF Saves

\* So is what a command writes.
LEMMA CovTypes ==
    ASSUME DiskInv, TypeInv, ShimInv, Types, \A f \in Files : Covered(f), UNCHANGED <<torn, snaps>>,
           NEW g \in Files
    PROVE  Covered(g)'
<1>1. /\ edits \in Nat /\ torn \subseteq 0..2 /\ inforce \in [Files -> Nat]
      /\ \A l \in 0..2 : snaps[l] # <<>> => snaps'[l] # <<>> /\ Snap(l)' = Snap(l)
  BY DEF TypeInv, Snap
<1>2. CASE WritesNothing
  <2>1. inforce' = inforce /\ TextsAt(g)' = TextsAt(g)
    BY <1>2, TextsAtSame DEF WritesNothing
  <2>. QED  BY <1>1, <2>1, CoveredStays
<1>3. CASE WritesConfig
  <2>1. PICK wraps \in SUBSET Binaries, dir \in DirValues : edit_config(wraps, dir)
    BY <1>3 DEF WritesConfig
  <2>2. PICK b : /\ b = Text(Config, edits' + 1, TRUE, wraps, dir) /\ Put(Toml(Config), b)
                 /\ inforce' = [inforce EXCEPT ![Config] = edits' + 1]
    BY <1>1, <2>1, EditConfigEffect
  <2>3. b.t = "text" /\ b.v = edits' + 1
    BY <2>2 DEF Text
  <2>4. Config \in Files /\ Toml(Config) \in Places3(Config)
    BY HostAssumption DEF Places3
  <2>5. CASE g = Config
    <3>1. disk'[Toml(Config)] = b
      BY <2>2, <2>4, PlacesOfOne, PutSets DEF Sets
    <3>. QED  BY <1>1, <2>2, <2>3, <2>4, <2>5, <3>1, CoveredNew
  <2>6. CASE g # Config
    <3>1. TextsAt(g)' = TextsAt(g) /\ inforce'[g] = inforce[g]
      BY <1>1, <2>2, <2>3, <2>4, <2>6, PutTexts
    <3>. QED  BY <1>1, <3>1, CoveredStays
  <2>. QED  BY <2>5, <2>6
<1>4. CASE WritesDotfile
  <2>1. inforce' = inforce /\ TextsAt(g)' = TextsAt(g)
    BY <1>4, DotTexts DEF WritesDotfile
  <2>. QED  BY <1>1, <2>1, CoveredStays
<1>. QED  BY <1>2, <1>3, <1>4, TypesWrites

\* No step but a restore's takes a version in force away.
LEMMA CovOthers ==
    ASSUME HInv, HostNext, ~Restores
    PROVE  CovInv'
<1>1. /\ LockInv /\ DiskInv /\ TypeInv /\ MigInv /\ ShimInv /\ CovInv /\ torn' = torn
      /\ torn \subseteq 0..2
  BY OthersFrame DEF HInv, TypeInv
<1>2. \A l \in 0..2 : snaps[l] # <<>> => snaps'[l] # <<>> /\ Snap(l)' = Snap(l)
  BY SnapHolds
<1>3. \A f \in Files : Covered(f)
  BY <1>1, CovParts
<1>4. ASSUME NEW g \in Files PROVE Covered(g)'
  <2>1. ASSUME inforce' = inforce, TextsAt(g)' = TextsAt(g) PROVE Covered(g)'
    BY <1>1, <1>2, <1>3, <2>1, CoveredStays
  <2>2. ASSUME NEW p \in Processes, Migrates(p) PROVE Covered(g)'
    BY <1>1, <2>1, <2>2, MigratesTexts, MigratesFrame
  <2>3. ASSUME NEW p \in Processes, Exits(p) PROVE Covered(g)'
    BY <2>1, <2>3, ExitsFrame, TextsAtSame
  <2>4. ASSUME NEW s \in ShimDirs, NEW b \in Binaries, DropForeign(s, b) PROVE Covered(g)'
    BY <2>1, <2>4, ForeignFrame, TextsAtSame
  <2>5. ASSUME Saves PROVE Covered(g)'
    BY <1>1, <1>3, <2>5, SavesFrame, CovSaves
  <2>6. ASSUME Types PROVE Covered(g)'
    BY <1>1, <1>3, <2>6, TypesMove, CovTypes
  <2>. QED  BY <1>1, <2>2, <2>3, <2>4, <2>5, <2>6, HostSteps
<1>5. ASSUME place'[Terminal] \in {"drop", "put", "forward", "level"}
      PROVE  /\ place'[Terminal] = place[Terminal] /\ Plan' = Plan /\ UNCHANGED <<disk, inforce>>
  BY <1>1, <1>5, OthersPutting DEF Plan
<1>6. \A f \in Files : Begun' /\ Returned(f)' => Back(f)'
  <2>1. ASSUME NEW f \in Files, Begun', Returned(f)' PROVE Back(f)'
    <3>1. place'[Terminal] = place[Terminal] /\ Plan' = Plan /\ UNCHANGED <<disk, inforce>>
      BY <1>5, <2>1 DEF Begun
    <3>2. Begun /\ Returned(f)
      BY <2>1, <3>1 DEF Begun, Returned
    <3>3. Back(f)
      BY <1>1, <3>2, CovParts
    <3>. QED  BY <3>1, <3>3 DEF Back, Has
  <2>. QED  BY <2>1
<1>7. place'[Terminal] = "forward" => \A f \in Files :
                        Plan'.target \in Places3(f) => Has(Plan.target, inforce[f])'
  BY <1>1, <1>5, CovParts DEF Has
<1>. QED  BY <1>4, <1>6, <1>7, CovParts

\* A restore owes the files it has taken away, and has put the snapshot's version in force in those
\* it has returned.
LEMMA CovRestores ==
    ASSUME HInv, Restores
    PROVE  CovInv'
<1>0. /\ LockInv /\ DiskInv /\ SnapInv /\ TypeInv /\ PlanInv /\ RunInv
      /\ \A f \in Files : Covered(f)
      /\ Begun => \A f \in Files : Returned(f) => Back(f)
      /\ place[Terminal] = "forward" => \A f \in Files :
            Plan.target \in Places3(f) => Has(Plan.target, inforce[f])
  BY CovParts DEF HInv
<1>1. PICK t \in Processes : t = Terminal
  BY MigrationAssumption
<1>2. /\ place[t] \in Putting /\ Asked /\ place \in [Processes -> Places]
      /\ UNCHANGED snaps /\ inforce \in [Files -> Nat] /\ torn \subseteq 0..2
  BY <1>0, <1>1, RestoresFrame DEF Asked, LockInv, TypeInv
<1>3. PICK P : P = Plan
  OBVIOUS
<1>4. /\ PlanShape(P) /\ P.l \in 0..2 /\ DOMAIN P.entries = DOMAIN Snap(P.l)
      /\ snaps[P.l] # <<>> /\ DOMAIN P.entries # {}
  BY <1>0, <1>2, <1>3 DEF PlanInv, PlanShape, SnapInv, SnapAt
<1>5. CASE Rescue(t) \/ AllRestored(t)
  <2>1. /\ UNCHANGED <<disk, inforce, torn>> /\ Plan' = P
        /\ \/ place[t] = "rescue" /\ place'[t] = "drop" /\ P.left = DOMAIN P.entries \cup DOMAIN P.stale
           \/ place[t] = "drop" /\ place'[t] = "level" /\ P.left = {}
    BY <1>0, <1>1, <1>2, <1>3, <1>5 DEF Rescue, AllRestored, Goto, Plan, history, PlanInv
  <2>2. \A f \in Files : Covered(f)'
    BY <1>0, <1>2, <2>1 DEF Covered, Owed, Has, Snap
  <2>3. ASSUME Begun', NEW f \in Files, Returned(f)' PROVE Back(f)'
    <3>1. place[t] = "drop" /\ P.left = {}
      BY <1>1, <2>1, <2>3 DEF Begun
    <3>2. Begun /\ Returned(f)
      BY <1>1, <1>3, <1>4, <2>1, <2>3, <3>1 DEF Begun, Returned
    <3>3. Back(f)
      BY <1>0, <3>2
    <3>. QED  BY <1>3, <2>1, <3>3 DEF Back, Has
  <2>. QED  BY <1>1, <2>1, <2>2, <2>3, CovParts
<1>6. CASE DropTarget(t)
  <2>1. PICK q \in DOMAIN P.entries \cap P.left :
            q \in Paths /\ Put(q, Nothing) /\ Plan' = Without(P, q) /\ place'[t] = "put"
    BY <1>0, <1>1, <1>3, <1>6, DropEffect
  <2>2. torn' = torn \cup {P.l} /\ inforce' = inforce /\ place[t] = "drop"
    BY <1>1, <1>3, <1>6 DEF DropTarget, Plan
  <2>3. PICK N : N = Without(P, q)
    OBVIOUS
  <2>4. N.l = P.l /\ N.target = q /\ N.entries = P.entries /\ N.left = P.left \ {q}
    BY <1>4, <2>3, WithoutIs
  <2>5. \A r \in Paths \ {q} : disk'[r] = disk[r]
    BY <1>0, <2>1, PutSets DEF Sets
  <2>6. ASSUME NEW f \in Files PROVE Covered(f)'
    <3>1. CASE q \in Places3(f)
      <4>1. Owed(f)'
        BY <1>2, <1>4, <2>1, <2>2, <3>1 DEF Owed, Snap
      <4>. QED  BY <4>1 DEF Covered
    <3>2. CASE q \notin Places3(f)
      <4>1. \A r \in Places3(f) : disk'[r] = disk[r]
        BY <2>5, <3>2, PlacesOfOne
      <4>. QED  BY <1>0, <1>2, <2>2, <4>1 DEF Covered, Owed, Has, Snap
    <3>. QED  BY <3>1, <3>2
  <2>7. ASSUME NEW f \in Files, Returned(f)' PROVE Back(f)'
    <3>1. (DOMAIN P.entries \ P.left) \cap Places3(f) # {}
      BY <1>1, <2>1, <2>3, <2>4, <2>7 DEF Returned
    <3>2. Begun /\ Returned(f)
      BY <1>1, <1>3, <2>2, <3>1 DEF Begun, Returned
    <3>3. PICK r \in (DOMAIN P.entries \ P.left) \cap Places3(f) : Has(r, inforce[f])
      BY <1>0, <1>3, <3>2 DEF Back
    <3>4. r # q /\ disk'[r] = disk[r]
      BY <2>1, <2>5, <3>3, PlacesOfOne
    <3>. QED  BY <2>1, <2>2, <2>3, <2>4, <3>3, <3>4 DEF Back, Has
  <2>. QED  BY <1>1, <2>1, <2>6, <2>7, CovParts
<1>7. CASE PutTarget(t)
  <2>1. PICK q, b : q = P.target /\ b = P.entries[q].snapshot
    OBVIOUS
  <2>2. /\ place[t] = "put" /\ place'[t] = "forward" /\ Plan' = P /\ torn' = torn
        /\ Put(q, b) /\ q \in DOMAIN P.entries \ P.left
        /\ inforce' = IF q[1] = "dot" THEN inforce ELSE [inforce EXCEPT ![q[2]] = b.v]
    BY <1>0, <1>1, <1>2, <1>3, <1>7, <2>1 DEF PutTarget, Goto, Plan, PlanInv
  <2>3. q \in Paths /\ Fits(q, b)
    BY <1>0, <1>2, <1>3, <2>1, <2>2, PlanFacts
  <2>4. /\ disk[q] = Nothing /\ disk'[q] = b /\ \A r \in Paths \ {q} : disk'[r] = disk[r]
    BY <1>0, <1>1, <1>3, <2>1, <2>2, <2>3, PutSets DEF Sets, RunInv
  <2>5. Begun
    BY <1>1, <2>2 DEF Begun
  <2>6. ASSUME NEW f \in Files, q \in Places3(f)
        PROVE  Has(q, inforce[f])' /\ Covered(f)' /\ Back(f)'
    <3>1. q[1] # "dot" /\ q[2] = f /\ b.t = "text"
      BY <2>3, <2>6, PlacesOfOne, PathFacts, TextsAre, TextFields DEF Fits, FitsTo
    <3>2. inforce'[f] = b.v
      BY <1>2, <2>2, <3>1
    <3>3. Has(q, inforce[f])'
      BY <2>4, <3>1, <3>2 DEF Has
    <3>. QED  BY <2>2, <2>6, <3>3 DEF Covered, Back
  <2>7. ASSUME NEW f \in Files, q \notin Places3(f)
        PROVE  Covered(f)' /\ (Returned(f)' => Back(f)')
    <3>1. inforce'[f] = inforce[f]
      <4>1. q[1] # "dot" => q[2] # f
        BY <2>3, <2>7, PathFacts DEF Places3
      <4>. QED  BY <1>2, <2>2, <4>1
    <3>2. \A r \in Places3(f) : disk'[r] = disk[r]
      BY <2>4, <2>7, PlacesOfOne
    <3>3. Covered(f)'
      BY <1>0, <1>2, <2>2, <3>1, <3>2 DEF Covered, Owed, Has, Snap
    <3>4. Returned(f)' => Returned(f)
      BY <1>1, <1>3, <2>1, <2>2, <2>7 DEF Returned
    <3>5. Back(f) => Back(f)'
      BY <1>3, <2>2, <3>1, <3>2 DEF Back, Has
    <3>. QED  BY <1>0, <2>5, <3>3, <3>4, <3>5
  <2>8. \A f \in Files : Plan'.target \in Places3(f) => Has(Plan.target, inforce[f])'
    BY <2>1, <2>2, <2>6 DEF Has
  <2>. QED  BY <2>6, <2>7, <2>8, CovParts
<1>8. CASE RemoveForward(t)
  <2>1. PICK q : q = P.target
    OBVIOUS
  <2>2. /\ place[t] = "forward" /\ place'[t] = "drop" /\ Plan' = P /\ torn' = torn
        /\ inforce' = inforce /\ q \in DOMAIN P.entries \ P.left
        /\ UNCHANGED disk \/ (P.entries[q].live # q /\ Put(P.entries[q].live, Nothing))
    BY <1>0, <1>1, <1>2, <1>3, <1>8, <2>1 DEF RemoveForward, Goto, Plan, history, PlanInv
  <2>3. Begun
    BY <1>1, <2>2 DEF Begun
  <2>4. \A f \in Files : Returned(f)' => Returned(f)
    BY <1>1, <1>3, <2>2 DEF Returned
  <2>5. CASE UNCHANGED disk
    <3>1. \A f \in Files : Covered(f)' /\ (Back(f) => Back(f)')
      BY <1>0, <1>2, <1>3, <2>2, <2>5 DEF Covered, Owed, Has, Snap, Back
    <3>. QED  BY <1>0, <1>1, <2>2, <2>3, <2>4, <3>1, CovParts
  <2>6. CASE P.entries[q].live # q /\ Put(P.entries[q].live, Nothing)
    <3>1. PICK f \in Files : q = Legacy(f) /\ P.entries[q].live = Json5(f)
      BY <1>0, <1>2, <1>3, <2>2, <2>6, PlanFacts
    <3>2. q \in Places3(f) /\ Json5(f) \in Paths /\ Json5(f) \in Places3(f) /\ q # Json5(f)
      BY <3>1, PathFacts DEF Places3
    <3>3. \A r \in Paths \ {Json5(f)} : disk'[r] = disk[r]
      BY <1>0, <2>6, <3>1, <3>2, PutSets DEF Sets
    <3>4. Has(q, inforce[f])'
      <4>1. Has(q, inforce[f])
        BY <1>0, <1>1, <1>3, <2>1, <2>2, <3>2
      <4>. QED  BY <2>2, <3>2, <3>3, <4>1, PlacesOfOne DEF Has
    <3>5. Covered(f)' /\ Back(f)'
      BY <2>2, <3>2, <3>4 DEF Covered, Back
    <3>6. ASSUME NEW g \in Files \ {f} PROVE Covered(g)' /\ (Back(g) => Back(g)')
      <4>1. \A r \in Places3(g) : disk'[r] = disk[r]
        BY <3>2, <3>3, PlacesOfOne
      <4>2. Covered(g)'
        BY <1>0, <1>2, <2>2, <4>1 DEF Covered, Owed, Has, Snap
      <4>3. Back(g) => Back(g)'
        BY <1>3, <2>2, <4>1 DEF Has, Back
      <4>. QED  BY <4>2, <4>3
    <3>. QED  BY <1>0, <1>1, <2>2, <2>3, <2>4, <3>5, <3>6, CovParts
  <2>. QED  BY <2>2, <2>5, <2>6
<1>9. CASE RemoveStale(t)
  <2>1. PICK q \in P.left :
            /\ q \in DOMAIN P.stale /\ q \notin DOMAIN P.entries
            /\ P.left \cap DOMAIN P.entries = {} /\ Plan' = Without(P, q)
            /\ \/ /\ UNCHANGED <<disk, inforce>> /\ ~Exists(q)
                  /\ place'[t] = "idle"
               \/ /\ Put(q, Nothing) /\ place' = place
                  /\ inforce' = IF \E r \in DOMAIN P.entries : r[1] # "dot" /\ r[2] = q[2]
                                THEN inforce ELSE [inforce EXCEPT ![q[2]] = 0]
    BY <1>0, <1>1, <1>3, <1>9, StaleEffect
  <2>2. torn' = torn /\ place[t] = "drop"
    BY <1>1, <1>9 DEF RemoveStale
  <2>3. CASE UNCHANGED <<disk, inforce>> /\ place'[t] = "idle"
    <3>1. \A f \in Files : Covered(f)'
      BY <1>0, <1>2, <2>2, <2>3 DEF Covered, Owed, Has, Snap
    <3>. QED  BY <1>1, <2>3, <3>1, CovParts DEF Begun
  <2>4. CASE /\ Put(q, Nothing) /\ place' = place
             /\ inforce' = IF \E r \in DOMAIN P.entries : r[1] # "dot" /\ r[2] = q[2]
                                THEN inforce ELSE [inforce EXCEPT ![q[2]] = 0]
    <3>1. PICK f \in Files : q \in Places3(f) /\ q \in Paths /\ q[2] = f
      BY <1>0, <1>2, <1>3, <2>1, PlanFacts, PlacesOfOne DEF Places3
    <3>2. \A r \in Paths \ {q} : disk'[r] = disk[r]
      BY <1>0, <2>4, <3>1, PutSets DEF Sets
    <3>3. Begun
      BY <1>1, <1>3, <1>4, <2>1, <2>2 DEF Begun
    <3>4. PICK N : N = Without(P, q)
      OBVIOUS
    <3>5. N.entries = P.entries /\ N.left = P.left \ {q}
      BY <1>4, <3>4, WithoutIs
    <3>6. \A g \in Files : Returned(g)' => DOMAIN P.entries \cap Places3(g) # {}
      BY <1>1, <2>1, <2>2, <2>4, <3>4, <3>5 DEF Returned
    <3>7. ASSUME NEW g \in Files, DOMAIN P.entries \cap Places3(g) # {}
          PROVE  inforce'[g] = inforce[g] /\ Covered(g)' /\ Back(g)'
      <4>1. Returned(g)
        BY <1>1, <1>3, <2>1, <2>2, <3>7 DEF Returned
      <4>2. PICK r \in (DOMAIN P.entries \ P.left) \cap Places3(g) : Has(r, inforce[g])
        BY <1>0, <1>3, <3>3, <4>1 DEF Back
      <4>3. r # q /\ disk'[r] = disk[r] /\ r[1] # "dot" /\ r[2] = g
        BY <2>1, <3>2, <4>2, PlacesOfOne
      <4>4. inforce'[g] = inforce[g]
        <5>1. CASE g = f
          BY <2>4, <3>1, <4>2, <4>3, <5>1
        <5>2. CASE g # f
          BY <1>2, <2>4, <3>1, <5>2
        <5>. QED  BY <5>1, <5>2
      <4>5. Has(r, inforce[g])'
        BY <4>2, <4>3, <4>4 DEF Has
      <4>. QED  BY <2>1, <3>4, <3>5, <4>2, <4>4, <4>5 DEF Covered, Back
    <3>8. ASSUME NEW g \in Files, DOMAIN P.entries \cap Places3(g) = {}
          PROVE  Covered(g)'
      <4>1. CASE g = f
        <5>1. ~\E r \in DOMAIN P.entries : r[1] # "dot" /\ r[2] = q[2]
          <6>1. ASSUME NEW r \in DOMAIN P.entries, r[1] # "dot", r[2] = f PROVE FALSE
            <7>1. r \in Paths
              BY <1>0, <1>2, <1>3, <6>1, PlanFacts
            <7>2. r \in Places3(f)
              BY <6>1, <7>1, PathFacts, PlacesOfOne
            <7>. QED  BY <3>8, <4>1, <6>1, <7>2
          <6>. QED  BY <3>1, <6>1
        <5>2. inforce'[g] = 0
          BY <1>2, <2>4, <3>1, <4>1, <5>1
        <5>. QED  BY <5>2 DEF Covered
      <4>2. CASE g # f
        <5>1. inforce'[g] = inforce[g]
          BY <1>2, <2>4, <3>1, <4>2
        <5>2. \A r \in Places3(g) : disk'[r] = disk[r]
          BY <3>1, <3>2, <4>2, PlacesOfOne
        <5>. QED  BY <1>0, <1>2, <2>2, <5>1, <5>2 DEF Covered, Owed, Has, Snap
      <4>. QED  BY <4>1, <4>2
    <3>9. place'[t] # "forward"
      BY <2>2, <2>4
    <3>. QED  BY <1>1, <3>6, <3>7, <3>8, <3>9, CovParts
  <2>. QED  BY <2>1, <2>3, <2>4
<1>10. CASE RollBackLevel(t)
  <2>1. /\ place[t] = "level" /\ place'[t] = "idle" /\ torn' = torn \ {P.l}
        /\ UNCHANGED <<disk, inforce>>
    BY <1>1, <1>2, <1>3, <1>10 DEF RollBackLevel, Goto, Stop, Plan
  <2>2. P.left = {} /\ Begun
    BY <1>0, <1>1, <1>3, <2>1 DEF RunInv, Begun
  <2>3. ASSUME NEW f \in Files PROVE Covered(f)'
    <3>1. CASE DOMAIN P.entries \cap Places3(f) # {}
      <4>1. Returned(f)
        BY <1>1, <1>3, <2>1, <2>2, <3>1 DEF Returned
      <4>2. Back(f)
        BY <1>0, <2>2, <4>1
      <4>. QED  BY <2>1, <4>2 DEF Back, Covered, Has
    <3>2. CASE DOMAIN P.entries \cap Places3(f) = {}
      <4>1. Owed(f) => Owed(f)'
        BY <1>2, <1>4, <2>1, <3>2 DEF Owed, Snap
      <4>. QED  BY <1>0, <2>1, <4>1 DEF Covered, Has
    <3>. QED  BY <3>1, <3>2
  <2>4. ~Begun' /\ place'[t] # "forward"
    BY <1>1, <2>1 DEF Begun
  <2>. QED  BY <1>1, <2>3, <2>4, CovParts
<1>. QED  BY <1>1, <1>5, <1>6, <1>7, <1>8, <1>9, <1>10 DEF Restores

\* Every file stays covered.
LEMMA CovHolds ==
    ASSUME HInv, HostNext
    PROVE  CovInv'
BY CovOthers, CovRestores

\* Every copy of the config declares the shims that are ours, and one there is; the
\* shim about to be written too; the entry about to go has none; a block about to be
\* added is not there.
Listed == /\ \A b \in TextsAt(Config) : ManagedShims \subseteq b.wraps
          /\ ManagedShims # {} => TextsAt(Config) # {}
\* The parts of ShimInv: the shim to come is declared; the one that went is not there, or is an
\* exception; both are of a binary, and where one goes is a shim directory; and the plan of
\* `ssh setup` is one of the block it found.
Installing == place[Terminal] = "install" /\ doing.binary \notin orphans =>
                  /\ \A b \in TextsAt(Config) : doing.binary \in b.wraps
                  /\ TextsAt(Config) # {}
Unlisting == place[Terminal] = "unlist" => ~Managed(doing.binary) \/ doing.binary \in orphans
Named == /\ place[Terminal] \in {"install", "unlist"} => doing.binary \in Binaries
         /\ place[Terminal] \in {"install", "path", "shimdir"} => doing.dir \in ShimDirs
Planned == place[Terminal] = "wire" =>
               /\ doing.method \in Methods
               /\ doing.state \in {"Stale", "Absent"}
               /\ doing.state = "Absent" => ~HasBlock(LinesOf(MethodFile(doing.method)))
\* Where a command has begun something that ShimInv speaks of.
Standing == {"install", "unlist", "path", "shimdir", "wire"}

-----------------------------------------------------------------------------
(* Shims and wraps.                                                        *)

\* ShimInv in those parts, before the step and after it.
LEMMA ShimParts ==
    /\ ShimInv <=> /\ undone = {} => Listed /\ Installing
                   /\ Unlisting /\ Named /\ Planned
    /\ ShimInv' <=> /\ undone' = {} => Listed' /\ Installing'
                    /\ Unlisting' /\ Named' /\ Planned'
<1>1. (undone = {} => Listed /\ Installing) <=>
      (undone = {} =>
        /\ \A q \in Places3(Config) : IsText(q) => ManagedShims \subseteq disk[q].wraps
        /\ ManagedShims # {} => \E q \in Places3(Config) : IsText(q)
        /\ place[Terminal] = "install" /\ doing.binary \notin orphans =>
            /\ \A q \in Places3(Config) : IsText(q) => doing.binary \in disk[q].wraps
            /\ \E q \in Places3(Config) : IsText(q))
  BY DEF Listed, Installing, TextsAt
<1>2. (undone' = {} => Listed' /\ Installing') <=>
      (undone' = {} =>
        /\ \A q \in Places3(Config) : IsText(q)' => ManagedShims' \subseteq disk'[q].wraps
        /\ ManagedShims' # {} => \E q \in Places3(Config) : IsText(q)'
        /\ place'[Terminal] = "install" /\ doing'.binary \notin orphans' =>
            /\ \A q \in Places3(Config) : IsText(q)' => doing'.binary \in disk'[q].wraps
            /\ \E q \in Places3(Config) : IsText(q)')
  BY DEF Listed, Installing, TextsAt
<1>. QED  BY <1>1, <1>2 DEF ShimInv, Unlisting, Named, Planned

\* A step of somebody else's.
LEMMA ShimStays ==
    ASSUME ShimInv, shims' = shims, doing' = doing, undone \subseteq undone',
           orphans \subseteq orphans',
           undone' = {} =>
               /\ \A b \in TextsAt(Config)' :
                    \E a \in TextsAt(Config) : a.wraps \ orphans' \subseteq b.wraps
               /\ TextsAt(Config) # {} => TextsAt(Config)' # {},
           place'[Terminal] = place[Terminal] \/ place'[Terminal] \notin Standing,
           place'[Terminal] = "wire" =>
               \A d \in Dotfiles : HasBlock(LinesOf(d)') => HasBlock(LinesOf(d))
    PROVE  ShimInv'
<1>1. /\ undone = {} => Listed /\ Installing
      /\ Unlisting /\ Named /\ Planned
  BY ShimParts
<1>2. undone' = {} => Listed' /\ Installing'
  <2>1. ManagedShims' \subseteq ManagedShims \ orphans'
    BY DEF ManagedShims, Managed
  <2>2. undone' = {} => undone = {}
    OBVIOUS
  <2>3. undone' = {} => Listed'
    BY <1>1, <2>1, <2>2 DEF Listed
  <2>4. undone' = {} => Installing'
    BY <1>1, <2>2 DEF Installing, Standing
  <2>. QED  BY <2>3, <2>4
<1>3. Unlisting' /\ Named'
  BY <1>1 DEF Unlisting, Named, Managed, Standing
<1>4. Planned'
  <2>1. \A method : MethodFile(method) \in Dotfiles
    BY HostAssumption DEF MethodFile
  <2>. QED  BY <1>1, <2>1 DEF Planned, Standing
<1>. QED  BY <1>2, <1>3, <1>4, ShimParts

\* A step that leaves the shims and the config's bodies alone leaves them declared.
LEMMA ShimSame ==
    ASSUME ShimInv, shims' = shims, doing' = doing, undone \subseteq undone',
           orphans \subseteq orphans',
           TextsAt(Config)' = TextsAt(Config) \/ undone' # {},
           \/ place'[Terminal] = place[Terminal] /\ UNCHANGED disk
           \/ place'[Terminal] = place[Terminal] /\ place[Terminal] # "wire"
           \/ place'[Terminal] \notin Standing
    PROVE  ShimInv'
<1>1. UNCHANGED disk => \A d : LinesOf(d)' = LinesOf(d)
  BY DEF LinesOf
<1>2. "wire" \in Standing
  BY DEF Standing
<1>. QED  BY <1>1, <1>2, ShimStays

\* What the user saves keeps the wraps of what it overwrites, but those they take out.
LEMMA ShimSaves ==
    ASSUME DiskInv, TypeInv, ShimInv, Saves, shims' = shims, doing' = doing
    PROVE  ShimInv'
<1>1. /\ undone' = undone /\ place' = place /\ edits \in Nat /\ Config \in Files
      /\ orphans \subseteq orphans'
  BY SavesFrame, HostAssumption DEF TypeInv
<1>2. ASSUME NEW f \in Files, NEW q \in Places3(f), NEW b, Put(q, b),
             /\ \A a \in TextsAt(Config)' :
                    \E c \in TextsAt(Config) : c.wraps \ orphans' \subseteq a.wraps
             /\ TextsAt(Config) # {} => TextsAt(Config)' # {}
      PROVE  ShimInv'
  <2>1. \A d \in Dotfiles : LinesOf(d)' = LinesOf(d)
    BY <1>2, PlacesOfOne, PutSets, SetsPlace
  <2>. QED  BY <1>1, <1>2, <2>1, ShimStays
<1>3. ASSUME NEW f \in Files, Edit(f) PROVE ShimInv'
  <2>1. PICK q, b : /\ q \in Places3(f) /\ Put(q, b) /\ b.t = "text" /\ IsText(q)
                      /\ orphans' = orphans \cup (disk[q].wraps \ b.wraps)
    BY <1>1, <1>3, EditEffect
  <2>2. CASE f = Config
    <3>1. TextsAt(f)' = {b} \cup {disk[r] : r \in {x \in Places3(f) \ {q} : IsText(x)}}
      BY <2>1, PutTexts
    <3>2. disk[q] \in TextsAt(f)
      BY <2>1 DEF TextsAt
    <3>3. \A a \in TextsAt(f)' : a = b \/ a \in TextsAt(f)
      BY <3>1 DEF TextsAt
    <3>4. b \in TextsAt(f)'
      BY <3>1
    <3>. QED  BY <1>2, <2>1, <2>2, <3>2, <3>3, <3>4
  <2>3. CASE f # Config
    <3>1. TextsAt(Config)' = TextsAt(Config)
      BY <1>1, <2>1, <2>3, PutTexts
    <3>. QED  BY <1>2, <2>1, <3>1
  <2>. QED  BY <2>2, <2>3
<1>4. ASSUME NEW f \in Files, NEW q \in Paths, Tidy(f, q) PROVE ShimInv'
  <2>1. PICK r \in Places3(f) \ {q} : /\ disk[r].t = "text" /\ q \in Places3(f)
                                      /\ Put(q, Nothing)
    BY <1>4 DEF Tidy, Places3, Put
  <2>2. Sets(q, Nothing)
    BY <2>1, PutSets
  <2>3. CASE f = Config
    <3>1. /\ \A x \in Places3(f) \ {q} : disk'[x] = disk[x]
          /\ disk'[q] = Nothing /\ ~IsText(q)'
      BY <2>1, <2>2, SetsPlace, Bodies DEF Sets, IsText
    <3>2. TextsAt(f)' \subseteq TextsAt(f) /\ disk[r] \in TextsAt(f)'
      BY <2>1, <3>1 DEF TextsAt, IsText
    <3>. QED  BY <1>2, <2>1, <2>3, <3>2
  <2>4. CASE f # Config
    <3>1. \A x \in Places3(Config) : disk'[x] = disk[x]
      BY <1>1, <2>1, <2>2, <2>4, SetsPlace
    <3>2. TextsAt(Config)' = TextsAt(Config)
      BY <3>1, TextsAtSame
    <3>. QED  BY <1>2, <2>1, <3>2
  <2>. QED  BY <2>3, <2>4
<1>5. ASSUME NEW d \in Dotfiles, EditDotfile(d) PROVE ShimInv'
  <2>1. PICK new : Put(Dot(d), Lined(new)) /\ AddsNone(LinesOf(d), new)
    BY <1>5, DotfileEdits
  <2>2. LinesOf(d)' = new /\ \A e \in Dotfiles \ {d} : LinesOf(e)' = LinesOf(e)
    BY <2>1, PathFacts, PutSets, SetsDot
  <2>3. \A e \in Dotfiles : HasBlock(LinesOf(e)') => HasBlock(LinesOf(e))
    BY <2>1, <2>2 DEF AddsNone
  <2>4. TextsAt(Config)' = TextsAt(Config)
    BY <1>1, <2>1, DotTexts
  <2>. QED  BY <1>1, <2>3, <2>4, ShimStays
<1>. QED  BY <1>3, <1>4, <1>5 DEF Saves

\* A restore ends what ShimInv says of the config at its first write.
LEMMA ShimRestores ==
    ASSUME LockInv, DiskInv, SnapInv, TypeInv, PlanInv, RunInv, ShimInv, Restores,
           shims' = shims, doing' = doing
    PROVE  ShimInv'
<1>1. PICK t \in Processes : t = Terminal
  BY MigrationAssumption
<1>2. /\ place[t] \in Putting /\ Asked /\ place \in [Processes -> Places]
  BY <1>1, RestoresFrame DEF Asked, LockInv
<1>3. undone \subseteq undone' /\ place'[t] \in Putting \cup {"idle"}
  BY <1>1, <1>2 DEF Restores, Rescue, DropTarget, PutTarget, RemoveForward, RemoveStale,
     AllRestored, RollBackLevel, Goto, Stop, Putting, history
<1>4. place'[t] \notin Standing /\ orphans' = orphans
  BY <1>3, RestoresFrame DEF Putting, Standing
<1>5. UNCHANGED disk \/ undone' # {}
  <2>1. CASE Rescue(t) \/ AllRestored(t) \/ RollBackLevel(t)
    BY <2>1 DEF Rescue, AllRestored, RollBackLevel
  <2>2. CASE DropTarget(t)
    BY <2>2 DEF DropTarget
  <2>3. Begun => undone # {}
    BY DEF RunInv
  <2>4. CASE PutTarget(t) \/ RemoveForward(t)
    BY <1>1, <1>3, <2>3, <2>4 DEF PutTarget, RemoveForward, Begun
  <2>5. CASE RemoveStale(t)
    <3>1. Plan.left \cap DOMAIN Plan.entries = {} /\ place[t] = "drop"
      BY <1>1, <2>5, StaleEffect DEF RemoveStale
    <3>2. DOMAIN Plan.entries # {}
      BY <1>2 DEF PlanInv, PlanShape, SnapInv, SnapAt
    <3>3. Begun
      BY <1>1, <3>1, <3>2 DEF Begun
    <3>. QED  BY <1>3, <2>3, <3>3
  <2>. QED  BY <1>1, <2>1, <2>2, <2>4, <2>5 DEF Restores
<1>6. UNCHANGED disk => TextsAt(Config)' = TextsAt(Config)
  BY TextsAtSame
<1>. QED  BY <1>1, <1>3, <1>4, <1>5, <1>6, ShimSame

\* At the last level, and before the first restore, config.toml is the one copy.
LEMMA OneConfig ==
    ASSUME LockInv, DiskInv, RunInv, LevelInv, level = 3, undone = {}
    PROVE  /\ TextsAt(Config) = IF HasConfig THEN {config} ELSE {}
           /\ \A r \in Places3(Config) \ {Toml(Config)} : ~IsText(r)
<1>1. torn = {} /\ Config \in Files /\ "up" \notin undone
  BY HostAssumption DEF RunInv
<1>2. ~IsText(Legacy(Config)) /\ ~IsText(Json5(Config))
  BY <1>1, Bodies DEF LevelInv, IsText
<1>3. IsText(Toml(Config)) <=> HasConfig
  BY <1>1, DiskKinds, PathFacts DEF HasConfig, Places3
<1>4. \A r \in Places3(Config) : IsText(r) => r = Toml(Config)
  BY <1>2 DEF Places3
<1>. QED  BY <1>3, <1>4 DEF TextsAt, config, Places3

\* What config.toml declares after a command wrote it.
LEMMA ConfigWritten ==
    ASSUME LockInv, DiskInv, TypeInv, RunInv, LevelInv, level = 3, undone = {},
           NEW wraps \in SUBSET Binaries, NEW dir \in DirValues, edit_config(wraps, dir)
    PROVE  \E b : TextsAt(Config)' = {b} /\ b.wraps = wraps
<1>1. PICK b : b = Text(Config, edits' + 1, TRUE, wraps, dir)
  OBVIOUS
<1>2. Put(Toml(Config), b)
  BY <1>1, EditConfigEffect DEF TypeInv
<1>3. b.t = "text" /\ b.wraps = wraps
  BY <1>1 DEF Text
<1>4. Config \in Files /\ Toml(Config) \in Places3(Config)
  BY HostAssumption DEF Places3
<1>5. TextsAt(Config)' = {b} \cup {disk[r] : r \in {x \in Places3(Config) \ {Toml(Config)} : IsText(x)}}
  BY <1>2, <1>3, <1>4, PutTexts
<1>. QED  BY <1>3, <1>5, OneConfig

\* wrap declares before it installs, and unwrap removes before it undeclares.
LEMMA ShimTypes ==
    ASSUME LockInv, DiskInv, TypeInv, RunInv, LevelInv, ShimInv, Types
    PROVE  ShimInv'
<1>1. PICK t \in Processes : t = Terminal
  BY MigrationAssumption
<1>2. /\ place \in [Processes -> Places] /\ level = 3 /\ undone' = undone
      /\ shims \in [ShimDirs \X Binaries -> ShimStates] /\ orphans \subseteq orphans'
  BY TypesMove, TypesWrites DEF LockInv, TypeInv
<1>3. /\ undone = {} => Listed /\ Installing
      /\ Unlisting /\ Named /\ Planned
  BY ShimParts
<1>4. undone = {} => /\ TextsAt(Config) = IF HasConfig THEN {config} ELSE {}
                     /\ ManagedShims # {} => HasConfig
                     /\ HasConfig => ManagedShims \subseteq config.wraps
  BY <1>2, <1>3, OneConfig DEF Listed
<1>5. \A b : b \in ManagedShims' <=> b \in Binaries /\ b \notin orphans' /\ Managed(b)'
  BY DEF ManagedShims
<1>6. ASSUME place'[t] \notin Standing, undone = {} => Listed'
      PROVE  ShimInv'
  BY <1>1, <1>2, <1>6, ShimParts DEF Installing, Unlisting, Named, Planned, Standing
<1>7. ASSUME UNCHANGED disk PROVE TextsAt(Config)' = TextsAt(Config)
  BY <1>7, TextsAtSame
<1>8. ASSUME TextsAt(Config)' = TextsAt(Config), ManagedShims' \subseteq ManagedShims
      PROVE  undone = {} => Listed'
  BY <1>3, <1>8 DEF Listed
<1>9. ASSUME \A b \in Binaries : Managed(b)' => Managed(b)
      PROVE  ManagedShims' \subseteq ManagedShims
  BY <1>2, <1>9 DEF ManagedShims
<1>10. ASSUME shims' = shims
       PROVE  /\ ManagedShims' \subseteq ManagedShims
              /\ \A b : Managed(b)' = Managed(b)
  <2>1. \A b : Managed(b)' = Managed(b)
    BY <1>10 DEF Managed
  <2>. QED  BY <1>9, <2>1
<1>11. \A w : doing' = [Idle EXCEPT !.binary = w] => doing'.binary = w
  BY DEF Idle
<1>12. ASSUME NEW b \in Binaries, wrap(b) PROVE ShimInv'
  <2>1. /\ HasConfig /\ edit_config(config.wraps \cup {b}, config.dir) /\ config.dir # NoDir
        /\ doing' = [Idle EXCEPT !.binary = b, !.dir = config.dir]
        /\ place'[t] = "install" /\ shims' = shims
    BY <1>1, <1>2, <1>12 DEF wrap, Step, Goto
  <2>2. doing'.binary = b /\ doing'.dir = config.dir
    BY <2>1 DEF Idle
  <2>3. config.wraps \cup {b} \in SUBSET Binaries /\ config.dir \in DirValues
    BY <2>1, ConfigFields
  <2>4. undone = {} => \E c : TextsAt(Config)' = {c} /\ c.wraps = config.wraps \cup {b}
    BY <1>2, <2>1, <2>3, ConfigWritten
  <2>5. undone = {} => Listed'
    BY <1>4, <1>10, <2>1, <2>4 DEF Listed
  <2>6. undone = {} => Installing'
    BY <2>2, <2>4 DEF Installing
  <2>7. doing'.dir \in ShimDirs
    BY <2>1, <2>2, <2>3 DEF DirValues
  <2>. QED  BY <1>1, <1>2, <2>1, <2>2, <2>5, <2>6, <2>7, ShimParts DEF Unlisting, Named, Planned
<1>13. ASSUME NEW b \in Binaries, unwrap_cmd(b) PROVE ShimInv'
  <2>1. /\ \/ shims' = shims
           \/ \E s \in ShimDirs : shims' = [shims EXCEPT ![<<s, b>>] = "none"]
        /\ UNCHANGED disk
        /\ \/ /\ place'[t] = "unlist" /\ doing' = [Idle EXCEPT !.binary = b]
              /\ ~Managed(b)' \/ b \in orphans'
           \/ place'[t] = "idle"
    <3>1. config.dir = NoDir \/ config.dir \in ShimDirs
      BY <1>13, ConfigFields DEF unwrap_cmd, DirValues
    <3>2. PICK c : c = config.dir
      OBVIOUS
    <3>3. /\ shims' = IF c = NoDir \/ (c # NoDir /\ shims[<<c, b>>] = "foreign") THEN shims
                      ELSE [shims EXCEPT ![<<c, b>>] = "none"]
          /\ UNCHANGED disk
      BY <1>13, <3>2 DEF unwrap_cmd
    <3>4. \/ /\ Step("unlist") /\ doing' = [Idle EXCEPT !.binary = b]
             /\ orphans' = IF Managed(b)' THEN orphans \cup {b} ELSE orphans
          \/ Step("idle")
      BY <1>13, Zenon DEF unwrap_cmd
    <3>5. \/ /\ place'[t] = "unlist" /\ doing' = [Idle EXCEPT !.binary = b]
             /\ orphans' = IF Managed(b)' THEN orphans \cup {b} ELSE orphans
          \/ place'[t] = "idle"
      BY <1>1, <1>2, <3>4 DEF Step, Goto
    <3>6. shims' = shims \/ \E s \in ShimDirs : shims' = [shims EXCEPT ![<<s, b>>] = "none"]
      BY <3>1, <3>2, <3>3
    <3>. QED  BY <3>3, <3>5, <3>6
  <2>2. \A c \in Binaries : Managed(c)' => Managed(c)
    <3>1. ASSUME NEW s \in ShimDirs, shims' = [shims EXCEPT ![<<s, b>>] = "none"], NEW c \in Binaries
          PROVE  Managed(c)' => Managed(c)
      <4>1. \A r \in ShimDirs : shims'[<<r, c>>] \in {shims[<<r, c>>], "none"}
        BY <1>2, <3>1
      <4>. QED  BY <4>1 DEF Managed
    <3>. QED  BY <1>10, <2>1, <3>1
  <2>3. undone = {} => Listed'
    BY <1>7, <1>8, <1>9, <2>1, <2>2
  <2>4. CASE place'[t] = "idle"
    BY <1>6, <2>3, <2>4 DEF Standing
  <2>5. CASE /\ place'[t] = "unlist" /\ doing' = [Idle EXCEPT !.binary = b]
             /\ ~Managed(b)' \/ b \in orphans'
    <3>1. doing'.binary = b
      BY <1>11, <2>5
    <3>2. Unlisting'
      <4>1. \A d : d = b => (~Managed(d)' \/ d \in orphans')
        BY <2>5
      <4>. QED  BY <3>1, <4>1 DEF Unlisting
    <3>3. Named' /\ Planned' /\ Installing'
      BY <1>1, <2>5, <3>1 DEF Named, Planned, Installing
    <3>. QED  BY <1>2, <2>3, <3>2, <3>3, ShimParts
  <2>. QED  BY <2>1, <2>4, <2>5
<1>14. CASE InstallShim
  <2>1. /\ \E x : shims' = [shims EXCEPT ![<<doing.dir, doing.binary>>] = x]
        /\ UNCHANGED disk /\ place[t] = "install" /\ place'[t] = "idle"
    BY <1>1, <1>2, <1>14 DEF InstallShim, At, Step, Goto, KeepsFiles
  <2>2. PICK d \in ShimDirs, b \in Binaries : doing.dir = d /\ doing.binary = b
    BY <1>1, <1>3, <2>1 DEF Named
  <2>3. PICK x : shims' = [shims EXCEPT ![<<d, b>>] = x]
    BY <2>1, <2>2
  <2>4. \A c \in Binaries : Managed(c)' => Managed(c) \/ c = b
    <3>1. \A c \in Binaries, r \in ShimDirs : c # b => shims'[<<r, c>>] = shims[<<r, c>>]
      BY <1>2, <2>3
    <3>. QED  BY <3>1 DEF Managed
  <2>5. ManagedShims' \subseteq ManagedShims \cup {b}
    BY <1>2, <2>4 DEF ManagedShims
  <2>6. b \in ManagedShims' => b \notin orphans
    BY <1>2, <1>5
  <2>7. undone = {} => Listed'
    BY <1>1, <1>3, <1>7, <2>1, <2>2, <2>5, <2>6 DEF Listed, Installing
  <2>. QED  BY <1>6, <2>1, <2>7 DEF Standing
<1>15. CASE RemoveEntry
  <2>1. /\ place[t] = "unlist" /\ place'[t] = "idle" /\ shims' = shims
        /\ IF HasConfig THEN edit_config(config.wraps \ {doing.binary}, config.dir)
           ELSE edit_config({}, NoDir)
    BY <1>1, <1>2, <1>15 DEF RemoveEntry, At, Step, Goto
  <2>2. doing.binary \notin ManagedShims'
    <3>1. PICK b : b = doing.binary
      OBVIOUS
    <3>2. ~Managed(b) \/ b \in orphans
      BY <1>1, <1>3, <2>1, <3>1 DEF Unlisting
    <3>. QED  BY <1>2, <1>5, <1>10, <2>1, <3>1, <3>2
  <2>3. undone = {} => Listed'
    <3>1. CASE HasConfig
      <4>1. config.wraps \ {doing.binary} \in SUBSET Binaries /\ config.dir \in DirValues
        BY <3>1, ConfigFields
      <4>2. undone = {} => \E c : /\ TextsAt(Config)' = {c}
                                  /\ c.wraps = config.wraps \ {doing.binary}
        BY <1>2, <2>1, <3>1, <4>1, ConfigWritten
      <4>. QED  BY <1>4, <1>10, <2>1, <2>2, <3>1, <4>2 DEF Listed
    <3>2. CASE ~HasConfig
      <4>1. {} \in SUBSET Binaries /\ NoDir \in DirValues
        BY DEF DirValues
      <4>2. undone = {} => \E c : TextsAt(Config)' = {c}
        BY <1>2, <2>1, <3>2, <4>1, ConfigWritten
      <4>3. undone = {} => ManagedShims' = {}
        BY <1>4, <1>10, <2>1, <3>2
      <4>. QED  BY <4>2, <4>3 DEF Listed
    <3>. QED  BY <3>1, <3>2
  <2>. QED  BY <1>6, <2>1, <2>3 DEF Standing
<1>16. ASSUME \A k \in ShimDirs \X Binaries :
                  shims'[k] = shims[k] \/ shims[k] = "old"
       PROVE  ManagedShims' \subseteq ManagedShims
  <2>1. \A s \in ShimDirs, b \in Binaries :
            shims'[<<s, b>>] = shims[<<s, b>>] \/ shims[<<s, b>>] = "old"
    BY <1>16
  <2>2. \A b \in Binaries : Managed(b)' => Managed(b)
    BY <2>1 DEF Managed
  <2>. QED  BY <1>9, <2>2
<1>17. CASE doctor
  <2>. DEFINE due(k) == k[1] = config.dir /\ k[2] \in config.wraps /\ shims[k] = "old"
  <2>1. /\ shims' = [k \in ShimDirs \X Binaries |-> IF due(k) THEN "ours" ELSE shims[k]]
        /\ UNCHANGED disk /\ place'[t] = "idle"
    BY <1>1, <1>2, <1>17 DEF doctor, Step, Goto, KeepsFiles
  <2>2. \A k : due(k) => shims[k] = "old"
    OBVIOUS
  <2>. HIDE DEF due
  <2>3. ManagedShims' \subseteq ManagedShims
    BY <1>16, <2>1, <2>2
  <2>. QED  BY <1>6, <1>7, <1>8, <2>1, <2>3 DEF Standing
<1>18. CASE init
  <2>1. PICK s \in ShimDirs : \E state : doing' = [Idle EXCEPT !.dir = s, !.state = state]
    BY <1>18 DEF init
  <2>2. place'[t] = "path" /\ shims' = shims /\ UNCHANGED disk
    BY <1>1, <1>2, <1>18 DEF init, Step, Goto, KeepsFiles
  <2>3. doing'.dir = s
    BY <2>1 DEF Idle
  <2>4. undone = {} => Listed'
    BY <1>7, <1>8, <1>10, <2>2
  <2>. QED  BY <1>1, <1>2, <2>2, <2>3, <2>4, ShimParts
       DEF Installing, Unlisting, Named, Planned
<1>19. CASE AppendPath \/ WireAgent \/ \E method \in Methods : remove(method)
  <2>1. /\ place'[t] = "idle" \/ (place[t] = "path" /\ place'[t] = "shimdir" /\ doing' = doing)
        /\ shims' = shims
    BY <1>1, <1>2, <1>19 DEF AppendPath, WireAgent, remove, Step, Goto, At
  <2>2. \A method : MethodFile(method) \in Dotfiles
    BY HostAssumption DEF MethodFile
  <2>3. UNCHANGED disk \/ \E d \in Dotfiles : \E ls : Put(Dot(d), Lined(ls))
    BY <1>19, <2>2, HostAssumption DEF AppendPath, WireAgent, remove, RewriteIfNew, Rewrite
  <2>4. TextsAt(Config)' = TextsAt(Config)
    BY <1>7, <2>3, DotTexts, HostAssumption
  <2>5. undone = {} => Listed'
    BY <1>8, <1>10, <2>1, <2>4
  <2>6. CASE place'[t] = "idle"
    BY <1>6, <2>5, <2>6 DEF Standing
  <2>7. CASE place[t] = "path" /\ place'[t] = "shimdir" /\ doing' = doing
    BY <1>1, <1>2, <1>3, <2>5, <2>7, ShimParts DEF Installing, Unlisting, Named, Planned
  <2>. QED  BY <2>1, <2>6, <2>7
<1>20. CASE SetShimDir
  <2>1. PICK wraps : wraps = IF HasConfig THEN config.wraps ELSE {}
    OBVIOUS
  <2>. DEFINE due(k) == k[1] = doing.dir /\ k[2] \in wraps /\ shims[k] = "old"
  <2>2. /\ edit_config(wraps, doing.dir)
        /\ shims' = [k \in ShimDirs \X Binaries |-> IF due(k) THEN install(shims[k]) ELSE shims[k]]
        /\ place[t] = "shimdir" /\ place'[t] \in {"ssh", "idle"}
    BY <1>1, <1>2, <1>20, <2>1 DEF SetShimDir, Step, Goto, At
  <2>3. wraps \in SUBSET Binaries /\ doing.dir \in DirValues
    BY <1>1, <1>3, <2>1, <2>2, ConfigFields DEF Named, DirValues
  <2>4. \A k : due(k) => shims[k] = "old"
    OBVIOUS
  <2>. HIDE DEF due
  <2>5. ManagedShims' \subseteq ManagedShims
    BY <1>16, <2>2, <2>4
  <2>6. undone = {} => \E c : TextsAt(Config)' = {c} /\ c.wraps = wraps
    BY <1>2, <2>2, <2>3, ConfigWritten
  <2>7. undone = {} => ManagedShims \subseteq wraps
    BY <1>4, <2>1
  <2>8. undone = {} => Listed'
    BY <2>5, <2>6, <2>7 DEF Listed
  <2>. QED  BY <1>6, <2>2, <2>8 DEF Standing
<1>21. ASSUME NEW method \in Methods, ssh_setup_wiring_step(method) PROVE ShimInv'
  <2>1. PICK found : found = block_state(LinesOf(MethodFile(method)), ssh_block(NewUnderHome))
    OBVIOUS
  <2>2. /\ doing' = [Idle EXCEPT !.method = method, !.state = found]
        /\ place'[t] = IF found = "UpToDate" THEN "idle" ELSE "wire"
        /\ shims' = shims /\ UNCHANGED disk
    BY <1>1, <1>2, <1>21, <2>1 DEF ssh_setup_wiring_step, Step, Goto, KeepsFiles
  <2>3. doing'.method = method /\ doing'.state = found
    BY <2>2 DEF Idle
  <2>4. /\ found \in {"Absent", "UpToDate", "Stale"}
        /\ found = "Absent" => ~HasBlock(LinesOf(MethodFile(method)))
    BY <2>1, Zenon DEF block_state
  <2>5. \A d : LinesOf(d)' = LinesOf(d)
    BY <2>2 DEF LinesOf
  <2>6. Planned'
    BY <1>1, <2>2, <2>3, <2>4, <2>5 DEF Planned
  <2>7. undone = {} => Listed'
    BY <1>7, <1>8, <1>10, <2>2
  <2>. QED  BY <1>1, <1>2, <2>2, <2>6, <2>7, ShimParts DEF Installing, Unlisting, Named
<1>. QED  BY <1>12, <1>13, <1>14, <1>15, <1>17, <1>18, <1>19, <1>20, <1>21 DEF Types

\* Every step keeps the shims declared.
LEMMA ShimHolds ==
    ASSUME HInv, HostNext
    PROVE  ShimInv'
<1>1. /\ LockInv /\ DiskInv /\ SnapInv /\ TypeInv /\ PlanInv /\ RunInv /\ MigInv /\ LevelInv
      /\ ShimInv
  BY DEF HInv
<1>2. PICK t \in Processes : t = Terminal
  BY MigrationAssumption
<1>3. ASSUME NEW p \in Processes, Migrates(p), UNCHANGED <<shims, doing>> PROVE ShimInv'
  <2>1. TextsAt(Config)' = TextsAt(Config)
    BY <1>1, <1>3, MigratesTexts, HostAssumption
  <2>2. undone' = undone /\ orphans' = orphans /\ place[p] \in Moving
    BY <1>1, <1>3, MigratesFrame
  <2>3. level < 3 /\ level \in 0..3 /\ (place[t] \in Typing => level = 3)
    BY <1>1, <1>2, <2>2 DEF LockInv, LockAt
  <2>4. place[t] # "wire"
    BY <2>3 DEF Typing
  <2>5. place'[t] = place[t] \/ place'[t] \notin Standing
    BY <1>1, <1>2, <1>3, MigratesTo DEF Moving, Standing
  <2>. QED  BY <1>1, <1>2, <1>3, <2>1, <2>2, <2>4, <2>5, ShimSame
<1>4. ASSUME NEW p \in Processes, Exits(p), UNCHANGED <<shims, doing>> PROVE ShimInv'
  <2>1. TextsAt(Config)' = TextsAt(Config) /\ UNCHANGED <<disk, undone, orphans>>
    BY <1>4, ExitsFrame, TextsAtSame
  <2>2. place'[t] = place[t] \/ place'[t] \notin Standing
    BY <1>1, <1>2, <1>4, ExitsTo DEF Standing
  <2>. QED  BY <1>1, <1>2, <1>4, <2>1, <2>2, ShimSame
<1>5. ASSUME NEW s \in ShimDirs, NEW b \in Binaries, DropForeign(s, b) PROVE ShimInv'
  <2>1. UNCHANGED <<disk, place, undone, orphans, doing>>
    BY <1>5, ForeignFrame
  <2>2. shims' = [shims EXCEPT ![<<s, b>>] = "foreign"] /\ shims[<<s, b>>] = "none"
    BY <1>5 DEF DropForeign
  <2>3. \A c \in Binaries : Managed(c)' = Managed(c)
    <3>1. \A c \in Binaries, r \in ShimDirs :
              shims'[<<r, c>>] \in {"ours", "old"} <=> shims[<<r, c>>] \in {"ours", "old"}
      BY <1>1, <2>2 DEF TypeInv
    <3>. QED  BY <3>1 DEF Managed
  <2>4. TextsAt(Config)' = TextsAt(Config) /\ ManagedShims' = ManagedShims
        /\ \A d : LinesOf(d)' = LinesOf(d)
    BY <2>1, <2>3, TextsAtSame DEF ManagedShims, LinesOf
  <2>5. /\ undone = {} => Listed /\ Installing
        /\ Unlisting /\ Named /\ Planned
    BY <1>1, ShimParts
  <2>6. (undone = {} => Listed') /\ (undone = {} => Installing')
    BY <2>1, <2>4, <2>5 DEF Listed, Installing
  <2>7. Unlisting' /\ Named' /\ Planned'
    BY <2>1, <2>3, <2>4, <2>5 DEF Unlisting, Named, Planned
  <2>. QED  BY <2>1, <2>6, <2>7, ShimParts
<1>. QED  BY <1>1, <1>3, <1>4, <1>5, ShimSaves, ShimRestores, ShimTypes, HostSteps

\* A version is somewhere; outside the legacy directory; the older of two copies is;
\* what a restore is about to write over, or to remove, is rescued.
Somewhere(f, v) == Gone(f, v) \/ Safe(f, v) \/ \E q \in Places3(f) : Has(q, v)
\* The parts of WorkInv: version v is not at an old path alone; the older of two real files; what was
\* read at an old path, for the plan; what will go and is saved; what is left at an old path.
Moved(f, v) == Gone(f, v) \/ Safe(f, v) \/ Has(Json5(f), v) \/ Has(Toml(f), v)
Beside(f) == IsText(Legacy(f)) /\ IsText(Json5(f)) =>
                 \/ Gone(f, disk[Legacy(f)].v) \/ Safe(f, disk[Legacy(f)].v)
                 \/ disk[Json5(f)].v = disk[Legacy(f)].v
ReadAt(f) == /\ Legacy(f) \in DOMAIN Plan.entries
             /\ Plan.entries[Legacy(f)].live = Json5(f)
             /\ Plan.seen[Legacy(f)].t = "text"
             => /\ Plan.seen[Legacy(f)].v \in 0..(edits + 1)
                /\ Moved(f, Plan.seen[Legacy(f)].v)
SavedLive == \A q \in DOMAIN Plan.entries :
                (q \in Plan.left \/ Plan.entries[q].live # q)
                    /\ IsText(Plan.entries[q].live) => disk[Plan.entries[q].live] \in InRescues
SavedStale == \A q \in DOMAIN Plan.stale : IsText(q) => disk[q] \in InRescues
LeftAt(f) == /\ Legacy(f) \in DOMAIN Plan.entries \cap Plan.left
             /\ Plan.entries[Legacy(f)].live = Json5(f)
             /\ IsText(Legacy(f))
             => Moved(f, disk[Legacy(f)].v)

-----------------------------------------------------------------------------
(* The user's versions.                                                    *)

\* WorkInv in those parts.
LEMMA WorkParts ==
    ASSUME Straight
    PROVE  WorkInv <=>
             /\ \A f \in Files, v \in 0..(edits + 1) : Somewhere(f, v)
             /\ \A f \in Files : Beside(f)
             /\ place[Terminal] \in {"prompt", "rescue"} => \A f \in Files : ReadAt(f)
             /\ place[Terminal] \in {"drop", "put", "forward", "level"} =>
                    SavedLive /\ SavedStale /\ \A f \in Files : LeftAt(f)
<1>1. \A f : Beside(f) <=>
        (IsText(Legacy(f)) /\ IsText(Json5(f)) =>
            \/ Gone(f, disk[Legacy(f)].v) \/ Safe(f, disk[Legacy(f)].v)
            \/ disk[Json5(f)].v = disk[Legacy(f)].v)
  BY DEF Beside
<1>2. \A f, v : Somewhere(f, v) <=> Gone(f, v) \/ Safe(f, v) \/ \E q \in Places3(f) : Has(q, v)
  BY DEF Somewhere
<1>3. \A f : ReadAt(f) <=>
        (/\ Legacy(f) \in DOMAIN Plan.entries
         /\ Plan.entries[Legacy(f)].live = Json5(f)
         /\ Plan.seen[Legacy(f)].t = "text"
         => /\ Plan.seen[Legacy(f)].v \in 0..(edits + 1)
            /\ \/ Gone(f, Plan.seen[Legacy(f)].v) \/ Safe(f, Plan.seen[Legacy(f)].v)
               \/ Has(Json5(f), Plan.seen[Legacy(f)].v) \/ Has(Toml(f), Plan.seen[Legacy(f)].v))
  BY DEF ReadAt, Moved
<1>4. \A f : LeftAt(f) <=>
        (/\ Legacy(f) \in DOMAIN Plan.entries \cap Plan.left
         /\ Plan.entries[Legacy(f)].live = Json5(f)
         /\ IsText(Legacy(f))
         => \/ Gone(f, disk[Legacy(f)].v) \/ Safe(f, disk[Legacy(f)].v)
            \/ Has(Json5(f), disk[Legacy(f)].v) \/ Has(Toml(f), disk[Legacy(f)].v))
  BY DEF LeftAt, Moved
<1>. HIDE DEF Beside, Somewhere, ReadAt, LeftAt
<1>. QED  BY <1>1, <1>2, <1>3, <1>4 DEF WorkInv, SavedLive, SavedStale

\* No version is out of range.
LEMMA SomewhereAll ==
    ASSUME TypeInv, \A f \in Files, v \in 0..(edits + 1) : Somewhere(f, v)
    PROVE  \A f \in Files : \A v : Somewhere(f, v)
BY DEF TypeInv, Somewhere, Gone

\* What is safe stays so: no step removes a snapshot or a rescue.
LEMMA SafeStays ==
    ASSUME InRescues \subseteq InRescues',
           \A l \in 0..2 : snaps[l] # <<>> => snaps'[l] # <<>> /\ Snap(l)' = Snap(l),
           NEW f, NEW v, Safe(f, v)
    PROVE  Safe(f, v)'
<1>1. PICK b \in InRescues \cup UNION {Range(Snap(l)) : l \in {k \in 0..2 : snaps[k] # <<>>}} :
           b.t = "text" /\ b.f = f /\ b.v = v
  BY DEF Safe
<1>2. b \in InRescues' \cup UNION {Range(Snap(l)') : l \in {k \in 0..2 : snaps'[k] # <<>>}}
  BY <1>1
<1>. QED  BY <1>1, <1>2 DEF Safe

\* What the user, or a command of theirs, writes over or deletes is gone by their
\* will, and nothing else is.
Careful ==
    /\ \A f \in Files, v \in 0..(edits + 1) :
        /\ Gone(f, v) => Gone(f, v)'
        /\ \A q \in Places3(f) : Has(q, v) => Has(q, v)' \/ Gone(f, v)'
    /\ \A f \in Files, v \in 0..(edits' + 1) :
        v \in 0..(edits + 1) \/ Gone(f, v)' \/ \E q \in Places3(f) : Has(q, v)'
    /\ \A f \in Files : IsText(Legacy(f))' /\ IsText(Json5(f))' =>
        /\ disk'[Legacy(f)] = disk[Legacy(f)] /\ IsText(Json5(f))

\* One version more, or two.
LEMMA NewRange ==
    ASSUME NEW n \in Nat, NEW m, m \in {n + 1, n + 2}
    PROVE  /\ \A v \in 0..(n + 1) : v # n + 2 /\ v # m + 1
           /\ m \in Nat
OBVIOUS

\* A step that writes no config file is careful.
LEMMA CarefulSame ==
    ASSUME TypeInv, UNCHANGED <<disk, kept, outrun>>, edits' \in {edits, edits + 1}
    PROVE  Careful
<1>1. \A f \in Files : \A v : v \in 0..(edits + 1) \/ Gone(f, v)'
  BY DEF TypeInv, Gone
<1>. QED  BY <1>1 DEF Careful, Gone, Has, IsText

\* A new version at q, over the one that was there, and perhaps over one in between.
Overwrites(f, q, b) ==
    /\ Put(q, b) /\ b.t = "text" /\ b.v = edits' + 1 /\ edits' \in {edits + 1, edits + 2}
    /\ outrun \subseteq outrun'
    /\ kept' \subseteq kept \cup {<<f, v>> : v \in {edits + 2, edits' + 1}}
    /\ f \in outrun' \/ kept' \subseteq kept \cup {<<f, edits' + 1>>}
    /\ IsText(q) => <<f, disk[q].v>> \notin kept' \/ disk[q].v \in {edits + 2, edits' + 1}
    /\ q = Legacy(f) => ~IsText(Json5(f))
    /\ q = Json5(f) => IsText(Json5(f))

\* It is careful.
LEMMA CarefulWrite ==
    ASSUME DiskInv, TypeInv, NEW f \in Files, NEW q \in Places3(f), NEW b, Overwrites(f, q, b)
    PROVE  Careful
<1>. USE DEF Overwrites
<1>1. q \in Paths /\ Sets(q, b) /\ edits \in Nat
  BY PlacesOfOne, PutSets DEF TypeInv
<1>2. disk'[q] = b /\ \A r \in Paths \ {q} : disk'[r] = disk[r]
  BY <1>1 DEF Sets
<1>3. \A v \in 0..(edits + 1) : v # edits + 2 /\ v # edits' + 1
  BY <1>1, NewRange
<1>4. ASSUME NEW g \in Files, NEW v \in 0..(edits + 1), Gone(g, v) PROVE Gone(g, v)'
  <2>1. <<g, v>> \notin {<<f, w>> : w \in {edits + 2, edits' + 1}}
    BY <1>3
  <2>. QED  BY <1>4, <2>1 DEF Gone
<1>5. ASSUME NEW g \in Files, NEW v \in 0..(edits + 1), NEW r \in Places3(g), Has(r, v)
      PROVE  Has(r, v)' \/ Gone(g, v)'
  <2>1. CASE r = q
    <3>1. g = f /\ IsText(q) /\ disk[q].v = v
      BY <1>5, <2>1, PlacesOfOne DEF Has, IsText
    <3>2. <<f, v>> \notin kept'
      BY <1>3, <3>1
    <3>. QED  BY <3>1, <3>2 DEF Gone
  <2>2. CASE r # q
    BY <1>2, <1>5, <2>2, PlacesOfOne DEF Has
  <2>. QED  BY <2>1, <2>2
<1>6. ASSUME NEW g \in Files, NEW v \in 0..(edits' + 1), v \notin 0..(edits + 1), ~Gone(g, v)'
      PROVE  \E r \in Places3(g) : Has(r, v)'
  <2>1. <<g, v>> \notin kept /\ <<g, v>> \in kept' /\ g \notin outrun'
    BY <1>6 DEF TypeInv, Gone
  <2>2. g = f
    BY <2>1
  <2>3. <<g, v>> = <<f, edits' + 1>>
    BY <2>1, <2>2
  <2>. QED  BY <1>2, <2>2, <2>3 DEF Has
<1>7. ASSUME NEW g \in Files, IsText(Legacy(g))', IsText(Json5(g))'
      PROVE  disk'[Legacy(g)] = disk[Legacy(g)] /\ IsText(Json5(g))
  <2>1. Legacy(g) \in Paths /\ Json5(g) \in Paths /\ Legacy(g) \in Places3(g) /\ Json5(g) \in Places3(g)
        /\ Legacy(g) # Json5(g)
    BY PathFacts DEF Places3
  <2>2. IsText(Json5(g))
    BY <1>2, <1>7, <2>1, PlacesOfOne DEF IsText
  <2>3. q # Legacy(g)
    BY <2>1, <2>2, PlacesOfOne
  <2>. QED  BY <1>2, <2>1, <2>2, <2>3
<1>. QED  BY <1>4, <1>5, <1>6, <1>7 DEF Careful

\* The user at an editor is: what is overwritten is not kept.
LEMMA CarefulSaves ==
    ASSUME DiskInv, TypeInv, Saves
    PROVE  Careful
<1>1. edits \in Nat
  BY DEF TypeInv
<1>2. ASSUME NEW f \in Files, Edit(f) PROVE Careful
  <2>1. /\ Current(f) \in Places3(f) /\ IsText(Current(f)) /\ edits' = edits + 1
        /\ kept' = {w \in kept : w # <<f, disk[Current(f)].v>>} \cup {<<f, edits + 2>>}
        /\ \E b : /\ Put(Current(f), b) /\ b.t = "text" /\ b.v = edits + 2
    BY <1>1, <1>2, EditEffect
  <2>2. PICK q \in Places3(f) : q = Current(f)
    BY <2>1
  <2>3. q = Legacy(f) => ~IsText(Json5(f))
    <3>1. Legacy(f) # Json5(f) /\ Legacy(f) # Toml(f) /\ Json5(f) \in Places3(f)
      BY PathFacts DEF Places3
    <3>2. q = Legacy(f) => ~Exists(Json5(f))
      BY <2>2, <3>1 DEF Current
    <3>3. IsText(Json5(f)) => Exists(Json5(f))
      BY Bodies DEF IsText, Exists, Body, Deref
    <3>. QED  BY <3>2, <3>3
  <2>4. outrun' = outrun
    BY SavesFrame
  <2>5. edits' + 1 = edits + 2 /\ edits' \in {edits + 1, edits + 2}
    BY <1>1, <2>1
  <2>6. /\ kept' \subseteq kept \cup {<<f, v>> : v \in {edits + 2, edits' + 1}}
        /\ kept' \subseteq kept \cup {<<f, edits' + 1>>}
        /\ <<f, disk[q].v>> \notin kept' \/ disk[q].v \in {edits + 2, edits' + 1}
    BY <2>1, <2>2, <2>5
  <2>7. PICK b : Put(q, b) /\ b.t = "text" /\ b.v = edits' + 1
    BY <2>1, <2>2, <2>5
  <2>8. q = Json5(f) => IsText(Json5(f))
    BY <2>1, <2>2
  <2>9. Overwrites(f, q, b)
    BY <2>3, <2>4, <2>5, <2>6, <2>7, <2>8, Zenon DEF Overwrites
  <2>. QED  BY <2>9, CarefulWrite
<1>3. ASSUME NEW f \in Files, NEW q \in Paths, Tidy(f, q) PROVE Careful
  <2>1. /\ q \in Places3(f) /\ Put(q, Nothing) /\ kept' = kept \ {<<f, disk[q].v>>}
        /\ edits' = edits /\ outrun' = outrun
    BY <1>3 DEF Tidy, Places3, Put, bounds
  <2>2. disk'[q] = Nothing /\ \A r \in Paths \ {q} : disk'[r] = disk[r]
    BY <2>1, PutSets DEF Sets
  <2>3. \A g, v : Gone(g, v) => Gone(g, v)'
    BY <2>1 DEF Gone
  <2>4. ASSUME NEW g \in Files, NEW v, NEW r \in Places3(g), Has(r, v)
        PROVE  Has(r, v)' \/ Gone(g, v)'
    <3>1. CASE r = q
      <4>1. g = f /\ disk[q].v = v
        BY <2>1, <2>4, <3>1, PlacesOfOne DEF Has
      <4>. QED  BY <2>1, <4>1 DEF Gone
    <3>2. CASE r # q
      BY <2>2, <2>4, <3>2, PlacesOfOne DEF Has
    <3>. QED  BY <3>1, <3>2
  <2>5. \A g \in Files : IsText(Legacy(g))' /\ IsText(Json5(g))' =>
           disk'[Legacy(g)] = disk[Legacy(g)] /\ IsText(Json5(g))
    BY <2>2, PathFacts, Bodies DEF IsText
  <2>. QED  BY <2>1, <2>3, <2>4, <2>5 DEF Careful
<1>4. ASSUME NEW d \in Dotfiles, EditDotfile(d) PROVE Careful
  <2>1. PICK new : Put(Dot(d), Lined(new))
    BY <1>4, DotfileEdits
  <2>2. edits' = edits + 1 /\ UNCHANGED <<kept, outrun>>
    BY <1>4 DEF EditDotfile
  <2>3. \A f \in Files : \A q \in Places3(f) : disk'[q] = disk[q]
    BY <2>1, PathFacts, PutSets, SetsDot
  <2>4. \A f \in Files : \A v : v \in 0..(edits + 1) \/ Gone(f, v)'
    BY <2>2 DEF TypeInv, Gone
  <2>5. \A f \in Files : \A v : (Gone(f, v) => Gone(f, v)') /\ \A q \in Places3(f) : Has(q, v) => Has(q, v)'
    BY <2>2, <2>3 DEF Gone, Has
  <2>6. \A f \in Files : disk'[Legacy(f)] = disk[Legacy(f)] /\ (IsText(Json5(f))' => IsText(Json5(f)))
    BY <2>3 DEF Places3, IsText
  <2>. QED  BY <2>4, <2>5, <2>6 DEF Careful
<1>. QED  BY <1>2, <1>3, <1>4 DEF Saves

\* So are the commands.
LEMMA CarefulTypes ==
    ASSUME DiskInv, TypeInv, ShimInv, Types
    PROVE  Careful
<1>1. CASE WritesNothing
  BY <1>1, CarefulSame DEF WritesNothing
<1>2. CASE WritesConfig
  <2>1. PICK wraps \in SUBSET Binaries, dir \in DirValues : edit_config(wraps, dir)
    BY <1>2 DEF WritesConfig
  <2>2. PICK b : b = Text(Config, edits' + 1, TRUE, wraps, dir)
    OBVIOUS
  <2>3. /\ Put(Toml(Config), b) /\ edits' \in {edits + 1, edits + 2} /\ outrun \subseteq outrun'
        /\ kept' \subseteq kept \cup {<<Config, v>> : v \in {edits + 2, edits' + 1}}
        /\ Config \in outrun' \/ kept' \subseteq kept \cup {<<Config, edits' + 1>>}
        /\ Exists(Toml(Config)) => <<Config, disk[Toml(Config)].v>> \notin kept'
                    \/ disk[Toml(Config)].v \in {edits + 2, edits' + 1}
    BY <2>1, <2>2, EditConfigEffect DEF TypeInv
  <2>4. b.t = "text" /\ b.v = edits' + 1
    BY <2>2 DEF Text
  <2>5. /\ Config \in Files /\ Toml(Config) \in Places3(Config)
        /\ Toml(Config) # Legacy(Config) /\ Toml(Config) # Json5(Config)
    BY HostAssumption, PathFacts DEF Places3
  <2>6. IsText(Toml(Config)) => Exists(Toml(Config))
    BY <2>5, DiskKinds, Bodies DEF Exists, Body, Deref, IsText
  <2>7. Overwrites(Config, Toml(Config), b)
    BY <2>3, <2>4, <2>5, <2>6, Zenon DEF Overwrites
  <2>. QED  BY <2>5, <2>7, CarefulWrite
<1>3. CASE WritesDotfile
  <2>1. /\ outrun \subseteq outrun' /\ kept' = kept /\ edits' \in {edits, edits + 1}
        /\ \E d \in Dotfiles : \E new : Put(Dot(d), Lined(new))
    BY <1>3, TypesWrites DEF WritesDotfile, OwnStays
  <2>2. \A f \in Files : \A q \in Places3(f) : disk'[q] = disk[q]
    BY <2>1, PathFacts, PutSets, SetsDot
  <2>3. \A f \in Files : \A v : (Gone(f, v) => Gone(f, v)') /\ \A q \in Places3(f) : Has(q, v) => Has(q, v)'
    BY <2>1, <2>2 DEF Gone, Has
  <2>4. \A f \in Files : disk'[Legacy(f)] = disk[Legacy(f)] /\ (IsText(Json5(f))' => IsText(Json5(f)))
    BY <2>2 DEF Places3, IsText
  <2>5. \A f \in Files : \A v : v \in 0..(edits + 1) \/ Gone(f, v)'
    BY <2>1 DEF TypeInv, Gone
  <2>. QED  BY <2>3, <2>4, <2>5 DEF Careful
<1>. QED  BY <1>1, <1>2, <1>3, TypesWrites

\* WorkParts, after a step.
LEMMA WorkPartsNext ==
    ASSUME Straight'
    PROVE  WorkInv' <=>
             /\ \A f \in Files, v \in 0..(edits' + 1) : Somewhere(f, v)'
             /\ \A f \in Files : Beside(f)'
             /\ place'[Terminal] \in {"prompt", "rescue"} => \A f \in Files : ReadAt(f)'
             /\ place'[Terminal] \in {"drop", "put", "forward", "level"} =>
                    SavedLive' /\ SavedStale' /\ \A f \in Files : LeftAt(f)'
<1>1. \A f : Beside(f)' <=>
        (IsText(Legacy(f)) /\ IsText(Json5(f)) =>
            \/ Gone(f, disk[Legacy(f)].v) \/ Safe(f, disk[Legacy(f)].v)
            \/ disk[Json5(f)].v = disk[Legacy(f)].v)'
  BY DEF Beside
<1>2. \A f, v : Somewhere(f, v)' <=> (Gone(f, v) \/ Safe(f, v) \/ \E q \in Places3(f) : Has(q, v))'
  BY DEF Somewhere
<1>3. \A f : ReadAt(f)' <=>
        (/\ Legacy(f) \in DOMAIN Plan.entries
         /\ Plan.entries[Legacy(f)].live = Json5(f)
         /\ Plan.seen[Legacy(f)].t = "text"
         => /\ Plan.seen[Legacy(f)].v \in 0..(edits + 1)
            /\ \/ Gone(f, Plan.seen[Legacy(f)].v) \/ Safe(f, Plan.seen[Legacy(f)].v)
               \/ Has(Json5(f), Plan.seen[Legacy(f)].v) \/ Has(Toml(f), Plan.seen[Legacy(f)].v))'
  BY DEF ReadAt, Moved
<1>4. \A f : LeftAt(f)' <=>
        (/\ Legacy(f) \in DOMAIN Plan.entries \cap Plan.left
         /\ Plan.entries[Legacy(f)].live = Json5(f)
         /\ IsText(Legacy(f))
         => \/ Gone(f, disk[Legacy(f)].v) \/ Safe(f, disk[Legacy(f)].v)
            \/ Has(Json5(f), disk[Legacy(f)].v) \/ Has(Toml(f), disk[Legacy(f)].v))'
  BY DEF LeftAt, Moved
<1>. HIDE DEF Beside, Somewhere, ReadAt, LeftAt
<1>. QED  BY <1>1, <1>2, <1>3, <1>4 DEF WorkInv, SavedLive, SavedStale

\* A migration loses no file outside the legacy directory, and where a file is
\* both in it and at the root the two are as they were, or equal.
LEMMA MigratesForward ==
    ASSUME LockInv, DiskInv, MigInv, NEW p \in Processes, Migrates(p), NEW g \in Files
    PROVE  /\ \A v : Has(Json5(g), v) \/ Has(Toml(g), v) =>
                        Has(Json5(g), v)' \/ Has(Toml(g), v)'
           /\ IsText(Legacy(g))' /\ IsText(Json5(g))' =>
                 \/ disk'[Json5(g)] = disk'[Legacy(g)]
                 \/ disk'[Legacy(g)] = disk[Legacy(g)] /\ disk'[Json5(g)] = disk[Json5(g)]
<1>. DEFINE Onward(f) ==
              /\ \A v : Has(Json5(f), v) \/ Has(Toml(f), v) =>
                           Has(Json5(f), v)' \/ Has(Toml(f), v)'
              /\ IsText(Legacy(f))' /\ IsText(Json5(f))' =>
                    \/ disk'[Json5(f)] = disk'[Legacy(f)]
                    \/ disk'[Legacy(f)] = disk[Legacy(f)] /\ disk'[Json5(f)] = disk[Json5(f)]
<1>1. /\ LockAt(p) /\ MigAt(p) /\ DOMAIN disk = Paths /\ place[p] \in Moving
  BY MigratesFrame DEF LockInv, DiskInv, MigInv
<1>2. /\ Legacy(g) \in Paths /\ Json5(g) \in Paths /\ Toml(g) \in Paths
      /\ Legacy(g) # Json5(g) /\ Json5(g) # Toml(g) /\ Legacy(g) # Toml(g)
      /\ Nothing.t # "text" /\ Link.t # "text"
  BY PathFacts, Bodies
<1>3. ASSUME UNCHANGED disk PROVE Onward(g)
  BY <1>3 DEF Has
<1>4. ASSUME NEW q \in Paths, NEW b, Put(q, b), q # Json5(g), q # Toml(g),
             q = Legacy(g) => b.t # "text"
      PROVE  Onward(g)
  <2>1. disk'[q] = b /\ \A r \in Paths \ {q} : disk'[r] = disk[r]
    BY <1>4, PutSets DEF Sets
  <2>. QED  BY <1>2, <1>4, <2>1 DEF Has, IsText
<1>5. CASE migrate_config_file(p)
  <2>1. PICK f \in Files : f = FileSeq[at[p].i]
    BY <1>5, SeqFacts DEF migrate_config_file
  <2>2. UNCHANGED disk \/ (Put(Json5(f), disk[Legacy(f)]) /\ disk[Json5(f)] = Nothing)
    BY <1>5, <2>1, Zenon DEF migrate_config_file
  <2>3. ASSUME Put(Json5(f), disk[Legacy(f)]), disk[Json5(f)] = Nothing PROVE Onward(g)
    <3>1. Json5(f) \in Paths /\ Json5(f) # Legacy(g) /\ Json5(f) # Toml(g)
      BY PathFacts
    <3>2. disk'[Json5(f)] = disk[Legacy(f)] /\ \A r \in Paths \ {Json5(f)} : disk'[r] = disk[r]
      BY <2>3, <3>1, PutSets DEF Sets
    <3>3. CASE f = g
      BY <1>2, <2>3, <3>2, <3>3 DEF Has, IsText
    <3>4. CASE f # g
      <4>1. Json5(f) # Json5(g)
        BY <3>4, PathFacts
      <4>. QED  BY <1>2, <3>1, <3>2, <4>1 DEF Has, IsText
    <3>. QED  BY <3>3, <3>4
  <2>. QED  BY <1>3, <2>2, <2>3
<1>6. CASE RemoveOld(p)
  <2>1. PICK f \in Files : f = FileSeq[at[p].i]
    BY <1>1, <1>6, SeqFacts DEF RemoveOld, LockAt
  <2>2. Put(Legacy(f), Nothing)
    BY <1>1, <1>6, <2>1 DEF RemoveOld
  <2>3. Legacy(f) \in Paths /\ Legacy(f) # Json5(g) /\ Legacy(f) # Toml(g)
    BY PathFacts
  <2>. QED  BY <1>2, <1>4, <2>2, <2>3
<1>7. CASE ensure_symlink(p)
  <2>1. PICK f \in Files : f = FileSeq[at[p].i]
    BY <1>1, <1>7, SeqFacts DEF ensure_symlink, LockAt
  <2>2. UNCHANGED disk \/ Put(Legacy(f), Link)
    BY <1>7, <2>1 DEF ensure_symlink
  <2>3. Legacy(f) \in Paths /\ Legacy(f) # Json5(g) /\ Legacy(f) # Toml(g)
    BY PathFacts
  <2>. QED  BY <1>2, <1>3, <1>4, <2>2, <2>3
<1>8. CASE rewrite_in_place(p)
  <2>1. PICK e \in Dotfiles : e = DotSeq[at[p].i]
    BY <1>1, <1>8, SeqFacts DEF rewrite_in_place, LockAt
  <2>2. UNCHANGED disk \/ \E ls : Put(Dot(e), Lined(ls))
    BY <1>8, <2>1 DEF rewrite_in_place, Rewrite
  <2>3. Dot(e) \in Paths /\ Dot(e) # Json5(g) /\ Dot(e) # Toml(g) /\ Dot(e) # Legacy(g)
    BY PathFacts
  <2>. QED  BY <1>3, <1>4, <2>2, <2>3
<1>9. CASE convert(p)
  <2>1. PICK f \in Files : f = FileSeq[at[p].i]
    BY <1>9, SeqFacts DEF convert
  <2>2. Toml(f) \in Places3(f) /\ Toml(f) \in Paths /\ Toml(f) # Json5(g) /\ Toml(f) # Legacy(g)
    BY PathFacts DEF Places3
  <2>3. disk[Toml(f)] # Link
    BY <2>2, DiskKinds, PathFacts
  <2>4. UNCHANGED disk \/ (Put(Toml(f), disk[Json5(f)]) /\ ~Exists(Toml(f)))
    BY <1>9, <2>1, Zenon DEF convert
  <2>5. ~Exists(Toml(f)) => disk[Toml(f)] = Nothing
    BY <2>3 DEF Exists, Body, Deref
  <2>6. ASSUME Put(Toml(f), disk[Json5(f)]), disk[Toml(f)] = Nothing PROVE Onward(g)
    <3>1. disk'[Toml(f)] = disk[Json5(f)] /\ \A r \in Paths \ {Toml(f)} : disk'[r] = disk[r]
      BY <2>2, <2>6, PutSets DEF Sets
    <3>. QED  BY <1>2, <2>2, <2>6, <3>1 DEF Has, IsText
  <2>. QED  BY <1>3, <2>4, <2>5, <2>6
<1>10. CASE RemoveFrom(p)
  <2>1. PICK f \in Files : f = FileSeq[at[p].i]
    BY <1>1, <1>10, SeqFacts DEF RemoveFrom, LockAt
  <2>2. Put(Json5(f), Nothing) /\ disk[Toml(f)] = disk[Json5(f)]
    BY <1>1, <1>10, <2>1 DEF RemoveFrom, MigAt
  <2>3. Json5(f) \in Paths /\ Json5(f) # Toml(g) /\ Json5(f) # Legacy(g)
    BY PathFacts
  <2>4. disk'[Json5(f)] = Nothing /\ \A r \in Paths \ {Json5(f)} : disk'[r] = disk[r]
    BY <2>2, <2>3, PutSets DEF Sets
  <2>5. CASE f = g
    BY <1>2, <2>2, <2>4, <2>5 DEF Has, IsText
  <2>6. CASE f # g
    <3>1. Json5(f) # Json5(g)
      BY <2>6, PathFacts
    <3>. QED  BY <1>2, <2>3, <2>4, <3>1 DEF Has, IsText
  <2>. QED  BY <2>5, <2>6
<1>11. CASE clear_legacy_symlinks(p)
  <2>1. \A q \in Paths : disk'[q] = IF disk[q] = Link THEN Nothing ELSE disk[q]
    BY <1>11 DEF clear_legacy_symlinks
  <2>. QED  BY <1>2, <2>1 DEF Has, IsText
<1>12. CASE \/ snapshot_if_absent(p) \/ migrate_audit_log(p) \/ ReadBlock(p)
            \/ clean_legacy_runtime_dir(p) \/ record_post_state(p) \/ Stamp(p)
  BY <1>3, <1>12 DEF snapshot_if_absent, migrate_audit_log, ReadBlock, clean_legacy_runtime_dir,
                record_post_state, Stamp
<1>. QED  BY <1>5, <1>6, <1>7, <1>8, <1>9, <1>10, <1>11, <1>12 DEF Migrates

\* The version of a config file that is at one of its places.
LEMMA VersionAt ==
    ASSUME DiskInv, NEW f \in Files, NEW q \in Places3(f), IsText(q)
    PROVE  disk[q].v \in 0..(edits + 1) /\ Has(q, disk[q].v)
BY DiskKinds, TextFields DEF Has, IsText

\* What is read of the legacy file for the plan of a restore that will also
\* remove the one at the root.
LEMMA ReadFresh ==
    ASSUME LockInv, DiskInv, TypeInv, NEW l \in 0..2, restore_in(Terminal, l),
           NEW f \in Files, Beside(f)
    PROVE  ReadAt(f)'
<1>1. PICK t \in Processes : t = Terminal
  BY MigrationAssumption
<1>2. PICK P : P = PlanOf(l)
  OBVIOUS
<1>3. Plan' = P /\ UNCHANGED <<disk, snaps, saved, kept, outrun, edits>>
  BY <1>1, <1>2 DEF restore_in, Plan, TypeInv, history
<1>4. SUFFICES ASSUME Legacy(f) \in DOMAIN P.entries, P.entries[Legacy(f)].live = Json5(f),
                      P.seen[Legacy(f)].t = "text"
               PROVE  P.seen[Legacy(f)].v \in 0..(edits' + 1) /\ Moved(f, P.seen[Legacy(f)].v)'
  BY <1>3, Zenon DEF ReadAt
<1>5. /\ Legacy(f) \in Places3(f) /\ Json5(f) \in Places3(f) /\ Json5(f) # Legacy(f)
      /\ Legacy(f)[2] = f
  BY PathFacts DEF Places3
<1>6. P.seen[Legacy(f)] = disk[Legacy(f)] /\ live_path(Legacy(f)) = Json5(f)
  BY <1>2, <1>4 DEF PlanOf
<1>7. Exists(Json5(f))
  BY <1>5, <1>6 DEF live_path
<1>8. IsText(Legacy(f)) /\ IsText(Json5(f))
  BY <1>4, <1>5, <1>6, <1>7, DiskKinds DEF Exists, Body, Deref, IsText
<1>9. PICK v \in 0..(edits + 1) : v = disk[Legacy(f)].v
  BY <1>5, <1>8, VersionAt
<1>10. Moved(f, v)
  BY <1>8, <1>9 DEF Beside, Moved, Has, IsText
<1>11. Moved(f, v)'
  <2>1. Safe(f, v)' <=> Safe(f, v)
    BY <1>3 DEF Safe, Snap, InRescues
  <2>. QED  BY <1>3, <1>10, <2>1 DEF Moved, Gone, Has
<1>. QED  BY <1>3, <1>6, <1>9, <1>11

\* A version stays where it is safe from a restore.
LEMMA MovedStays ==
    ASSUME InRescues \subseteq InRescues',
           \A l \in 0..2 : snaps[l] # <<>> => snaps'[l] # <<>> /\ Snap(l)' = Snap(l),
           NEW f, NEW v, Moved(f, v), Gone(f, v) => Gone(f, v)',
           Has(Json5(f), v) \/ Has(Toml(f), v) =>
               Gone(f, v)' \/ Has(Json5(f), v)' \/ Has(Toml(f), v)'
    PROVE  Moved(f, v)'
<1>1. Safe(f, v) => Safe(f, v)'
  BY SafeStays
<1>. QED  BY <1>1 DEF Moved

\* What is written beside a restore's plan.
LEMMA WorkSteps ==
    ASSUME HInv, HostNext, ~Restores, Straight, NEW f \in Files
    PROVE  /\ \A v \in 0..(edits' + 1) : Somewhere(f, v)'
           /\ Beside(f)'
           /\ \A v \in 0..(edits + 1) : Moved(f, v) => Moved(f, v)'
<1>1. /\ LockInv /\ DiskInv /\ TypeInv /\ MigInv /\ ShimInv /\ InRescues \subseteq InRescues'
      /\ \A v \in 0..(edits + 1) : Somewhere(f, v)
      /\ Beside(f)
  BY OthersFrame, WorkParts DEF HInv, InRescues
<1>2. \A l \in 0..2 : snaps[l] # <<>> => snaps'[l] # <<>> /\ Snap(l)' = Snap(l)
  BY SnapHolds
<1>3. \A v : Safe(f, v) => Safe(f, v)'
  BY <1>1, <1>2, SafeStays
<1>4. /\ Legacy(f) \in Places3(f) /\ Json5(f) \in Places3(f) /\ Toml(f) \in Places3(f)
  BY DEF Places3
<1>5. ASSUME Careful
      PROVE  /\ \A v \in 0..(edits' + 1) : Somewhere(f, v)'
             /\ Beside(f)'
             /\ \A v \in 0..(edits + 1) : Moved(f, v) => Moved(f, v)'
  <2>1. ASSUME NEW v \in 0..(edits + 1)
        PROVE  /\ Gone(f, v) => Gone(f, v)'
               /\ \A q \in Places3(f) : Has(q, v) => Has(q, v)' \/ Gone(f, v)'
    BY <1>5, <2>1 DEF Careful
  <2>2. ASSUME NEW v \in 0..(edits' + 1) PROVE Somewhere(f, v)'
    <3>1. CASE v \in 0..(edits + 1)
      <4>1. Somewhere(f, v)
        BY <1>1, <3>1
      <4>. QED  BY <1>3, <2>1, <3>1, <4>1 DEF Somewhere
    <3>2. CASE v \notin 0..(edits + 1)
      <4>1. Gone(f, v)' \/ \E q \in Places3(f) : Has(q, v)'
        BY <1>5, <2>2, <3>2 DEF Careful
      <4>. QED  BY <4>1 DEF Somewhere
    <3>. QED  BY <3>1, <3>2
  <2>3. ASSUME IsText(Legacy(f))', IsText(Json5(f))'
        PROVE  \/ Gone(f, disk[Legacy(f)].v)' \/ Safe(f, disk[Legacy(f)].v)'
               \/ disk'[Json5(f)].v = disk'[Legacy(f)].v
    <3>1. disk'[Legacy(f)] = disk[Legacy(f)] /\ IsText(Json5(f)) /\ IsText(Legacy(f))
      BY <1>5, <2>3 DEF Careful, IsText
    <3>2. PICK v \in 0..(edits + 1) : v = disk[Legacy(f)].v
      BY <1>1, <1>4, <3>1, VersionAt
    <3>3. Gone(f, v) \/ Safe(f, v) \/ Has(Json5(f), v)
      BY <1>1, <3>1, <3>2 DEF Beside, Has, IsText
    <3>4. Gone(f, v)' \/ Safe(f, v)' \/ Has(Json5(f), v)'
      BY <1>3, <1>4, <2>1, <3>3
    <3>. QED  BY <3>1, <3>2, <3>4 DEF Has, Gone, Safe
  <2>4. Beside(f)'
    BY <2>3 DEF Beside
  <2>5. ASSUME NEW v \in 0..(edits + 1), Moved(f, v) PROVE Moved(f, v)'
    BY <1>1, <1>2, <1>4, <2>1, <2>5, MovedStays
  <2>. QED  BY <2>2, <2>4, <2>5
<1>6. ASSUME NEW p \in Processes, Migrates(p)
      PROVE  /\ \A v \in 0..(edits' + 1) : Somewhere(f, v)'
             /\ Beside(f)'
             /\ \A v \in 0..(edits + 1) : Moved(f, v) => Moved(f, v)'
  <2>1. kept' = kept /\ outrun \subseteq outrun'
    BY <1>1, <1>6, MigratesFrame DEF OwnStays
  <2>2. TextsAt(f)' = TextsAt(f)
    BY <1>1, <1>6, MigratesTexts
  <2>3. \A v : Gone(f, v) => Gone(f, v)'
    BY <2>1 DEF Gone
  <2>4. ASSUME NEW v \in 0..(edits' + 1) PROVE Somewhere(f, v)'
    <3>1. Somewhere(f, v)
      BY <1>1 DEF TypeInv, Somewhere, Gone
    <3>2. (\E q \in Places3(f) : Has(q, v)) => (\E q \in Places3(f) : Has(q, v))'
      BY <2>2, TextsAtHas, TextsAtHasNext
    <3>. QED  BY <1>3, <2>3, <3>1, <3>2 DEF Somewhere
  <2>5. /\ \A v : Has(Json5(f), v) \/ Has(Toml(f), v) =>
                        Has(Json5(f), v)' \/ Has(Toml(f), v)'
        /\ IsText(Legacy(f))' /\ IsText(Json5(f))' =>
                 \/ disk'[Json5(f)] = disk'[Legacy(f)]
                 \/ disk'[Legacy(f)] = disk[Legacy(f)] /\ disk'[Json5(f)] = disk[Json5(f)]
    BY <1>1, <1>6, MigratesForward
  <2>6. Beside(f)'
    <3>1. SUFFICES ASSUME IsText(Legacy(f))', IsText(Json5(f))',
                          disk'[Legacy(f)] = disk[Legacy(f)], disk'[Json5(f)] = disk[Json5(f)]
                   PROVE  Beside(f)'
      BY <2>5 DEF Beside
    <3>2. PICK v : v = disk[Legacy(f)].v
      OBVIOUS
    <3>3. Gone(f, v) \/ Safe(f, v) \/ disk[Json5(f)].v = v
      BY <1>1, <3>1, <3>2 DEF Beside, IsText
    <3>4. Gone(f, v)' \/ Safe(f, v)' \/ disk'[Json5(f)].v = v
      BY <1>3, <2>3, <3>1, <3>3
    <3>. QED  BY <3>1, <3>2, <3>4 DEF Beside, Gone, Safe
  <2>7. ASSUME NEW v \in 0..(edits + 1), Moved(f, v) PROVE Moved(f, v)'
    BY <1>1, <1>2, <2>3, <2>5, <2>7, MovedStays
  <2>. QED  BY <2>4, <2>6, <2>7
<1>7. ASSUME NEW p \in Processes, Exits(p) PROVE Careful
  <2>. QED  BY <1>1, <1>7, ExitsFrame, CarefulSame
<1>8. ASSUME NEW s \in ShimDirs, NEW b \in Binaries, DropForeign(s, b) PROVE Careful
  <2>. QED  BY <1>1, <1>8, ForeignFrame, CarefulSame
<1>9. Saves \/ Types => Careful
  BY <1>1, CarefulSaves, CarefulTypes
<1>10. CASE \E p \in Processes : Migrates(p)
  BY <1>6, <1>10
<1>11. CASE \/ \E p \in Processes : Exits(p)
            \/ \E s \in ShimDirs, b \in Binaries : DropForeign(s, b)
            \/ Saves \/ Types
  BY <1>5, <1>7, <1>8, <1>9, <1>11
<1>. QED  BY <1>1, <1>10, <1>11, HostSteps

\* No step but a restore's loses a version.
LEMMA WorkOthers ==
    ASSUME HInv, HostNext, ~Restores
    PROVE  WorkInv'
<1>0. LockInv /\ DiskInv /\ SnapInv /\ TypeInv /\ WorkInv
  BY DEF HInv
<1>1. SUFFICES ASSUME Straight'
               PROVE  WorkInv'
  BY DEF WorkInv, Straight
<1>2. Straight /\ UNCHANGED <<torn, undone, saved>>
  BY <1>0, <1>1, OthersFrame DEF Straight
<1>3. /\ \A f \in Files : Beside(f)
      /\ place[Terminal] \in {"prompt", "rescue"} => \A f \in Files : ReadAt(f)
      /\ place[Terminal] \in {"drop", "put", "forward", "level"} =>
             SavedLive /\ SavedStale /\ \A f \in Files : LeftAt(f)
  BY <1>0, <1>2, WorkParts
<1>4. /\ \A f \in Files, v \in 0..(edits' + 1) : Somewhere(f, v)'
      /\ \A f \in Files : Beside(f)'
      /\ \A f \in Files, v \in 0..(edits + 1) : Moved(f, v) => Moved(f, v)'
  BY <1>2, WorkSteps
<1>5. ASSUME place'[Terminal] \in {"prompt", "rescue"}, NEW f \in Files PROVE ReadAt(f)'
  <2>1. CASE \E l \in 0..2 : restore_in(Terminal, l)
    BY <1>0, <1>3, <2>1, ReadFresh
  <2>2. CASE ~\E l \in 0..2 : restore_in(Terminal, l)
    <3>1. Asked'
      BY <1>5 DEF Asked, Putting
    <3>2. Plan' = Plan /\ place[Terminal] \in {"prompt", "rescue"}
      BY <1>0, <1>5, <2>2, <3>1, AskedBefore
    <3>3. PICK P : P = Plan
      OBVIOUS
    <3>4. SUFFICES ASSUME Legacy(f) \in DOMAIN P.entries, P.entries[Legacy(f)].live = Json5(f),
                          P.seen[Legacy(f)].t = "text"
                   PROVE  P.seen[Legacy(f)].v \in 0..(edits' + 1) /\ Moved(f, P.seen[Legacy(f)].v)'
      BY <3>2, <3>3, Zenon DEF ReadAt
    <3>5. PICK v \in 0..(edits + 1) : v = P.seen[Legacy(f)].v /\ Moved(f, v)
      BY <1>3, <3>2, <3>3, <3>4 DEF ReadAt
    <3>6. Moved(f, v)'
      BY <1>4, <3>5
    <3>7. v \in 0..(edits' + 1)
      BY <1>0, <3>5, DiskHolds, KeptGrows DEF TypeInv
    <3>. QED  BY <3>5, <3>6, <3>7
  <2>. QED  BY <2>1, <2>2
<1>6. ASSUME place'[Terminal] \in {"drop", "put", "forward", "level"}
      PROVE  SavedLive' /\ SavedStale' /\ \A f \in Files : LeftAt(f)'
  <2>1. /\ place[Terminal] = place'[Terminal] /\ Plan' = Plan
        /\ UNCHANGED <<disk, snaps, saved, kept, outrun>>
    BY <1>0, <1>6, OthersPutting DEF Plan
  <2>2. SavedLive /\ SavedStale /\ \A f \in Files : LeftAt(f)
    BY <1>3, <1>6, <2>1
  <2>3. SavedLive' /\ SavedStale'
    BY <2>1, <2>2 DEF SavedLive, SavedStale, IsText, InRescues
  <2>4. \A f, v : Moved(f, v)' <=> Moved(f, v)
    BY <2>1 DEF Moved, Gone, Safe, Has, Snap, InRescues
  <2>5. ASSUME NEW f \in Files PROVE LeftAt(f)'
    <3>1. LeftAt(f)
      BY <2>2
    <3>2. Moved(f, disk[Legacy(f)].v)' <=> Moved(f, disk[Legacy(f)].v)
      BY <2>1 DEF Moved, Gone, Safe, Has, Snap, InRescues
    <3>. QED  BY <2>1, <3>1, <3>2 DEF LeftAt, IsText
  <2>. QED  BY <2>3, <2>5
<1>. QED  BY <1>1, <1>4, <1>5, <1>6, WorkPartsNext

\* A file that a restore rescued.
LEMMA SafeSaved ==
    ASSUME DiskInv, NEW f \in Files, NEW q \in Places3(f), NEW v, Has(q, v), disk[q] \in InRescues
    PROVE  Safe(f, v)
<1>1. disk[q].t = "text" /\ disk[q].v = v /\ disk[q].f = f
  BY DiskKinds, TextFields DEF Has, IsText
<1>2. disk[q] \in InRescues \cup UNION {Range(Snap(l)) : l \in {k \in 0..2 : snaps[k] # <<>>}}
  OBVIOUS
<1>. QED  BY <1>1, <1>2 DEF Safe

\* A file goes that is rescued, or that is one of several with its version.
LEMMA RemovedSomewhere ==
    ASSUME DiskInv, NEW q \in Paths, Put(q, Nothing), UNCHANGED <<snaps, saved, kept, outrun>>,
           NEW f \in Files, NEW v, Somewhere(f, v),
           q \in Places3(f) /\ Has(q, v) =>
               Gone(f, v) \/ Safe(f, v) \/ \E r \in Places3(f) \ {q} : Has(r, v)
    PROVE  Somewhere(f, v)'
<1>1. disk'[q] = Nothing /\ \A r \in Paths \ {q} : disk'[r] = disk[r]
  BY PutSets DEF Sets
<1>2. (Gone(f, v) => Gone(f, v)') /\ (Safe(f, v) => Safe(f, v)')
  BY DEF Gone, Safe, Snap, InRescues
<1>3. \A r \in Places3(f) : r \in Paths
  BY PlacesOfOne
<1>4. (\E r \in Places3(f) \ {q} : Has(r, v)) => \E r \in Places3(f) : Has(r, v)'
  BY <1>1, <1>3 DEF Has
<1>5. Gone(f, v) \/ Safe(f, v) \/ \E r \in Places3(f) \ {q} : Has(r, v)
  BY DEF Somewhere
<1>. QED  BY <1>2, <1>4, <1>5 DEF Somewhere

\* Removing a file leaves no two real ones that were not there before.
LEMMA RemovedBeside ==
    ASSUME DiskInv, NEW q \in Paths, Put(q, Nothing), UNCHANGED <<snaps, saved, kept, outrun>>,
           NEW f \in Files, Beside(f)
    PROVE  Beside(f)'
<1>1. disk'[q] = Nothing /\ \A r \in Paths \ {q} : disk'[r] = disk[r]
  BY PutSets DEF Sets
<1>2. SUFFICES ASSUME IsText(Legacy(f))', IsText(Json5(f))'
               PROVE  Beside(f)'
  BY DEF Beside
<1>3. Legacy(f) \in Paths /\ Json5(f) \in Paths /\ Nothing.t # "text"
  BY PathFacts, Bodies
<1>4. disk'[Legacy(f)] = disk[Legacy(f)] /\ disk'[Json5(f)] = disk[Json5(f)]
  BY <1>1, <1>2, <1>3 DEF IsText
<1>5. PICK v : v = disk[Legacy(f)].v
  OBVIOUS
<1>6. Gone(f, v) \/ Safe(f, v) \/ disk[Json5(f)].v = v
  BY <1>2, <1>4, <1>5 DEF Beside, IsText
<1>7. Gone(f, v)' \/ Safe(f, v)' \/ disk'[Json5(f)].v = v
  BY <1>4, <1>6 DEF Gone, Safe, Snap, InRescues
<1>. QED  BY <1>4, <1>5, <1>7 DEF Beside, Gone, Safe

\* Saving more leaves the two as they were.
LEMMA SameBeside ==
    ASSUME UNCHANGED <<disk, snaps, kept, outrun>>, InRescues \subseteq InRescues', NEW f, Beside(f)
    PROVE  Beside(f)'
<1>1. PICK v : v = disk[Legacy(f)].v
  OBVIOUS
<1>2. Safe(f, v) => Safe(f, v)'
  <2>1. \A l \in 0..2 : snaps[l] # <<>> => snaps'[l] # <<>> /\ Snap(l)' = Snap(l)
    BY DEF Snap
  <2>. QED  BY <2>1, SafeStays
<1>3. IsText(Legacy(f)) /\ IsText(Json5(f)) => Gone(f, v) \/ Safe(f, v) \/ disk[Json5(f)].v = v
  BY <1>1 DEF Beside
<1>4. IsText(Legacy(f)) /\ IsText(Json5(f)) => Gone(f, v)' \/ Safe(f, v)' \/ disk[Json5(f)].v = v
  BY <1>2, <1>3 DEF Gone
<1>. QED  BY <1>1, <1>4 DEF Beside, Gone, Safe, IsText

\* No snapshot holds both a legacy file and one at the root.
LEMMA LegacyApart ==
    ASSUME SnapInv, PlanInv, Asked, NEW f \in Files, Legacy(f) \in DOMAIN Plan.entries
    PROVE  /\ Plan.l = 0
           /\ \A g \in Files : Json5(g) \notin DOMAIN Plan.entries /\ Toml(g) \notin DOMAIN Plan.entries
<1>1. /\ Plan.l \in 0..2 /\ \A q \in DOMAIN Plan.entries : q \in SnapPaths(Plan.l)
  BY PlanFacts
<1>2. PICK l \in 0..2 : l = Plan.l
  BY <1>1
<1>3. /\ l = 0 => SnapPaths(l) = {Legacy(g) : g \in Files}
      /\ l = 1 => SnapPaths(l) = {Dot(d) : d \in Dotfiles}
      /\ l = 2 => SnapPaths(l) = {Json5(g) : g \in Files} \cup {Toml(g) : g \in Files}
  BY SnapPathsArePaths
<1>4. l = 0
  BY <1>1, <1>2, <1>3, PathFacts
<1>. QED  BY <1>1, <1>2, <1>3, <1>4, PathFacts

\* A rescue that is not over another's adds what was read for the plan.
LEMMA RescueAdds ==
    ASSUME Rescue(Terminal), Straight', NEW P, P = Plan
    PROVE  /\ InRescues \subseteq InRescues'
           /\ \A q \in DOMAIN P.entries :
                  Exists(P.entries[q].live) => P.entries[q].body \in InRescues'
           /\ \A q \in DOMAIN P.stale : P.stale[q] \in InRescues'
<1>1. PICK second : LET new == Rescued(P, second)
                        over == {s \in saved : s.second = second /\ \E n \in new : n.name = s.name}
                    IN  /\ saved' = (saved \ over) \cup new
                        /\ over # {} => "twice" \in undone'
  BY Zenon DEF Rescue, Plan
<1>2. PICK new : new = Rescued(P, second)
  OBVIOUS
<1>3. saved' = saved \cup new
  BY <1>1, <1>2 DEF Straight
<1>4. InRescues' = InRescues \cup {s.body : s \in new}
  BY <1>3 DEF InRescues
<1>5. ASSUME NEW q \in DOMAIN P.entries, Exists(P.entries[q].live)
      PROVE  P.entries[q].body \in InRescues'
  <2>1. PICK s : s = [second |-> second, name |-> NameOf(q), body |-> P.entries[q].body]
    OBVIOUS
  <2>2. s \in new /\ s.body = P.entries[q].body
    BY <1>2, <1>5, <2>1 DEF Rescued
  <2>. QED  BY <1>4, <2>2
<1>6. ASSUME NEW q \in DOMAIN P.stale PROVE P.stale[q] \in InRescues'
  <2>1. PICK s : s = [second |-> second, name |-> q, body |-> P.stale[q]]
    OBVIOUS
  <2>2. s \in new /\ s.body = P.stale[q]
    BY <1>2, <2>1 DEF Rescued
  <2>. QED  BY <1>4, <2>2
<1>. QED  BY <1>4, <1>5, <1>6

\* What is rescued before a restore writes.
LEMMA RescueSaves ==
    ASSUME LockInv, DiskInv, SnapInv, TypeInv, PlanInv, Rescue(Terminal), Straight',
           \A f \in Files : ReadAt(f)
    PROVE  SavedLive' /\ SavedStale' /\ \A f \in Files : LeftAt(f)'
<1>1. PICK t \in Processes : t = Terminal
  BY MigrationAssumption
<1>2. place[t] = "rescue" /\ Asked
  BY <1>1 DEF Rescue, Asked, Putting
<1>3. PICK P : P = Plan
  OBVIOUS
<1>4. /\ PlanShape(P)
      /\ UNCHANGED <<disk, snaps, kept, outrun, edits>> /\ Plan' = P
  BY <1>1, <1>2, <1>3 DEF PlanInv, Rescue, Plan, bounds
<1>5. \A q \in DOMAIN P.seen : IsText(q) => disk[q] = P.seen[q]
  <2>1. ASSUME NEW q \in DOMAIN P.seen, disk[q].t = "text", disk[q] # P.seen[q] PROVE FALSE
    <3>1. \E q1 \in DOMAIN plan[t].seen : disk[q1].t = "text" /\ disk[q1] # plan[t].seen[q1]
      BY <1>1, <1>3, <2>1 DEF Plan
    <3>2. "late" \in undone'
      BY <1>1, <3>1 DEF Rescue
    <3>. QED  BY <3>2 DEF Straight
  <2>. QED  BY <2>1 DEF IsText
<1>6. /\ InRescues \subseteq InRescues'
      /\ \A q \in DOMAIN P.entries :
             Exists(P.entries[q].live) => P.entries[q].body \in InRescues'
      /\ \A q \in DOMAIN P.stale : P.stale[q] \in InRescues'
  BY <1>3, RescueAdds
<1>7. ASSUME NEW q \in DOMAIN P.entries, IsText(P.entries[q].live)
      PROVE  disk[P.entries[q].live] \in InRescues'
  <2>1. PICK e, r : e = P.entries[q] /\ r = e.live
    OBVIOUS
  <2>2. r \in DOMAIN P.seen
    BY <1>4, <2>1 DEF PlanShape
  <2>3. disk[r] = P.seen[r] /\ disk[r].t = "text"
    BY <1>5, <1>7, <2>1, <2>2 DEF IsText
  <2>4. e.body = disk[r]
    BY <1>4, <2>1, <2>3 DEF PlanShape
  <2>5. Exists(r)
    BY <2>3, Bodies DEF Exists, Body, Deref
  <2>. QED  BY <1>6, <2>1, <2>4, <2>5
<1>8. ASSUME NEW q \in DOMAIN P.stale, IsText(q) PROVE disk[q] \in InRescues'
  <2>1. q \in DOMAIN P.seen
    BY <1>4 DEF PlanShape
  <2>2. disk[q] = P.seen[q] /\ disk[q].t = "text"
    BY <1>5, <1>8, <2>1 DEF IsText
  <2>3. P.stale[q] = disk[q]
    BY <1>4, <2>2 DEF PlanShape
  <2>. QED  BY <1>6, <2>3
<1>9. SavedLive' /\ SavedStale'
  BY <1>4, <1>7, <1>8 DEF SavedLive, SavedStale, IsText
<1>10. ASSUME NEW f \in Files, Legacy(f) \in DOMAIN P.entries, P.entries[Legacy(f)].live = Json5(f),
              IsText(Legacy(f))
       PROVE  Moved(f, disk[Legacy(f)].v)'
  <2>1. Legacy(f) \in DOMAIN P.seen
    BY <1>4, <1>10 DEF PlanShape
  <2>2. disk[Legacy(f)] = P.seen[Legacy(f)] /\ P.seen[Legacy(f)].t = "text"
    BY <1>5, <1>10, <2>1 DEF IsText
  <2>3. PICK v : v = disk[Legacy(f)].v
    OBVIOUS
  <2>4. Moved(f, v)
    BY <1>3, <1>10, <2>2, <2>3 DEF ReadAt
  <2>5. \A l \in 0..2 : snaps[l] # <<>> => snaps'[l] # <<>> /\ Snap(l)' = Snap(l)
    BY <1>4 DEF Snap
  <2>6. Moved(f, v)'
    <3>1. /\ Gone(f, v) => Gone(f, v)'
          /\ Has(Json5(f), v) \/ Has(Toml(f), v) =>
               Gone(f, v)' \/ Has(Json5(f), v)' \/ Has(Toml(f), v)'
      BY <1>4 DEF Gone, Has
    <3>. QED  BY <1>6, <2>4, <2>5, <3>1, MovedStays
  <2>. QED  BY <1>4, <2>3, <2>6
<1>11. \A f \in Files : LeftAt(f)'
  BY <1>4, <1>10 DEF LeftAt, IsText
<1>. QED  BY <1>9, <1>11

\* A restore that writes, with what its rescue saved.
HasRescued == SavedLive /\ SavedStale /\ \A f \in Files : LeftAt(f)

\* A step that writes no file leaves what was rescued.
LEMMA RescuedStays ==
    ASSUME UNCHANGED <<disk, snaps, saved, kept, outrun, edits>>, Plan' = Plan, HasRescued
    PROVE  HasRescued'
<1>1. SavedLive' /\ SavedStale'
  BY DEF HasRescued, SavedLive, SavedStale, IsText, InRescues
<1>2. ASSUME NEW f \in Files PROVE LeftAt(f)'
  <2>1. LeftAt(f)
    BY DEF HasRescued
  <2>2. Moved(f, disk[Legacy(f)].v)' <=> Moved(f, disk[Legacy(f)].v)
    BY DEF Moved, Gone, Safe, Has, Snap, InRescues
  <2>. QED  BY <2>1, <2>2 DEF LeftAt, IsText
<1>. QED  BY <1>1, <1>2 DEF HasRescued

\* What a removal leaves to be removed is still rescued.
LEMMA RescuedLess ==
    ASSUME DiskInv, NEW q \in Paths, Put(q, Nothing), UNCHANGED <<snaps, saved, kept, outrun>>, HasRescued,
           Plan'.entries = Plan.entries, Plan'.stale = Plan.stale, Plan'.left \subseteq Plan.left,
           \A r \in DOMAIN Plan.entries : Plan.entries[r].live \in Paths,
           \A r \in DOMAIN Plan.stale : r \in Paths,
           \A f \in Files : Legacy(f) \in DOMAIN Plan.entries \cap Plan'.left =>
                                q # Json5(f) /\ q # Toml(f)
    PROVE  HasRescued'
<1>1. disk'[q] = Nothing /\ \A r \in Paths \ {q} : disk'[r] = disk[r]
  BY PutSets DEF Sets
<1>2. \A r \in Paths : IsText(r)' => disk'[r] = disk[r] /\ IsText(r)
  BY <1>1, Bodies DEF IsText
<1>3. SavedLive'
  BY <1>2 DEF HasRescued, SavedLive, InRescues
<1>4. SavedStale'
  BY <1>2 DEF HasRescued, SavedStale, InRescues
<1>5. ASSUME NEW f \in Files PROVE LeftAt(f)'
  <2>1. SUFFICES ASSUME Legacy(f) \in DOMAIN Plan.entries \cap Plan'.left,
                        Plan.entries[Legacy(f)].live = Json5(f), IsText(Legacy(f))'
                 PROVE  Moved(f, disk[Legacy(f)].v)'
    BY DEF LeftAt
  <2>2. Legacy(f) \in Paths /\ Json5(f) \in Paths /\ Toml(f) \in Paths
    BY PathFacts
  <2>3. disk'[Legacy(f)] = disk[Legacy(f)] /\ IsText(Legacy(f))
    BY <1>2, <2>1, <2>2
  <2>4. PICK v : v = disk[Legacy(f)].v
    OBVIOUS
  <2>5. Moved(f, v)
    BY <2>1, <2>3, <2>4 DEF HasRescued, LeftAt
  <2>6. Moved(f, v)'
    <3>1. q # Json5(f) /\ q # Toml(f)
      BY <2>1
    <3>2. disk'[Json5(f)] = disk[Json5(f)] /\ disk'[Toml(f)] = disk[Toml(f)]
      BY <1>1, <2>2, <3>1
    <3>. QED  BY <2>5, <3>2 DEF Moved, Gone, Safe, Has, Snap, InRescues
  <2>. QED  BY <2>3, <2>4, <2>6 DEF Moved, Gone, Safe, Has
<1>. QED  BY <1>3, <1>4, <1>5 DEF HasRescued

\* A removal of what is rescued.
LEMMA RemovalWorks ==
    ASSUME DiskInv, NEW q \in Paths, Put(q, Nothing), UNCHANGED <<snaps, saved, kept, outrun, edits>>,
           \A f \in Files, v \in 0..(edits + 1) : Somewhere(f, v),
           \A f \in Files : Beside(f),
           \/ ~IsText(q)
           \/ disk[q] \in InRescues
           \/ \E f \in Files : q = Legacy(f) /\ Moved(f, disk[q].v)
    PROVE  /\ \A f \in Files, v \in 0..(edits' + 1) : Somewhere(f, v)'
           /\ \A f \in Files : Beside(f)'
<1>1. ASSUME NEW f \in Files, NEW v \in 0..(edits + 1) PROVE Somewhere(f, v)'
  <2>1. ASSUME q \in Places3(f), Has(q, v)
        PROVE  Gone(f, v) \/ Safe(f, v) \/ \E r \in Places3(f) \ {q} : Has(r, v)
    <3>1. CASE disk[q] \in InRescues
      BY <2>1, <3>1, SafeSaved
    <3>2. ASSUME NEW g \in Files, q = Legacy(g), Moved(g, disk[q].v)
          PROVE  Gone(f, v) \/ Safe(f, v) \/ \E r \in Places3(f) \ {q} : Has(r, v)
      <4>1. g = f /\ disk[q].v = v
        <5>1. q \in Places3(g)
          BY <3>2 DEF Places3
        <5>. QED  BY <2>1, <5>1, PlacesOfOne DEF Has
      <4>2. Json5(f) \in Places3(f) \ {q} /\ Toml(f) \in Places3(f) \ {q}
        BY <3>2, <4>1, PathFacts DEF Places3
      <4>. QED  BY <3>2, <4>1, <4>2 DEF Moved
    <3>. QED  BY <2>1, <3>1, <3>2 DEF Has, IsText
  <2>. QED  BY <2>1, RemovedSomewhere
<1>2. \A f \in Files : Beside(f)'
  BY RemovedBeside
<1>. QED  BY <1>1, <1>2

\* A snapshot's version goes where nothing is.
LEMMA ReturnWorks ==
    ASSUME DiskInv, NEW q \in Paths, NEW b, Put(q, b), disk[q] = Nothing,
           UNCHANGED <<snaps, saved, kept, outrun, edits>>,
           \A f \in Files, v \in 0..(edits + 1) : Somewhere(f, v),
           \A f \in Files : Beside(f),
           \A f \in Files : q = Legacy(f) => Safe(f, b.v),
           \A f \in Files : q = Json5(f) => ~IsText(Legacy(f))
    PROVE  /\ \A f \in Files, v \in 0..(edits' + 1) : Somewhere(f, v)'
           /\ \A f \in Files : Beside(f)'
           /\ \A f \in Files : \A v : Moved(f, v) => Moved(f, v)'
<1>1. disk'[q] = b /\ \A r \in Paths \ {q} : disk'[r] = disk[r]
  BY PutSets DEF Sets
<1>2. \A r \in Paths : \A v : Has(r, v) => Has(r, v)'
  BY <1>1, Bodies DEF Has
<1>3. \A f, v : (Gone(f, v)' <=> Gone(f, v)) /\ (Safe(f, v)' <=> Safe(f, v))
  BY DEF Gone, Safe, Snap, InRescues
<1>4. ASSUME NEW f \in Files, NEW v \in 0..(edits + 1) PROVE Somewhere(f, v)'
  <2>1. \A r \in Places3(f) : r \in Paths
    BY PlacesOfOne
  <2>. QED  BY <1>2, <1>3, <2>1 DEF Somewhere
<1>5. ASSUME NEW f \in Files PROVE Beside(f)'
  <2>1. Legacy(f) \in Paths /\ Json5(f) \in Paths /\ Legacy(f) # Json5(f)
    BY PathFacts
  <2>2. CASE q = Legacy(f)
    <3>1. Safe(f, b.v)' /\ disk'[Legacy(f)].v = b.v
      BY <1>1, <1>3, <2>2
    <3>. QED  BY <3>1 DEF Beside, Safe
  <2>3. CASE q = Json5(f)
    <3>1. ~IsText(Legacy(f))'
      BY <1>1, <2>1, <2>3 DEF IsText
    <3>. QED  BY <3>1 DEF Beside
  <2>4. CASE q # Legacy(f) /\ q # Json5(f)
    <3>1. disk'[Legacy(f)] = disk[Legacy(f)] /\ disk'[Json5(f)] = disk[Json5(f)]
      BY <1>1, <2>1, <2>4
    <3>2. PICK v : v = disk[Legacy(f)].v
      OBVIOUS
    <3>3. IsText(Legacy(f)) /\ IsText(Json5(f)) => Gone(f, v) \/ Safe(f, v) \/ disk[Json5(f)].v = v
      BY <3>2 DEF Beside
    <3>4. IsText(Legacy(f)) /\ IsText(Json5(f)) => Gone(f, v)' \/ Safe(f, v)' \/ disk[Json5(f)].v = v
      BY <1>3, <3>3
    <3>. QED  BY <3>1, <3>2, <3>4 DEF Beside, Gone, Safe, IsText
  <2>. QED  BY <2>2, <2>3, <2>4
<1>6. ASSUME NEW f \in Files, NEW v, Moved(f, v) PROVE Moved(f, v)'
  <2>1. Json5(f) \in Paths /\ Toml(f) \in Paths
    BY PathFacts
  <2>. QED  BY <1>2, <1>3, <1>6, <2>1 DEF Moved
<1>. QED  BY <1>4, <1>5, <1>6

\* A restore loses no version, unless it went upwards, was late or came twice in a second.
LEMMA WorkRestores ==
    ASSUME HInv, Restores
    PROVE  WorkInv'
<1>0. LockInv /\ DiskInv /\ SnapInv /\ TypeInv /\ PlanInv /\ RunInv /\ LevelInv /\ WorkInv
  BY DEF HInv
<1>1. PICK t \in Processes : t = Terminal
  BY MigrationAssumption
<1>2. /\ place[t] \in Putting /\ Asked /\ place \in [Processes -> Places]
      /\ UNCHANGED <<snaps, kept, outrun, edits>>
  BY <1>0, <1>1, RestoresFrame DEF Asked, LockInv
<1>3. SUFFICES ASSUME Straight'
               PROVE  WorkInv'
  BY DEF WorkInv
<1>4. undone \subseteq undone' /\ InRescues \subseteq InRescues'
  <2>1. undone \subseteq undone' /\ (Rescue(t) \/ saved' = saved)
    BY <1>1 DEF Restores, Rescue, DropTarget, PutTarget, RemoveForward, RemoveStale,
       AllRestored, RollBackLevel, history
  <2>2. saved' = saved => InRescues' = InRescues
    BY DEF InRescues
  <2>3. Rescue(t) => InRescues \subseteq InRescues'
    BY <1>1, <1>3, RescueAdds
  <2>. QED  BY <2>1, <2>2, <2>3
<1>5. Straight
  BY <1>3, <1>4 DEF Straight
<1>6. /\ \A f \in Files, v \in 0..(edits + 1) : Somewhere(f, v)
      /\ \A f \in Files : Beside(f)
      /\ place[t] \in {"prompt", "rescue"} => \A f \in Files : ReadAt(f)
      /\ place[t] \in {"drop", "put", "forward", "level"} => HasRescued
  BY <1>0, <1>1, <1>5, WorkParts DEF HasRescued
<1>7. PICK P : P = Plan
  OBVIOUS
<1>8. /\ PlanShape(P) /\ P.l \in 0..2 /\ snaps[P.l] # <<>>
      /\ DOMAIN P.entries = DOMAIN Snap(P.l)
      /\ \A q \in DOMAIN P.entries : P.entries[q].snapshot = Snap(P.l)[q]
      /\ \A q \in DOMAIN P.entries : P.entries[q].live \in Paths /\ q \in Paths
      /\ \A q \in DOMAIN P.stale : q \in Paths
  BY <1>0, <1>2, <1>7, PlanFacts DEF PlanInv, PlanShape
<1>9. ASSUME \A f \in Files, v \in 0..(edits' + 1) : Somewhere(f, v)',
             \A f \in Files : Beside(f)',
             \/ place'[t] = "idle"
             \/ place'[t] \in {"drop", "put", "forward", "level"} /\ HasRescued'
      PROVE  WorkInv'
  BY <1>1, <1>3, <1>9, WorkPartsNext DEF HasRescued
<1>10. ASSUME UNCHANGED <<disk, kept, edits>>
       PROVE  /\ \A f \in Files, v \in 0..(edits' + 1) : Somewhere(f, v)'
              /\ \A f \in Files : Beside(f)'
  <2>1. \A l \in 0..2 : snaps[l] # <<>> => snaps'[l] # <<>> /\ Snap(l)' = Snap(l)
    BY <1>2 DEF Snap
  <2>2. ASSUME NEW f \in Files, NEW v \in 0..(edits' + 1) PROVE Somewhere(f, v)'
    <3>1. Somewhere(f, v)
      BY <1>6, <1>10
    <3>2. Safe(f, v) => Safe(f, v)'
      BY <1>4, <2>1, SafeStays
    <3>. QED  BY <1>2, <1>10, <3>1, <3>2 DEF Somewhere, Gone, Has
  <2>3. \A f \in Files : Beside(f)'
    BY <1>2, <1>4, <1>6, <1>10, SameBeside
  <2>. QED  BY <2>2, <2>3
<1>11. CASE Rescue(t)
  <2>1. place[t] = "rescue" /\ place'[t] = "drop" /\ disk' = disk
    BY <1>1, <1>2, <1>11 DEF Rescue, Goto
  <2>2. HasRescued'
    BY <1>0, <1>1, <1>3, <1>6, <1>11, <2>1, RescueSaves DEF HasRescued
  <2>. QED  BY <1>2, <1>9, <1>10, <2>1, <2>2
<1>12. CASE DropTarget(t)
  <2>1. PICK q \in DOMAIN P.entries \cap P.left :
            q \in Paths /\ Put(q, Nothing) /\ Plan' = Without(P, q) /\ place'[t] = "put"
    BY <1>0, <1>1, <1>7, <1>12, DropEffect
  <2>2. PICK N : N = Without(P, q)
    OBVIOUS
  <2>3. N.entries = P.entries /\ N.stale = P.stale /\ N.left \subseteq P.left
    BY <1>8, <2>2, WithoutIs
  <2>4. saved' = saved /\ place[t] = "drop" /\ HasRescued
    BY <1>6, <1>12 DEF DropTarget
  <2>5. ASSUME NEW f \in Files, Legacy(f) \in DOMAIN P.entries PROVE q # Json5(f) /\ q # Toml(f)
    BY <1>0, <1>2, <1>7, <2>1, <2>5, LegacyApart
  <2>6. HasRescued'
    BY <1>0, <1>2, <1>7, <1>8, <2>1, <2>2, <2>3, <2>4, <2>5, RescuedLess
  <2>7. \/ ~IsText(q) \/ disk[q] \in InRescues
        \/ \E f \in Files : q = Legacy(f) /\ Moved(f, disk[q].v)
    <3>1. CASE P.entries[q].live = q
      BY <1>7, <2>1, <2>4, <3>1 DEF HasRescued, SavedLive
    <3>2. CASE P.entries[q].live # q
      <4>1. PICK f \in Files : q = Legacy(f) /\ P.entries[q].live = Json5(f)
        BY <1>8, <2>1, <3>2 DEF PlanShape
      <4>2. IsText(q) => Moved(f, disk[q].v)
        BY <1>7, <2>1, <2>4, <4>1 DEF HasRescued, LeftAt
      <4>. QED  BY <4>1, <4>2
    <3>. QED  BY <3>1, <3>2
  <2>8. /\ \A f \in Files, v \in 0..(edits' + 1) : Somewhere(f, v)'
        /\ \A f \in Files : Beside(f)'
    BY <1>0, <1>2, <1>6, <2>1, <2>4, <2>7, RemovalWorks
  <2>. QED  BY <1>9, <2>1, <2>6, <2>8
<1>13. CASE PutTarget(t)
  <2>1. PICK q, b : q = P.target /\ b = P.entries[q].snapshot
    OBVIOUS
  <2>2. /\ place[t] = "put" /\ place'[t] = "forward" /\ Plan' = P /\ saved' = saved
        /\ Put(q, b) /\ q \in DOMAIN P.entries \ P.left
    BY <1>0, <1>1, <1>2, <1>7, <1>13, <2>1 DEF PutTarget, Goto, Plan, PlanInv
  <2>3. q \in Paths /\ Fits(q, b)
    BY <1>0, <1>2, <1>7, <2>1, <2>2, PlanFacts
  <2>4. disk[q] = Nothing /\ disk'[q] = b /\ \A r \in Paths \ {q} : disk'[r] = disk[r]
    BY <1>0, <1>1, <1>7, <2>1, <2>2, <2>3, PutSets DEF Sets, RunInv
  <2>5. ASSUME NEW f \in Files, q = Legacy(f) PROVE Safe(f, b.v)
    <3>1. q \in Places3(f) /\ b.t = "text" /\ b.f = f
      BY <2>3, <2>5, PlacesOfOne, PathFacts, TextsAre, TextFields DEF Fits, FitsTo, Places3
    <3>2. b \in Range(Snap(P.l))
      BY <1>8, <2>1, <2>2 DEF Range
    <3>3. b \in InRescues \cup UNION {Range(Snap(l)) : l \in {k \in 0..2 : snaps[k] # <<>>}}
      BY <1>8, <3>2
    <3>. QED  BY <3>1, <3>3 DEF Safe
  <2>6. ASSUME NEW f \in Files, q = Json5(f) PROVE ~IsText(Legacy(f))
    <3>1. P.l = 2
      <4>1. PICK l \in 0..2 : l = P.l
        BY <1>8
      <4>2. q \in SnapPaths(l)
        BY <1>0, <1>2, <1>7, <2>2, <4>1, PlanFacts
      <4>. QED  BY <2>6, <4>1, <4>2, SnapPathsArePaths, PathFacts
    <3>2. Begun
      BY <1>1, <2>2 DEF Begun
    <3>3. level >= 1 /\ 0 \notin torn /\ "up" \notin undone
      <4>1. "up" \notin undone
        BY <1>5 DEF Straight
      <4>2. 2 <= level /\ \A k \in torn : 2 <= k
        BY <1>0, <1>7, <3>1, <3>2, <4>1 DEF RunInv
      <4>3. level \in 0..3 /\ torn \subseteq 0..2
        BY <1>0 DEF LockInv, TypeInv
      <4>. QED  BY <4>1, <4>2, <4>3
    <3>. QED  BY <1>0, <3>3 DEF LevelInv
  <2>7. /\ \A f \in Files, v \in 0..(edits' + 1) : Somewhere(f, v)'
        /\ \A f \in Files : Beside(f)'
        /\ \A f \in Files : \A v : Moved(f, v) => Moved(f, v)'
    BY <1>0, <1>2, <1>6, <2>2, <2>3, <2>4, <2>5, <2>6, ReturnWorks
  <2>8. HasRescued
    BY <1>6, <2>2
  <2>9. ASSUME NEW r \in DOMAIN P.entries, r \in P.left \/ P.entries[r].live # r,
               IsText(P.entries[r].live)'
        PROVE  disk'[P.entries[r].live] \in InRescues'
    <3>1. PICK x \in Paths : x = P.entries[r].live
      BY <1>8
    <3>2. x # q
      <4>1. CASE x = r
        BY <2>2, <2>9, <3>1, <4>1
      <4>2. CASE x # r
        <5>1. PICK f \in Files : r = Legacy(f) /\ x = Json5(f)
          BY <1>8, <3>1, <4>2 DEF PlanShape
        <5>2. Json5(f) \notin DOMAIN P.entries
          BY <1>0, <1>2, <1>7, <2>9, <5>1, LegacyApart
        <5>. QED  BY <2>2, <5>1, <5>2
      <4>. QED  BY <4>1, <4>2
    <3>3. disk'[x] = disk[x] /\ IsText(x)
      BY <2>4, <2>9, <3>1, <3>2 DEF IsText
    <3>4. disk[x] \in InRescues
      BY <1>7, <2>8, <2>9, <3>1, <3>3 DEF HasRescued, SavedLive
    <3>. QED  BY <1>4, <3>1, <3>3, <3>4
  <2>10. ASSUME NEW r \in DOMAIN P.stale, IsText(r)' PROVE disk'[r] \in InRescues'
    <3>1. r # q /\ r \in Paths
      BY <1>8, <2>2 DEF PlanShape
    <3>2. disk'[r] = disk[r] /\ IsText(r)
      BY <2>4, <2>10, <3>1 DEF IsText
    <3>. QED  BY <1>4, <1>7, <2>8, <3>2 DEF HasRescued, SavedStale
  <2>11. ASSUME NEW f \in Files PROVE LeftAt(f)'
    <3>1. SUFFICES ASSUME Legacy(f) \in DOMAIN P.entries \cap P.left,
                          P.entries[Legacy(f)].live = Json5(f), IsText(Legacy(f))'
                   PROVE  Moved(f, disk[Legacy(f)].v)'
      BY <2>2 DEF LeftAt
    <3>2. Legacy(f) \in Paths /\ Legacy(f) # q
      BY <2>2, <3>1, PathFacts
    <3>3. disk'[Legacy(f)] = disk[Legacy(f)] /\ IsText(Legacy(f))
      BY <2>4, <3>1, <3>2 DEF IsText
    <3>4. PICK v : v = disk[Legacy(f)].v
      OBVIOUS
    <3>5. Moved(f, v)'
      BY <1>7, <2>7, <2>8, <3>1, <3>3, <3>4 DEF HasRescued, LeftAt
    <3>. QED  BY <3>3, <3>4, <3>5 DEF Moved, Gone, Safe, Has
  <2>12. SavedLive' /\ SavedStale'
    BY <2>2, <2>9, <2>10 DEF SavedLive, SavedStale
  <2>. QED  BY <1>9, <2>2, <2>7, <2>11, <2>12 DEF HasRescued
<1>14. CASE RemoveForward(t)
  <2>1. PICK q : q = P.target
    OBVIOUS
  <2>2. /\ place[t] = "forward" /\ place'[t] = "drop" /\ Plan' = P /\ saved' = saved
        /\ q \in DOMAIN P.entries \ P.left
        /\ UNCHANGED disk \/ (P.entries[q].live # q /\ Put(P.entries[q].live, Nothing))
    BY <1>0, <1>1, <1>2, <1>7, <1>14, <2>1 DEF RemoveForward, Goto, Plan, history, PlanInv
  <2>3. HasRescued
    BY <1>6, <2>2
  <2>4. CASE UNCHANGED disk
    <3>1. HasRescued'
      BY <1>2, <1>7, <2>2, <2>3, <2>4, RescuedStays
    <3>. QED  BY <1>2, <1>9, <1>10, <2>2, <2>4, <3>1
  <2>5. CASE P.entries[q].live # q /\ Put(P.entries[q].live, Nothing)
    <3>1. PICK f \in Files : q = Legacy(f) /\ P.entries[q].live = Json5(f)
      BY <1>8, <2>2, <2>5 DEF PlanShape
    <3>2. Json5(f) \in Paths /\ Put(Json5(f), Nothing)
      BY <2>5, <3>1, PathFacts
    <3>3. ~IsText(Json5(f)) \/ disk[Json5(f)] \in InRescues
      BY <1>7, <2>2, <2>3, <2>5, <3>1 DEF HasRescued, SavedLive
    <3>4. \A g \in Files : Legacy(g) \in DOMAIN P.entries \cap P.left =>
                               Json5(f) # Json5(g) /\ Json5(f) # Toml(g)
      BY <2>2, <3>1, PathFacts
    <3>5. HasRescued'
      BY <1>0, <1>2, <1>7, <1>8, <2>2, <2>3, <3>2, <3>4, RescuedLess
    <3>6. /\ \A g \in Files, v \in 0..(edits' + 1) : Somewhere(g, v)'
          /\ \A g \in Files : Beside(g)'
      BY <1>0, <1>2, <1>6, <2>2, <3>2, <3>3, RemovalWorks
    <3>. QED  BY <1>9, <2>2, <3>5, <3>6
  <2>. QED  BY <2>2, <2>4, <2>5
<1>15. CASE RemoveStale(t)
  <2>1. PICK q \in P.left :
            /\ q \in Paths /\ q \in DOMAIN P.stale /\ q \notin DOMAIN P.entries
            /\ P.left \cap DOMAIN P.entries = {} /\ Plan' = Without(P, q)
            /\ \/ UNCHANGED disk /\ place'[t] = "idle"
               \/ Put(q, Nothing) /\ place' = place
    BY <1>0, <1>1, <1>7, <1>15, StaleEffect
  <2>2. place[t] = "drop" /\ saved' = saved /\ HasRescued
    BY <1>6, <1>15 DEF RemoveStale
  <2>3. CASE UNCHANGED disk /\ place'[t] = "idle"
    BY <1>2, <1>9, <1>10, <2>3
  <2>4. CASE Put(q, Nothing) /\ place' = place
    <3>1. PICK N : N = Without(P, q)
      OBVIOUS
    <3>2. N.entries = P.entries /\ N.stale = P.stale /\ N.left \subseteq P.left
      BY <1>8, <3>1, WithoutIs
    <3>3. HasRescued'
      BY <1>0, <1>2, <1>7, <1>8, <2>1, <2>2, <2>4, <3>1, <3>2, RescuedLess
    <3>4. ~IsText(q) \/ disk[q] \in InRescues
      BY <1>7, <2>1, <2>2 DEF HasRescued, SavedStale
    <3>5. /\ \A g \in Files, v \in 0..(edits' + 1) : Somewhere(g, v)'
          /\ \A g \in Files : Beside(g)'
      BY <1>0, <1>2, <1>6, <2>1, <2>2, <2>4, <3>4, RemovalWorks
    <3>. QED  BY <1>9, <2>2, <2>4, <3>3, <3>5
  <2>. QED  BY <2>1, <2>3, <2>4
<1>16. CASE AllRestored(t)
  <2>1. /\ UNCHANGED <<disk, saved>> /\ place[t] = "drop" /\ place'[t] = "level" /\ Plan' = P
    BY <1>1, <1>2, <1>7, <1>16 DEF AllRestored, Goto, Plan
  <2>2. HasRescued'
    BY <1>2, <1>6, <1>7, <2>1, RescuedStays
  <2>. QED  BY <1>2, <1>9, <1>10, <2>1, <2>2
<1>17. CASE RollBackLevel(t)
  <2>1. UNCHANGED disk /\ place'[t] = "idle"
    BY <1>1, <1>2, <1>17 DEF RollBackLevel, Stop, Goto
  <2>. QED  BY <1>2, <1>9, <1>10, <2>1
<1>. QED  BY <1>1, <1>11, <1>12, <1>13, <1>14, <1>15, <1>16, <1>17 DEF Restores

\* No step does.
LEMMA WorkHolds ==
    ASSUME HInv, HostNext
    PROVE  WorkInv'
BY WorkOthers, WorkRestores

-----------------------------------------------------------------------------
(* The theorems.                                                           *)

\* What an install of before the root existed has on disk.
LEMMA InitialDisk ==
    ASSUME NEW i \in Installs, MigrationInit(i.configs, i.dotfiles)
    PROVE  /\ disk = [q \in Paths |-> disk[q]]
           /\ \A f \in Files : /\ disk[Legacy(f)] = i.configs[f]
                               /\ disk[Json5(f)] = Nothing /\ disk[Toml(f)] = Nothing
                               /\ \/ disk[Legacy(f)] = Nothing
                                  \/ disk[Legacy(f)] \in Texts(f) /\ disk[Legacy(f)].v = 1
           /\ \A d \in Dotfiles : disk[Dot(d)] = Lined(i.dotfiles[d]) /\ IsDot(disk[Dot(d)])
<1>1. /\ disk = [q \in Paths |-> CASE q[1] = "legacy" -> i.configs[q[2]]
                                   [] q[1] = "dot" -> Lined(i.dotfiles[q[2]])
                                   [] OTHER -> Nothing]
      /\ edits = 0
  BY DEF MigrationInit
<1>2. ASSUME NEW f \in Files
      PROVE  /\ disk[Legacy(f)] = i.configs[f]
             /\ disk[Json5(f)] = Nothing /\ disk[Toml(f)] = Nothing
  BY <1>1, PathFacts
<1>3. ASSUME NEW f \in Files, i.configs[f] # Nothing
      PROVE  i.configs[f] \in Texts(f) /\ i.configs[f].v = 1
  <2>1. PICK ok \in BOOLEAN, dir \in DirValues, wraps \in SUBSET Binaries :
            i.configs[f] = Text(f, 1, ok, wraps, dir)
    <3>1. \E ok \in BOOLEAN, wraps \in SUBSET Binaries, dir \in ShimDirs \cup {NoDir} :
              i.configs[f] = Text(f, 1, ok, wraps, dir)
      BY <1>3, HostAssumption
    <3>. QED  BY <3>1 DEF DirValues
  <2>2. 1 \in 0..(edits + 1)
    BY <1>1
  <2>. QED  BY <2>1, <2>2 DEF Text, Texts
<1>4. ASSUME NEW d \in Dotfiles
      PROVE  disk[Dot(d)] = Lined(i.dotfiles[d]) /\ IsDot(disk[Dot(d)])
  <2>1. disk[Dot(d)] = Lined(i.dotfiles[d])
    BY <1>1, PathFacts
  <2>2. WellFormed(i.dotfiles[d])
    BY HostAssumption
  <2>. QED  BY <2>1, <2>2, Bodies DEF IsDot, Lined
<1>. QED  BY <1>1, <1>2, <1>3, <1>4

\* An install of before the first migration satisfies every part.
LEMMA InitialInv ==
    ASSUME HostInit
    PROVE  HInv
<1>1. PICK i \in Installs : MigrationInit(i.configs, i.dotfiles) /\ shims = i.shims /\ doing = Idle
  BY DEF HostInit
<1>2. /\ disk = [q \in Paths |-> disk[q]]
      /\ \A f \in Files : /\ disk[Legacy(f)] = i.configs[f]
                          /\ disk[Json5(f)] = Nothing /\ disk[Toml(f)] = Nothing
                          /\ \/ disk[Legacy(f)] = Nothing
                             \/ disk[Legacy(f)] \in Texts(f) /\ disk[Legacy(f)].v = 1
      /\ \A d \in Dotfiles : disk[Dot(d)] = Lined(i.dotfiles[d]) /\ IsDot(disk[Dot(d)])
  BY <1>1, InitialDisk
<1>3. /\ level = 0 /\ lock = NoOne /\ snaps = [l \in 0..2 |-> <<>>] /\ saved = {}
      /\ place = [p \in Processes |-> "idle"]
      /\ at = [p \in Processes |-> [m |-> 0, i |-> 1]]
      /\ before = [p \in Processes |-> [declared |-> {}, absent |-> {}]]
      /\ unread = [p \in Processes |-> {}]
      /\ plan = [p \in Processes |-> NoPlan]
      /\ kept = {<<f, disk[Legacy(f)].v>> : f \in {g \in Files : disk[Legacy(g)] # Nothing}}
      /\ inforce = [f \in Files |-> IF disk[Legacy(f)] = Nothing THEN 0
                                    ELSE disk[Legacy(f)].v]
      /\ own = [d \in Dotfiles |-> OwnText(LinesOf(d))]
      /\ torn = {} /\ undone = {} /\ outrun = {} /\ orphans = {} /\ edits = 0
  BY <1>1 DEF MigrationInit
<1>4. place[Terminal] = "idle" /\ \A p \in Processes : place[p] = "idle"
  BY <1>3, MigrationAssumption
<1>5. Nothing.t # "text" /\ Nothing # Link
  BY Bodies
<1>6. LockInv
  BY <1>3, <1>4, MigrationAssumption DEF LockInv, LockAt, Places, Moving, Putting, Typing
<1>7. DiskInv
  BY <1>2 DEF DiskInv
<1>8. SnapInv
  BY <1>3 DEF SnapInv
<1>9. \A f \in Files : inforce[f] = IF disk[Legacy(f)] = Nothing THEN 0 ELSE 1
  BY <1>2, <1>3
<1>10. TypeInv
  <2>1. shims \in [ShimDirs \X Binaries -> ShimStates]
    BY <1>1, HostAssumption
  <2>2. /\ plan = [p \in Processes |-> plan[p]] /\ before = [p \in Processes |-> before[p]]
        /\ \A p \in Processes : before[p].declared \subseteq Paths
        /\ unread = [p \in Processes |-> unread[p]] /\ own = [d \in Dotfiles |-> own[d]]
        /\ torn \subseteq 0..2 /\ undone \subseteq {"down", "up", "late", "twice"} /\ edits \in Nat
    BY <1>3
  <2>3. inforce \in [Files -> Nat]
    BY <1>3, <1>9
  <2>4. kept \subseteq Files \X (0..(edits + 1))
    <3>1. ASSUME NEW f \in Files, disk[Legacy(f)] # Nothing
          PROVE  <<f, disk[Legacy(f)].v>> \in Files \X (0..(edits + 1))
      <4>1. disk[Legacy(f)].v = 1 /\ 1 \in 0..(edits + 1)
        BY <1>2, <1>3, <3>1
      <4>. QED  BY <4>1
    <3>. QED  BY <1>3, <3>1
  <2>. QED  BY <2>1, <2>2, <2>3, <2>4 DEF TypeInv
<1>11. PlanInv /\ RunInv /\ MigInv
  BY <1>3, <1>4 DEF PlanInv, Asked, Putting, RunInv, Begun, MigInv, MigAt, Moving
<1>12. LevelInv
  BY <1>3 DEF LevelInv
<1>13. ASSUME NEW f \in Files, NEW v, <<f, v>> \in kept
       PROVE  Has(Legacy(f), v)
  <2>1. PICK g \in Files : disk[Legacy(g)] # Nothing /\ <<f, v>> = <<g, disk[Legacy(g)].v>>
    BY <1>3, <1>13
  <2>. QED  BY <1>2, <2>1, TextFields DEF Has
<1>14. CovInv
  <2>1. ASSUME NEW f \in Files, inforce[f] # 0 PROVE \E q \in Places3(f) : Has(q, inforce[f])
    <3>1. disk[Legacy(f)] \in Texts(f) /\ disk[Legacy(f)].v = 1 /\ inforce[f] = 1
      BY <1>2, <1>9, <2>1
    <3>2. Has(Legacy(f), inforce[f])
      BY <3>1, TextFields DEF Has
    <3>. QED  BY <3>2 DEF Places3
  <2>. QED  BY <1>4, <2>1 DEF CovInv, Begun
<1>15. OwnInv
  BY <1>3, <1>4 DEF OwnInv, Begun, InStep
<1>16. ShimInv
  <2>1. Config \in Files
    BY HostAssumption
  <2>2. ASSUME NEW b \in Binaries, Managed(b)
        PROVE  disk[Legacy(Config)] # Nothing /\ b \in disk[Legacy(Config)].wraps
    <3>1. PICK s \in ShimDirs : i.shims[<<s, b>>] \in {"ours", "old"}
      BY <1>1, <2>2 DEF Managed
    <3>2. i.configs[Config] # Nothing /\ b \in i.configs[Config].wraps
      BY <3>1, HostAssumption
    <3>. QED  BY <1>2, <2>1, <3>2
  <2>3. \A q \in Places3(Config) : IsText(q) => q = Legacy(Config)
    BY <1>2, <1>5, <2>1 DEF Places3, IsText
  <2>4. disk[Legacy(Config)] # Nothing => IsText(Legacy(Config))
    BY <1>2, <2>1, TextFields DEF IsText
  <2>. QED  BY <1>4, <2>2, <2>3, <2>4 DEF ShimInv, ManagedShims, Places3
<1>17. WorkInv
  <2>1. ASSUME NEW f \in Files, NEW v
        PROVE  Gone(f, v) \/ Safe(f, v) \/ \E q \in Places3(f) : Has(q, v)
    BY <1>13 DEF Gone, Places3
  <2>2. \A f \in Files : ~IsText(Json5(f))
    BY <1>2, <1>5 DEF IsText
  <2>. QED  BY <1>4, <2>1, <2>2 DEF WorkInv
<1>. QED  BY <1>6, <1>7, <1>8, <1>10, <1>11, <1>12, <1>14, <1>15, <1>16, <1>17 DEF HInv

\* A stuttering step keeps it.
LEMMA StutterInv ==
    ASSUME HInv, UNCHANGED hostvars
    PROVE  HInv'
<1>. USE DEF hostvars, mvars
<1>1. LockInv'
  BY DEF HInv, LockInv, LockAt
<1>2. DiskInv'
  BY DEF HInv, DiskInv, Texts
<1>3. SnapInv'
  BY DEF HInv, SnapInv, SnapAt, Snap, Fits
<1>4. TypeInv'
  BY DEF HInv, TypeInv
<1>5. PlanInv'
  <2>1. (Asked <=> Asked') /\ Plan' = Plan /\ place' = place
    BY DEF Asked, Plan
  <2>2. PlanShape(Plan) => PlanShape(Plan)'
    BY <2>1 DEF PlanShape, Snap
  <2>. QED  BY <2>1, <2>2 DEF HInv, PlanInv
<1>6. RunInv'
  BY DEF HInv, RunInv, Begun, Plan
<1>7. MigInv'
  BY DEF HInv, MigInv, MigAt, IsText, OldBlock, NamesOld, Unexpanded, Expanded, LinesOf, Exists, Body, Deref
<1>8. LevelInv'
  BY DEF HInv, LevelInv, IsText, OldBlock, NamesOld, Unexpanded, Expanded, LinesOf, Exists, Body, Deref
<1>9. CovInv'
  BY DEF HInv, CovInv, Has, Begun, Plan, Snap
<1>10. OwnInv'
  BY DEF HInv, OwnInv, InStep, Begun, Plan, Snap, LinesOf, Exists, Body, Deref
<1>11. ShimInv'
  BY DEF HInv, ShimInv, ManagedShims, Managed, IsText, LinesOf, Exists, Body, Deref
<1>12. WorkInv'
  <2>1. (Straight <=> Straight') /\ Plan' = Plan /\ UNCHANGED <<disk, saved, edits, place>>
    BY DEF Straight, Plan
  <2>2. /\ \A f, v : (Gone(f, v) <=> Gone(f, v)') /\ (Safe(f, v) <=> Safe(f, v)')
        /\ InRescues' = InRescues
    BY DEF Gone, Safe, Snap, InRescues
  <2>3. \A q : IsText(q) <=> IsText(q)'
    BY DEF IsText
  <2>4. \A q, v : Has(q, v) <=> Has(q, v)'
    BY DEF Has
  <2>. QED  BY <2>1, <2>2, <2>3, <2>4 DEF HInv, WorkInv
<1>. QED  BY <1>1, <1>2, <1>3, <1>4, <1>5, <1>6, <1>7, <1>8, <1>9, <1>10, <1>11, <1>12 DEF HInv

\* Lock, disk, snapshots, plans and history keep their invariants for any config files, dotfiles,
\* installs, processes, kills and saves: whatever process is killed between two file operations, and
\* however migrations, restores, saves and the commands of one terminal follow one another
\* (migrate/mod.rs, ssh_setup.rs, path_setup.rs, shim.rs).
THEOREM FilesInvariance == HostSpec => []HInv
<1>1. HostInit => HInv
  BY InitialInv
<1>2. HInv /\ [HostNext]_hostvars => HInv'
  <2>1. ASSUME HInv, HostNext PROVE HInv'
    BY <2>1, LockHolds, DiskHolds, SnapHolds, TypeHolds, PlanHolds, RunHolds, MigHolds,
       LevelHolds, CovHolds, OwnHolds, ShimHolds, WorkHolds DEF HInv
  <2>. QED  BY <2>1, StutterInv
<1>. QED  BY <1>1, <1>2, PTL DEF HostSpec

\* The user's own lines of every dotfile stay, in their order, whatever blocks are written, repointed,
\* stripped and restored, by plans made on an older file (ssh_setup.rs, path_setup.rs, migration 0002);
\* but for a file that a command read before a save of the user's and renamed over it.
THEOREM UserTextSurvivesHolds == HostSpec => []UserTextSurvives
<1>1. HInv => UserTextSurvives
  BY DEF HInv, OwnInv, InStep, UserTextSurvives
<1>. QED  BY <1>1, FilesInvariance, PTL

\* The lines of a file's block: the old socket is not among them, but for the spelling that
\* the migration does not know.
LEMMA BlockIsNew ==
    ASSUME NEW d \in Dotfiles, ~NamesOld(d), ~Unexpanded(d)
    PROVE  Range(existing_block(LinesOf(d))) \cap OldSpellings \subseteq {OldBraced}
<1>1. PICK block : block = existing_block(LinesOf(d))
  OBVIOUS
<1>2. Expanded(d) = [i \in DOMAIN block |->
                        CASE block[i] = OldUnderHome -> OldAbsolute
                          [] block[i] = NewUnderHome -> NewAbsolute
                          [] OTHER -> block[i]]
  BY <1>1 DEF Expanded, expand_home_tokens
<1>3. \A i \in DOMAIN block : Expanded(d)[i] \in Range(Expanded(d))
  BY <1>2 DEF Range
<1>4. \A i \in DOMAIN block :
          /\ block[i] = OldUnderHome => Expanded(d)[i] = OldAbsolute
          /\ block[i] \in {OldAbsolute, OldOdd} => Expanded(d)[i] = block[i]
  BY <1>2 DEF OldAbsolute, OldOdd, OldUnderHome, NewUnderHome
<1>5. \A i \in DOMAIN block : block[i] \notin {OldAbsolute, OldOdd, OldUnderHome}
  BY <1>3, <1>4 DEF NamesOld, Unexpanded
<1>. QED  BY <1>1, <1>5 DEF Range, OldSpellings

\* At the last level every migration has done its work on every file, whatever was killed, refused,
\* rerun or restored on the way, unless a restore went upwards; a block that names the old socket
\* through ${HOME} is the one thing left (migrate/mod.rs, run_pending_in; m0002, run_in).
THEOREM StampMeansDoneHolds == HostSpec => []StampMeansDone
<1>1. ASSUME HInv, level = Latest, torn = {}, "up" \notin undone
      PROVE  /\ \A f \in Files :
                 /\ disk[Legacy(f)] = Nothing /\ disk[Json5(f)] = Nothing
                 /\ inforce[f] # 0 => Exists(Toml(f)) /\ disk[Toml(f)].v = inforce[f]
             /\ \A d \in Dotfiles :
                    Range(existing_block(LinesOf(d))) \cap OldSpellings \subseteq {OldBraced}
  <2>1. DiskInv /\ LevelInv /\ CovInv /\ level = 3
    BY <1>1 DEF HInv, Latest
  <2>2. ASSUME NEW f \in Files
        PROVE  disk[Legacy(f)] = Nothing /\ disk[Json5(f)] = Nothing
    <3>1. ~IsText(Legacy(f)) /\ disk[Legacy(f)] # Link /\ disk[Json5(f)] = Nothing
      BY <1>1, <2>1 DEF LevelInv
    <3>2. Legacy(f) \in Places3(f)
      BY DEF Places3
    <3>. QED  BY <2>1, <3>1, <3>2, DiskKinds
  <2>3. ASSUME NEW f \in Files, inforce[f] # 0
        PROVE  Exists(Toml(f)) /\ disk[Toml(f)].v = inforce[f]
    <3>1. PICK q \in Places3(f) : Has(q, inforce[f])
      BY <1>1, <2>1, <2>3 DEF CovInv
    <3>2. q = Toml(f) /\ IsText(q)
      BY <2>2, <3>1, Bodies DEF Places3, Has, IsText
    <3>3. Exists(q)
      BY <3>2, Bodies DEF Exists, Body, Deref, IsText
    <3>. QED  BY <3>1, <3>2, <3>3 DEF Has
  <2>4. \A d \in Dotfiles : ~NamesOld(d) /\ ~Unexpanded(d)
    BY <1>1, <2>1 DEF LevelInv, OldBlock
  <2>. QED  BY <2>2, <2>3, <2>4, BlockIsNew
<1>2. HInv => StampMeansDone
  BY <1>1 DEF StampMeansDone
<1>. QED  BY <1>2, FilesInvariance, PTL

\* Until a restore writes something, every shim of secreq's has its wrap, wherever wrap, unwrap, init
\* or a migration is killed, unless the user took the wrap out by hand or unwrapped what it has no
\* shim_dir for (commands/config.rs, commands/init.rs).
THEOREM ShimHasWrapHolds == HostSpec => []ShimHasWrap
<1>1. ASSUME HInv, NEW b \in Binaries \ orphans, Managed(b), undone = {}
      PROVE  Exists(Current(Config)) /\ b \in Body(Current(Config)).wraps
  <2>1. DiskInv /\ ShimInv /\ Config \in Files
    BY <1>1, HostAssumption DEF HInv
  <2>2. b \in ManagedShims
    BY <1>1 DEF ManagedShims
  <2>3. PICK q \in Places3(Config) : IsText(q)
    BY <1>1, <2>1, <2>2 DEF ShimInv
  <2>4. Exists(q)
    BY <2>3, Bodies DEF Exists, Body, Deref, IsText
  <2>5. Exists(Current(Config))
    BY <2>3, <2>4 DEF Current, Places3
  <2>6. /\ Current(Config) \in Places3(Config) /\ IsText(Current(Config))
        /\ Body(Current(Config)) = disk[Current(Config)]
    BY <2>1, <2>5, CurrentText
  <2>7. ManagedShims \subseteq disk[Current(Config)].wraps
    BY <1>1, <2>1, <2>6 DEF ShimInv
  <2>. QED  BY <2>2, <2>5, <2>6, <2>7
<1>2. HInv => ShimHasWrap
  BY <1>1 DEF ShimHasWrap
<1>. QED  BY <1>2, FilesInvariance, PTL

\* Every version the user wrote and did not overwrite stays live, in a snapshot or in a rescue,
\* unless a restore went upwards, was late or came twice in a second, or a command's write undid a
\* save (migrate/mod.rs, restore_in and the migrations; commands/config.rs, edit_config).
THEOREM NoWorkIsLostHolds == HostSpec => []NoWorkIsLost
<1>1. ASSUME HInv, Straight, NEW w \in kept, w[1] \notin outrun
      PROVE  \E b \in Copies : b.t = "text" /\ b.f = w[1] /\ b.v = w[2]
  <2>1. DiskInv /\ TypeInv /\ SnapInv /\ WorkInv
    BY <1>1 DEF HInv
  <2>2. PICK f \in Files, v \in 0..(edits + 1) : w = <<f, v>>
    BY <2>1 DEF TypeInv
  <2>3. Safe(f, v) \/ \E q \in Places3(f) : Has(q, v)
    BY <1>1, <2>1, <2>2 DEF WorkInv, Gone
  <2>4. CASE Safe(f, v)
    <3>1. PICK b \in InRescues \cup UNION {Range(Snap(l)) : l \in {k \in 0..2 : snaps[k] # <<>>}} :
              b.t = "text" /\ b.f = f /\ b.v = v
      BY <2>4 DEF Safe
    <3>2. b \in Copies
      BY <3>1 DEF Copies, Snap, InRescues
    <3>. QED  BY <2>2, <3>1, <3>2
  <2>5. ASSUME NEW q \in Places3(f), Has(q, v)
        PROVE  \E b \in Copies : b.t = "text" /\ b.f = w[1] /\ b.v = w[2]
    <3>1. disk[q].t = "text" /\ disk[q].v = v /\ disk[q].f = f
      BY <2>1, <2>5, DiskKinds, TextFields DEF Has, IsText
    <3>2. disk[q] \in Copies
      BY PlacesOfOne DEF Copies
    <3>. QED  BY <2>2, <3>1, <3>2
  <2>. QED  BY <2>3, <2>4, <2>5
<1>2. HInv => NoWorkIsLost
  BY <1>1 DEF NoWorkIsLost, RestoreIsRecoverable, Straight
<1>. QED  BY <1>2, FilesInvariance, PTL
=============================================================================
