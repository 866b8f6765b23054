-------------------------- MODULE HostsFileProofs --------------------------
(***************************************************************************)
(* Theorems about HostsFile for contents of every length and for every set *)
(* of domains, and about HostsFileCheck: the loop of splitHosts finds what *)
(* the markers define, and a rewrite is stable and keeps the user's lines. *)
(*                                                                         *)
(* What a loop has done after n turns is shown by induction on n.  The     *)
(* induction schema with a predicate is out of the provers' reach; the     *)
(* induction is stated for a set of numbers instead, and follows from the  *)
(* well-foundedness of strict inclusion between finite sets.               *)
(***************************************************************************)
EXTENDS HostsFileCheck, SequenceTheorems, FiniteSetTheorems, TLAPS

-----------------------------------------------------------------------------
(* Induction.                                                              *)

\* A set of numbers with 0 and, with each number, the next one, holds them all.
LEMMA Induction ==
  ASSUME NEW S, 0 \in S, \A n \in Nat : n \in S => n + 1 \in S
  PROVE  Nat \subseteq S
<1> SUFFICES ASSUME NEW m \in Nat, m \notin S PROVE FALSE
  OBVIOUS
<1> DEFINE F == {0..k : k \in Nat \ S}
           R == StrictSubsetOrdering(Nat)
<1>1. IsWellFoundedOn(R, FiniteSubsetsOf(Nat))
  BY FS_StrictSubsetOrderingWellFounded
<1>2. F \subseteq FiniteSubsetsOf(Nat) /\ F # {}
  <2>1. \A k \in Nat : IsFiniteSet(0..k) /\ 0..k \subseteq Nat
    BY FS_Interval
  <2> QED BY <2>1 DEF FiniteSubsetsOf
<1> HIDE DEF F
<1>3. PICK x \in F : \A y \in F : ~(<<y, x>> \in R)
  BY <1>1, <1>2, WFMin
<1> USE DEF F
<1>4. PICK k \in Nat \ S : x = 0..k
  BY <1>3
<1>5. k # 0 /\ k - 1 \in Nat /\ k - 1 \notin S
  OBVIOUS
<1>6. 0..(k - 1) \in F
  BY <1>5
<1>7. <<0..(k - 1), x>> \in R
  BY <1>4, <1>5 DEF StrictSubsetOrdering
<1> QED BY <1>3, <1>6, <1>7

\* The same up to a bound.
LEMMA InductionTo ==
  ASSUME NEW N \in Nat, NEW S, 0 \in S, \A n \in 0..(N - 1) : n \in S => n + 1 \in S
  PROVE  0..N \subseteq S
<1> DEFINE T == {n \in Nat : n <= N => n \in S}
<1>1. 0 \in T
  OBVIOUS
<1>2. \A n \in Nat : n \in T => n + 1 \in T
  OBVIOUS
<1> HIDE DEF T
<1>3. Nat \subseteq T
  BY <1>1, <1>2, Induction
<1> QED BY <1>3 DEF T

-----------------------------------------------------------------------------
(* The loop of splitHosts.                                                 *)

\* What has been found is well defined, turn by turn.
LEMMA FoundIs ==
  ASSUME NEW c, Len(c) \in Nat
  PROVE  /\ Found(c)[0] = Nothing
         /\ \A n \in 1..Len(c) : Found(c)[n] = SplitStep(Found(c)[n - 1], c[n])
<1> DEFINE Is(g, m) == g = [n \in 0..m |-> IF n = 0 THEN Nothing
                                           ELSE SplitStep(g[n - 1], c[n])]
           S == {m \in Nat : \E g : Is(g, m)}
<1>1. 0 \in S
  <2>1. Is([n \in 0..0 |-> Nothing], 0)
    OBVIOUS
  <2> QED BY <2>1
<1>2. ASSUME NEW m \in Nat, m \in S
      PROVE  m + 1 \in S
  <2>1. PICK g : Is(g, m)
    BY <1>2
  <2> DEFINE h == [n \in 0..(m + 1) |-> IF n <= m THEN g[n] ELSE SplitStep(g[m], c[m + 1])]
  <2>2. ASSUME NEW n \in 0..(m + 1)
        PROVE  h[n] = IF n = 0 THEN Nothing ELSE SplitStep(h[n - 1], c[n])
    <3>1. CASE n = 0
      BY <2>1, <3>1
    <3>2. CASE n # 0 /\ n <= m
      <4>1. h[n] = g[n] /\ h[n - 1] = g[n - 1]
        BY <3>2
      <4>2. g[n] = SplitStep(g[n - 1], c[n])
        BY <2>1, <3>2
      <4> QED BY <3>2, <4>1, <4>2
    <3>3. CASE n = m + 1
      BY <3>3
    <3> QED BY <3>1, <3>2, <3>3
  <2>3. Is(h, m + 1)
    BY <2>2
  <2> HIDE DEF h, Is
  <2>4. \E f : Is(f, m + 1)
    BY <2>3
  <2> QED BY <2>4
<1> HIDE DEF S
<1>3. Len(c) \in S
  BY <1>1, <1>2, Induction
<1>4. \E g : Is(g, Len(c))
  BY <1>3 DEF S
<1>5. Is(Found(c), Len(c))
  BY <1>4 DEF Found
<1> QED BY <1>5

Markers == {hostsBegin, hostsEnd}

\* What the loop can have found in lines of S whose entries name things of T.
FoundIn(S, T) == [inBlock : BOOLEAN, outside : Seq(S \ Markers), managed : Seq(T)]

LEMMA StepType ==
  ASSUME NEW S, NEW T, NEW acc \in FoundIn(S, T), NEW line \in S,
         line \notin Markers /\ line[1] = "entry" => line[2] \in T
  PROVE  SplitStep(acc, line) \in FoundIn(S, T)
<1>1. /\ acc.inBlock \in BOOLEAN
      /\ acc.outside \in Seq(S \ Markers)
      /\ acc.managed \in Seq(T)
  BY DEF FoundIn
<1>2. CASE line \in Markers
  <2>1. SplitStep(acc, line) = [acc EXCEPT !.inBlock = (line = hostsBegin)]
    BY <1>2 DEF SplitStep, Markers
  <2> QED BY <2>1 DEF FoundIn
<1>3. CASE line \notin Markers
  <2>1. SplitStep(acc, line) = KeepLine(acc, line)
    BY <1>3 DEF SplitStep, Markers
  <2>2. CASE ~acc.inBlock
    <3>1. Append(acc.outside, line) \in Seq(S \ Markers)
      BY <1>1, <1>3
    <3>2. KeepLine(acc, line) = [acc EXCEPT !.outside = Append(acc.outside, line)]
      BY <2>2 DEF KeepLine
    <3> QED BY <2>1, <3>1, <3>2 DEF FoundIn
  <2>3. CASE acc.inBlock /\ line[1] = "entry"
    <3>1. Append(acc.managed, line[2]) \in Seq(T)
      BY <1>1, <1>3, <2>3
    <3>2. KeepLine(acc, line) = [acc EXCEPT !.managed = Append(acc.managed, line[2])]
      BY <2>3 DEF KeepLine
    <3> QED BY <2>1, <3>1, <3>2 DEF FoundIn
  <2>4. CASE acc.inBlock /\ line[1] # "entry"
    BY <2>1, <2>4 DEF KeepLine
  <2> QED BY <2>2, <2>3, <2>4
<1> QED BY <1>2, <1>3

LEMMA FoundType ==
  ASSUME NEW S, NEW T, NEW c \in Seq(S),
         \A i \in 1..Len(c) : c[i] \notin Markers /\ c[i][1] = "entry" => c[i][2] \in T
  PROVE  \A n \in 0..Len(c) : Found(c)[n] \in FoundIn(S, T)
<1> DEFINE P == {n \in Nat : Found(c)[n] \in FoundIn(S, T)}
<1>1. Len(c) \in Nat /\ \A i \in 1..Len(c) : c[i] \in S
  OBVIOUS
<1>2. 0 \in P
  <2>1. Nothing \in FoundIn(S, T)
    BY DEF Nothing, FoundIn
  <2> QED BY <1>1, <2>1, FoundIs
<1>3. ASSUME NEW n \in 0..(Len(c) - 1), n \in P
      PROVE  n + 1 \in P
  <2>1. Found(c)[n + 1] = SplitStep(Found(c)[n], c[n + 1])
    BY <1>1, <1>3, FoundIs
  <2>2. n + 1 \in 1..Len(c)
    BY <1>1
  <2> QED BY <1>1, <1>3, <2>1, <2>2, StepType
<1> HIDE DEF P
<1>4. 0..Len(c) \subseteq P
  BY <1>1, <1>2, <1>3, InductionTo
<1> QED BY <1>4 DEF P

\* What has been found while the loop is outside the block, and in it.
OutOfBlock(out, names) == [inBlock |-> FALSE, outside |-> out, managed |-> names]
InBlock(out, names) == [inBlock |-> TRUE, outside |-> out, managed |-> names]

\* The turns of the loop that rewritten files lead to.
LEMMA Turns ==
  ASSUME NEW out, NEW names
  PROVE  /\ \A line : line \notin Markers =>
              SplitStep(OutOfBlock(out, names), line) = OutOfBlock(Append(out, line), names)
         /\ SplitStep(OutOfBlock(out, names), hostsBegin) = InBlock(out, names)
         /\ \A d : SplitStep(InBlock(out, names), Entry(d)) = InBlock(out, Append(names, d))
         /\ SplitStep(InBlock(out, names), hostsEnd) = OutOfBlock(out, names)
<1> DEFINE acc(b) == [inBlock |-> b, outside |-> out, managed |-> names]
<1>1. PICK yes, no : yes = TRUE /\ no = FALSE
  OBVIOUS
<1>2. /\ OutOfBlock(out, names) = acc(no)
      /\ InBlock(out, names) = acc(yes)
  BY <1>1 DEF OutOfBlock, InBlock
<1>3. ASSUME NEW b
      PROVE  /\ \A x : [acc(b) EXCEPT !.inBlock = x] = acc(x)
             /\ \A x : [acc(b) EXCEPT !.outside = x] =
                         [inBlock |-> b, outside |-> x, managed |-> names]
             /\ \A x : [acc(b) EXCEPT !.managed = x] =
                         [inBlock |-> b, outside |-> out, managed |-> x]
             /\ acc(b).inBlock = b /\ acc(b).outside = out /\ acc(b).managed = names
  OBVIOUS
<1>4. ASSUME NEW line, line \notin Markers
      PROVE  SplitStep(OutOfBlock(out, names), line) = OutOfBlock(Append(out, line), names)
  <2>1. SplitStep(acc(no), line) = [acc(no) EXCEPT !.outside = Append(out, line)]
    BY <1>1, <1>4 DEF SplitStep, KeepLine, Markers
  <2>2. OutOfBlock(Append(out, line), names) =
          [inBlock |-> no, outside |-> Append(out, line), managed |-> names]
    BY <1>1 DEF OutOfBlock
  <2> QED BY <1>2, <1>3, <2>1, <2>2
<1>5. SplitStep(OutOfBlock(out, names), hostsBegin) = InBlock(out, names)
  <2>1. SplitStep(acc(no), hostsBegin) = [acc(no) EXCEPT !.inBlock = yes]
    BY <1>1 DEF SplitStep
  <2> QED BY <1>2, <1>3, <2>1
<1>6. ASSUME NEW d
      PROVE  SplitStep(InBlock(out, names), Entry(d)) = InBlock(out, Append(names, d))
  <2>1. Entry(d) \notin {hostsBegin, hostsEnd} /\ Entry(d)[1] = "entry" /\ Entry(d)[2] = d
    BY DEF Entry, hostsBegin, hostsEnd
  <2>2. SplitStep(acc(yes), Entry(d)) = [acc(yes) EXCEPT !.managed = Append(names, d)]
    BY <1>1, <2>1 DEF SplitStep, KeepLine
  <2>3. InBlock(out, Append(names, d)) =
          [inBlock |-> yes, outside |-> out, managed |-> Append(names, d)]
    BY <1>1 DEF InBlock
  <2> QED BY <1>2, <1>3, <2>2, <2>3
<1>7. SplitStep(InBlock(out, names), hostsEnd) = OutOfBlock(out, names)
  <2>1. SplitStep(acc(yes), hostsEnd) = [acc(yes) EXCEPT !.inBlock = no]
    BY <1>1 DEF SplitStep, hostsBegin, hostsEnd
  <2> QED BY <1>2, <1>3, <2>1
<1> QED BY <1>4, <1>5, <1>6, <1>7

\* Lines without a marker before the block all stay.
LEMMA OutsideRun ==
  ASSUME NEW S, NEW c \in Seq(S), NEW a \in 0..Len(c),
         \A k \in 1..a : c[k] \notin Markers
  PROVE  \A n \in 0..a : Found(c)[n] = OutOfBlock(SubSeq(c, 1, n), <<>>)
<1> DEFINE P == {n \in Nat : Found(c)[n] = OutOfBlock(SubSeq(c, 1, n), <<>>)}
<1>1. Len(c) \in Nat /\ \A i \in 1..Len(c) : c[i] \in S
  OBVIOUS
<1>2. 0 \in P
  <2>1. SubSeq(c, 1, 0) = <<>>
    OBVIOUS
  <2>2. Nothing = OutOfBlock(<<>>, <<>>)
    BY DEF Nothing, OutOfBlock
  <2> QED BY <1>1, <2>1, <2>2, FoundIs
<1>3. ASSUME NEW n \in 0..(a - 1), n \in P
      PROVE  n + 1 \in P
  <2>1. n + 1 \in 1..a /\ n + 1 \in 1..Len(c) /\ (n + 1) - 1 = n /\ n + 1 \in Nat
    BY <1>1
  <2>2. Found(c)[n + 1] = SplitStep(OutOfBlock(SubSeq(c, 1, n), <<>>), c[n + 1])
    BY <1>1, <1>3, <2>1, FoundIs
  <2>3. Append(SubSeq(c, 1, n), c[n + 1]) = SubSeq(c, 1, n + 1)
    BY <1>1
  <2>4. c[n + 1] \notin Markers
    BY <2>1
  <2>5. SplitStep(OutOfBlock(SubSeq(c, 1, n), <<>>), c[n + 1]) =
          OutOfBlock(Append(SubSeq(c, 1, n), c[n + 1]), <<>>)
    BY <2>4, Turns
  <2>6. Found(c)[n + 1] = OutOfBlock(SubSeq(c, 1, n + 1), <<>>)
    BY <2>2, <2>3, <2>5
  <2> QED BY <2>1, <2>6
<1> HIDE DEF P
<1>4. 0..a \subseteq P
  BY <1>2, <1>3, InductionTo
<1> QED BY <1>4 DEF P

\* In the block, a run of entries is found entry by entry.
LEMMA EntryRun ==
  ASSUME NEW S, NEW c \in Seq(S), NEW T, NEW s \in Seq(T), NEW m \in Nat, NEW out,
         m + Len(s) <= Len(c),
         Found(c)[m] = InBlock(out, <<>>),
         \A k \in 1..Len(s) : c[m + k] = Entry(s[k])
  PROVE  Found(c)[m + Len(s)] = InBlock(out, s)
<1> DEFINE P == {n \in Nat : Found(c)[m + n] = InBlock(out, SubSeq(s, 1, n))}
<1>1. Len(c) \in Nat /\ Len(s) \in Nat
  OBVIOUS
<1>2. 0 \in P
  <2>1. SubSeq(s, 1, 0) = <<>> /\ m + 0 = m
    OBVIOUS
  <2> QED BY <2>1
<1>3. ASSUME NEW n \in 0..(Len(s) - 1), n \in P
      PROVE  n + 1 \in P
  <2>1. /\ m + (n + 1) \in 1..Len(c) /\ (m + (n + 1)) - 1 = m + n
        /\ n + 1 \in 1..Len(s) /\ n + 1 \in Nat
    BY <1>1
  <2>2. Found(c)[m + (n + 1)] = SplitStep(InBlock(out, SubSeq(s, 1, n)), Entry(s[n + 1]))
    BY <1>1, <1>3, <2>1, FoundIs
  <2>3. Append(SubSeq(s, 1, n), s[n + 1]) = SubSeq(s, 1, n + 1)
    BY <1>1
  <2>4. SplitStep(InBlock(out, SubSeq(s, 1, n)), Entry(s[n + 1])) =
          InBlock(out, Append(SubSeq(s, 1, n), s[n + 1]))
    BY Turns
  <2>5. Found(c)[m + (n + 1)] = InBlock(out, SubSeq(s, 1, n + 1))
    BY <2>2, <2>3, <2>4
  <2> QED BY <2>1, <2>5
<1> HIDE DEF P
<1>4. Len(s) \in P
  <2>1. 0..Len(s) \subseteq P
    BY <1>1, <1>2, <1>3, InductionTo
  <2> QED BY <1>1, <2>1
<1>5. SubSeq(s, 1, Len(s)) = s
  BY SubSeqFull
<1> QED BY <1>4, <1>5 DEF P

-----------------------------------------------------------------------------
(* Blank lines at the end.                                                 *)

\* Where the lines without the blank ones at the end, end.
EndsAt(l, n) ==
  /\ n > 0 => l[n] # BlankLine
  /\ \A k \in (n + 1)..Len(l) : l[k] = BlankLine

\* There is one such place, and TrimBlankLines finds it.
LEMMA TrimIs ==
  ASSUME NEW S, NEW l \in Seq(S)
  PROVE  /\ \E n \in 0..Len(l) : EndsAt(l, n) /\ TrimBlankLines(l) = SubSeq(l, 1, n)
         /\ \A n \in 0..Len(l) : EndsAt(l, n) => TrimBlankLines(l) = SubSeq(l, 1, n)
<1> DEFINE P == {m \in Nat : \E n \in 0..m : /\ n > 0 => l[n] # BlankLine
                                             /\ \A k \in (n + 1)..m : l[k] = BlankLine}
<1>1. Len(l) \in Nat
  OBVIOUS
<1>2. 0 \in P
  OBVIOUS
<1>3. ASSUME NEW m \in Nat, m \in P
      PROVE  m + 1 \in P
  <2>1. CASE l[m + 1] = BlankLine
    <3>1. PICK n \in 0..m : /\ n > 0 => l[n] # BlankLine
                            /\ \A k \in (n + 1)..m : l[k] = BlankLine
      BY <1>3
    <3>2. n \in 0..(m + 1) /\ \A k \in (n + 1)..(m + 1) : l[k] = BlankLine
      BY <2>1, <3>1
    <3> QED BY <3>1, <3>2
  <2>2. CASE l[m + 1] # BlankLine
    <3>1. m + 1 \in 0..(m + 1) /\ \A k \in ((m + 1) + 1)..(m + 1) : l[k] = BlankLine
      OBVIOUS
    <3> QED BY <2>2, <3>1
  <2> QED BY <2>1, <2>2
<1> HIDE DEF P
<1>4. Len(l) \in P
  BY <1>1, <1>2, <1>3, Induction
<1>5. \E n \in 0..Len(l) : EndsAt(l, n)
  BY <1>4 DEF P, EndsAt
<1>6. ASSUME NEW n \in 0..Len(l), NEW m \in 0..Len(l), EndsAt(l, n), EndsAt(l, m)
      PROVE  n = m
  BY <1>1, <1>6 DEF EndsAt
<1>7. TrimBlankLines(l) = SubSeq(l, 1, CHOOSE n \in 0..Len(l) : EndsAt(l, n))
  BY DEF TrimBlankLines, EndsAt
<1> QED BY <1>5, <1>6, <1>7

\* Lines that do not end with a blank one stay as they are.
Trimmed(l) == l # <<>> => l[Len(l)] # BlankLine

LEMMA TrimOfTrimmed ==
  ASSUME NEW S, NEW l \in Seq(S), Trimmed(l)
  PROVE  TrimBlankLines(l) = l
<1>1. Len(l) \in Nat /\ (Len(l) > 0 => l # <<>>)
  OBVIOUS
<1>2. EndsAt(l, Len(l))
  BY <1>1 DEF EndsAt, Trimmed
<1> QED BY <1>1, <1>2, TrimIs, SubSeqFull

\* What splitHosts leaves outside holds no marker and no blank line at its end.
LEMMA SplitClean ==
  ASSUME NEW S, NEW c \in Seq(S)
  PROVE  splitHosts(c).outside \in Seq(S \ Markers) /\ Trimmed(splitHosts(c).outside)
<1> DEFINE T == {c[i][2] : i \in 1..Len(c)}
           o == Found(c)[Len(c)].outside
<1>1. Len(c) \in Nat
  OBVIOUS
<1>2. Found(c)[Len(c)] \in FoundIn(S, T)
  BY <1>1, FoundType
<1>3. o \in Seq(S \ Markers)
  BY <1>2 DEF FoundIn
<1>4. splitHosts(c).outside = TrimBlankLines(o)
  BY DEF splitHosts
<1> HIDE DEF o
<1>5. PICK n \in 0..Len(o) : EndsAt(o, n) /\ TrimBlankLines(o) = SubSeq(o, 1, n)
  BY <1>3, TrimIs
<1>6. /\ SubSeq(o, 1, n) \in Seq(S \ Markers) /\ Len(SubSeq(o, 1, n)) = n
      /\ n > 0 => SubSeq(o, 1, n)[n] = o[n]
  BY <1>3
<1>7. Trimmed(SubSeq(o, 1, n))
  BY <1>5, <1>6 DEF Trimmed, EndsAt
<1> QED BY <1>4, <1>5, <1>6, <1>7

-----------------------------------------------------------------------------
(* What SyncHosts writes.                                                  *)

\* A finite set is listed with each of its elements, once.
LEMMA ListedIs ==
  ASSUME NEW D, IsFiniteSet(D)
  PROVE  /\ Listed(D) \in Seq(D)
         /\ Len(Listed(D)) = Cardinality(D)
         /\ Seqs!ToSet(Listed(D)) = D
<1> DEFINE n == Cardinality(D)
<1>1. n \in Nat /\ ExistsBijection(1..n, D)
  BY FS_CardinalityType
<1>2. Seqs!Cardinality(D) = Cardinality(D)
  BY DEF Seqs!Cardinality, Cardinality
<1>3. Listed(D) = CHOOSE f \in [1..n -> D] : Seqs!IsInjective(f)
  BY <1>2 DEF Listed, Seqs!SetToSeq
<1>4. \E f \in [1..n -> D] : Seqs!IsInjective(f)
  BY <1>1 DEF ExistsBijection, Bijection, Injection, IsInjective, Seqs!IsInjective
<1> HIDE DEF n
<1>5. Listed(D) \in [1..n -> D] /\ Seqs!IsInjective(Listed(D))
  BY <1>3, <1>4
<1>6. Listed(D) \in Injection(1..n, D)
  BY <1>5 DEF Injection, IsInjective, Seqs!IsInjective
<1>7. Cardinality(1..n) = n
  BY <1>1, FS_Interval
<1>8. Listed(D) \in Surjection(1..n, D)
  BY <1>6, <1>7, FS_Injection DEF n
<1>9. Listed(D) \in Seq(D) /\ Len(Listed(D)) = n
  BY <1>1, <1>5
<1> QED BY <1>5, <1>8, <1>9 DEF Surjection, Seqs!ToSet, n

\* Two sequences one behind the other.
LEMMA Concat ==
  ASSUME NEW S, NEW s \in Seq(S), NEW t \in Seq(S)
  PROVE  /\ s \o t \in Seq(S) /\ Len(s \o t) = Len(s) + Len(t)
         /\ \A k \in 1..Len(s) : (s \o t)[k] = s[k]
         /\ \A k \in 1..Len(t) : (s \o t)[Len(s) + k] = t[k]
<1>1. Len(s) \in Nat /\ Len(t) \in Nat
  OBVIOUS
<1>2. /\ s \o t \in Seq(S) /\ Len(s \o t) = Len(s) + Len(t)
      /\ \A i \in 1..(Len(s) + Len(t)) :
           (s \o t)[i] = IF i <= Len(s) THEN s[i] ELSE t[i - Len(s)]
  BY ConcatProperties
<1>3. ASSUME NEW k \in 1..Len(t)
      PROVE  (s \o t)[Len(s) + k] = t[k]
  <2>1. /\ Len(s) + k \in 1..(Len(s) + Len(t)) /\ ~(Len(s) + k <= Len(s))
        /\ (Len(s) + k) - Len(s) = k
    BY <1>1
  <2> QED BY <1>2, <2>1
<1> QED BY <1>1, <1>2, <1>3

\* What a line of the file can be once the domains of D are in the block.
LinesWith(S, D) == S \cup {hostsBegin, hostsEnd, BlankLine} \cup {Entry(d) : d \in D}

\* The lines of a rewritten file with a block, one by one.
LEMMA RenderedIs ==
  ASSUME NEW S, NEW o \in Seq(S), NEW D, IsFiniteSet(D), D # {}
  PROVE  LET c == Rendered(o, D)
             a == Len(o)
             s == Listed(D)
         IN /\ c \in Seq(LinesWith(S, D))
            /\ Len(c) = a + Len(s) + 3
            /\ \A k \in 1..a : c[k] = o[k]
            /\ c[a + 1] = BlankLine
            /\ c[a + 2] = hostsBegin
            /\ \A k \in 1..Len(s) : c[(a + 2) + k] = Entry(s[k])
            /\ c[a + Len(s) + 3] = hostsEnd
<1> DEFINE s == Listed(D)
           L == LinesWith(S, D)
           es == [i \in 1..Cardinality(D) |-> Entry(s[i])]
           block == <<hostsBegin>> \o es \o <<hostsEnd>>
<1>1. s \in Seq(D) /\ Len(s) = Cardinality(D) /\ Len(s) \in Nat
  BY ListedIs, FS_CardinalityType
<1>2. /\ <<hostsBegin>> \in Seq(L) /\ <<hostsEnd>> \in Seq(L) /\ <<BlankLine>> \in Seq(L)
      /\ o \in Seq(L)
  <2>1. S \subseteq L /\ hostsBegin \in L /\ hostsEnd \in L /\ BlankLine \in L
    BY DEF LinesWith
  <2> HIDE DEF L
  <2> QED BY <2>1
<1>3. es \in Seq(L) /\ Len(es) = Len(s) /\ \A k \in 1..Len(s) : es[k] = Entry(s[k])
  <2>1. \A k \in 1..Len(s) : Entry(s[k]) \in L
    BY <1>1 DEF LinesWith
  <2> HIDE DEF L, s
  <2> QED BY <1>1, <2>1
<1>4. Rendered(o, D) = o \o <<BlankLine>> \o block
  BY DEF Rendered, desiredHostsBlock
<1> HIDE DEF es, L, s
<1>5. /\ block \in Seq(L)
      /\ Len(block) = Len(s) + 2
      /\ block[1] = hostsBegin
      /\ \A k \in 1..Len(s) : block[k + 1] = Entry(s[k])
      /\ block[Len(s) + 2] = hostsEnd
  <2> DEFINE b == <<hostsBegin>> \o es
  <2>1. /\ b \in Seq(L) /\ Len(b) = Len(s) + 1 /\ b[1] = hostsBegin
        /\ \A k \in 1..Len(s) : b[k + 1] = Entry(s[k])
    BY <1>1, <1>2, <1>3
  <2>2. block = b \o <<hostsEnd>>
    OBVIOUS
  <2> HIDE DEF b, block
  <2>3. /\ block \in Seq(L) /\ Len(block) = Len(b) + 1
        /\ \A k \in 1..Len(b) : block[k] = b[k]
        /\ block[Len(b) + 1] = hostsEnd
    BY <1>2, <2>1, <2>2
  <2>4. block[1] = hostsBegin /\ \A k \in 1..Len(s) : block[k + 1] = Entry(s[k])
    BY <1>1, <2>1, <2>3
  <2> QED BY <1>1, <2>1, <2>3, <2>4
<1> HIDE DEF block
<1>6. /\ o \o <<BlankLine>> \in Seq(L)
      /\ Len(o \o <<BlankLine>>) = Len(o) + 1
      /\ \A k \in 1..Len(o) : (o \o <<BlankLine>>)[k] = o[k]
      /\ (o \o <<BlankLine>>)[Len(o) + 1] = BlankLine
  BY <1>2
<1> DEFINE f == o \o <<BlankLine>>
           c == f \o block
<1>7. Rendered(o, D) = c /\ Len(o) \in Nat
  BY <1>4
<1>8. f \in Seq(L) /\ Len(f) = Len(o) + 1
  BY <1>6
<1> HIDE DEF f
<1>9. /\ c \in Seq(L)
      /\ Len(c) = Len(o) + Len(s) + 3
      /\ \A k \in 1..(Len(o) + 1) : c[k] = f[k]
      /\ \A k \in 1..(Len(s) + 2) : c[Len(o) + 1 + k] = block[k]
  <2>0. f \in Seq(L) /\ block \in Seq(L)
    BY <1>5, <1>8
  <2>1. /\ c \in Seq(L) /\ Len(c) = Len(f) + Len(block)
        /\ \A k \in 1..Len(f) : c[k] = f[k]
        /\ \A k \in 1..Len(block) : c[Len(f) + k] = block[k]
    <3> HIDE DEF L
    <3>1. /\ f \o block \in Seq(L) /\ Len(f \o block) = Len(f) + Len(block)
          /\ \A k \in 1..Len(f) : (f \o block)[k] = f[k]
          /\ \A k \in 1..Len(block) : (f \o block)[Len(f) + k] = block[k]
      BY <2>0, Concat
    <3> QED BY <3>1
  <2> HIDE DEF c
  <2> QED BY <1>1, <1>5, <1>7, <1>8, <2>1
<1> HIDE DEF c
<1>10. \A k \in 1..Len(o) : c[k] = o[k]
  BY <1>6, <1>7, <1>9 DEF f
<1>11. c[Len(o) + 1] = BlankLine
  BY <1>6, <1>7, <1>9 DEF f
<1>12. c[Len(o) + 2] = hostsBegin
  BY <1>1, <1>5, <1>7, <1>9
<1>13. ASSUME NEW k \in 1..Len(s)
       PROVE  c[(Len(o) + 2) + k] = Entry(s[k])
  <2>1. k + 1 \in 1..(Len(s) + 2) /\ Len(o) + 1 + (k + 1) = (Len(o) + 2) + k
    BY <1>1, <1>7
  <2> QED BY <1>5, <1>9, <2>1
<1>14. c[Len(o) + Len(s) + 3] = hostsEnd
  <2>1. /\ Len(s) + 2 \in 1..(Len(s) + 2)
        /\ Len(o) + 1 + (Len(s) + 2) = Len(o) + Len(s) + 3
    BY <1>1, <1>7
  <2> QED BY <1>5, <1>9, <2>1
<1> QED BY <1>7, <1>9, <1>10, <1>11, <1>12, <1>13, <1>14 DEF L, s

\* splitHosts finds in a rewritten file what was written: the lines that were kept,
\* and each domain once.
LEMMA SplitOfRendered ==
  ASSUME NEW S, NEW o \in Seq(S \ Markers), Trimmed(o), NEW D, IsFiniteSet(D)
  PROVE  splitHosts(Rendered(o, D)) = [outside |-> o, managed |-> Listed(D)]
<1> DEFINE c == Rendered(o, D)
           a == Len(o)
           s == Listed(D)
<1>1. a \in Nat /\ s \in Seq(D) /\ Len(s) \in Nat /\ \A k \in 1..a : o[k] \in S \ Markers
  BY ListedIs
<1>2. CASE D = {}
  <2>1. c = o
    BY <1>2 DEF Rendered
  <2>2. Found(c)[a] = OutOfBlock(SubSeq(o, 1, a), <<>>)
    BY <1>1, <2>1, OutsideRun
  <2>3. SubSeq(o, 1, a) = o
    BY SubSeqFull
  <2>4. TrimBlankLines(o) = o
    BY TrimOfTrimmed
  <2>5. s = <<>>
    <3>1. Len(s) = 0
      BY <1>2, FS_EmptySet, ListedIs
    <3> QED BY <1>1, <3>1
  <2>6. Found(c)[Len(c)].outside = o /\ Found(c)[Len(c)].managed = <<>>
    BY <2>1, <2>2, <2>3 DEF OutOfBlock
  <2>7. splitHosts(c) = [outside |-> TrimBlankLines(o), managed |-> <<>>]
    BY <2>6 DEF splitHosts
  <2> QED BY <2>4, <2>5, <2>7
<1>3. CASE D # {}
  <2>1. /\ c \in Seq(LinesWith(S, D))
        /\ Len(c) = a + Len(s) + 3
        /\ \A k \in 1..a : c[k] = o[k]
        /\ c[a + 1] = BlankLine
        /\ c[a + 2] = hostsBegin
        /\ \A k \in 1..Len(s) : c[(a + 2) + k] = Entry(s[k])
        /\ c[a + Len(s) + 3] = hostsEnd
    <3>1. o \in Seq(S)
      BY <1>1
    <3> QED BY <1>3, <3>1, RenderedIs
  <2> HIDE DEF c, s
  <2>2. \A k \in 1..(a + 1) : c[k] \notin Markers
    BY <1>1, <2>1 DEF Markers, BlankLine, hostsBegin, hostsEnd
  <2> DEFINE x == SubSeq(c, 1, a + 1)
  <2>3. Found(c)[a + 1] = OutOfBlock(x, <<>>)
    <3>1. a + 1 \in 0..Len(c) /\ a + 1 \in 0..(a + 1)
      BY <1>1, <2>1
    <3> HIDE DEF x
    <3>2. \A n \in 0..(a + 1) :
            Found(c)[n] = OutOfBlock(SubSeq(c, 1, n), <<>>)
      BY <2>1, <2>2, <3>1, OutsideRun
    <3> QED BY <3>1, <3>2 DEF x
  <2> HIDE DEF x
  <2>4. Found(c)[a + 2] = InBlock(x, <<>>)
    <3>1. Found(c)[a + 2] = SplitStep(Found(c)[a + 1], hostsBegin)
      <4>1. a + 2 \in 1..Len(c) /\ (a + 2) - 1 = a + 1 /\ Len(c) \in Nat
        BY <1>1, <2>1
      <4> QED BY <2>1, <4>1, FoundIs
    <3> QED BY <2>3, <3>1, Turns
  <2>5. Found(c)[(a + 2) + Len(s)] = InBlock(x, s)
    <3>1. a + 2 \in Nat /\ (a + 2) + Len(s) <= Len(c)
      BY <1>1, <2>1
    <3> QED BY <1>1, <2>1, <2>4, <3>1, EntryRun
  <2>6. Found(c)[Len(c)] = OutOfBlock(x, s)
    <3>1. Found(c)[Len(c)] = SplitStep(Found(c)[(a + 2) + Len(s)], hostsEnd)
      <4>1. /\ Len(c) \in 1..Len(c) /\ Len(c) - 1 = (a + 2) + Len(s) /\ Len(c) \in Nat
            /\ c[Len(c)] = hostsEnd
        BY <1>1, <2>1
      <4> QED BY <4>1, FoundIs
    <3> QED BY <2>5, <3>1, Turns
  <2>7. TrimBlankLines(x) = o
    <3>1. /\ x \in Seq(LinesWith(S, D)) /\ Len(x) = a + 1
          /\ \A k \in 1..(a + 1) : x[k] = c[k]
      BY <1>1, <2>1 DEF x
    <3>2. EndsAt(x, a)
      BY <1>1, <2>1, <3>1 DEF EndsAt, Trimmed
    <3>3. TrimBlankLines(x) = SubSeq(x, 1, a)
      BY <1>1, <3>1, <3>2, TrimIs
    <3>4. SubSeq(x, 1, a) = o
      BY <1>1, <2>1, <3>1
    <3> QED BY <3>3, <3>4
  <2>8. splitHosts(c) = [outside |-> TrimBlankLines(x), managed |-> s]
    BY <2>6 DEF splitHosts, OutOfBlock
  <2> QED BY <2>7, <2>8 DEF c, s
<1> QED BY <1>2, <1>3

\* The block that was written is in sync.
LEMMA RenderedInSync ==
  ASSUME NEW S, NEW o \in Seq(S \ Markers), Trimmed(o), NEW D, IsFiniteSet(D)
  PROVE  HostsInSync(Rendered(o, D), D)
<1>0. splitHosts(Rendered(o, D)) = [outside |-> o, managed |-> Listed(D)]
  BY SplitOfRendered
<1>1. splitHosts(Rendered(o, D)).managed = Listed(D)
  BY <1>0
<1>2. Seqs!ToSet(Listed(D)) = D
  BY ListedIs
<1> QED BY <1>1, <1>2 DEF HostsInSync

-----------------------------------------------------------------------------
(* The reference for splitHosts.                                           *)

\* A function on 1..N is a sequence.
LEMMA FunctionIsSeq ==
  ASSUME NEW S, NEW N \in Nat, NEW f \in [1..N -> S]
  PROVE  f \in Seq(S) /\ Len(f) = N
OBVIOUS

\* A position behind all others of P adds its line at the end.
LEMMA AtAppend ==
  ASSUME NEW c, NEW P, IsFiniteSet(P), P \subseteq Nat, NEW n \in Nat, \A i \in P : i < n
  PROVE  At(c, P \cup {n}) = Append(At(c, P), c[n])
<1> DEFINE Q == P \cup {n}
           N == Cardinality(P)
           pos(R, m) == CHOOSE i \in R : Cardinality({j \in R : j < i}) = m
<1>1. N \in Nat /\ Cardinality(Q) = N + 1
  <2>1. n \notin P
    OBVIOUS
  <2> QED BY <2>1, FS_CardinalityType, FS_AddElement
<1>2. \A i \in P : {j \in Q : j < i} = {j \in P : j < i}
  OBVIOUS
<1>3. {j \in Q : j < n} = P
  <2>1. ~(n < n)
    OBVIOUS
  <2> QED BY <2>1
<1>4. ASSUME NEW i \in P
      PROVE  Cardinality({j \in P : j < i}) \in Nat /\ Cardinality({j \in P : j < i}) < N
  <2>1. {j \in P : j < i} \in SUBSET P /\ {j \in P : j < i} # P
    OBVIOUS
  <2> HIDE DEF N
  <2> QED BY <2>1, FS_Subset, FS_CardinalityType DEF N
<1>5. ASSUME NEW m \in 0..(N - 1)
      PROVE  pos(Q, m) = pos(P, m)
  <2>1. \A i : (i \in Q /\ Cardinality({j \in Q : j < i}) = m)
                 <=> (i \in P /\ Cardinality({j \in P : j < i}) = m)
    <3>1. Cardinality({j \in Q : j < n}) # m
      BY <1>1, <1>3
    <3> HIDE DEF N
    <3> QED BY <1>2, <3>1
  <2> HIDE DEF Q
  <2> QED BY <2>1, Zenon
<1>6. pos(Q, N) = n
  <2>1. \A i \in Q : Cardinality({j \in Q : j < i}) = N <=> i = n
    BY <1>1, <1>2, <1>3, <1>4
  <2>2. n \in Q
    OBVIOUS
  <2> HIDE DEF Q, N
  <2> QED BY <2>1, <2>2
<1>7. /\ At(c, P) = [k \in 1..N |-> c[pos(P, k - 1)]]
      /\ At(c, Q) = [k \in 1..(N + 1) |-> c[pos(Q, k - 1)]]
  BY <1>1 DEF At
<1> HIDE DEF Q, N, pos
<1>8. At(c, P) \in Seq({c[pos(P, k - 1)] : k \in 1..N}) /\ Len(At(c, P)) = N
  <2>1. At(c, P) \in [1..N -> {c[pos(P, k - 1)] : k \in 1..N}]
    BY <1>7
  <2> QED BY <1>1, <2>1, FunctionIsSeq
<1>9. \A k \in 1..N : pos(Q, k - 1) = pos(P, k - 1)
  BY <1>1, <1>5
<1>10. At(c, Q) = Append(At(c, P), c[n])
  BY <1>1, <1>6, <1>7, <1>8, <1>9
<1> QED BY <1>10 DEF Q

\* A line is in the block if the one before it opens it, or is in it and does not
\* close it.
LEMMA ManagedNext ==
  ASSUME NEW c, NEW i \in Nat \ {0}
  PROVE  Managed(c, i + 1) <=> \/ c[i] = hostsBegin
                               \/ c[i] # hostsEnd /\ Managed(c, i)
<1>1. hostsBegin # hostsEnd
  BY DEF hostsBegin, hostsEnd
<1>2. ASSUME c[i] = hostsBegin
      PROVE  Managed(c, i + 1)
  BY <1>1, <1>2 DEF Managed
<1>3. ASSUME c[i] # hostsEnd, Managed(c, i)
      PROVE  Managed(c, i + 1)
  BY <1>3 DEF Managed
<1>4. ASSUME Managed(c, i + 1), c[i] # hostsBegin
      PROVE  c[i] # hostsEnd /\ Managed(c, i)
  BY <1>4 DEF Managed
<1> QED BY <1>2, <1>3, <1>4

\* The positions up to n of the lines outside the block, and of the entries in it.
OutsideUpTo(c, n) == {i \in 1..n : c[i] \notin Markers /\ ~Managed(c, i)}
EntriesUpTo(c, n) == {i \in 1..n : c[i][1] = "entry" /\ Managed(c, i)}

\* The entries that stand for a list of domains.
EntriesOf(names) == [i \in DOMAIN names |-> Entry(names[i])]

LEMMA UpToIs ==
  ASSUME NEW c, NEW n \in Nat
  PROVE  /\ IsFiniteSet(OutsideUpTo(c, n)) /\ OutsideUpTo(c, n) \subseteq 0..n
         /\ IsFiniteSet(EntriesUpTo(c, n)) /\ EntriesUpTo(c, n) \subseteq 0..n
         /\ OutsideUpTo(c, n + 1) =
              IF c[n + 1] \notin Markers /\ ~Managed(c, n + 1)
              THEN OutsideUpTo(c, n) \cup {n + 1} ELSE OutsideUpTo(c, n)
         /\ EntriesUpTo(c, n + 1) =
              IF c[n + 1][1] = "entry" /\ Managed(c, n + 1)
              THEN EntriesUpTo(c, n) \cup {n + 1} ELSE EntriesUpTo(c, n)
<1>1. IsFiniteSet(1..n)
  BY FS_Interval
<1>2. OutsideUpTo(c, n) \subseteq 1..n /\ EntriesUpTo(c, n) \subseteq 1..n
  BY DEF OutsideUpTo, EntriesUpTo
<1>3. 1..n \subseteq 0..n
  OBVIOUS
<1>4. 1..(n + 1) = (1..n) \cup {n + 1}
  OBVIOUS
<1> QED BY <1>1, <1>2, <1>3, <1>4, FS_Subset DEF OutsideUpTo, EntriesUpTo

\* A line of the file that begins like an entry is one, and no marker.
LEMMA LineIs ==
  ASSUME NEW l \in Line, l[1] = "entry"
  PROVE  l = Entry(l[2]) /\ l \notin Markers /\ l[2] \in Domain
BY DEF Line, Markers, Entry, UserLine, hostsBegin, hostsEnd, BlankLine

\* What has been found after n turns is what the markers up to there define.
FoundRight(c, n) ==
  /\ Found(c)[n].inBlock <=> Managed(c, n + 1)
  /\ Found(c)[n].outside = At(c, OutsideUpTo(c, n))
  /\ EntriesOf(Found(c)[n].managed) = At(c, EntriesUpTo(c, n))

LEMMA AppendEntry ==
  ASSUME NEW s \in Seq(Domain), NEW d \in Domain
  PROVE  EntriesOf(Append(s, d)) = Append(EntriesOf(s), Entry(d))
<1>1. EntriesOf(s) \in Seq({Entry(e) : e \in Domain}) /\ Len(EntriesOf(s)) = Len(s)
  BY DEF EntriesOf
<1>2. \A i \in 1..Len(s) : EntriesOf(s)[i] = Entry(s[i])
  BY DEF EntriesOf
<1>3. /\ EntriesOf(Append(s, d)) = [i \in 1..(Len(s) + 1) |-> Entry(Append(s, d)[i])]
      /\ \A i \in 1..Len(s) : Append(s, d)[i] = s[i]
      /\ Append(s, d)[Len(s) + 1] = d
  BY DEF EntriesOf
<1> DEFINE es == EntriesOf(s)
           new == EntriesOf(Append(s, d))
<1>4. \A i \in 1..(Len(s) + 1) : new[i] = IF i <= Len(s) THEN es[i] ELSE Entry(d)
  BY <1>2, <1>3
<1>5. DOMAIN new = 1..(Len(s) + 1) /\ new = [i \in 1..(Len(s) + 1) |-> new[i]]
  BY <1>3
<1> HIDE DEF es, new
<1>6. Append(es, Entry(d)) = [i \in 1..(Len(s) + 1) |-> IF i <= Len(s) THEN es[i] ELSE Entry(d)]
  <2> DEFINE E == {Entry(e) : e \in Domain}
             a == Append(es, Entry(d))
  <2>1. Entry(d) \in E /\ es \in Seq(E) /\ Len(es) = Len(s)
    BY <1>1 DEF es
  <2> HIDE DEF E
  <2>2. /\ a \in Seq(E) /\ Len(a) = Len(s) + 1
        /\ \A i \in 1..Len(s) : a[i] = es[i]
        /\ a[Len(s) + 1] = Entry(d)
    BY <2>1
  <2> HIDE DEF a
  <2>3. a = [i \in 1..(Len(s) + 1) |-> a[i]]
    BY <2>2
  <2>4. \A i \in 1..(Len(s) + 1) : a[i] = IF i <= Len(s) THEN es[i] ELSE Entry(d)
    BY <2>2
  <2> QED BY <2>3, <2>4 DEF a
<1> QED BY <1>4, <1>5, <1>6 DEF es, new

LEMMA FoundMeetsReference ==
  ASSUME NEW c \in Seq(Line)
  PROVE  \A n \in 0..Len(c) : FoundRight(c, n)
<1> DEFINE P == {n \in Nat : FoundRight(c, n)}
<1>1. Len(c) \in Nat /\ \A i \in 1..Len(c) : c[i] \in Line
  OBVIOUS
<1>2. \A n \in 0..Len(c) : Found(c)[n] \in FoundIn(Line, Domain)
  BY <1>1, LineIs, FoundType
<1>3. 0 \in P
  <2>1. Found(c)[0] = Nothing
    BY <1>1, FoundIs
  <2>2. ~Managed(c, 1)
    BY DEF Managed
  <2>3. OutsideUpTo(c, 0) = {} /\ EntriesUpTo(c, 0) = {}
    BY DEF OutsideUpTo, EntriesUpTo
  <2>4. At(c, {}) = <<>>
    BY FS_EmptySet DEF At
  <2>5. EntriesOf(<<>>) = <<>>
    BY DEF EntriesOf
  <2>6. /\ Found(c)[0].outside = <<>> /\ Found(c)[0].managed = <<>>
        /\ ~Found(c)[0].inBlock
    BY <2>1 DEF Nothing
  <2>7. 0 + 1 = 1 /\ 0 \in Nat
    OBVIOUS
  <2>8. FoundRight(c, 0)
    BY <2>2, <2>3, <2>4, <2>5, <2>6, <2>7 DEF FoundRight
  <2> QED BY <2>8
<1>4. ASSUME NEW n \in 0..(Len(c) - 1), n \in P
      PROVE  n + 1 \in P
  <2> DEFINE old == Found(c)[n]
             new == Found(c)[n + 1]
             line == c[n + 1]
  <2>1. n \in Nat /\ n + 1 \in 1..Len(c) /\ (n + 1) - 1 = n /\ line \in Line
    BY <1>1
  <2>2. new = SplitStep(old, line)
    BY <1>1, <2>1, FoundIs
  <2>3. /\ old \in FoundIn(Line, Domain)
        /\ old.inBlock <=> Managed(c, n + 1)
        /\ old.outside = At(c, OutsideUpTo(c, n))
        /\ EntriesOf(old.managed) = At(c, EntriesUpTo(c, n))
    BY <1>1, <1>2, <1>4 DEF FoundRight
  <2> HIDE DEF old, new
  <2>4. /\ At(c, OutsideUpTo(c, n) \cup {n + 1}) = Append(old.outside, line)
        /\ At(c, EntriesUpTo(c, n) \cup {n + 1}) = Append(EntriesOf(old.managed), line)
    <3>1. \A i \in 0..n : i \in Nat /\ i < n + 1
      BY <2>1
    <3>2. n + 1 \in Nat
      BY <2>1
    <3>3. At(c, OutsideUpTo(c, n) \cup {n + 1}) = Append(At(c, OutsideUpTo(c, n)), line)
      BY <2>1, <3>1, <3>2, UpToIs, AtAppend
    <3>4. At(c, EntriesUpTo(c, n) \cup {n + 1}) = Append(At(c, EntriesUpTo(c, n)), line)
      BY <2>1, <3>1, <3>2, UpToIs, AtAppend
    <3> QED BY <2>3, <3>3, <3>4
  <2>5. CASE line \in Markers
    <3>1. new = [old EXCEPT !.inBlock = (line = hostsBegin)]
      BY <2>2, <2>5 DEF SplitStep, Markers
    <3>2. /\ new.inBlock <=> line = hostsBegin
          /\ new.outside = old.outside /\ new.managed = old.managed
      BY <2>3, <3>1 DEF FoundIn
    <3>3. line[1] # "entry"
      BY <2>1, <2>5, LineIs
    <3>4. /\ OutsideUpTo(c, n + 1) = OutsideUpTo(c, n)
          /\ EntriesUpTo(c, n + 1) = EntriesUpTo(c, n)
      BY <2>1, <2>5, <3>3, UpToIs
    <3>5. Managed(c, (n + 1) + 1) <=> line = hostsBegin
      BY <2>1, <2>5, ManagedNext DEF Markers
    <3> QED BY <2>1, <2>3, <3>2, <3>4, <3>5 DEF FoundRight, new
  <2>6. CASE line \notin Markers
    <3>1. new = KeepLine(old, line)
      BY <2>2, <2>6 DEF SplitStep, Markers
    <3>2. Managed(c, (n + 1) + 1) <=> Managed(c, n + 1)
      BY <2>1, <2>6, ManagedNext DEF Markers
    <3>3. CASE ~old.inBlock
      <4>1. new = [old EXCEPT !.outside = Append(old.outside, line)]
        BY <3>1, <3>3 DEF KeepLine
      <4>2. /\ new.inBlock = old.inBlock /\ new.managed = old.managed
            /\ new.outside = Append(old.outside, line)
        BY <2>3, <4>1 DEF FoundIn
      <4>3. /\ OutsideUpTo(c, n + 1) = OutsideUpTo(c, n) \cup {n + 1}
            /\ EntriesUpTo(c, n + 1) = EntriesUpTo(c, n)
        BY <2>1, <2>3, <2>6, <3>3, UpToIs
      <4>4. new.inBlock <=> Managed(c, (n + 1) + 1)
        BY <2>3, <3>2, <4>2
      <4>5. new.outside = At(c, OutsideUpTo(c, n + 1))
        BY <2>3, <2>4, <4>2, <4>3
      <4>6. EntriesOf(new.managed) = At(c, EntriesUpTo(c, n + 1))
        BY <2>3, <2>4, <4>2, <4>3
      <4> QED BY <2>1, <4>4, <4>5, <4>6 DEF FoundRight, new
    <3>4. CASE old.inBlock /\ line[1] = "entry"
      <4>1. new = [old EXCEPT !.managed = Append(old.managed, line[2])]
        BY <3>1, <3>4 DEF KeepLine
      <4>2. /\ new.inBlock = old.inBlock /\ new.outside = old.outside
            /\ new.managed = Append(old.managed, line[2])
        BY <2>3, <4>1 DEF FoundIn
      <4>3. /\ OutsideUpTo(c, n + 1) = OutsideUpTo(c, n)
            /\ EntriesUpTo(c, n + 1) = EntriesUpTo(c, n) \cup {n + 1}
        BY <2>1, <2>3, <3>4, UpToIs
      <4>4. line = Entry(line[2]) /\ line[2] \in Domain
        BY <2>1, <3>4, LineIs
      <4>5. old.managed \in Seq(Domain)
        BY <2>3 DEF FoundIn
      <4>6. EntriesOf(new.managed) = Append(EntriesOf(old.managed), line)
        BY <4>2, <4>4, <4>5, AppendEntry
      <4>7. new.inBlock <=> Managed(c, (n + 1) + 1)
        BY <2>3, <3>2, <4>2
      <4>8. new.outside = At(c, OutsideUpTo(c, n + 1))
        BY <2>3, <2>4, <4>2, <4>3
      <4>9. EntriesOf(new.managed) = At(c, EntriesUpTo(c, n + 1))
        BY <2>3, <2>4, <4>2, <4>3, <4>6
      <4> QED BY <2>1, <4>7, <4>8, <4>9 DEF FoundRight, new
    <3>5. CASE old.inBlock /\ line[1] # "entry"
      <4>1. new = old
        BY <3>1, <3>5 DEF KeepLine
      <4>2. /\ OutsideUpTo(c, n + 1) = OutsideUpTo(c, n)
            /\ EntriesUpTo(c, n + 1) = EntriesUpTo(c, n)
        BY <2>1, <2>3, <3>5, UpToIs
      <4> QED BY <2>1, <2>3, <3>2, <4>1, <4>2 DEF FoundRight, new
    <3> QED BY <3>3, <3>4, <3>5
  <2> QED BY <2>5, <2>6
<1> HIDE DEF P
<1>5. 0..Len(c) \subseteq P
  BY <1>1, <1>3, <1>4, InductionTo
<1> QED BY <1>5 DEF P

\* splitHosts finds what the markers define, whatever the lines are.
LEMMA SplitMeets ==
  ASSUME content \in Seq(Line)
  PROVE  SplitMeetsReference
<1> DEFINE c == content
           n == Len(c)
           end == Found(c)[n]
           s == splitHosts(c)
           entries == {i \in DOMAIN c : c[i][1] = "entry" /\ Managed(c, i)}
<1>1. n \in Nat /\ DOMAIN c = 1..n
  OBVIOUS
<1>2. FoundRight(c, n)
  BY <1>1, FoundMeetsReference
<1>3. end \in FoundIn(Line, Domain)
  BY <1>1, LineIs, FoundType
<1>4. Outside(c) = end.outside
  <2>1. Outside(c) = At(c, OutsideUpTo(c, n))
    BY <1>1 DEF Outside, OutsideUpTo, Markers
  <2> QED BY <1>2, <2>1 DEF FoundRight
<1>5. EntriesOf(end.managed) = At(c, entries)
  <2>1. entries = EntriesUpTo(c, n)
    BY <1>1 DEF EntriesUpTo
  <2> QED BY <1>2, <2>1 DEF FoundRight
<1>6. s.outside = TrimBlankLines(end.outside) /\ s.managed = end.managed
  BY DEF splitHosts
<1> DEFINE o == end.outside
<1>7. o \in Seq(Line \ Markers)
  BY <1>3 DEF FoundIn
<1> HIDE DEF o
<1>8. PICK k \in 0..Len(o) : EndsAt(o, k) /\ TrimBlankLines(o) = SubSeq(o, 1, k)
  BY <1>7, TrimIs
<1>9. /\ Len(o) \in Nat /\ Len(SubSeq(o, 1, k)) = k
      /\ SubSeq(o, 1, k) # <<>> => k > 0 /\ SubSeq(o, 1, k)[k] = o[k]
      /\ SubSeq(SubSeq(o, 1, k), 1, k) = SubSeq(o, 1, k)
  BY <1>7
<1> DEFINE t == SubSeq(o, 1, k)
<1>10. Seqs!IsPrefix(t, o)
  BY <1>9 DEF Seqs!IsPrefix
<1>11. OnlyBlankFrom(o, Len(t) + 1)
  BY <1>8, <1>9 DEF OnlyBlankFrom, EndsAt
<1>12. t # <<>> => Seqs!Last(t) # BlankLine
  BY <1>8, <1>9 DEF Seqs!Last, EndsAt
<1>13. s.outside = t /\ Outside(c) = o
  BY <1>4, <1>6, <1>8 DEF o
<1>14. [i \in DOMAIN s.managed |-> Entry(s.managed[i])] = At(c, entries)
  BY <1>5, <1>6 DEF EntriesOf
<1> HIDE DEF s, t, entries
<1> QED BY <1>10, <1>11, <1>12, <1>13, <1>14 DEF SplitMeetsReference, s, entries

-----------------------------------------------------------------------------
(* HostsFileCheck: any file, any table, SyncHosts over and over.           *)

Typed == content \in Seq(Line) /\ domains \in DomainSets

\* What SyncHosts writes are lines again.
LEMMA SyncLines ==
  ASSUME content \in Seq(Line), domains \in DomainSets
  PROVE  SyncHosts(content, domains) \in Seq(Line)
<1> DEFINE o == splitHosts(content).outside
<1>1. o \in Seq(Line \ Markers)
  BY SplitClean
<1>2. o \in Seq(Line)
  BY <1>1
<1>3. IsFiniteSet(domains) /\ domains \subseteq Domain
  BY DEF DomainSets
<1>4. LinesWith(Line, domains) \subseteq Line
  BY <1>3 DEF LinesWith, Line
<1>5. SyncHosts(content, domains) = Rendered(o, domains)
  BY DEF SyncHosts
<1> HIDE DEF o
<1>6. CASE domains = {}
  BY <1>2, <1>5, <1>6 DEF Rendered
<1>7. CASE domains # {}
  <2>1. Rendered(o, domains) \in Seq(LinesWith(Line, domains))
    BY <1>2, <1>3, <1>7, RenderedIs
  <2> QED BY <1>4, <1>5, <2>1
<1> QED BY <1>6, <1>7

\* The file is a sequence of lines and the table a finite set of domains.
THEOREM TypeCorrect == Spec => []Typed
<1>1. Init => Typed
  BY DEF Init, Typed, Seqs!BoundedSeq, Seqs!SeqOf
<1>2. Typed /\ [Next]_vars => Typed'
  <2> SUFFICES ASSUME Typed, [Next]_vars
               PROVE  Typed'
    OBVIOUS
  <2>1. CASE Sync
    BY <2>1, SyncLines DEF Sync, Typed
  <2>2. CASE ChangeTable
    BY <2>2 DEF ChangeTable, Typed
  <2>3. CASE UNCHANGED vars
    BY <2>3 DEF vars, Typed
  <2> QED BY <2>1, <2>2, <2>3 DEF Next
<1> QED BY <1>1, <1>2, PTL DEF Spec

\* The loop of splitHosts finds the lines that the markers define, whatever the
\* file holds and however long it is (hostsfile.go:29-55).
THEOREM SplitRight == Spec => []SplitMeetsReference
<1>1. Typed => SplitMeetsReference
  BY SplitMeets DEF Typed
<1> QED BY <1>1, TypeCorrect, PTL

\* What splitHosts keeps of a rewritten file is what was kept when it was written.
LEMMA SyncKeeps ==
  ASSUME NEW S, NEW c \in Seq(S), NEW D, IsFiniteSet(D)
  PROVE  /\ splitHosts(SyncHosts(c, D)).outside = splitHosts(c).outside
         /\ HostsInSync(SyncHosts(c, D), D)
<1> DEFINE o == splitHosts(c).outside
<1>1. o \in Seq(S \ Markers) /\ Trimmed(o)
  BY SplitClean
<1>2. SyncHosts(c, D) = Rendered(o, D)
  BY DEF SyncHosts
<1> HIDE DEF o
<1>3. splitHosts(Rendered(o, D)) = [outside |-> o, managed |-> Listed(D)]
  BY <1>1, SplitOfRendered
<1>4. HostsInSync(Rendered(o, D), D)
  BY <1>1, RenderedInSync
<1> QED BY <1>2, <1>3, <1>4 DEF o

-----------------------------------------------------------------------------
(* What is not between two markers.                                        *)

\* In a closed file a line is behind a begin marker only if it is in a whole block.
LEMMA ManagedIsBetween ==
  ASSUME NEW c, Len(c) \in Nat, DOMAIN c = 1..Len(c), Closed(c),
         NEW i \in 1..Len(c), c[i] \notin Markers
  PROVE  Managed(c, i) <=> Between(c, i)
<1> SUFFICES ASSUME Managed(c, i)
             PROVE  \E e \in (i + 1)..Len(c) : c[e] = hostsEnd
  BY DEF Between
<1>1. PICK b \in 1..(i - 1) : /\ c[b] = hostsBegin
                              /\ \A k \in b..(i - 1) : c[k] # hostsEnd
  BY DEF Managed
<1>2. PICK e \in (b + 1)..Len(c) : c[e] = hostsEnd
  BY <1>1 DEF Closed
<1>3. e \notin b..(i - 1) /\ e # i
  BY <1>1, <1>2 DEF Markers
<1>4. e \in (i + 1)..Len(c)
  BY <1>3
<1> QED BY <1>2, <1>4

\* What is found outside the block of a closed file is what is not between markers.
LEMMA ClosedOutside ==
  ASSUME NEW c \in Seq(Line), Closed(c)
  PROVE  /\ ElseThanBlock(c) \in Seq(Line)
         /\ splitHosts(c).outside = TrimBlankLines(ElseThanBlock(c))
<1> DEFINE n == Len(c)
<1>1. n \in Nat /\ DOMAIN c = 1..n /\ n \in 0..n
  OBVIOUS
<1>2. FoundRight(c, n)
  BY <1>1, FoundMeetsReference
<1>3. Found(c)[n] \in FoundIn(Line, Domain)
  BY <1>1, LineIs, FoundType
<1>4. Found(c)[n].outside \in Seq(Line)
  <2>1. Found(c)[n].outside \in Seq(Line \ Markers)
    BY <1>3 DEF FoundIn
  <2> QED BY <2>1
<1>5. \A i \in 1..n : c[i] \notin Markers => (Managed(c, i) <=> Between(c, i))
  BY <1>1, ManagedIsBetween
<1>6. {i \in DOMAIN c : c[i] \notin {hostsBegin, hostsEnd} /\ ~Between(c, i)}
        = OutsideUpTo(c, n)
  BY <1>1, <1>5 DEF OutsideUpTo, Markers
<1>7. ElseThanBlock(c) = Found(c)[n].outside
  BY <1>2, <1>6 DEF ElseThanBlock, FoundRight
<1> QED BY <1>4, <1>7 DEF splitHosts

\* A rewritten file is closed.
LEMMA RenderedClosed ==
  ASSUME NEW S, NEW o \in Seq(S \ Markers), NEW D, IsFiniteSet(D)
  PROVE  Closed(Rendered(o, D))
<1> DEFINE c == Rendered(o, D)
           a == Len(o)
           s == Listed(D)
<1>1. a \in Nat /\ Len(s) \in Nat /\ \A k \in 1..a : o[k] \notin Markers
  BY ListedIs
<1>2. CASE D = {}
  <2>1. c = o
    BY <1>2 DEF Rendered
  <2> QED BY <1>1, <2>1 DEF Closed, Markers
<1>3. CASE D # {}
  <2>1. /\ c \in Seq(LinesWith(S, D))
        /\ Len(c) = a + Len(s) + 3
        /\ \A k \in 1..a : c[k] = o[k]
        /\ c[a + Len(s) + 3] = hostsEnd
    <3>1. o \in Seq(S)
      BY <1>1
    <3> QED BY <1>3, <3>1, RenderedIs
  <2> HIDE DEF c, s
  <2>2. DOMAIN c = 1..Len(c) /\ Len(c) \in Nat
    BY <2>1
  <2>3. ASSUME NEW b \in 1..Len(c), c[b] = hostsBegin
        PROVE  Len(c) \in (b + 1)..Len(c)
    <3>1. b # Len(c)
      BY <2>1, <2>3 DEF hostsBegin, hostsEnd
    <3>2. \A m \in Nat : \A k \in 1..m : k # m => m \in (k + 1)..m
      OBVIOUS
    <3> QED BY <2>2, <3>1, <3>2
  <2> QED BY <2>1, <2>2, <2>3 DEF Closed, c
<1> QED BY <1>2, <1>3

\* Lines that are the same without the blank ones at the end are the same text.
LEMMA TrimSame ==
  ASSUME NEW S, NEW s \in Seq(S), NEW t \in Seq(S), TrimBlankLines(s) = TrimBlankLines(t)
  PROVE  SameText(s, t)
<1>1. PICK m \in 0..Len(s) : EndsAt(s, m) /\ TrimBlankLines(s) = SubSeq(s, 1, m)
  BY TrimIs
<1>2. PICK n \in 0..Len(t) : EndsAt(t, n) /\ TrimBlankLines(t) = SubSeq(t, 1, n)
  BY TrimIs
<1>3. Len(SubSeq(s, 1, m)) = m /\ Len(SubSeq(t, 1, n)) = n
  OBVIOUS
<1>4. m = n
  BY <1>1, <1>2, <1>3
<1>5. m <= Len(t) /\ SubSeq(s, 1, m) = SubSeq(t, 1, m)
  <2>1. Len(t) \in Nat
    OBVIOUS
  <2>2. m <= Len(t)
    BY <1>4, <2>1
  <2>3. SubSeq(s, 1, m) = SubSeq(t, 1, n)
    BY <1>1, <1>2, Zenon
  <2> QED BY <1>4, <2>2, <2>3
<1>6. OnlyBlankFrom(s, m + 1) /\ OnlyBlankFrom(t, m + 1)
  BY <1>1, <1>2, <1>4 DEF OnlyBlankFrom, EndsAt
<1> QED BY <1>1, <1>5, <1>6 DEF SameText

\* A rewrite of a closed file, of whatever length and with whatever text in it, leaves
\* what is not between two markers and a closed block that is in sync with the table
\* (hostsfile.go:29-104).
THEOREM UserLinesStay == Spec => RewriteKeepsUserLines
<1>1. Typed /\ [Next]_vars =>
        [content' # content /\ Closed(content) =>
           /\ SameText(ElseThanBlock(content'), ElseThanBlock(content))
           /\ Closed(content')
           /\ HostsInSync(content', domains)]_vars
  <2> SUFFICES ASSUME Typed, Next, content' # content, Closed(content)
               PROVE  /\ SameText(ElseThanBlock(content'), ElseThanBlock(content))
                      /\ Closed(content')
                      /\ HostsInSync(content', domains)
    OBVIOUS
  <2>1. content' = SyncHosts(content, domains)
    BY DEF Next, Sync, ChangeTable
  <2>2. content \in Seq(Line) /\ domains \in DomainSets /\ IsFiniteSet(domains)
    BY DEF Typed, DomainSets
  <2>3. content' \in Seq(Line)
    BY <2>1, <2>2, SyncLines
  <2>4. Closed(content')
    <3>1. splitHosts(content).outside \in Seq(Line \ Markers)
      BY <2>2, SplitClean
    <3> QED BY <2>1, <2>2, <3>1, RenderedClosed DEF SyncHosts
  <2>5. /\ splitHosts(content').outside = splitHosts(content).outside
        /\ HostsInSync(content', domains)
    BY <2>1, <2>2, SyncKeeps
  <2>6. TrimBlankLines(ElseThanBlock(content')) = TrimBlankLines(ElseThanBlock(content))
    <3>1. splitHosts(content).outside = TrimBlankLines(ElseThanBlock(content))
      BY <2>2, ClosedOutside
    <3>2. splitHosts(content').outside = TrimBlankLines(ElseThanBlock(content'))
      BY <2>3, <2>4, ClosedOutside
    <3> QED BY <2>5, <3>1, <3>2
  <2>7. ElseThanBlock(content) \in Seq(Line) /\ ElseThanBlock(content') \in Seq(Line)
    BY <2>2, <2>3, <2>4, ClosedOutside
  <2> QED BY <2>4, <2>5, <2>6, <2>7, TrimSame
<1> QED BY <1>1, TypeCorrect, PTL DEF Spec, RewriteKeepsUserLines

\* Rewriting a rewritten file changes no byte of it: it does not grow with every
\* start of the engine (hostsfile.go:50-53).
THEOREM RewritesAreStable == Spec => []RewriteIsStable
<1>1. Typed => RewriteIsStable
  <2> SUFFICES ASSUME Typed PROVE RewriteIsStable
    OBVIOUS
  <2>1. content \in Seq(Line) /\ IsFiniteSet(domains)
    BY DEF Typed, DomainSets
  <2>2. splitHosts(SyncHosts(content, domains)).outside = splitHosts(content).outside
    BY <2>1, SyncKeeps
  <2> QED BY <2>2 DEF RewriteIsStable, SyncHosts
<1> QED BY <1>1, TypeCorrect, PTL

=============================================================================
