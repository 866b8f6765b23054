----------------------------- MODULE HostsFile -----------------------------
(***************************************************************************)
(* The hosts file of Windows as the engine reads and rewrites it           *)
(* (src/engine/hostsfile.go): a sequence of lines, of which the engine     *)
(* owns those between two markers.  Operators only; Engine says when they  *)
(* run.                                                                    *)
(*                                                                         *)
(* A line is a pair: <<"user", u>> is text of the user, <<"entry", d>> is  *)
(* "127.0.0.1 d", <<"piece", n>> is what is left of a line when its first  *)
(* bytes were overwritten (the last n bytes of it).                        *)
(***************************************************************************)
EXTENDS Integers, Sequences, FiniteSets

Seqs == INSTANCE SequencesExt

hostsBegin == <<"marker", "begin">>
hostsEnd == <<"marker", "end">>
BlankLine == <<"blank", 0>>
Entry(d) == <<"entry", d>>
UserLine(u) == <<"user", u>>

\* The domains in the order in which domains() lists them: sorted.
Listed(domains) == Seqs!SetToSeq(domains)

\* The managed block for a set of domains; no block for no domains.
desiredHostsBlock(domains) ==
  IF domains = {}
  THEN <<>>
  ELSE <<hostsBegin>>
         \o [i \in 1..Cardinality(domains) |-> Entry(Listed(domains)[i])]
         \o <<hostsEnd>>

\* Mutant of TrimBlankLines: blank lines stay.
TrimBlankLines_kept(lines) == lines

\* Blank lines at the end are dropped, so that appending is stable.
TrimBlankLines(lines) ==
  SubSeq(lines, 1,
         CHOOSE n \in 0..Len(lines) :
           /\ n > 0 => lines[n] # BlankLine
           /\ \A k \in (n + 1)..Len(lines) : lines[k] = BlankLine)

\* What splitHosts has found so far.
Nothing == [inBlock |-> FALSE, outside |-> <<>>, managed |-> <<>>]

\* A line that is no marker: outside the block it stays, in the block entries count.
KeepLine(acc, line) ==
  IF ~acc.inBlock THEN [acc EXCEPT !.outside = Append(@, line)]
  ELSE IF line[1] = "entry" THEN [acc EXCEPT !.managed = Append(@, line[2])]
  ELSE acc

\* Mutant of SplitStep: the end marker does not close the block.
SplitStep_blockStaysOpen(acc, line) ==
  IF line \in {hostsBegin, hostsEnd} THEN [acc EXCEPT !.inBlock = TRUE]
  ELSE KeepLine(acc, line)

\* One turn of the loop of splitHosts over the lines.
SplitStep(acc, line) ==
  IF line \in {hostsBegin, hostsEnd} THEN [acc EXCEPT !.inBlock = (line = hostsBegin)]
  ELSE KeepLine(acc, line)

\* What the loop has found after its first n turns.
Found(content) ==
  LET found[n \in 0..Len(content)] ==
        IF n = 0 THEN Nothing ELSE SplitStep(found[n - 1], content[n])
  IN found

\* The lines outside the block and the domains of the entries in it.
splitHosts(content) ==
  LET end == Found(content)[Len(content)]
  IN [outside |-> TrimBlankLines(end.outside), managed |-> end.managed]

\* Mutant of Rendered: the block comes first and is not closed.
Rendered_openBlockFirst(outside, domains) ==
  IF domains = {}
  THEN outside
  ELSE <<hostsBegin>>
         \o [i \in 1..Cardinality(domains) |-> Entry(Listed(domains)[i])]
         \o <<BlankLine>> \o outside

\* What SyncHosts writes for the lines it kept.
Rendered(outside, domains) ==
  IF domains = {}
  THEN outside
  ELSE outside \o <<BlankLine>> \o desiredHostsBlock(domains)

\* SyncHosts without anything happening between its read and its write.
SyncHosts(content, domains) ==
  Rendered(splitHosts(content).outside, domains)

HostsInSync(content, domains) ==
  LET got == Seqs!ToSet(splitHosts(content).managed)
  IN Cardinality(got) = Cardinality(domains) /\ domains \subseteq got

-----------------------------------------------------------------------------
(* Bytes.  Two handlers that write the file at once write at the same      *)
(* offsets; what one wrote behind the end of the other stays.              *)

\* The bytes of a line with its "\r\n"; names stand for texts of six
\* characters, user lines for texts of twenty.
Width(line) ==
  CASE line = hostsBegin    -> 43
    [] line = hostsEnd      -> 20
    [] line = BlankLine     -> 2
    [] line[1] = "entry"    -> 18
    [] line[1] = "user"     -> 22
    [] line[1] = "piece"    -> line[2]

Bytes(lines) == Seqs!FoldLeft(LAMBDA n, l : n + Width(l), 0, lines)

\* What remains of the lines behind the first n bytes.
Behind(lines, n) ==
  LET after == {k \in 1..Len(lines) : Bytes(SubSeq(lines, 1, k)) > n}
  IN IF after = {}
     THEN <<>>
     ELSE LET k == CHOOSE i \in after : \A j \in after : i <= j
              rest == Bytes(SubSeq(lines, 1, k)) - n
              piece == IF rest = Width(lines[k]) THEN lines[k]
                       ELSE IF rest <= 2 THEN BlankLine
                       ELSE <<"piece", rest>>
          IN <<piece>> \o SubSeq(lines, k + 1, Len(lines))

\* The file after its first bytes were overwritten with the lines new.
Overwrite(old, new) == new \o Behind(old, Bytes(new))

=============================================================================
