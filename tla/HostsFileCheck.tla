--------------------------- MODULE HostsFileCheck ---------------------------
(***************************************************************************)
(* HostsFile on every content up to a length, one program at a time: any   *)
(* text the file may hold, the table changing, SyncHosts run over and over.*)
(***************************************************************************)
EXTENDS HostsFile

CONSTANTS
  Domain,       \* the domains that may be mapped
  UserText,     \* the lines a user may have in the file
  MaxLines      \* bound: lines of the file at the start

VARIABLES
  content,      \* the file
  domains       \* the domains of the table

vars == <<content, domains>>

Line == {hostsBegin, hostsEnd, BlankLine}
          \cup {Entry(d) : d \in Domain} \cup {UserLine(u) : u \in UserText}

\* What can be mapped: finitely many domains at a time.
DomainSets == {D \in SUBSET Domain : IsFiniteSet(D)}

Init ==
  /\ content \in Seqs!BoundedSeq(Line, MaxLines)
  /\ domains \in DomainSets

Sync == content' = SyncHosts(content, domains) /\ UNCHANGED domains

ChangeTable == domains' \in DomainSets /\ UNCHANGED content

Next == Sync \/ ChangeTable

Spec == Init /\ [][Next]_vars

-----------------------------------------------------------------------------
(* The reference: which lines are managed, without a loop.                 *)

\* Line i is behind a begin marker with no end marker since.
Managed(c, i) ==
  \E b \in 1..(i - 1) : /\ c[b] = hostsBegin
                        /\ \A k \in b..(i - 1) : c[k] # hostsEnd

\* The lines at the positions in P, in their order.
At(c, P) == [n \in 1..Cardinality(P) |->
               c[CHOOSE i \in P : Cardinality({j \in P : j < i}) = n - 1]]

\* The lines that are neither marker nor managed.
Outside(c) ==
  At(c, {i \in DOMAIN c : c[i] \notin {hostsBegin, hostsEnd} /\ ~Managed(c, i)})

\* No line but blank ones is behind position i.
OnlyBlankFrom(s, i) == \A k \in i..Len(s) : s[k] = BlankLine

\* Line i is between a begin marker and an end marker.
Between(c, i) == Managed(c, i) /\ \E e \in (i + 1)..Len(c) : c[e] = hostsEnd

\* What "everything else in the file" is to the user.
ElseThanBlock(c) ==
  At(c, {i \in DOMAIN c : c[i] \notin {hostsBegin, hostsEnd} /\ ~Between(c, i)})

\* Each begin marker has an end marker behind it.
Closed(c) ==
  \A b \in DOMAIN c : c[b] = hostsBegin => \E e \in (b + 1)..Len(c) : c[e] = hostsEnd

\* The same lines, but for blank ones at the end.
SameText(s, t) ==
  \E n \in 0..Len(s) :
    /\ n <= Len(t) /\ SubSeq(s, 1, n) = SubSeq(t, 1, n)
    /\ OnlyBlankFrom(s, n + 1) /\ OnlyBlankFrom(t, n + 1)

\* The loop of splitHosts finds the lines that the markers define, whatever the
\* file holds: markers missing, doubled or swapped (hostsfile.go:29-55).
SplitMeetsReference ==
  LET s == splitHosts(content)
      o == Outside(content)
      entries == {i \in DOMAIN content : content[i][1] = "entry" /\ Managed(content, i)}
  IN /\ Seqs!IsPrefix(s.outside, o)
     /\ OnlyBlankFrom(o, Len(s.outside) + 1)
     /\ s.outside # <<>> => Seqs!Last(s.outside) # BlankLine
     /\ [i \in DOMAIN s.managed |-> Entry(s.managed[i])] = At(content, entries)

\* "Only the lines between its own markers are added and removed, everything else in
\* the file stays as it is" (docs/index.html:158,187): if each begin marker of the file
\* has its end marker, a rewrite leaves what is not between two markers, in its order,
\* and a closed block that the state page and the self check call in sync
\* (hostsfile.go:29-104).  Of a file whose end marker is missing it is not true:
\* splitHosts drops the user's lines behind the begin marker.
RewriteKeepsUserLines ==
  [][content' # content /\ Closed(content) =>
       /\ SameText(ElseThanBlock(content'), ElseThanBlock(content))
       /\ Closed(content')
       /\ HostsInSync(content', domains)]_vars

\* Rewriting a file that is as SyncHosts left it changes no byte of it: the file
\* does not grow with every start of the engine (hostsfile.go:50-53).
RewriteIsStable ==
  SyncHosts(SyncHosts(content, domains), domains) = SyncHosts(content, domains)

=============================================================================
