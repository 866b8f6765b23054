---------------------------- MODULE StoreProofs ----------------------------
(***************************************************************************)
(* Theorems about Store for every set of names and targets, every bound on *)
(* the spelling of domains and every list length.                          *)
(***************************************************************************)
EXTENDS Store, SequenceTheorems, TLAPS

-----------------------------------------------------------------------------
(* What the list operations do to a list of mappings.                      *)

\* Overwriting an entry keeps a sequence a sequence of the same length.
LEMMA ExceptType ==
  ASSUME NEW S, NEW s \in Seq(S), NEW i, NEW e \in S
  PROVE  /\ [s EXCEPT ![i] = e] \in Seq(S)
         /\ DOMAIN [s EXCEPT ![i] = e] = DOMAIN s
<1>1. Len(s) \in Nat /\ DOMAIN s = 1..Len(s) /\ s \in [1..Len(s) -> S]
  OBVIOUS
<1>2. [s EXCEPT ![i] = e] \in [1..Len(s) -> S]
  BY <1>1
<1>3. \A n \in Nat : \A f \in [1..n -> S] : f \in Seq(S)
  BY IsASeq
<1> QED BY <1>1, <1>2, <1>3

\* Removing an entry moves the later ones up by one.
LEMMA RemoveAtProperties ==
  ASSUME NEW S, NEW s \in Seq(S), NEW i \in DOMAIN s
  PROVE  /\ Seqs!RemoveAt(s, i) \in Seq(S)
         /\ DOMAIN Seqs!RemoveAt(s, i) = 1..(Len(s) - 1)
         /\ \A k \in 1..(Len(s) - 1) :
              Seqs!RemoveAt(s, i)[k] = IF k < i THEN s[k] ELSE s[k + 1]
<1> DEFINE a == SubSeq(s, 1, i - 1)
           b == SubSeq(s, i + 1, Len(s))
<1>0. Len(s) \in Nat /\ DOMAIN s = 1..Len(s) /\ i \in 1..Len(s)
  OBVIOUS
<1>1. a \in Seq(S) /\ Len(a) = i - 1 /\ \A k \in 1..(i - 1) : a[k] = s[k]
  BY <1>0
<1>2. b \in Seq(S) /\ Len(b) = Len(s) - i
      /\ \A k \in 1..(Len(s) - i) : b[k] = s[i + k]
  <2>1. CASE i + 1 <= Len(s)
    BY <1>0, <2>1
  <2>2. CASE ~(i + 1 <= Len(s))
    BY <1>0, <2>2
  <2> QED BY <2>1, <2>2
<1> HIDE DEF a, b
<1>3. a \o b \in Seq(S) /\ Len(a \o b) = Len(s) - 1
  <2>1. a \o b \in Seq(S) /\ Len(a \o b) = Len(a) + Len(b)
    BY <1>1, <1>2, ConcatProperties
  <2> QED BY <2>1, <1>0, <1>1, <1>2
<1>4. ASSUME NEW k \in 1..(Len(s) - 1)
      PROVE  (a \o b)[k] = IF k < i THEN s[k] ELSE s[k + 1]
  <2>1. CASE k < i
    BY <1>0, <1>1, <1>2, <2>1
  <2>2. CASE ~(k < i)
    <3>1. k - Len(a) \in 1..(Len(s) - i) /\ i + (k - Len(a)) = k + 1
      BY <1>0, <1>1, <2>2
    <3>2. (a \o b)[k] = b[k - Len(a)]
      BY <1>0, <1>1, <1>2, <2>2
    <3> QED BY <1>2, <2>2, <3>1, <3>2
  <2> QED BY <2>1, <2>2
<1>5. Seqs!RemoveAt(s, i) = a \o b
  BY DEF Seqs!RemoveAt, a, b
<1> QED BY <1>3, <1>4, <1>5

\* In a list without duplicates the first match is the match.
LEMMA FirstIndexFinds ==
  ASSUME NEW l \in Seq(Mapping), NEW d, Unique(l), HasDomain(l, d)
  PROVE  /\ FirstIndex(l, d) \in DOMAIN l
         /\ l[FirstIndex(l, d)].Domain = d
<1>1. PICK i \in DOMAIN l : l[i].Domain = d
  BY DEF HasDomain
<1>2. \A j \in 1..(i - 1) : l[j].Domain # d
  BY <1>1 DEF Unique
<1> QED BY <1>1, <1>2 DEF FirstIndex

\* A valid request yields a mapping whose domain is normalised.
LEMMA NormalizedType ==
  ASSUME NEW m \in RawMapping, ValidateMapping(Normalized(m))
  PROVE  Normalized(m) \in Mapping
  BY DEF RawMapping, Mapping, Normalized, ValidateMapping, StoredDomain

LEMMA UniqueAppend ==
  ASSUME NEW l \in Seq(Mapping), NEW n \in Mapping, Unique(l),
         ~HasDomain(l, n.Domain)
  PROVE  Append(l, n) \in Seq(Mapping) /\ Unique(Append(l, n))
  BY DEF Unique, HasDomain

LEMMA UniqueOverwrite ==
  ASSUME NEW l \in Seq(Mapping), NEW n \in Mapping, Unique(l), NEW i \in DOMAIN l,
         \A j \in DOMAIN l : l[j].Domain = n.Domain => j = i
  PROVE  [l EXCEPT ![i] = n] \in Seq(Mapping) /\ Unique([l EXCEPT ![i] = n])
  BY ExceptType DEF Unique

LEMMA UniqueRemove ==
  ASSUME NEW l \in Seq(Mapping), Unique(l), NEW i \in DOMAIN l
  PROVE  Seqs!RemoveAt(l, i) \in Seq(Mapping) /\ Unique(Seqs!RemoveAt(l, i))
<1>1. /\ Seqs!RemoveAt(l, i) \in Seq(Mapping)
      /\ DOMAIN Seqs!RemoveAt(l, i) = 1..(Len(l) - 1)
      /\ \A k \in 1..(Len(l) - 1) :
           Seqs!RemoveAt(l, i)[k] = IF k < i THEN l[k] ELSE l[k + 1]
  BY RemoveAtProperties
<1> DEFINE r == Seqs!RemoveAt(l, i)
<1>2. Len(l) \in Nat /\ DOMAIN l = 1..Len(l)
  OBVIOUS
<1>3. ASSUME NEW j \in DOMAIN r, NEW k \in DOMAIN r, r[j].Domain = r[k].Domain
      PROVE  j = k
  <2> DEFINE at(n) == IF n < i THEN n ELSE n + 1
  <2>1. r[j] = l[at(j)] /\ r[k] = l[at(k)]
    BY <1>1, <1>3
  <2>2. at(j) \in DOMAIN l /\ at(k) \in DOMAIN l
    BY <1>1, <1>2, <1>3
  <2>3. at(j) = at(k)
    BY <2>1, <2>2, <1>3 DEF Unique
  <2> QED BY <1>1, <1>2, <1>3, <2>3
<1> QED BY <1>1, <1>3 DEF Unique

-----------------------------------------------------------------------------
(* The inductive invariant.                                                *)

\* The type invariant, uniqueness and the acknowledgement invariant hold
\* together: the first match of a search is in the list only because the list has
\* no duplicates, and it stays so only because the searches find what is there.
\* A process that has not started yet has answered nothing.
IInv ==
  TypeOK /\ UniqueDomains /\ AckedChangeSaved /\ (~up => reply = "none")

\* Any method that makes the list l of n mappings and saves it keeps IInv.
LEMMA SaveKeepsIInv ==
  ASSUME IInv, list' \in Seq(Mapping), Unique(list'), up, up' = up,
         \/ \E ack \in {"created", "updated", "replaced"} : saveLocked(list', ack)
         \/ saveIgnored(list', "removed")
  PROVE  IInv'
<1>1. /\ file' \in {file, Torn, list'}
      /\ reply' \in {"created", "updated", "replaced", "saveError", "removed"}
      /\ reply' \in {"created", "updated", "replaced"} => file' = list'
  BY DEF saveLocked, saveIgnored
<1>2. TypeOK'
  BY <1>1 DEF IInv, TypeOK
<1>3. UniqueDomains'
  <2>1. CASE file' = file
    BY <2>1 DEF IInv, UniqueDomains, Unique
  <2>2. CASE file' = Torn
    BY <2>2, FileAssumption DEF UniqueDomains, Unique
  <2>3. CASE file' = list'
    BY <2>3 DEF UniqueDomains, Unique
  <2> QED BY <1>1, <2>1, <2>2, <2>3
<1>4. AckedChangeSaved'
  BY <1>1 DEF AckedChangeSaved
<1> QED BY <1>2, <1>3, <1>4 DEF IInv

LEMMA RefuseKeepsIInv ==
  ASSUME IInv, up, up' = up,
         \E why \in {"invalid", "notFound", "taken"} : Refuse(why)
  PROVE  IInv'
<1>1. reply' \in {"invalid", "notFound", "taken"} /\ UNCHANGED <<list, file>>
  BY DEF Refuse
<1>2. TypeOK' /\ AckedChangeSaved'
  BY <1>1 DEF IInv, TypeOK, AckedChangeSaved
<1>3. UniqueDomains'
  BY <1>1 DEF IInv, UniqueDomains, Unique
<1> QED BY <1>2, <1>3 DEF IInv

LEMMA UpsertKeepsIInv ==
  ASSUME IInv, NEW m \in RawMapping, Upsert(m)
  PROVE  IInv'
<1> DEFINE n == Normalized(m)
<1>0. list \in Seq(Mapping) /\ Unique(list)
  BY DEF IInv, TypeOK, UniqueDomains
<1>1. CASE ~ValidateMapping(n)
  <2>1. up /\ up' = up /\ Refuse("invalid")
    BY <1>1 DEF Upsert
  <2> QED BY <2>1, RefuseKeepsIInv
<1>2. CASE ValidateMapping(n) /\ HasDomain(list, n.Domain)
  <2>1. n \in Mapping
    BY <1>2, NormalizedType
  <2>2. /\ FirstIndex(list, n.Domain) \in DOMAIN list
        /\ list[FirstIndex(list, n.Domain)].Domain = n.Domain
    BY <1>0, <1>2, FirstIndexFinds
  <2>3. \A j \in DOMAIN list :
          list[j].Domain = n.Domain => j = FirstIndex(list, n.Domain)
    BY <1>0, <2>2 DEF Unique
  <2>4. /\ list' = [list EXCEPT ![FirstIndex(list, n.Domain)] = n]
        /\ saveLocked(list', "updated")
        /\ up /\ up' = up
    BY <1>2 DEF Upsert
  <2>5. list' \in Seq(Mapping) /\ Unique(list')
    BY <1>0, <2>1, <2>2, <2>3, <2>4, UniqueOverwrite
  <2> QED BY <2>4, <2>5, SaveKeepsIInv
<1>3. CASE ValidateMapping(n) /\ ~HasDomain(list, n.Domain)
  <2>1. n \in Mapping
    BY <1>3, NormalizedType
  <2>2. list' = Append(list, n) /\ saveLocked(list', "created") /\ up /\ up' = up
    BY <1>3 DEF Upsert
  <2>3. list' \in Seq(Mapping) /\ Unique(list')
    BY <1>0, <1>3, <2>1, <2>2, UniqueAppend
  <2> QED BY <2>2, <2>3, SaveKeepsIInv
<1> QED BY <1>1, <1>2, <1>3

LEMMA RemoveKeepsIInv ==
  ASSUME IInv, NEW domain \in Spelling, Remove(domain)
  PROVE  IInv'
<1> DEFINE d == normalizeDomain(domain)
<1>0. list \in Seq(Mapping) /\ Unique(list)
  BY DEF IInv, TypeOK, UniqueDomains
<1>1. CASE ~HasDomain(list, d)
  <2>1. up /\ up' = up /\ Refuse("notFound")
    BY <1>1 DEF Remove
  <2> QED BY <2>1, RefuseKeepsIInv
<1>2. CASE HasDomain(list, d)
  <2>1. FirstIndex(list, d) \in DOMAIN list
    BY <1>0, <1>2, FirstIndexFinds
  <2>2. /\ list' = Seqs!RemoveAt(list, FirstIndex(list, d))
        /\ saveIgnored(list', "removed")
        /\ up /\ up' = up
    BY <1>2 DEF Remove
  <2>3. list' \in Seq(Mapping) /\ Unique(list')
    BY <1>0, <2>1, <2>2, UniqueRemove
  <2> QED BY <2>2, <2>3, SaveKeepsIInv
<1> QED BY <1>1, <1>2

LEMMA ReplaceKeepsIInv ==
  ASSUME IInv, NEW oldDomain \in Spelling, NEW m \in RawMapping,
         Replace(oldDomain, m)
  PROVE  IInv'
<1> DEFINE n == Normalized(m)
           old == normalizeDomain(oldDomain)
<1>0. list \in Seq(Mapping) /\ Unique(list)
  BY DEF IInv, TypeOK, UniqueDomains
<1>1. CASE \E why \in {"invalid", "notFound", "taken"} : Refuse(why)
  <2>1. up /\ up' = up
    BY DEF Replace
  <2> QED BY <1>1, <2>1, RefuseKeepsIInv
<1>2. CASE /\ ValidateMapping(n)
           /\ HasDomain(list, old)
           /\ n.Domain = old \/ ~Taken(list, old, n.Domain)
           /\ list' = [list EXCEPT ![FirstIndex(list, old)] = n]
           /\ saveLocked(list', "replaced")
  <2>1. n \in Mapping
    BY <1>2, NormalizedType
  <2>2. /\ FirstIndex(list, old) \in DOMAIN list
        /\ list[FirstIndex(list, old)].Domain = old
    BY <1>0, <1>2, FirstIndexFinds
  <2>3. \A j \in DOMAIN list : list[j].Domain = n.Domain => j = FirstIndex(list, old)
    BY <1>0, <1>2, <2>2 DEF Unique, Taken
  <2>4. list' \in Seq(Mapping) /\ Unique(list')
    BY <1>0, <1>2, <2>1, <2>2, <2>3, UniqueOverwrite
  <2>5. up /\ up' = up
    BY DEF Replace
  <2> QED BY <1>2, <2>4, <2>5, SaveKeepsIInv
<1> QED BY <1>1, <1>2 DEF Replace

LEMMA InitIInv == Init => IInv
<1>1. <<>> \in Seq(Mapping) /\ Unique(<<>>)
  BY DEF Unique
<1> QED
  BY <1>1, FileAssumption
     DEF Init, IInv, TypeOK, UniqueDomains, AckedChangeSaved

LEMMA NextKeepsIInv == IInv /\ [Next]_vars => IInv'
<1> SUFFICES ASSUME IInv, [Next]_vars PROVE IInv'
  OBVIOUS
<1>0. <<>> \in Seq(Mapping) /\ Unique(<<>>)
  BY DEF Unique
<1>1. ASSUME NEW m \in RawMapping, Upsert(m)
      PROVE  IInv'
  BY <1>1, UpsertKeepsIInv
<1>2. ASSUME NEW d \in Spelling, Remove(d)
      PROVE  IInv'
  BY <1>2, RemoveKeepsIInv
<1>3. ASSUME NEW d \in Spelling, NEW m \in RawMapping, Replace(d, m)
      PROVE  IInv'
  BY <1>3, ReplaceKeepsIInv
<1>4. CASE Kill
  BY <1>0, <1>4 DEF Kill, IInv, TypeOK, UniqueDomains, AckedChangeSaved, Unique
<1>5. CASE KillInSave
  BY <1>0, <1>5, FileAssumption
     DEF KillInSave, IInv, TypeOK, UniqueDomains, AckedChangeSaved, Unique
<1>6. CASE NewStore
  <2>1. file \in Seq(Mapping) \cup {NoFile} /\ UNCHANGED <<file, reply>>
    BY <1>6 DEF NewStore, IInv, TypeOK
  <2>2. list' \in Seq(Mapping) /\ Unique(list')
    BY <1>0, <1>6, <2>1 DEF NewStore, IInv, UniqueDomains
  <2>3. up' = TRUE /\ reply = "none"
    BY <1>6 DEF NewStore, IInv
  <2> QED
    BY <2>1, <2>2, <2>3 DEF IInv, TypeOK, UniqueDomains, AckedChangeSaved, Unique
<1>7. CASE UNCHANGED vars
  BY <1>7 DEF vars, IInv, TypeOK, UniqueDomains, AckedChangeSaved, Unique
<1> QED BY <1>1, <1>2, <1>3, <1>4, <1>5, <1>6, <1>7 DEF Next

LEMMA AlwaysIInv == Spec => []IInv
  BY InitIInv, NextKeepsIInv, PTL DEF Spec

\* The list and the file always hold normalised, valid mappings.
THEOREM TypeCorrect == Spec => []TypeOK
<1>1. IInv => TypeOK
  BY DEF IInv
<1> QED BY <1>1, AlwaysIInv, PTL

\* No sequence of requests, failed saves, kills and restarts maps a domain twice.
THEOREM DomainsStayUnique == Spec => []UniqueDomains
<1>1. IInv => UniqueDomains
  BY DEF IInv
<1> QED BY <1>1, AlwaysIInv, PTL

\* An addition or rename answered with success is in the file.
THEOREM AcksAreDurable == Spec => []AckedChangeSaved
<1>1. IInv => AckedChangeSaved
  BY DEF IInv
<1> QED BY <1>1, AlwaysIInv, PTL

-----------------------------------------------------------------------------
(* The list as a table.                                                    *)

\* A table of the list is what its entries say, each for its domain.
LEMMA TableOfIs ==
  ASSUME NEW l \in Seq(Mapping), Unique(l)
  PROVE  /\ TableOf(l) \in [{l[i].Domain : i \in DOMAIN l} -> Targets]
         /\ \A i \in DOMAIN l : TableOf(l)[l[i].Domain] = l[i].Target
         /\ \A d : d \in DOMAIN TableOf(l) <=> HasDomain(l, d)
<1>1. ASSUME NEW d, HasDomain(l, d)
      PROVE  /\ FirstIndex(l, d) \in DOMAIN l
             /\ l[FirstIndex(l, d)].Domain = d
             /\ Find(l, d).Target \in Targets
  <2>1. FirstIndex(l, d) \in DOMAIN l /\ l[FirstIndex(l, d)].Domain = d
    BY <1>1, FirstIndexFinds
  <2>2. l[FirstIndex(l, d)] \in Mapping
    BY <2>1
  <2> QED BY <2>1, <2>2 DEF Find, Mapping
<1>2. \A d : d \in {l[i].Domain : i \in DOMAIN l} <=> HasDomain(l, d)
  BY DEF HasDomain
<1>3. ASSUME NEW i \in DOMAIN l
      PROVE  Find(l, l[i].Domain) = l[i]
  <2>1. HasDomain(l, l[i].Domain)
    BY DEF HasDomain
  <2> QED BY <1>1, <2>1 DEF Find, Unique
<1> QED BY <1>1, <1>2, <1>3 DEF TableOf

\* So whatever says the same for the same domains is the table of the list.
LEMMA TableOfUnique ==
  ASSUME NEW l \in Seq(Mapping), Unique(l), NEW D, NEW T, NEW f \in [D -> T],
         \A d : d \in D <=> HasDomain(l, d),
         \A i \in DOMAIN l : f[l[i].Domain] = l[i].Target
  PROVE  TableOf(l) = f
<1>1. DOMAIN TableOf(l) = D
  <2>1. \A d : d \in DOMAIN TableOf(l) <=> d \in D
    BY TableOfIs
  <2> QED BY <2>1
<1>2. ASSUME NEW d \in D
      PROVE  TableOf(l)[d] = f[d]
  <2>1. PICK i \in DOMAIN l : l[i].Domain = d
    BY DEF HasDomain
  <2> QED BY <2>1, TableOfIs
<1>3. TableOf(l) = [x \in DOMAIN TableOf(l) |-> TableOf(l)[x]]
  BY DEF TableOf
<1>4. f = [x \in D |-> f[x]]
  OBVIOUS
<1> QED BY <1>1, <1>2, <1>3, <1>4

LEMMA TableOfNothing == TableOf(<<>>) = Table!Empty
  BY DEF TableOf, Table!Empty

LEMMA TableAppend ==
  ASSUME NEW l \in Seq(Mapping), NEW n \in Mapping, Unique(l), ~HasDomain(l, n.Domain)
  PROVE  TableOf(Append(l, n)) = Table!With(TableOf(l), n.Domain, n.Target)
<1> DEFINE k == Append(l, n)
           f == Table!With(TableOf(l), n.Domain, n.Target)
<1>1. k \in Seq(Mapping) /\ Unique(k)
  BY UniqueAppend
<1>2. /\ DOMAIN k = 1..(Len(l) + 1) /\ DOMAIN l = 1..Len(l) /\ Len(l) \in Nat
      /\ \A i \in 1..Len(l) : k[i] = l[i]
      /\ k[Len(l) + 1] = n
  OBVIOUS
<1>3. f = [x \in DOMAIN TableOf(l) \cup {n.Domain} |->
             IF x = n.Domain THEN n.Target ELSE TableOf(l)[x]]
  BY DEF Table!With
<1>4. \A d : d \in DOMAIN f <=> HasDomain(k, d)
  <2>1. \A d : d \in DOMAIN f <=> HasDomain(l, d) \/ d = n.Domain
    BY <1>3, TableOfIs
  <2> QED BY <1>2, <2>1 DEF HasDomain
<1>5. ASSUME NEW i \in DOMAIN k
      PROVE  f[k[i].Domain] = k[i].Target
  <2>1. CASE i = Len(l) + 1
    BY <1>2, <1>3, <2>1
  <2>2. CASE i \in DOMAIN l
    <3>1. HasDomain(l, l[i].Domain)
      BY <2>2 DEF HasDomain
    <3>2. l[i].Domain # n.Domain
      BY <3>1
    <3>3. l[i].Domain \in DOMAIN TableOf(l) /\ TableOf(l)[l[i].Domain] = l[i].Target
      BY <2>2, <3>1, TableOfIs
    <3>4. k[i] = l[i]
      BY <1>2, <2>2
    <3> QED BY <1>3, <3>2, <3>3, <3>4
  <2> QED BY <1>2, <2>1, <2>2
<1>6. f \in [DOMAIN f -> {f[x] : x \in DOMAIN f}]
  BY <1>3
<1> HIDE DEF k, f
<1>7. TableOf(k) = f
  BY <1>1, <1>4, <1>5, <1>6, TableOfUnique
<1> QED BY <1>7 DEF k, f

\* An entry that is overwritten gives up its domain for the new one.
LEMMA TableOverwrite ==
  ASSUME NEW l \in Seq(Mapping), NEW n \in Mapping, Unique(l), NEW i \in DOMAIN l,
         \A j \in DOMAIN l : l[j].Domain = n.Domain => j = i
  PROVE  TableOf([l EXCEPT ![i] = n]) =
           Table!With(Table!Without(TableOf(l), l[i].Domain), n.Domain, n.Target)
<1> DEFINE k == [l EXCEPT ![i] = n]
           g == Table!Without(TableOf(l), l[i].Domain)
           f == Table!With(g, n.Domain, n.Target)
<1>1. k \in Seq(Mapping) /\ Unique(k) /\ DOMAIN k = DOMAIN l
  BY UniqueOverwrite, ExceptType
<1>2. k[i] = n /\ \A j \in DOMAIN l : j # i => k[j] = l[j]
  OBVIOUS
<1>3. g = [x \in DOMAIN TableOf(l) \ {l[i].Domain} |-> TableOf(l)[x]]
  BY DEF Table!Without
<1>4. f = [x \in DOMAIN g \cup {n.Domain} |-> IF x = n.Domain THEN n.Target ELSE g[x]]
  BY DEF Table!With
<1>5. ASSUME NEW d
      PROVE  d \in DOMAIN f <=> HasDomain(k, d)
  <2>1. d \in DOMAIN f <=> d = n.Domain \/ (HasDomain(l, d) /\ d # l[i].Domain)
    BY <1>3, <1>4, TableOfIs
  <2> QED BY <1>1, <1>2, <2>1 DEF HasDomain, Unique
<1>6. ASSUME NEW j \in DOMAIN k
      PROVE  f[k[j].Domain] = k[j].Target
  <2>1. CASE j = i
    BY <1>2, <1>4, <2>1
  <2>2. CASE j # i
    <3>1. HasDomain(l, l[j].Domain) /\ l[j].Domain # l[i].Domain
      BY <1>1, <2>2 DEF HasDomain, Unique
    <3>2. l[j].Domain # n.Domain
      BY <1>1, <2>2
    <3>3. l[j].Domain \in DOMAIN g /\ g[l[j].Domain] = l[j].Target
      BY <1>1, <1>3, <3>1, TableOfIs
    <3> QED BY <1>1, <1>2, <1>4, <2>2, <3>2, <3>3
  <2> QED BY <2>1, <2>2
<1>7. f \in [DOMAIN f -> {f[x] : x \in DOMAIN f}]
  BY <1>4
<1> HIDE DEF k, f, g
<1>8. TableOf(k) = f
  BY <1>1, <1>5, <1>6, <1>7, TableOfUnique
<1> QED BY <1>8 DEF k, f, g

LEMMA TableRemove ==
  ASSUME NEW l \in Seq(Mapping), Unique(l), NEW i \in DOMAIN l
  PROVE  TableOf(Seqs!RemoveAt(l, i)) = Table!Without(TableOf(l), l[i].Domain)
<1> DEFINE k == Seqs!RemoveAt(l, i)
           f == Table!Without(TableOf(l), l[i].Domain)
<1>1. k \in Seq(Mapping) /\ Unique(k)
  BY UniqueRemove
<1>2. /\ DOMAIN k = 1..(Len(l) - 1) /\ DOMAIN l = 1..Len(l) /\ Len(l) \in Nat
      /\ \A j \in 1..(Len(l) - 1) : k[j] = IF j < i THEN l[j] ELSE l[j + 1]
  BY RemoveAtProperties
<1>3. f = [x \in DOMAIN TableOf(l) \ {l[i].Domain} |-> TableOf(l)[x]]
  BY DEF Table!Without
<1> HIDE DEF k, f
<1>4. ASSUME NEW j \in DOMAIN l, j # i
      PROVE  \E m \in DOMAIN k : k[m] = l[j]
  <2>1. CASE j < i
    BY <1>2, <1>4, <2>1
  <2>2. CASE ~(j < i)
    <3>1. j - 1 \in DOMAIN k /\ ~(j - 1 < i) /\ (j - 1) + 1 = j
      BY <1>2, <1>4, <2>2
    <3> QED BY <1>2, <3>1
  <2> QED BY <2>1, <2>2
<1>5. ASSUME NEW m \in DOMAIN k
      PROVE  \E j \in DOMAIN l : j # i /\ k[m] = l[j]
  <2>1. CASE m < i
    <3>1. m \in DOMAIN l /\ m # i /\ k[m] = l[m]
      BY <1>2, <2>1
    <3> QED BY <3>1
  <2>2. CASE ~(m < i)
    <3>1. m + 1 \in DOMAIN l /\ m + 1 # i /\ k[m] = l[m + 1]
      BY <1>2, <2>2
    <3> QED BY <3>1
  <2> QED BY <2>1, <2>2
<1>6. ASSUME NEW d
      PROVE  d \in DOMAIN f <=> HasDomain(k, d)
  <2>1. d \in DOMAIN f <=> HasDomain(l, d) /\ d # l[i].Domain
    BY <1>3, TableOfIs
  <2>2. HasDomain(l, d) /\ d # l[i].Domain => HasDomain(k, d)
    BY <1>4 DEF HasDomain
  <2>3. HasDomain(k, d) => HasDomain(l, d) /\ d # l[i].Domain
    BY <1>5 DEF HasDomain, Unique
  <2> QED BY <2>1, <2>2, <2>3
<1>7. ASSUME NEW m \in DOMAIN k
      PROVE  f[k[m].Domain] = k[m].Target
  <2>1. PICK j \in DOMAIN l : j # i /\ k[m] = l[j]
    BY <1>5
  <2>2. HasDomain(l, l[j].Domain) /\ l[j].Domain # l[i].Domain
    BY <2>1 DEF HasDomain, Unique
  <2> QED BY <1>3, <2>1, <2>2, TableOfIs
<1>8. f \in [DOMAIN f -> {f[x] : x \in DOMAIN f}]
  BY <1>3
<1>9. TableOf(k) = f
  BY <1>1, <1>6, <1>7, <1>8, TableOfUnique
<1> QED BY <1>9 DEF k, f

-----------------------------------------------------------------------------
(* Every method is one of a partial function with a saved copy.            *)

\* A list is a saved table that can be read back.
LEMMA ListIsTable ==
  ASSUME NEW l \in Seq(Mapping), Unique(l)
  PROVE  TableOf(l) # Torn /\ l # Torn /\ l # NoFile
<1> DEFINE D == {l[i].Domain : i \in DOMAIN l}
<1>1. D \in SUBSET StoredDomain
  <2>1. \A i \in DOMAIN l : l[i] \in Mapping
    OBVIOUS
  <2> QED BY <2>1 DEF Mapping
<1>2. TableOf(l) \in [D -> Targets]
  BY TableOfIs
<1> HIDE DEF D
<1> QED BY <1>1, <1>2, TornAssumption, FileAssumption

\* A save in the file is a save of the table.
LEMMA SaveMaps ==
  ASSUME list' \in Seq(Mapping), Unique(list'), NEW ack, saveLocked(list', ack)
  PROVE  Table!Save(ack)
<1>1. list' # Torn /\ list' # NoFile
  BY ListIsTable
<1>2. /\ file' = list' => SavedTable' = TableOf(list')
      /\ file' = Torn => SavedTable' = Torn
      /\ file' = file => SavedTable' = SavedTable
  BY <1>1 DEF SavedTable
<1> QED BY <1>2 DEF saveLocked, Table!Save

LEMMA QuietSaveMaps ==
  ASSUME list' \in Seq(Mapping), Unique(list'), NEW ack, saveIgnored(list', ack)
  PROVE  Table!SaveQuietly(ack)
<1>1. list' # Torn /\ list' # NoFile
  BY ListIsTable
<1>2. /\ file' = list' => SavedTable' = TableOf(list')
      /\ file' = Torn => SavedTable' = Torn
      /\ file' = file => SavedTable' = SavedTable
  BY <1>1 DEF SavedTable
<1> QED BY <1>2 DEF saveIgnored, Table!SaveQuietly

LEMMA RefuseMaps ==
  ASSUME up, up' = up, NEW why, Refuse(why),
         \/ why \in {"invalid", "notFound"}
         \/ why = "taken" /\ \E d, e \in DOMAIN TableOf(list) : d # e
  PROVE  Table!Refuse
<1>1. reply' = why /\ list' = list /\ file' = file
  BY DEF Refuse
<1>2. TableOf(list)' = TableOf(list) /\ SavedTable' = SavedTable
  BY <1>1 DEF SavedTable
<1> QED BY <1>1, <1>2 DEF Table!Refuse

LEMMA UpsertMaps ==
  ASSUME IInv, NEW m \in RawMapping, Upsert(m)
  PROVE  Table!Next
<1> DEFINE n == Normalized(m)
<1>0. list \in Seq(Mapping) /\ Unique(list)
  BY DEF IInv, TypeOK, UniqueDomains
<1>1. CASE ~ValidateMapping(n)
  <2>1. up /\ up' = up /\ Refuse("invalid")
    BY <1>1 DEF Upsert
  <2>2. Table!Refuse
    BY <2>1, RefuseMaps
  <2> QED BY <2>2 DEF Table!Next
<1>2. CASE ValidateMapping(n) /\ HasDomain(list, n.Domain)
  <2> DEFINE i == FirstIndex(list, n.Domain)
  <2>1. n \in Mapping
    BY <1>2, NormalizedType
  <2>2. i \in DOMAIN list /\ list[i].Domain = n.Domain
    BY <1>0, <1>2, FirstIndexFinds
  <2>3. \A j \in DOMAIN list : list[j].Domain = n.Domain => j = i
    BY <1>0, <2>2 DEF Unique
  <2>4. /\ list' = [list EXCEPT ![i] = n]
        /\ saveLocked(list', "updated")
        /\ up /\ up' = up
    BY <1>2 DEF Upsert
  <2> HIDE DEF i, n
  <2>5. list' \in Seq(Mapping) /\ Unique(list')
    BY <1>0, <2>1, <2>2, <2>3, <2>4, UniqueOverwrite
  <2>6. TableOf(list') =
          Table!With(Table!Without(TableOf(list), n.Domain), n.Domain, n.Target)
    BY <1>0, <2>1, <2>2, <2>3, <2>4, TableOverwrite
  <2>7. n.Domain \in DOMAIN TableOf(list)
    BY <1>0, <1>2, TableOfIs
  <2>8. Table!With(Table!Without(TableOf(list), n.Domain), n.Domain, n.Target) =
          Table!With(TableOf(list), n.Domain, n.Target)
    BY <2>7 DEF Table!With, Table!Without
  <2>9. Table!Save("updated")
    BY <2>4, <2>5, SaveMaps
  <2>10. Table!Put(n.Domain, n.Target)
    BY <2>4, <2>6, <2>7, <2>8, <2>9 DEF Table!Put
  <2>11. n.Domain \in StoredDomain /\ n.Target \in Targets
    BY <2>1 DEF Mapping
  <2> QED BY <2>10, <2>11 DEF Table!Next
<1>3. CASE ValidateMapping(n) /\ ~HasDomain(list, n.Domain)
  <2>1. n \in Mapping
    BY <1>3, NormalizedType
  <2>2. list' = Append(list, n) /\ saveLocked(list', "created") /\ up /\ up' = up
    BY <1>3 DEF Upsert
  <2> HIDE DEF n
  <2>3. list' \in Seq(Mapping) /\ Unique(list')
    BY <1>0, <1>3, <2>1, <2>2, UniqueAppend
  <2>4. TableOf(list') = Table!With(TableOf(list), n.Domain, n.Target)
    BY <1>0, <1>3, <2>1, <2>2, TableAppend
  <2>5. n.Domain \notin DOMAIN TableOf(list)
    BY <1>0, <1>3, TableOfIs
  <2>6. Table!Save("created")
    BY <2>2, <2>3, SaveMaps
  <2>7. Table!Put(n.Domain, n.Target)
    BY <2>2, <2>4, <2>5, <2>6 DEF Table!Put
  <2>8. n.Domain \in StoredDomain /\ n.Target \in Targets
    BY <2>1 DEF Mapping
  <2> QED BY <2>7, <2>8 DEF Table!Next
<1> QED BY <1>1, <1>2, <1>3

LEMMA RemoveMaps ==
  ASSUME IInv, NEW domain \in Spelling, Remove(domain)
  PROVE  Table!Next
<1> DEFINE d == normalizeDomain(domain)
           i == FirstIndex(list, d)
<1>0. list \in Seq(Mapping) /\ Unique(list)
  BY DEF IInv, TypeOK, UniqueDomains
<1>1. CASE ~HasDomain(list, d)
  <2>1. up /\ up' = up /\ Refuse("notFound")
    BY <1>1 DEF Remove
  <2>2. Table!Refuse
    BY <2>1, RefuseMaps
  <2> QED BY <2>2 DEF Table!Next
<1>2. CASE HasDomain(list, d)
  <2>1. i \in DOMAIN list /\ list[i].Domain = d
    BY <1>0, <1>2, FirstIndexFinds
  <2>2. /\ list' = Seqs!RemoveAt(list, i)
        /\ saveIgnored(list', "removed")
        /\ up /\ up' = up
    BY <1>2 DEF Remove
  <2>3. d \in StoredDomain
    BY DEF StoredDomain
  <2> HIDE DEF d, i
  <2>4. list' \in Seq(Mapping) /\ Unique(list')
    BY <1>0, <2>1, <2>2, UniqueRemove
  <2>5. TableOf(list') = Table!Without(TableOf(list), d)
    BY <1>0, <2>1, <2>2, TableRemove
  <2>6. d \in DOMAIN TableOf(list)
    BY <1>0, <1>2, TableOfIs
  <2>7. Table!SaveQuietly("removed")
    BY <2>2, <2>4, QuietSaveMaps
  <2>8. Table!Delete(d)
    BY <2>2, <2>5, <2>6, <2>7 DEF Table!Delete
  <2> QED BY <2>3, <2>8 DEF Table!Next
<1> QED BY <1>1, <1>2

LEMMA ReplaceMaps ==
  ASSUME IInv, NEW oldDomain \in Spelling, NEW m \in RawMapping, Replace(oldDomain, m)
  PROVE  Table!Next
<1> DEFINE n == Normalized(m)
           old == normalizeDomain(oldDomain)
           i == FirstIndex(list, old)
<1>0. list \in Seq(Mapping) /\ Unique(list) /\ up /\ up' = up
  BY DEF IInv, TypeOK, UniqueDomains, Replace
<1>1. CASE Refuse("invalid") \/ Refuse("notFound")
  <2>1. Table!Refuse
    BY <1>0, <1>1, RefuseMaps
  <2> QED BY <2>1 DEF Table!Next
<1>2. CASE /\ HasDomain(list, old)
           /\ n.Domain # old
           /\ Taken(list, old, n.Domain)
           /\ Refuse("taken")
  <2>1. HasDomain(list, n.Domain)
    BY <1>2 DEF Taken, HasDomain
  <2>2. \E d, e \in DOMAIN TableOf(list) : d # e
    BY <1>0, <1>2, <2>1, TableOfIs
  <2>3. Table!Refuse
    BY <1>0, <1>2, <2>2, RefuseMaps
  <2> QED BY <2>3 DEF Table!Next
<1>3. CASE /\ ValidateMapping(n)
           /\ HasDomain(list, old)
           /\ n.Domain = old \/ ~Taken(list, old, n.Domain)
           /\ list' = [list EXCEPT ![i] = n]
           /\ saveLocked(list', "replaced")
  <2>1. n \in Mapping
    BY <1>3, NormalizedType
  <2>2. i \in DOMAIN list /\ list[i].Domain = old
    BY <1>0, <1>3, FirstIndexFinds
  <2>3. \A j \in DOMAIN list : list[j].Domain = n.Domain => j = i
    BY <1>0, <1>3, <2>2 DEF Unique, Taken
  <2>4. old \in StoredDomain
    BY DEF StoredDomain
  <2> HIDE DEF n, old, i
  <2>5. list' \in Seq(Mapping) /\ Unique(list')
    BY <1>0, <1>3, <2>1, <2>2, <2>3, UniqueOverwrite
  <2>6. TableOf(list') =
          Table!With(Table!Without(TableOf(list), old), n.Domain, n.Target)
    BY <1>0, <1>3, <2>1, <2>2, <2>3, TableOverwrite
  <2>7. old \in DOMAIN TableOf(list)
    BY <1>0, <1>3, TableOfIs
  <2>8. n.Domain = old \/ n.Domain \notin DOMAIN TableOf(list)
    <3>1. HasDomain(list, n.Domain) => n.Domain = old
      BY <2>2, <2>3 DEF HasDomain
    <3> QED BY <1>0, <3>1, TableOfIs
  <2>9. Table!Save("replaced")
    BY <1>3, <2>5, SaveMaps
  <2>10. Table!Rename(old, n.Domain, n.Target)
    BY <1>0, <2>6, <2>7, <2>8, <2>9 DEF Table!Rename
  <2>11. n.Domain \in StoredDomain /\ n.Target \in Targets
    BY <2>1 DEF Mapping
  <2> QED BY <2>4, <2>10, <2>11 DEF Table!Next
<1> QED BY <1>1, <1>2, <1>3 DEF Replace

LEMMA InitMaps == Init => Table!Init
<1>1. NoFile # Torn
  BY FileAssumption
<1> QED BY <1>1, TableOfNothing DEF Init, Table!Init, SavedTable

LEMMA NextMaps == IInv /\ [Next]_vars => [Table!Next]_(Table!vars)
<1> SUFFICES ASSUME IInv, [Next]_vars PROVE [Table!Next]_(Table!vars)
  OBVIOUS
<1>1. ASSUME NEW m \in RawMapping, Upsert(m)
      PROVE  Table!Next
  BY <1>1, UpsertMaps
<1>2. ASSUME NEW d \in Spelling, Remove(d)
      PROVE  Table!Next
  BY <1>2, RemoveMaps
<1>3. ASSUME NEW d \in Spelling, NEW m \in RawMapping, Replace(d, m)
      PROVE  Table!Next
  BY <1>3, ReplaceMaps
<1>4. CASE Kill \/ KillInSave
  <2>1. TableOf(list)' = Table!Empty
    BY <1>4, TableOfNothing DEF Kill, KillInSave
  <2>2. SavedTable' \in {SavedTable, Torn}
    BY <1>4 DEF Kill, KillInSave, SavedTable
  <2>3. Table!Kill
    BY <1>4, <2>1, <2>2 DEF Kill, KillInSave, Table!Kill
  <2> QED BY <2>3 DEF Table!Next
<1>5. CASE NewStore
  <2>1. file \in Seq(Mapping) \cup {NoFile} /\ (file # NoFile => Unique(file))
    BY <1>5 DEF NewStore, IInv, TypeOK, UniqueDomains
  <2>2. TableOf(list)' = SavedTable /\ SavedTable' = SavedTable
    BY <1>5 DEF NewStore, SavedTable
  <2>3. SavedTable # Torn
    <3>1. <<>> \in Seq(Mapping) /\ Unique(<<>>)
      BY DEF Unique
    <3> QED BY <1>5, <2>1, <3>1, ListIsTable DEF NewStore, SavedTable
  <2>4. Table!Start
    BY <1>5, <2>2, <2>3 DEF NewStore, Table!Start
  <2> QED BY <2>4 DEF Table!Next
<1>6. CASE UNCHANGED vars
  <2>1. TableOf(list)' = TableOf(list) /\ SavedTable' = SavedTable
    BY <1>6 DEF vars, SavedTable
  <2> QED BY <1>6, <2>1 DEF vars, Table!vars
<1> QED BY <1>1, <1>2, <1>3, <1>4, <1>5, <1>6 DEF Next

\* The store is a partial function with a saved copy: the list, its search loops, the
\* spelling of domains and the file on disk (store.go) do nothing that MappingTable,
\* by which Engine stands for the store, does not allow.
THEOREM StoreIsMappingTable == Spec => IsMappingTable
<1>1. Init => Table!Init
  BY InitMaps
<1>2. IInv /\ [Next]_vars => [Table!Next]_(Table!vars)
  BY NextMaps
<1> QED BY <1>1, <1>2, AlwaysIInv, PTL DEF Spec, IsMappingTable, Table!Spec

=============================================================================
