---------------------------- MODULE EngineProofs ----------------------------
(***************************************************************************)
(* Theorems about Engine, for any handlers, domains, targets, faults and   *)
(* number of changes: a request or a start that no other one overlaps      *)
(* leaves a block that follows the table and the user's lines as they were.*)
(*                                                                         *)
(* What splitHosts and Rendered do to lines is proved in HostsFileProofs;  *)
(* its lemmas come in through Lines.                                       *)
(***************************************************************************)
EXTENDS Engine, SequenceTheorems, FiniteSetTheorems, TLAPS

Lines == INSTANCE HostsFileProofs WITH content <- hosts, domains <- {}, MaxLines <- 0

-----------------------------------------------------------------------------
(* The operators of HostsFileProofs are those of Engine.                   *)

LEMMA SameSplit == \A c : Lines!splitHosts(c) = splitHosts(c)
BY Zenon
DEF splitHosts, Found, Nothing, SplitStep, KeepLine, TrimBlankLines, hostsBegin, hostsEnd,
    BlankLine, Lines!splitHosts, Lines!Found, Lines!Nothing, Lines!SplitStep, Lines!KeepLine,
    Lines!TrimBlankLines, Lines!hostsBegin, Lines!hostsEnd, Lines!BlankLine

LEMMA SameListed == \A D : Lines!Listed(D) = Listed(D)
BY Zenon
DEF Listed, Seqs!SetToSeq, Seqs!IsInjective, Seqs!Cardinality,
    Lines!Listed, Lines!Seqs!SetToSeq, Lines!Seqs!IsInjective, Lines!Seqs!Cardinality

LEMMA SameSize ==
  \A D : /\ Lines!Cardinality(D) = Cardinality(D)
         /\ Lines!IsFiniteSet(D) <=> IsFiniteSet(D)
         /\ Lines!Seqs!ToSet(D) = Seqs!ToSet(D)
BY Zenon
DEF Cardinality, IsFiniteSet, Seqs!ToSet,
    Lines!Cardinality, Lines!IsFiniteSet, Lines!Seqs!ToSet

LEMMA SameRendered == \A o, D : Lines!Rendered(o, D) = Rendered(o, D)
BY SameListed, SameSize, Zenon
DEF Rendered, desiredHostsBlock, Entry, hostsBegin, hostsEnd, BlankLine, Lines!Rendered,
    Lines!desiredHostsBlock, Lines!Entry, Lines!hostsBegin, Lines!hostsEnd, Lines!BlankLine

LEMMA SameInSync == \A c, D : Lines!HostsInSync(c, D) <=> HostsInSync(c, D)
BY SameSplit, SameSize, Zenon DEF HostsInSync, Lines!HostsInSync

LEMMA SameMarkers ==
  Lines!Markers = {hostsBegin, hostsEnd} /\ Lines!BlankLine = BlankLine
BY DEF Lines!Markers, Lines!hostsBegin, Lines!hostsEnd, hostsBegin, hostsEnd,
       Lines!BlankLine, BlankLine

-----------------------------------------------------------------------------
(* The inductive invariant.                                                *)

IsLines(l) == l \in Seq(Seqs!ToSet(l))

\* Lines as splitHosts returns them: no marker, no blank one at the end.
Clean(l) ==
  /\ l \in Seq(Seqs!ToSet(l) \ {hostsBegin, hostsEnd})
  /\ l # <<>> => l[Len(l)] # BlankLine

\* The variables are of the right kind, also those that TypeOK leaves out.
Typed ==
  /\ TypeOK
  /\ up \in BOOLEAN
  /\ kept = [p \in Threads |-> kept[p]] /\ \A p \in Threads : Clean(kept[p])
  /\ IsLines(hosts)

\* The tables and the lists of domains are finite.
Finite ==
  /\ IsFiniteSet(DOMAIN table)
  /\ saved # Lost => IsFiniteSet(DOMAIN saved)
  /\ \A p \in Threads : IsFiniteSet(wanted[p])

\* Nothing runs in a process that has ended.
DownIsQuiet == ~up => Quiet /\ ~serving

\* Next to the thread named by solo, none is at work.
Alone == \A p, q \in Threads : solo = p /\ q # p => Idle(q)

\* What that thread holds is what the table and the file are.
InStepAt(p) ==
  /\ pc[p] \in {"read", "open", "write"} => wanted[p] = DOMAIN table
  /\ pc[p] = "write" => hosts = <<>>
  /\ Idle(p) /\ serving => HostsInSync(hosts, DOMAIN table)

InStep == \A p \in Threads : solo = p => InStepAt(p)

IInv == Typed /\ Finite /\ DownIsQuiet /\ Alone /\ InStep

-----------------------------------------------------------------------------
(* Lines.                                                                  *)

\* A sequence is one over its own elements.
LEMMA LinesOf ==
  ASSUME NEW S, NEW s \in Seq(S), NEW M
  PROVE  IsLines(s) /\ (S \cap M = {} => s \in Seq(Seqs!ToSet(s) \ M))
<1>1. \A i \in 1..Len(s) : s[i] \in S /\ s[i] \in Seqs!ToSet(s)
  BY DEF Seqs!ToSet
<1>2. IsLines(s)
  BY <1>1 DEF IsLines
<1>3. ASSUME S \cap M = {}
      PROVE  s \in Seq(Seqs!ToSet(s) \ M)
  <2>1. \A i \in 1..Len(s) : s[i] \in Seqs!ToSet(s) \ M
    BY <1>1, <1>3
  <2> QED BY <2>1
<1> QED BY <1>2, <1>3

\* splitHosts leaves clean lines outside.
LEMMA SplitIsClean ==
  ASSUME NEW c, IsLines(c)
  PROVE  Clean(splitHosts(c).outside)
<1> DEFINE o == splitHosts(c).outside
           S == Seqs!ToSet(c)
<1>1. o \in Seq(S \ {hostsBegin, hostsEnd}) /\ Lines!Trimmed(o)
  <2>1. c \in Seq(S)
    BY DEF IsLines
  <2>2. /\ Lines!splitHosts(c).outside \in Seq(S \ Lines!Markers)
        /\ Lines!Trimmed(Lines!splitHosts(c).outside)
    BY <2>1, Lines!SplitClean
  <2> QED BY <2>2, SameSplit, SameMarkers
<1> HIDE DEF o, S
<1>2. o \in Seq(Seqs!ToSet(o) \ {hostsBegin, hostsEnd})
  <2>1. (S \ {hostsBegin, hostsEnd}) \cap {hostsBegin, hostsEnd} = {}
    OBVIOUS
  <2> QED BY <1>1, <2>1, LinesOf
<1>3. o # <<>> => o[Len(o)] # BlankLine
  BY <1>1, SameMarkers DEF Lines!Trimmed
<1> QED BY <1>2, <1>3 DEF Clean, o

\* What is rendered from clean lines are lines, from which splitHosts gets them back,
\* and whose block is in sync.
LEMMA RenderedIsRight ==
  ASSUME NEW o, Clean(o), NEW D, IsFiniteSet(D)
  PROVE  /\ IsLines(Rendered(o, D))
         /\ splitHosts(Rendered(o, D)).outside = o
         /\ HostsInSync(Rendered(o, D), D)
<1> DEFINE S == Seqs!ToSet(o)
<1>1. o \in Seq(S \ Lines!Markers) /\ Lines!Trimmed(o) /\ Lines!IsFiniteSet(D)
  BY SameMarkers, SameSize DEF Clean, Lines!Trimmed
<1>2. o \in Seq(S)
  BY <1>1
<1> HIDE DEF S
<1>3. IsLines(Rendered(o, D))
  <2>1. CASE D = {}
    <3>1. Rendered(o, D) = o
      BY <2>1 DEF Rendered
    <3> QED BY <1>2, <3>1, LinesOf
  <2>2. CASE D # {}
    <3>1. Lines!Rendered(o, D) \in Seq(Lines!LinesWith(S, D))
      BY <1>1, <1>2, <2>2, Lines!RenderedIs
    <3> QED BY <3>1, SameRendered, LinesOf
  <2> QED BY <2>1, <2>2
<1>4. splitHosts(Rendered(o, D)).outside = o
  <2>1. Lines!splitHosts(Lines!Rendered(o, D)) = [outside |-> o, managed |-> Lines!Listed(D)]
    BY <1>1, Lines!SplitOfRendered
  <2>2. Lines!splitHosts(Lines!Rendered(o, D)).outside = o
    BY <2>1
  <2> QED BY <2>2, SameSplit, SameRendered
<1>5. HostsInSync(Rendered(o, D), D)
  <2>1. Lines!HostsInSync(Lines!Rendered(o, D), D)
    BY <1>1, Lines!RenderedInSync
  <2> QED BY <2>1, SameInSync, SameRendered
<1> QED BY <1>3, <1>4, <1>5

\* A set of positions has a first one.
LEMMA FirstOf ==
  ASSUME NEW N \in Nat, NEW P \in SUBSET (1..N), P # {}
  PROVE  \E i \in P : \A j \in P : i <= j
<1> DEFINE S == {n \in Nat : \A j \in P : n <= j}
<1>1. 0 \in S
  OBVIOUS
<1>2. SUFFICES ASSUME \A i \in P : ~ \A j \in P : i <= j
               PROVE  FALSE
  OBVIOUS
<1>3. \A n \in Nat : n \in S => n + 1 \in S
  <2> SUFFICES ASSUME NEW n \in Nat, n \in S, NEW j \in P
               PROVE  n + 1 <= j
    OBVIOUS
  <2>1. n <= j /\ j \in Nat
    OBVIOUS
  <2>2. n # j
    BY <1>2
  <2> QED BY <2>1, <2>2
<1> HIDE DEF S
<1>4. Nat \subseteq S
  BY <1>1, <1>3, Lines!Induction
<1>5. N + 1 \in S
  BY <1>4
<1>6. PICK j : j \in P
  OBVIOUS
<1>7. N + 1 <= j
  BY <1>5, <1>6 DEF S
<1> QED BY <1>6, <1>7

\* What remains behind an overwritten part are lines.
LEMMA BehindIsLines ==
  ASSUME NEW S, NEW l \in Seq(S), NEW n
  PROVE  \E T : Behind(l, n) \in Seq(T)
<1> DEFINE after == {k \in 1..Len(l) : Bytes(SubSeq(l, 1, k)) > n}
           k == CHOOSE i \in after : \A j \in after : i <= j
           rest == Bytes(SubSeq(l, 1, k)) - n
           piece == IF rest = Width(l[k]) THEN l[k]
                    ELSE IF rest <= 2 THEN BlankLine
                    ELSE <<"piece", rest>>
           more == SubSeq(l, k + 1, Len(l))
<1>1. Behind(l, n) = IF after = {} THEN <<>> ELSE <<piece>> \o more
  BY DEF Behind
<1>2. CASE after = {}
  <2>1. <<>> \in Seq({})
    OBVIOUS
  <2> QED BY <1>1, <1>2, <2>1
<1>3. CASE after # {}
  <2>1. Len(l) \in Nat /\ after \in SUBSET (1..Len(l))
    OBVIOUS
  <2> HIDE DEF after
  <2>2. \E i \in after : \A j \in after : i <= j
    BY <1>3, <2>1, FirstOf
  <2>3. k \in 1..Len(l)
    BY <2>1, <2>2
  <2> HIDE DEF k
  <2>4. more \in Seq(S)
    BY <2>1, <2>3
  <2> DEFINE T == S \cup {piece}
  <2> HIDE DEF more, piece
  <2>5. <<piece>> \in Seq(T) /\ more \in Seq(T)
    BY <2>4
  <2>6. <<piece>> \o more \in Seq(T)
    BY <2>5, ConcatProperties
  <2> QED BY <1>1, <1>3, <2>6
<1> QED BY <1>2, <1>3

LEMMA OverwriteIs ==
  ASSUME NEW old, IsLines(old), NEW new, IsLines(new)
  PROVE  /\ IsLines(Overwrite(old, new))
         /\ old = <<>> => Overwrite(old, new) = new
<1>1. IsLines(Overwrite(old, new))
  <2>1. PICK T : Behind(old, Bytes(new)) \in Seq(T)
    BY BehindIsLines DEF IsLines
  <2> DEFINE U == T \cup Seqs!ToSet(new)
  <2>2. new \in Seq(U) /\ Behind(old, Bytes(new)) \in Seq(U)
    BY <2>1 DEF IsLines
  <2>3. Overwrite(old, new) \in Seq(U)
    BY <2>2, ConcatProperties DEF Overwrite
  <2> QED BY <2>3, LinesOf
<1>2. ASSUME old = <<>>
      PROVE  Overwrite(old, new) = new
  <2>1. Behind(<<>>, Bytes(new)) = <<>>
    BY DEF Behind
  <2>2. new \o <<>> = new
    BY ConcatEmptySeq DEF IsLines
  <2> QED BY <1>2, <2>1, <2>2 DEF Overwrite
<1> QED BY <1>1, <1>2

-----------------------------------------------------------------------------
(* The store's steps.                                                      *)

\* A finite table stays one when a domain is mapped or taken out.
LEMMA TableStays ==
  ASSUME NEW tab \in Table!Tables, IsFiniteSet(DOMAIN tab), NEW d
  PROVE  /\ \A t \in Target : d \in Domain =>
              /\ Table!With(tab, d, t) \in Table!Tables
              /\ IsFiniteSet(DOMAIN Table!With(tab, d, t))
         /\ Table!Without(tab, d) \in Table!Tables
         /\ IsFiniteSet(DOMAIN Table!Without(tab, d))
<1>1. DOMAIN tab \subseteq Domain /\ tab \in [DOMAIN tab -> Target]
  BY DEF Table!Tables
<1>2. ASSUME NEW t \in Target, d \in Domain
      PROVE  Table!With(tab, d, t) \in Table!Tables
             /\ IsFiniteSet(DOMAIN Table!With(tab, d, t))
  <2>1. Table!With(tab, d, t) \in [DOMAIN tab \cup {d} -> Target]
    BY <1>1 DEF Table!With
  <2>2. DOMAIN tab \cup {d} \in SUBSET Domain
    BY <1>1, <1>2
  <2>3. DOMAIN Table!With(tab, d, t) = DOMAIN tab \cup {d}
    BY DEF Table!With
  <2>4. IsFiniteSet(DOMAIN tab \cup {d})
    BY FS_AddElement
  <2> QED BY <2>1, <2>2, <2>3, <2>4 DEF Table!Tables
<1>3. Table!Without(tab, d) \in Table!Tables /\ IsFiniteSet(DOMAIN Table!Without(tab, d))
  <2>1. Table!Without(tab, d) \in [DOMAIN tab \ {d} -> Target]
    BY <1>1 DEF Table!Without
  <2>2. DOMAIN tab \ {d} \in SUBSET Domain
    BY <1>1
  <2>3. DOMAIN Table!Without(tab, d) = DOMAIN tab \ {d}
    BY DEF Table!Without
  <2>4. IsFiniteSet(DOMAIN tab \ {d})
    BY FS_RemoveElement
  <2> QED BY <2>1, <2>2, <2>3, <2>4 DEF Table!Tables
<1> QED BY <1>2, <1>3

\* The empty table is a finite one.
LEMMA EmptyTable == Table!Empty \in Table!Tables /\ IsFiniteSet(DOMAIN Table!Empty)
<1>1. Table!Empty \in [{} -> Target] /\ DOMAIN Table!Empty = {}
  BY DEF Table!Empty
<1>2. {} \in SUBSET Domain
  OBVIOUS
<1> QED BY <1>1, <1>2, FS_EmptySet DEF Table!Tables

\* What a request does that is not refused: a table, a saved copy that is an old one,
\* lost or the new one, and a rewrite unless the save failed.
Requested(p) ==
  /\ Receive(p) /\ Changed(p, "list")
  /\ up /\ up' = up
  /\ table' \in Table!Tables /\ IsFiniteSet(DOMAIN table')
  /\ saved' \in {saved, Lost, table'}

LEMMA RequestIs ==
  ASSUME Typed, Finite, NEW p \in Handlers, HandlerStep(p)
  PROVE  Requested(p) \/ \E result : Refused(p, result)
<1>1. table \in Table!Tables /\ IsFiniteSet(DOMAIN table)
  BY DEF Typed, TypeOK, Finite
<1>2. ASSUME NEW d \in Domain, NEW t \in Target, Receive(p), Table!Put(d, t), Changed(p, "list")
      PROVE  Requested(p)
  <2>1. up /\ up' = up /\ table' = Table!With(table, d, t) /\ saved' \in {saved, Lost, table'}
    BY <1>2 DEF Table!Put, Table!Save
  <2>2. table' \in Table!Tables /\ IsFiniteSet(DOMAIN table')
    BY <1>1, <2>1, TableStays
  <2> QED BY <1>2, <2>1, <2>2 DEF Requested
<1>3. ASSUME NEW d \in Domain, Receive(p), Table!Delete(d), Changed(p, "list")
      PROVE  Requested(p)
  <2>1. up /\ up' = up /\ table' = Table!Without(table, d) /\ saved' \in {saved, Lost, table'}
    BY <1>3 DEF Table!Delete, Table!SaveQuietly
  <2>2. table' \in Table!Tables /\ IsFiniteSet(DOMAIN table')
    BY <1>1, <2>1, TableStays
  <2> QED BY <1>3, <2>1, <2>2 DEF Requested
<1>4. ASSUME NEW old \in Domain, NEW d \in Domain, NEW t \in Target,
             Receive(p), Table!Rename(old, d, t), Changed(p, "list")
      PROVE  Requested(p)
  <2>1. /\ up /\ up' = up
        /\ table' = Table!With(Table!Without(table, old), d, t)
        /\ saved' \in {saved, Lost, table'}
    BY <1>4 DEF Table!Rename, Table!Save
  <2>2. /\ Table!Without(table, old) \in Table!Tables
        /\ IsFiniteSet(DOMAIN Table!Without(table, old))
    BY <1>1, TableStays
  <2>3. table' \in Table!Tables /\ IsFiniteSet(DOMAIN table')
    BY <2>1, <2>2, TableStays
  <2> QED BY <1>4, <2>1, <2>3 DEF Requested
<1> QED BY <1>2, <1>3, <1>4 DEF HandlerStep, PostMapping, DeleteMapping, PutMapping

-----------------------------------------------------------------------------
(* The invariant holds.                                                    *)

Labels == {"idle", "list", "read", "open", "write"}

LEMMA EmptyIsClean == Clean(<<>>)
BY DEF Clean

\* A thread that ends its rewrite has nothing on its list and kept no lines.
LEMMA FinishTyped ==
  ASSUME Typed, Finite, NEW p \in Threads, Finish(p)
  PROVE  /\ pc' \in [Threads -> Labels]
         /\ wanted' \in [Threads -> SUBSET Domain]
         /\ serving' \in BOOLEAN
         /\ kept' = [q \in Threads |-> kept'[q]] /\ \A q \in Threads : Clean(kept'[q])
         /\ \A q \in Threads : IsFiniteSet(wanted'[q])
<1>1. /\ pc' \in [Threads -> Labels] /\ wanted' \in [Threads -> SUBSET Domain]
      /\ serving' \in BOOLEAN
  BY DEF Finish, Goto, Typed, TypeOK, Labels
<1>2. \A q \in Threads : kept'[q] = IF q = p THEN <<>> ELSE kept[q]
  BY DEF Finish, Typed
<1>3. kept' = [q \in Threads |-> kept'[q]]
  BY DEF Finish, Typed
<1>4. \A q \in Threads : Clean(kept'[q])
  BY <1>2, EmptyIsClean DEF Typed
<1>5. \A q \in Threads : wanted'[q] = IF q = p THEN {} ELSE wanted[q]
  BY DEF Finish, Typed, TypeOK
<1> QED BY <1>1, <1>3, <1>4, <1>5, FS_EmptySet DEF Finite

LEMMA InitInvariant == Init => IInv
<1> SUFFICES ASSUME Init PROVE IInv
  OBVIOUS
<1>1. table = Table!Empty /\ saved = Table!Empty /\ up = TRUE
  BY DEF Init, Table!Init
<1>2. IsLines(hosts)
  <2>1. Cardinality(UserText) \in Nat
    BY UserTextAssumption, FS_CardinalityType
  <2>2. hosts = [i \in 1..Cardinality(UserText) |-> UserLine(Listed(UserText)[i])]
    BY DEF Init, UserLines
  <2>3. hosts \in Seq({UserLine(Listed(UserText)[i]) : i \in 1..Cardinality(UserText)})
    BY <2>1, <2>2
  <2> QED BY <2>3, LinesOf
<1>3. TypeOK
  BY <1>1, EmptyTable DEF Init, TypeOK, Threads
<1>4. Typed
  BY <1>1, <1>2, <1>3, EmptyIsClean DEF Init, Typed
<1>5. Finite
  BY <1>1, EmptyTable, FS_EmptySet DEF Init, Finite
<1>6. DownIsQuiet
  BY <1>1 DEF DownIsQuiet
<1>7. Alone /\ InStep
  BY ThreadAssumption DEF Init, Alone, InStep, InStepAt, Idle, Threads
<1> QED BY <1>4, <1>5, <1>6, <1>7 DEF IInv

LEMMA RequestKeeps ==
  ASSUME IInv, NEW p \in Handlers, Requested(p)
  PROVE  IInv'
<1>1. /\ p \in Threads /\ serving /\ Idle(p)
      /\ solo' = IF Quiet /\ reply' # "saveError" THEN p ELSE Nobody
      /\ UNCHANGED <<hosts, wanted, kept, serving>>
  BY DEF Requested, Receive, Threads, Changed
<1>2. PICK l \in {"idle", "list"} : Goto(p, l) /\ (l = "idle" => reply' = "saveError")
  BY DEF Requested, Changed
<1>3. \A q \in Threads : pc'[q] = IF q = p THEN l ELSE pc[q]
  BY <1>2 DEF Goto, IInv, Typed, TypeOK
<1>4. TypeOK'
  <2>1. pc' \in [Threads -> Labels] /\ l \in Labels
    BY <1>2 DEF Goto, IInv, Typed, TypeOK, Labels
  <2> QED BY <1>1, <2>1 DEF IInv, Typed, TypeOK, Labels, Requested
<1>5. Typed'
  BY <1>1, <1>4 DEF IInv, Typed, Requested, IsLines
<1>6. Finite'
  BY <1>1 DEF IInv, Finite, Requested
<1>7. DownIsQuiet'
  BY DEF DownIsQuiet, Requested
<1>8. Alone' /\ InStep'
  <2> SUFFICES ASSUME NEW q \in Threads, solo' = q
               PROVE  /\ \A r \in Threads : r # q => Idle(r)'
                      /\ InStepAt(q)'
    BY DEF Alone, InStep
  <2>1. q = p /\ Quiet /\ l = "list"
    BY <1>1, <1>2, ThreadAssumption DEF Threads
  <2>2. \A r \in Threads : r # q => Idle(r)'
    BY <1>3, <2>1 DEF Idle, Quiet
  <2>3. InStepAt(q)'
    BY <1>2, <1>3, <2>1 DEF InStepAt, Idle
  <2> QED BY <2>2, <2>3
<1> QED BY <1>5, <1>6, <1>7, <1>8 DEF IInv

\* A request that is refused leaves all but the answer.
LEMMA RefusalKeeps ==
  ASSUME IInv, NEW p, NEW result, Refused(p, result)
  PROVE  IInv'
BY DEF Refused, Table!Refuse, IInv, Typed, TypeOK, IsLines, Finite, DownIsQuiet, Alone,
   InStep, InStepAt, Idle, Quiet

LEMMA ListKeeps ==
  ASSUME IInv, NEW p \in Threads, ListDomains(p)
  PROVE  IInv'
<1>1. /\ pc[p] = "list" /\ Goto(p, "read")
      /\ wanted' = [wanted EXCEPT ![p] = DOMAIN table]
      /\ UNCHANGED <<storeVars, hosts, kept, serving, solo, changes>>
  BY DEF ListDomains
<1>2. /\ \A q \in Threads : pc'[q] = IF q = p THEN "read" ELSE pc[q]
      /\ \A q \in Threads : wanted'[q] = IF q = p THEN DOMAIN table ELSE wanted[q]
  BY <1>1 DEF Goto, IInv, Typed, TypeOK
<1>3. TypeOK'
  <2>1. pc' \in [Threads -> Labels]
    BY <1>1 DEF Goto, IInv, Typed, TypeOK, Labels
  <2>2. DOMAIN table \in SUBSET Domain
    BY DEF IInv, Typed, TypeOK, Table!Tables
  <2>3. wanted' \in [Threads -> SUBSET Domain]
    BY <1>1, <2>2 DEF IInv, Typed, TypeOK
  <2> QED BY <1>1, <2>1, <2>3 DEF IInv, Typed, TypeOK, Labels, storeVars
<1>4. Typed'
  BY <1>1, <1>3 DEF IInv, Typed, IsLines, storeVars
<1>5. Finite'
  BY <1>1, <1>2 DEF IInv, Finite, storeVars
<1>6. DownIsQuiet'
  BY <1>1 DEF IInv, DownIsQuiet, Quiet, Idle, storeVars
<1>7. Alone'
  BY <1>1, <1>2 DEF IInv, Alone, Idle
<1>8. InStep'
  BY <1>1, <1>2 DEF IInv, InStep, InStepAt, Idle, storeVars
<1> QED BY <1>4, <1>5, <1>6, <1>7, <1>8 DEF IInv

\* A rewrite that ends with an error: no thread is named by solo.
LEMMA FailureKeeps ==
  ASSUME IInv, NEW p \in Threads, pc[p] # "idle", Finish(p), solo' = Nobody,
         UNCHANGED storeVars, IsLines(hosts')
  PROVE  IInv'
<1>1. Typed'
  BY FinishTyped DEF IInv, Typed, TypeOK, Labels, storeVars, IsLines
<1>2. Finite'
  BY FinishTyped DEF IInv, Finite, storeVars
<1>3. DownIsQuiet'
  BY DEF IInv, DownIsQuiet, Quiet, Idle, storeVars
<1>4. Alone' /\ InStep'
  BY ThreadAssumption DEF Alone, InStep, Threads
<1> QED BY <1>1, <1>2, <1>3, <1>4 DEF IInv

LEMMA ReadKeeps ==
  ASSUME IInv, NEW p \in Threads, ReadHosts(p)
  PROVE  IInv'
<1>1. pc[p] = "read" /\ UNCHANGED <<storeVars, hosts, changes>>
  BY DEF ReadHosts
<1>2. CASE Finish(p) /\ solo' = Nobody
  <2>1. IsLines(hosts')
    BY <1>1 DEF IInv, Typed, IsLines
  <2> QED BY <1>1, <1>2, <2>1, FailureKeeps
<1>3. CASE /\ kept' = [kept EXCEPT ![p] = splitHosts(hosts).outside]
           /\ Goto(p, "open")
           /\ UNCHANGED <<wanted, serving, solo>>
  <2>1. \A q \in Threads : pc'[q] = IF q = p THEN "open" ELSE pc[q]
    BY <1>3 DEF Goto, IInv, Typed, TypeOK
  <2>2. /\ kept' = [q \in Threads |-> kept'[q]]
        /\ \A q \in Threads : kept'[q] = IF q = p THEN splitHosts(hosts).outside ELSE kept[q]
    BY <1>3 DEF IInv, Typed
  <2>3. \A q \in Threads : Clean(kept'[q])
    BY <2>2, SplitIsClean DEF IInv, Typed
  <2>4. pc' \in [Threads -> Labels]
    BY <1>3 DEF Goto, IInv, Typed, TypeOK, Labels
  <2>5. Typed'
    BY <1>1, <1>3, <2>2, <2>3, <2>4 DEF IInv, Typed, TypeOK, Labels, storeVars, IsLines
  <2>6. Finite'
    BY <1>1, <1>3 DEF IInv, Finite, storeVars
  <2>7. DownIsQuiet'
    BY <1>1, <1>3 DEF IInv, DownIsQuiet, Quiet, Idle, storeVars
  <2>8. Alone'
    BY <1>1, <1>3, <2>1 DEF IInv, Alone, Idle
  <2>9. InStep'
    BY <1>1, <1>3, <2>1 DEF IInv, InStep, InStepAt, Idle, storeVars
  <2> QED BY <2>5, <2>6, <2>7, <2>8, <2>9 DEF IInv
<1> QED BY <1>2, <1>3 DEF ReadHosts

LEMMA OpenKeeps ==
  ASSUME IInv, NEW p \in Threads, OpenHosts(p)
  PROVE  IInv'
<1>1. pc[p] = "open" /\ UNCHANGED <<storeVars, changes>>
  BY DEF OpenHosts
<1>2. CASE Finish(p) /\ UNCHANGED hosts /\ solo' = Nobody
  <2>1. IsLines(hosts')
    BY <1>2 DEF IInv, Typed, IsLines
  <2> QED BY <1>1, <1>2, <2>1, FailureKeeps
<1>3. CASE hosts' = <<>> /\ Goto(p, "write") /\ UNCHANGED <<wanted, kept, serving, solo>>
  <2>1. \A q \in Threads : pc'[q] = IF q = p THEN "write" ELSE pc[q]
    BY <1>3 DEF Goto, IInv, Typed, TypeOK
  <2>2. pc' \in [Threads -> Labels]
    BY <1>3 DEF Goto, IInv, Typed, TypeOK, Labels
  <2>3. IsLines(hosts')
    BY <1>3 DEF IsLines
  <2>4. Typed'
    BY <1>1, <1>3, <2>2, <2>3 DEF IInv, Typed, TypeOK, Labels, storeVars, IsLines
  <2>5. Finite'
    BY <1>1, <1>3 DEF IInv, Finite, storeVars
  <2>6. DownIsQuiet'
    BY <1>1, <1>3 DEF IInv, DownIsQuiet, Quiet, Idle, storeVars
  <2>7. Alone'
    BY <1>1, <1>3, <2>1 DEF IInv, Alone, Idle
  <2>8. InStep'
    BY <1>1, <1>3, <2>1 DEF IInv, InStep, InStepAt, Alone, Idle, storeVars
  <2> QED BY <2>4, <2>5, <2>6, <2>7, <2>8 DEF IInv
<1> QED BY <1>2, <1>3 DEF OpenHosts

\* A write leaves lines; of an empty file, if it does not fail, the lines kept and a
\* block in sync.
LEMMA WriteIs ==
  ASSUME IInv, NEW p \in Threads, WriteHosts(p)
  PROVE  /\ IsLines(hosts')
         /\ solo' = solo \/ solo' = Nobody
         /\ hosts = <<>> /\ solo' # Nobody => /\ splitHosts(hosts').outside = kept[p]
                                             /\ HostsInSync(hosts', wanted[p])
<1> DEFINE new == Rendered(kept[p], wanted[p])
<1>1. /\ IsLines(new)
      /\ splitHosts(new).outside = kept[p]
      /\ HostsInSync(new, wanted[p])
  BY RenderedIsRight DEF IInv, Typed, Finite
<1>2. IsLines(hosts)
  BY DEF IInv, Typed
<1>3. \/ hosts' = Overwrite(hosts, new) /\ solo' = solo
      \/ /\ \E n \in 0..(Len(new) - 1) : hosts' = Overwrite(hosts, SubSeq(new, 1, n))
         /\ solo' = Nobody
  BY DEF WriteHosts
<1> HIDE DEF new
<1>4. CASE hosts' = Overwrite(hosts, new) /\ solo' = solo
  BY <1>1, <1>2, <1>4, OverwriteIs
<1>5. ASSUME NEW n \in 0..(Len(new) - 1), hosts' = Overwrite(hosts, SubSeq(new, 1, n))
      PROVE  IsLines(hosts')
  <2>1. IsLines(SubSeq(new, 1, n))
    <3>1. new \in Seq(Seqs!ToSet(new)) /\ Len(new) \in Nat
      BY <1>1 DEF IsLines
    <3> DEFINE S == Seqs!ToSet(new)
    <3> HIDE DEF S
    <3>2. new \in Seq(S)
      BY <3>1 DEF S
    <3>3. SubSeq(new, 1, n) \in Seq(S)
      BY <3>1, <3>2
    <3> QED BY <3>3, LinesOf
  <2> QED BY <1>2, <1>5, <2>1, OverwriteIs
<1> QED BY <1>3, <1>4, <1>5

LEMMA WriteKeeps ==
  ASSUME IInv, NEW p \in Threads, WriteHosts(p)
  PROVE  IInv'
<1>1. pc[p] = "write" /\ Finish(p) /\ UNCHANGED <<storeVars, changes>>
  BY DEF WriteHosts
<1>2. IsLines(hosts') /\ (solo' = solo \/ solo' = Nobody)
  BY WriteIs
<1>3. CASE solo' = Nobody
  BY <1>1, <1>2, <1>3, FailureKeeps
<1>4. CASE solo' # Nobody
  <2>0. solo' = solo
    BY <1>2, <1>4
  <2>1. \A q \in Threads : pc'[q] = IF q = p THEN "idle" ELSE pc[q]
    BY <1>1 DEF Finish, Goto, IInv, Typed, TypeOK
  <2>2. Typed'
    BY <1>1, <1>2, <2>0, FinishTyped DEF IInv, Typed, TypeOK, Labels, storeVars, IsLines
  <2>3. Finite'
    BY <1>1, FinishTyped DEF IInv, Finite, storeVars
  <2>4. DownIsQuiet'
    BY <1>1 DEF IInv, DownIsQuiet, Quiet, Idle, storeVars
  <2>5. Alone'
    BY <2>0, <2>1 DEF IInv, Alone, Idle
  <2>6. InStep'
    <3> SUFFICES ASSUME NEW q \in Threads, solo = q
                 PROVE  InStepAt(q)'
      BY <2>0 DEF InStep
    <3>1. q = p
      BY <1>1 DEF IInv, Alone, Idle
    <3>2. hosts = <<>> /\ wanted[p] = DOMAIN table
      BY <1>1, <3>1 DEF IInv, InStep, InStepAt
    <3>3. HostsInSync(hosts', DOMAIN table)
      BY <1>4, <3>2, WriteIs
    <3> QED BY <1>1, <2>1, <3>1, <3>3 DEF InStepAt, Idle, storeVars
  <2> QED BY <2>2, <2>3, <2>4, <2>5, <2>6 DEF IInv
<1> QED BY <1>3, <1>4

LEMMA KillKeeps ==
  ASSUME IInv, Kill
  PROVE  IInv'
<1>1. /\ table' = Table!Empty /\ saved' \in {saved, Lost} /\ up' = FALSE
      /\ pc' = [p \in Threads |-> "idle"]
      /\ wanted' = [p \in Threads |-> {}]
      /\ kept' = [p \in Threads |-> <<>>]
      /\ serving' = FALSE
      /\ solo' = Nobody
      /\ UNCHANGED hosts
  BY DEF Kill, Table!Kill
<1>2. Typed'
  BY <1>1, EmptyTable, EmptyIsClean DEF IInv, Typed, TypeOK, IsLines
<1>3. Finite'
  BY <1>1, EmptyTable, FS_EmptySet DEF IInv, Finite
<1>4. DownIsQuiet'
  BY <1>1 DEF DownIsQuiet, Quiet, Idle
<1>5. Alone' /\ InStep'
  BY <1>1, ThreadAssumption DEF Alone, InStep, Threads
<1> QED BY <1>2, <1>3, <1>4, <1>5 DEF IInv

LEMMA StartKeeps ==
  ASSUME IInv, Start
  PROVE  IInv'
<1>1. /\ ~up /\ saved # Lost /\ up' = TRUE /\ table' = saved
      /\ Goto(Main, "list") /\ solo' = Main
      /\ UNCHANGED <<saved, reply, hosts, wanted, kept, serving>>
  BY DEF Start, Table!Start
<1>2. Main \in Threads /\ Quiet /\ ~serving
  BY <1>1 DEF IInv, DownIsQuiet, Threads
<1>3. \A q \in Threads : pc'[q] = IF q = Main THEN "list" ELSE pc[q]
  BY <1>1, <1>2 DEF Goto, IInv, Typed, TypeOK
<1>4. pc' \in [Threads -> Labels]
  BY <1>1 DEF Goto, IInv, Typed, TypeOK, Labels
<1>5. Typed'
  BY <1>1, <1>2, <1>4 DEF IInv, Typed, TypeOK, Labels, IsLines
<1>6. Finite'
  BY <1>1 DEF IInv, Finite
<1>7. DownIsQuiet'
  BY <1>1 DEF DownIsQuiet
<1>8. Alone' /\ InStep'
  BY <1>1, <1>2, <1>3 DEF Alone, InStep, InStepAt, Idle, Quiet
<1> QED BY <1>5, <1>6, <1>7, <1>8 DEF IInv

LEMMA NextInvariant == IInv /\ [Next]_vars => IInv'
<1> SUFFICES ASSUME IInv, [Next]_vars PROVE IInv'
  OBVIOUS
<1>1. ASSUME NEW p \in Handlers, HandlerStep(p)
      PROVE  IInv'
  BY <1>1, RequestIs, RequestKeeps, RefusalKeeps DEF IInv
<1>2. ASSUME NEW p \in Threads, RewriteStep(p)
      PROVE  IInv'
  BY <1>2, ListKeeps, ReadKeeps, OpenKeeps, WriteKeeps DEF RewriteStep
<1>3. CASE Kill
  BY <1>3, KillKeeps
<1>4. CASE Start
  BY <1>4, StartKeeps
<1>5. CASE UNCHANGED vars
  BY <1>5
  DEF vars, storeVars, IInv, Typed, TypeOK, IsLines, Finite, DownIsQuiet, Alone, InStep,
      InStepAt, Idle, Quiet
<1> QED BY <1>1, <1>2, <1>3, <1>4, <1>5 DEF Next

LEMMA Invariant == Spec => []IInv
BY InitInvariant, NextInvariant, PTL DEF Spec

-----------------------------------------------------------------------------
(* Theorems.                                                               *)

\* The variables are of the right kind.
THEOREM TypeCorrect == Spec => []TypeOK
<1>1. IInv => TypeOK
  BY DEF IInv, Typed
<1> QED BY <1>1, Invariant, PTL

\* After a request or a start that no other one overlapped, whose save and rewrite
\* did not fail, the block of the hosts file lists the domains of the table,
\* whatever was in the file before (api.go:396).
THEOREM LoneRequestsAreInSync == Spec => []HostsFollowTable
<1>1. IInv => HostsFollowTable
  <2> SUFFICES ASSUME IInv, serving, Quiet, solo # Nobody
               PROVE  HostsInSync(hosts, DOMAIN table)
    BY DEF HostsFollowTable
  <2>1. solo \in Threads /\ Idle(solo)
    BY DEF IInv, Typed, TypeOK, Quiet
  <2> QED BY <2>1 DEF IInv, InStep, InStepAt
<1> QED BY <1>1, Invariant, PTL

\* A rewrite that no other one overlaps leaves the lines outside the block as it
\* read them, for any file (hostsfile.go:82-104).
THEOREM LoneRewritesKeepLines == Spec => SoloRewriteKeepsLines
<1> DEFINE A == \A p \in Threads :
                  pc[p] = "write" /\ pc'[p] = "idle" /\ up' /\ solo' = p
                    => splitHosts(hosts').outside = kept[p]
<1>1. IInv /\ [Next]_vars => [A]_vars
  <2> SUFFICES ASSUME IInv, Next, NEW p \in Threads,
                      pc[p] = "write", pc'[p] = "idle", up', solo' = p
               PROVE  splitHosts(hosts').outside = kept[p]
    OBVIOUS
  <2>1. pc \in [Threads -> Labels] /\ Nobody \notin Threads
    BY ThreadAssumption DEF IInv, Typed, TypeOK, Labels, Threads
  <2>2. ASSUME NEW q \in Handlers, HandlerStep(q)
        PROVE  FALSE
    <3>1. pc[q] = "idle" /\ (pc' = pc \/ \E l : pc' = [pc EXCEPT ![q] = l])
      <4>1. CASE Requested(q)
        BY <4>1 DEF Requested, Receive, Changed, Idle, Goto
      <4>2. CASE \E result : Refused(q, result)
        BY <2>2, <4>2 DEF Refused, HandlerStep, PostMapping, DeleteMapping, PutMapping,
           Receive, Idle
      <4> QED BY <2>2, <4>1, <4>2, RequestIs DEF IInv
    <3> QED BY <2>1, <3>1
  <2>3. ASSUME NEW q \in Threads, RewriteStep(q)
        PROVE  WriteHosts(p)
    <3>1. pc[q] # "idle" /\ pc' = [pc EXCEPT ![q] = pc'[q]]
      BY <2>1, <2>3 DEF RewriteStep, ListDomains, ReadHosts, OpenHosts, WriteHosts, Finish, Goto
    <3>2. q = p
      BY <2>1, <3>1
    <3> QED BY <2>3, <3>2 DEF RewriteStep, ListDomains, ReadHosts, OpenHosts
  <2>4. ~Kill
    BY DEF Kill, Table!Kill
  <2>5. ~Start
    BY DEF Start, Table!Start, IInv, DownIsQuiet, Quiet, Idle
  <2>6. WriteHosts(p)
    BY <2>2, <2>3, <2>4, <2>5 DEF Next
  <2>7. solo' # Nobody /\ solo = p
    BY <2>1, <2>6, WriteIs
  <2>8. hosts = <<>>
    BY <2>7 DEF IInv, InStep, InStepAt
  <2> QED BY <2>6, <2>7, <2>8, WriteIs
<1>2. Spec => [][A]_vars
  BY <1>1, Invariant, PTL DEF Spec
<1> QED BY <1>2 DEF SoloRewriteKeepsLines

=============================================================================
