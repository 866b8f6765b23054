------------------------------- MODULE Store -------------------------------
(***************************************************************************)
(* The mapping table of the engine and the JSON file behind it             *)
(* (src/engine/store.go).                                                  *)
(*                                                                         *)
(* Every method holds s.mu from its first look at the list until the file  *)
(* is written, so each is one action.  What can be seen half done is the   *)
(* file: os.WriteFile truncates it and then writes, and the write may fail *)
(* or the process may die in it.                                           *)
(***************************************************************************)
EXTENDS Domains

CONSTANTS
  NoFile,       \* mappings.json does not exist
  Torn,         \* mappings.json is cut short: not a JSON array
  Faults        \* which faults may happen: a subset of {"disk", "kill"}

Mapping == [Domain : StoredDomain, Target : Targets]

\* Mappings as requests carry them, before normalisation and validation.
RawMapping == [Domain : Spelling, Target : Targets \cup BadTargets]

ASSUME FileAssumption == /\ NoFile \notin Seq(Mapping)
                         /\ Torn \notin Seq(Mapping)
                         /\ NoFile # Torn
ASSUME TornAssumption == Torn \notin UNION {[D -> Targets] : D \in SUBSET StoredDomain}
ASSUME FaultsAssumption == Faults \subseteq {"disk", "kill"}

VARIABLES
  list,         \* s.list
  file,         \* the content of mappings.json
  up,           \* the engine process runs
  reply         \* the result of the last method that ran in this process

vars == <<list, file, up, reply>>

-----------------------------------------------------------------------------
(* Reading the table.                                                      *)

HasDomain(l, d) == \E i \in DOMAIN l : l[i].Domain = d

\* The loops over s.list stop at the first match.
FirstIndex(l, d) ==
  CHOOSE i \in DOMAIN l : /\ l[i].Domain = d
                          /\ \A j \in 1..(i - 1) : l[j].Domain # d

Find(l, d) == l[FirstIndex(l, d)]

\* The mapping that the proxy handler finds for a Host header, if any.
Serves(l, host) == HasDomain(l, normalizeDomain(host))

-----------------------------------------------------------------------------
(* Writing it.                                                             *)

\* Mutant of saveLocked: the error of the write is dropped.
saveLocked_errorDropped(l, ack) ==
  /\ \/ file' = l
     \/ "disk" \in Faults /\ file' \in {file, Torn, l}
  /\ reply' = ack

\* saveLocked with its result handed to the caller.
saveLocked(l, ack) ==
  \/ file' = l /\ reply' = ack
  \/ "disk" \in Faults /\ file' \in {file, Torn, l} /\ reply' = "saveError"

\* saveLocked with its result thrown away (Remove).
saveIgnored(l, ack) ==
  /\ \/ file' = l
     \/ "disk" \in Faults /\ file' \in {file, Torn}
  /\ reply' = ack

Refuse(why) == reply' = why /\ UNCHANGED <<list, file>>

Init ==
  /\ list = <<>>
  /\ file = NoFile
  /\ up = TRUE
  /\ reply = "none"

\* Mutant of Normalized: the mapping is stored as it was typed.
Normalized_asTyped(m) == m

\* Upsert and Replace normalise the domain of the mapping they are given.
Normalized(m) == [Domain |-> normalizeDomain(m.Domain), Target |-> m.Target]

\* Mutant of Upsert: no search for an entry of the same domain.
Upsert_alwaysAppends(m) ==
  LET n == Normalized(m) IN
  /\ up
  /\ UNCHANGED up
  /\ \/ ~ValidateMapping(n) /\ Refuse("invalid")
     \/ /\ ValidateMapping(n)
        /\ list' = Append(list, n)
        /\ saveLocked(list', "created")

Upsert(m) ==
  LET n == Normalized(m) IN
  /\ up
  /\ UNCHANGED up
  /\ \/ ~ValidateMapping(n) /\ Refuse("invalid")
     \/ /\ ValidateMapping(n)
        /\ HasDomain(list, n.Domain)
        /\ list' = [list EXCEPT ![FirstIndex(list, n.Domain)] = n]
        /\ saveLocked(list', "updated")
     \/ /\ ValidateMapping(n)
        /\ ~HasDomain(list, n.Domain)
        /\ list' = Append(list, n)
        /\ saveLocked(list', "created")

Remove(domain) ==
  LET d == normalizeDomain(domain) IN
  /\ up
  /\ UNCHANGED up
  /\ \/ ~HasDomain(list, d) /\ Refuse("notFound")
     \/ /\ HasDomain(list, d)
        /\ list' = Seqs!RemoveAt(list, FirstIndex(list, d))
        /\ saveIgnored(list', "removed")

\* Mutant of Taken: a rename does not look for the new domain.
Taken_unchecked(l, old, d) == FALSE

\* Another entry than the one to be replaced has the new domain.
Taken(l, old, d) ==
  \E i \in DOMAIN l : l[i].Domain = d /\ i # FirstIndex(l, old)

Replace(oldDomain, m) ==
  LET old == normalizeDomain(oldDomain)
      n == Normalized(m)
  IN
  /\ up
  /\ UNCHANGED up
  /\ \/ ~ValidateMapping(n) /\ Refuse("invalid")
     \/ ValidateMapping(n) /\ ~HasDomain(list, old) /\ Refuse("notFound")
     \/ /\ ValidateMapping(n)
        /\ HasDomain(list, old)
        /\ n.Domain # old
        /\ Taken(list, old, n.Domain)
        /\ Refuse("taken")
     \/ /\ ValidateMapping(n)
        /\ HasDomain(list, old)
        /\ n.Domain = old \/ ~Taken(list, old, n.Domain)
        /\ list' = [list EXCEPT ![FirstIndex(list, old)] = n]
        /\ saveLocked(list', "replaced")

-----------------------------------------------------------------------------
(* The process.                                                            *)

Kill ==
  /\ "kill" \in Faults
  /\ up
  /\ up' = FALSE
  /\ list' = <<>>
  /\ reply' = "none"
  /\ UNCHANGED file

\* Killed in os.WriteFile, after the file was truncated.
KillInSave ==
  /\ "kill" \in Faults
  /\ up
  /\ up' = FALSE
  /\ list' = <<>>
  /\ reply' = "none"
  /\ file' = Torn

\* NewStore.  A file that does not parse ends the process (main: log.Fatalf).
NewStore ==
  /\ ~up
  /\ file # Torn
  /\ up' = TRUE
  /\ list' = IF file = NoFile THEN <<>> ELSE file
  /\ UNCHANGED <<file, reply>>

Next ==
  \/ \E m \in RawMapping : Upsert(m)
  \/ \E d \in Spelling : Remove(d)
  \/ \E d \in Spelling, m \in RawMapping : Replace(d, m)
  \/ Kill
  \/ KillInSave
  \/ NewStore

Spec == Init /\ [][Next]_vars

-----------------------------------------------------------------------------
(* Properties.                                                             *)

\* The table, the file and the last answer are of the right kind.
TypeOK ==
  /\ list \in Seq(Mapping)
  /\ file \in Seq(Mapping) \cup {NoFile, Torn}
  /\ up \in BOOLEAN
  /\ reply \in {"none", "invalid", "notFound", "taken", "saveError",
               "created", "updated", "replaced", "removed"}

Unique(l) ==
  \A i, j \in DOMAIN l : l[i].Domain = l[j].Domain => i = j

\* No domain is mapped twice, in memory or in the file: whatever additions,
\* renames and restarts come in whatever order, Find, Remove and Replace, which
\* stop at the first match (store.go:78-86, 112, 133), never miss an entry.
UniqueDomains == Unique(list) /\ (file \in Seq(Mapping) => Unique(file))

\* An addition, an update or a rename that was answered with success is in the
\* file (store.go:101, 105, 150): a restart brings it back.
AckedChangeSaved ==
  reply \in {"created", "updated", "replaced"} /\ up => file = list

\* The list as a function from domains to targets.
TableOf(l) ==
  [d \in {l[i].Domain : i \in DOMAIN l} |-> Find(l, d).Target]

SavedTable ==
  IF file = Torn THEN Torn ELSE TableOf(IF file = NoFile THEN <<>> ELSE file)

\* The store keeps what MappingTable promises: every method, answer, failed save,
\* kill and restart is one of a partial function with a saved copy.
Table == INSTANCE MappingTable
           WITH Domain <- StoredDomain, Target <- Targets, Lost <- Torn,
                table <- TableOf(list), saved <- SavedTable

IsMappingTable == Table!Spec

\* "Add a mapping: domain and target, effective at once" (README.md:42): each
\* stored mapping is the one that some Host header is routed by.
StoredIsServed ==
  \A i \in DOMAIN list :
    \E h \in HostHeader : normalizeDomain(h) = list[i].Domain

\* "Nothing is lost by a restart" (docs/index.html:169): a removal that was
\* answered with success is in the file, too.
AckedRemovalSaved == reply = "removed" /\ up => file = list

\* "After a restart the domains come back by themselves" (docs/index.html:170):
\* the file that an ended engine leaves behind can be read by the next one.
RestartReadsFile == ~up => file # Torn

=============================================================================
