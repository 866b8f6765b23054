------------------------------ MODULE Domains ------------------------------
(***************************************************************************)
(* Domain names as the engine receives, normalises and validates them      *)
(* (src/engine/store.go).                                                  *)
(*                                                                         *)
(* A domain arrives as free text.  Everything normalizeDomain and the      *)
(* regular expression tell apart is kept: the name itself (one that the    *)
(* expression accepts, or one that it rejects), whether it is written in   *)
(* upper case, and the characters behind the name that normalizeDomain may *)
(* or may not take away.  Leading blanks always go and are left out.       *)
(***************************************************************************)
EXTENDS Integers, Sequences, FiniteSets

Seqs == INSTANCE SequencesExt
Sets == INSTANCE FiniteSetsExt

CONSTANTS
  Names,        \* names that domainRe accepts and that are not localhost
  BadNames,     \* names that domainRe or the localhost rule rejects
  Targets,      \* host:port texts that ValidateMapping accepts
  BadTargets,   \* target texts that it rejects
  MaxTail       \* bound: characters written behind a name

ASSUME NamesAssumption == Names \cap BadNames = {} /\ Names # {}
ASSUME TargetsAssumption == Targets \cap BadTargets = {} /\ Targets # {}
ASSUME MaxTailAssumption == MaxTail \in Nat

Dot == "."
Blank == " "

Tail_ == UNION {[1..n -> {Dot, Blank}] : n \in 0..MaxTail}

\* A text as it can be typed into the domain field or put into a request.
Spelling == [name : Names \cup BadNames, upper : BOOLEAN, tail : Tail_]

\* strings.TrimSuffix(d, "."): one dot, and only if it is the last character.
TrimSuffix(t) == IF t # <<>> /\ Seqs!Last(t) = Dot THEN Seqs!Front(t) ELSE t

\* strings.TrimSpace: every blank after the last character that is not one.
TrimSpace(t) == SubSeq(t, 1, Sets!Max({i \in DOMAIN t : t[i] # Blank} \cup {0}))

normalizeDomain(d) ==
  [name |-> d.name, upper |-> FALSE, tail |-> TrimSpace(TrimSuffix(d.tail))]

\* The regular expression accepts the text: a name it accepts and nothing else.
MatchesDomainRe(d) == d.name \in Names /\ d.tail = <<>>

\* ValidateMapping gets the mapping by value: the domain that it normalises is
\* its own copy, the caller keeps the one it passed.
ValidateMapping(m) ==
  /\ MatchesDomainRe(normalizeDomain(m.Domain))
  /\ m.Target \in Targets

\* What Upsert and Replace make of the domain of a request.
StoredDomain == {normalizeDomain(s) : s \in Spelling}

\* The Host header of a request for the site of a name: browsers send the name
\* in lower case, with at most the dot of a fully qualified name behind it.
HostHeader == [name : Names, upper : {FALSE}, tail : {<<>>, <<Dot>>}]

=============================================================================
