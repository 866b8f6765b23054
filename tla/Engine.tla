------------------------------- MODULE Engine -------------------------------
(***************************************************************************)
(* The engine process with its mapping handlers (src/engine/api.go): a     *)
(* request changes the table under the store's mutex and then, holding no  *)
(* lock at all, rewrites the hosts file from a list of the domains.  The   *)
(* main thread does the same rewrite at every start.                       *)
(*                                                                         *)
(* The store is its abstract specification, MappingTable, which Store      *)
(* implements.  What the handlers do after the hosts file (the proxy       *)
(* bypass) is in ProxyBypass; it touches nothing that is modelled here.    *)
(***************************************************************************)
EXTENDS HostsFile

CONSTANTS
  Handlers,      \* goroutines of the control API: requests in flight at once
  Main,          \* the main thread
  Nobody,        \* no thread
  Domain,        \* domains that requests map
  Target,
  Lost,
  UserText,      \* lines that the user has in the hosts file
  Faults,        \* a subset of {"disk", "kill", "hosts"}
  MaxChanges     \* bound: changes of the table

ASSUME MaxChangesAssumption == MaxChanges \in Nat
ASSUME UserTextAssumption == IsFiniteSet(UserText)
ASSUME ThreadAssumption == Main \notin Handlers /\ Nobody \notin Handlers \cup {Main}

VARIABLES
  table, saved, up, reply,   \* the store
  hosts,         \* the lines of the hosts file
  pc,            \* what each thread does next
  wanted,        \* the domains that a thread listed for its rewrite
  kept,          \* the lines outside the block that it read
  serving,       \* the main thread is past its rewrite: requests are answered
  solo,          \* history: the last thread that changed the table or started, if no
                 \* other overlapped it and neither its save nor its rewrite failed;
                 \* else Nobody
  changes        \* history: changes of the table so far

Table == INSTANCE MappingTable

storeVars == <<table, saved, up, reply>>
vars == <<storeVars, hosts, pc, wanted, kept, serving, solo, changes>>

Threads == Handlers \cup {Main}

\* The file before the engine first ran: the lines of the user.
UserLines == [i \in 1..Cardinality(UserText) |-> UserLine(Listed(UserText)[i])]

Init ==
  /\ Table!Init
  /\ hosts = UserLines
  /\ pc = [p \in Threads |-> IF p = Main THEN "list" ELSE "idle"]
  /\ wanted = [p \in Threads |-> {}]
  /\ kept = [p \in Threads |-> <<>>]
  /\ serving = FALSE
  /\ solo = Main
  /\ changes = 0

Idle(p) == pc[p] = "idle"
Quiet == \A p \in Threads : Idle(p)

Goto(p, label) == pc' = [pc EXCEPT ![p] = label]

-----------------------------------------------------------------------------
(* The handlers: the change, and what its result leads to.                 *)

\* A request starts on an idle goroutine of a serving engine.
Receive(p) == serving /\ Idle(p)

\* The table is changed; a failed save is answered with an error, before the next step.
Changed(p, next) ==
  /\ changes < MaxChanges
  /\ changes' = changes + 1
  /\ solo' = IF Quiet /\ reply' # "saveError" THEN p ELSE Nobody
  /\ Goto(p, IF reply' = "saveError" THEN "idle" ELSE next)
  /\ UNCHANGED <<hosts, wanted, kept, serving>>

\* What the store refuses is answered with an error and leaves everything as it is.
Refused(p, result) ==
  /\ reply' = result
  /\ Table!Refuse
  /\ UNCHANGED <<hosts, pc, wanted, kept, serving, solo, changes>>

\* POST: a mapping that is not valid is refused.
PostMapping(p, d, t) ==
  /\ Receive(p)
  /\ \/ Table!Put(d, t) /\ Changed(p, "list")
     \/ Refused(p, "invalid")

\* Mutant of DeleteMapping: the handler answers without a rewrite.
DeleteMapping_noSync(p, d) ==
  /\ Receive(p)
  /\ \/ Table!Delete(d) /\ Changed(p, "idle")
     \/ d \notin DOMAIN table /\ Refused(p, "notFound")

\* DELETE: Remove reports a mapping that was there, saved or not.
DeleteMapping(p, d) ==
  /\ Receive(p)
  /\ \/ Table!Delete(d) /\ Changed(p, "list")
     \/ d \notin DOMAIN table /\ Refused(p, "notFound")

\* PUT: only a mapping that is there is replaced, by one whose domain is free.
PutMapping(p, old, d, t) ==
  /\ Receive(p)
  /\ \/ Table!Rename(old, d, t) /\ Changed(p, "list")
     \/ Refused(p, "invalid")
     \/ old \notin DOMAIN table /\ Refused(p, "notFound")
     \/ old \in DOMAIN table /\ d \in DOMAIN table \ {old} /\ Refused(p, "taken")

-----------------------------------------------------------------------------
(* syncHosts: domains(), then SyncHosts step by step.                      *)

\* The thread is done with its rewrite; the main thread goes on to serve.
Finish(p) ==
  /\ Goto(p, "idle")
  /\ serving' = (serving \/ p = Main)
  /\ wanted' = [wanted EXCEPT ![p] = {}]
  /\ kept' = [kept EXCEPT ![p] = <<>>]

\* Mutant of ListDomains: the list holds mappings, not domains.
ListDomains_mappings(p) ==
  /\ pc[p] = "list"
  /\ wanted' = [wanted EXCEPT ![p] = {<<d, table[d]>> : d \in DOMAIN table}]
  /\ Goto(p, "read")
  /\ UNCHANGED <<storeVars, hosts, kept, serving, solo, changes>>

ListDomains(p) ==
  /\ pc[p] = "list"
  /\ wanted' = [wanted EXCEPT ![p] = DOMAIN table]
  /\ Goto(p, "read")
  /\ UNCHANGED <<storeVars, hosts, kept, serving, solo, changes>>

\* os.ReadFile and splitHosts; an error ends the rewrite with a log line.
ReadHosts(p) ==
  /\ pc[p] = "read"
  /\ \/ /\ kept' = [kept EXCEPT ![p] = splitHosts(hosts).outside]
        /\ Goto(p, "open")
        /\ UNCHANGED <<wanted, serving, solo>>
     \/ "hosts" \in Faults /\ Finish(p) /\ solo' = Nobody
  /\ UNCHANGED <<storeVars, hosts, changes>>

\* Mutant of OpenHosts: the file is opened without being cut.
OpenHosts_uncut(p) ==
  /\ pc[p] = "open"
  /\ \/ /\ Goto(p, "write")
        /\ UNCHANGED <<wanted, kept, serving, hosts, solo>>
     \/ "hosts" \in Faults /\ Finish(p) /\ UNCHANGED hosts /\ solo' = Nobody
  /\ UNCHANGED <<storeVars, changes>>

\* os.WriteFile opens the file and cuts it to nothing, or may not open it.
OpenHosts(p) ==
  /\ pc[p] = "open"
  /\ \/ /\ hosts' = <<>>
        /\ Goto(p, "write")
        /\ UNCHANGED <<wanted, kept, serving, solo>>
     \/ "hosts" \in Faults /\ Finish(p) /\ UNCHANGED hosts /\ solo' = Nobody
  /\ UNCHANGED <<storeVars, changes>>

\* Its write starts at the first byte, whatever the file holds by now; one that fails
\* has written some of the lines.
WriteHosts(p) ==
  LET lines == Rendered(kept[p], wanted[p]) IN
  /\ pc[p] = "write"
  /\ \/ hosts' = Overwrite(hosts, lines) /\ UNCHANGED solo
     \/ /\ "hosts" \in Faults
        /\ \E n \in 0..(Len(lines) - 1) : hosts' = Overwrite(hosts, SubSeq(lines, 1, n))
        /\ solo' = Nobody
  /\ Finish(p)
  /\ UNCHANGED <<storeVars, changes>>

-----------------------------------------------------------------------------
(* The process.                                                            *)

\* The process is ended at any point; a hosts file just cut stays cut.
Kill ==
  /\ Table!Kill
  /\ pc' = [p \in Threads |-> "idle"]
  /\ wanted' = [p \in Threads |-> {}]
  /\ kept' = [p \in Threads |-> <<>>]
  /\ serving' = FALSE
  /\ solo' = Nobody
  /\ UNCHANGED <<hosts, changes>>

Start ==
  /\ Table!Start
  /\ Goto(Main, "list")
  /\ solo' = Main
  /\ UNCHANGED <<hosts, wanted, kept, serving, changes>>

HandlerStep(p) ==
  \/ \E d \in Domain, t \in Target : PostMapping(p, d, t)
  \/ \E d \in Domain : DeleteMapping(p, d)
  \/ \E old, d \in Domain, t \in Target : PutMapping(p, old, d, t)

RewriteStep(p) ==
  \/ ListDomains(p)
  \/ ReadHosts(p)
  \/ OpenHosts(p)
  \/ WriteHosts(p)

Next ==
  \/ \E p \in Handlers : HandlerStep(p)
  \/ \E p \in Threads : RewriteStep(p)
  \/ Kill
  \/ Start

Spec == Init /\ [][Next]_vars

-----------------------------------------------------------------------------
(* Properties.                                                             *)

\* The threads' variables are of the right kind.
TypeOK ==
  /\ table \in Table!Tables
  /\ saved \in Table!Tables \cup {Lost}
  /\ pc \in [Threads -> {"idle", "list", "read", "open", "write"}]
  /\ wanted \in [Threads -> SUBSET Domain]
  /\ solo \in Threads \cup {Nobody}
  /\ serving \in BOOLEAN

\* "Changes of the mappings are synchronised to the managed block and take effect
\* at once" (README.md:33), as far as the code keeps it: after a request or a start
\* that no other one has overlapped, whose save and rewrite did not fail, the block
\* lists the domains of the table and no other, whatever overlapping rewrites,
\* failures and kills had made of the file ("any change triggers a rewrite",
\* api.go:396) and whatever requests have been refused since.
HostsFollowTable ==
  serving /\ Quiet /\ solo # Nobody => HostsInSync(hosts, DOMAIN table)

\* A rewrite that no other one overlaps and that does not fail leaves the lines
\* outside the block as it found them, also those that earlier accidents have left
\* there.
SoloRewriteKeepsLines ==
  [][\A p \in Threads :
       pc[p] = "write" /\ pc'[p] = "idle" /\ up' /\ solo' = p
         => splitHosts(hosts').outside = kept[p]]_vars

\* "Everything else in the file stays as it is, to the letter" (docs/index.html:187):
\* outside the block the file is what the user wrote.  Requests that overlap break
\* it, and so does a kill between the truncation and the write.
UserLinesKept ==
  serving /\ Quiet => splitHosts(hosts).outside = UserLines

=============================================================================
