---------------------------- MODULE ProxyBypass ----------------------------
(***************************************************************************)
(* The self-healing of the system proxy's bypass list                      *)
(* (src/engine/proxybypass_windows.go).  For every mapped domain two       *)
(* entries belong into the ProxyOverride value of the logged-on user.      *)
(* Proxy software and the user write the same value; which entries are     *)
(* LocalMap's own is recorded in bypass.json.  Every read-modify-write     *)
(* runs under bypassMu, by handlers, the main thread and the janitor.      *)
(*                                                                         *)
(* The engine runs as SYSTEM: without a desktop session it cannot tell     *)
(* whose registry hive to write.  (An engine that the user starts by hand  *)
(* writes his own hive, lines 117-118: that is a session that never ends.) *)
(* Entries are compared as texts; that somebody writes the same domain in  *)
(* another case is left out, and so is when the programs read the list.    *)
(***************************************************************************)
EXTENDS Integers, FiniteSets

CONSTANTS
  Handlers,     \* goroutines of the control API
  Janitor,      \* the goroutine of bypassJanitor
  Main,         \* the main thread, which syncs once before it serves
  Nobody,       \* no thread, no user
  Torn,         \* bypass.json is cut short: it does not parse
  User,         \* users that log on
  Domain,       \* domains that are mapped or not
  Faults,       \* a subset of {"kill", "registry", "save", "mappings"}
  Outside,      \* what others do: a subset of {"add", "remove", "wipe", "during"}
  MaxChanges,   \* bound: requests
  MaxOutside,   \* bound: writes of others
  MaxFaults,    \* bound: faults
  MaxLogons     \* bound: log-ons after the first

ASSUME ThreadAssumption ==
  /\ Janitor # Main
  /\ {Janitor, Main} \cap Handlers = {}
  /\ Nobody \notin Handlers \cup {Janitor, Main} \cup User

VARIABLES
  table,        \* the mapped domains
  override,     \* per user, the entries of ProxyOverride
  theirs,       \* history: those of them that the user has put there
  json,         \* bypass.json: [syncOn, owned], or Torn
  session,      \* who is logged on, or Nobody
  mu,           \* who holds bypassMu
  pc, req, answer,  \* per thread: what it does next, is asked for, has answered
  cs,           \* the local variables of the thread that holds bypassMu
  phase,        \* of the process: "down", "boot", "serving"
  left          \* what is left of each bound

vars == <<table, override, theirs, json, session, mu, pc, req, answer, cs,
          phase, left>>

Threads == Handlers \cup {Janitor, Main}
Entry == Domain \X {"exact", "wild"}
Toggles == {"on", "off", "offClean"}
Settings == [syncOn : BOOLEAN, owned : SUBSET Entry]

ASSUME FileAssumption == Torn \notin Settings

desiredBypassEntries(domains) == domains \X {"exact", "wild"}

\* A file that is missing or does not parse leaves the defaults.
loadBypassSettings(f) ==
  IF f = Torn THEN [syncOn |-> TRUE, owned |-> {}] ELSE f

NoLocals == [target |-> Nobody, entries |-> {}, mine |-> {}, desired |-> {},
             owned |-> {}, syncOn |-> FALSE]

Init ==
  /\ table = {}
  /\ override \in [User -> SUBSET Entry]
  /\ theirs = override
  /\ json = [syncOn |-> TRUE, owned |-> {}]
  /\ session = Nobody
  /\ mu = Nobody
  /\ pc = [p \in Threads |-> IF p = Main THEN "lock" ELSE "idle"]
  /\ req = [p \in Threads |-> "sync"]
  /\ answer = [p \in Threads |-> "none"]
  /\ cs = NoLocals
  /\ phase = "boot"
  /\ left = [changes |-> MaxChanges, outside |-> MaxOutside,
             faults |-> MaxFaults, logons |-> MaxLogons + 1]

Goto(p, label) == pc' = [pc EXCEPT ![p] = label]
Spend(what) == left[what] > 0 /\ left' = [left EXCEPT ![what] = @ - 1]

registryVars == <<override, theirs>>
threadVars == <<pc, req, answer>>

-----------------------------------------------------------------------------
(* What makes a thread enter the critical section.                         *)

Free(p) == phase = "serving" /\ pc[p] = "idle"

Ask(p, what) ==
  /\ Free(p)
  /\ Goto(p, "lock")
  /\ req' = [req EXCEPT ![p] = what]
  /\ answer' = [answer EXCEPT ![p] = "none"]
  /\ UNCHANGED <<registryVars, json, session, mu, cs, phase>>

\* A mapping is added, renamed or removed; then logSyncProxyBypass.
ChangeMapping(p) ==
  /\ Spend("changes")
  /\ \E d, old \in Domain :
       table' \in {table \cup {d}, (table \ {old}) \cup {d}, table \ {d}} \ {table}
  /\ Ask(p, "sync")

\* The table cannot be saved: POST and PUT answer an error with the change in memory,
\* and nothing is synced (api.go:197-199, 228-231).
ChangeUnsaved(p) ==
  /\ "mappings" \in Faults
  /\ left.faults > 0 /\ left.changes > 0
  /\ left' = [left EXCEPT !.faults = @ - 1, !.changes = @ - 1]
  /\ Free(p)
  /\ \E d, old \in Domain :
       table' \in {table \cup {d}, (table \ {old}) \cup {d}} \ {table}
  /\ answer' = [answer EXCEPT ![p] = "error"]
  /\ UNCHANGED <<registryVars, json, session, mu, pc, req, cs, phase>>

\* POST /api/proxy-bypass.
Toggle(p, what) == Spend("changes") /\ Ask(p, what) /\ UNCHANGED table

\* interactiveUserSID: the user of the desktop, or an error if there is none.
interactiveUser == session

missingBypassEntries ==
  IF interactiveUser = Nobody THEN {}
  ELSE desiredBypassEntries(table) \ override[interactiveUser]

\* GET /api/selfcheck looks at the list without the lock.
SelfCheck(p) ==
  /\ missingBypassEntries # {}
  /\ Spend("changes")
  /\ Ask(p, "sync")
  /\ UNCHANGED table

Tick == Ask(Janitor, "sync") /\ UNCHANGED <<table, left>>

-----------------------------------------------------------------------------
(* The critical section.                                                   *)

\* Mutant of Lock: bypassMu is not taken.
Lock_notTaken(p) ==
  /\ pc[p] = "lock"
  /\ mu' = p
  /\ Goto(p, IF req[p] \in Toggles THEN "flag" ELSE "load")
  /\ UNCHANGED <<table, registryVars, json, session, req, answer, cs, phase, left>>

Lock(p) ==
  /\ pc[p] = "lock"
  /\ mu = Nobody
  /\ mu' = p
  /\ Goto(p, IF req[p] \in Toggles THEN "flag" ELSE "load")
  /\ UNCHANGED <<table, registryVars, json, session, req, answer, cs, phase, left>>

\* The deferred Unlock, and the answer; the main thread goes on to serve.
Return(p, result) ==
  /\ mu' = Nobody
  /\ Goto(p, "idle")
  /\ answer' = [answer EXCEPT ![p] = result]
  /\ cs' = NoLocals
  /\ phase' = IF p = Main THEN "serving" ELSE phase
  /\ UNCHANGED <<table, session, req>>

\* Further steps of the thread that stays in the critical section.
Inside(p, label) ==
  /\ Goto(p, label)
  /\ UNCHANGED <<table, session, mu, req, answer, phase>>

\* Mutant of saveBypassSettings: the record of the entries is not written.
saveBypassSettings_switchOnly(st) ==
  \/ json' = [syncOn |-> st.syncOn] /\ UNCHANGED left
  \/ "save" \in Faults /\ Spend("faults") /\ json' \in {json, Torn}

\* saveBypassSettings: an error is logged and nobody is told.
saveBypassSettings(st) ==
  \/ json' = st /\ UNCHANGED left
  \/ "save" \in Faults /\ Spend("faults") /\ json' \in {json, Torn}

\* setProxyBypassSync: the switch is saved before anything else.
SetFlag(p) ==
  /\ pc[p] = "flag"
  /\ saveBypassSettings(
       [loadBypassSettings(json) EXCEPT !.syncOn = (req[p] = "on")])
  /\ CASE req[p] = "on"       -> Inside(p, "load") /\ UNCHANGED cs
       [] req[p] = "offClean" -> Inside(p, "cleanLoad") /\ UNCHANGED cs
       [] req[p] = "off"      -> Return(p, "ok")
  /\ UNCHANGED registryVars

\* Mutant of Load: the switch is not looked at.
Load_ignoresSwitch(p) ==
  LET st == loadBypassSettings(json) IN
  /\ pc[p] = "load"
  /\ cs' = [cs EXCEPT !.owned = st.owned, !.syncOn = st.syncOn]
  /\ Inside(p, "read")
  /\ UNCHANGED <<registryVars, json, left>>

\* syncProxyBypassLocked begins: nothing to do while the switch is off.
Load(p) ==
  LET st == loadBypassSettings(json) IN
  /\ pc[p] = "load"
  /\ \/ ~st.syncOn /\ Return(p, "ok")
     \/ /\ st.syncOn
        /\ cs' = [cs EXCEPT !.owned = st.owned, !.syncOn = TRUE]
        /\ Inside(p, "read")
  /\ UNCHANGED <<registryVars, json, left>>

\* Mutant of ReadOverride: the thread waits for a session, lock in hand.
ReadOverride_waits(p) ==
  /\ pc[p] = "read"
  /\ session # Nobody
  /\ cs' = [cs EXCEPT !.target = session, !.entries = override[session],
                      !.mine = theirs[session]]
  /\ Inside(p, "list")
  /\ UNCHANGED <<registryVars, json, left>>

\* The registry, or the process that is to get at it, fails: the call is over.
RegistryFails(p) ==
  /\ "registry" \in Faults
  /\ Spend("faults")
  /\ Return(p, "error")

\* proxyOverridePaths and readProxyOverride: an error without a session.
ReadOverride(p) ==
  /\ pc[p] = "read"
  /\ \/ session = Nobody /\ Return(p, "error") /\ UNCHANGED left
     \/ /\ session # Nobody
        /\ cs' = [cs EXCEPT !.target = session, !.entries = override[session],
                            !.mine = theirs[session]]
        /\ Inside(p, "list")
        /\ UNCHANGED left
     \/ RegistryFails(p)
  /\ UNCHANGED <<registryVars, json>>

\* domains() for the set of entries that may stay.
ListDomains(p) ==
  /\ pc[p] = "list"
  /\ cs' = [cs EXCEPT !.desired = desiredBypassEntries(table)]
  /\ Inside(p, "compute")
  /\ UNCHANGED <<registryVars, json, left>>

\* The entries to add, which go on record, and those of the record to remove.
ComputeWith(p, added, recorded) ==
  LET owned   == cs.owned \cup recorded
      dropped == ((cs.entries \cup added) \cap owned) \ cs.desired
  IN
  /\ pc[p] = "compute"
  /\ cs' = [cs EXCEPT !.entries = (@ \cup added) \ dropped, !.owned = owned \ dropped]
  /\ Inside(p, IF added \cup dropped # {} THEN "write" ELSE "save")
  /\ UNCHANGED <<registryVars, json, left>>

\* domains() again, for the entries to add.
Missing == desiredBypassEntries(table) \ cs.entries

\* Mutant of Compute: the added entries are not recorded.
Compute_unrecorded(p) == ComputeWith(p, Missing, {})

\* Mutant of Compute: entries that were there already are recorded, too.
Compute_recordsAll(p) == ComputeWith(p, Missing, desiredBypassEntries(table))

\* Mutant of Compute: what is recorded is taken to be there.
Compute_trustsRecord(p) == ComputeWith(p, Missing \ cs.owned, Missing \ cs.owned)

Compute(p) == ComputeWith(p, Missing, Missing)

\* reg add replaces the whole value by the entries computed from the read.
WriteEntries ==
  /\ override' = [override EXCEPT ![cs.target] = cs.entries]
  /\ theirs' = [theirs EXCEPT ![cs.target] = cs.mine \cap cs.entries]

WriteOverride(p) ==
  /\ pc[p] = "write"
  /\ \/ WriteEntries /\ Inside(p, "broadcast") /\ UNCHANGED <<cs, left>>
     \/ RegistryFails(p) /\ UNCHANGED registryVars
  /\ UNCHANGED json

\* broadcastProxyChange: that it reaches nobody is logged only; nothing here hangs on it.
Broadcast(p) ==
  /\ \/ pc[p] = "broadcast" /\ Inside(p, "save")
     \/ pc[p] = "cleanBroadcast" /\ Inside(p, "cleanSave")
  /\ UNCHANGED <<registryVars, json, cs, left>>

SaveOwned(p) ==
  /\ pc[p] = "save"
  /\ saveBypassSettings([syncOn |-> cs.syncOn, owned |-> cs.owned])
  /\ Return(p, "ok")
  /\ UNCHANGED registryVars

\* cleanupProxyBypassLocked begins.
CleanLoad(p) ==
  LET st == loadBypassSettings(json) IN
  /\ pc[p] = "cleanLoad"
  /\ \/ st.owned = {} /\ Return(p, "ok")
     \/ /\ st.owned # {}
        /\ cs' = [cs EXCEPT !.owned = st.owned, !.syncOn = st.syncOn]
        /\ Inside(p, "cleanRead")
  /\ UNCHANGED <<registryVars, json, left>>

CleanRead(p) ==
  LET found == override[session] \cap cs.owned IN
  /\ pc[p] = "cleanRead"
  /\ \/ session = Nobody /\ Return(p, "error") /\ UNCHANGED left
     \/ /\ session # Nobody
        /\ cs' = [cs EXCEPT !.target = session, !.mine = theirs[session],
                            !.entries = override[session] \ cs.owned]
        /\ Inside(p, IF found # {} THEN "cleanWrite" ELSE "cleanSave")
        /\ UNCHANGED left
     \/ RegistryFails(p)
  /\ UNCHANGED <<registryVars, json>>

CleanWrite(p) ==
  /\ pc[p] = "cleanWrite"
  /\ \/ WriteEntries /\ Inside(p, "cleanBroadcast") /\ UNCHANGED <<cs, left>>
     \/ RegistryFails(p) /\ UNCHANGED registryVars
  /\ UNCHANGED json

\* Mutant of CleanSave: the settings are reset to their defaults.
CleanSave_defaults(p) ==
  /\ pc[p] = "cleanSave"
  /\ saveBypassSettings([syncOn |-> TRUE, owned |-> {}])
  /\ Return(p, "ok")
  /\ UNCHANGED registryVars

CleanSave(p) ==
  /\ pc[p] = "cleanSave"
  /\ saveBypassSettings([syncOn |-> cs.syncOn, owned |-> {}])
  /\ Return(p, "ok")
  /\ UNCHANGED registryVars

Step(p) ==
  \/ Lock(p)
  \/ SetFlag(p)
  \/ Load(p)
  \/ ReadOverride(p)
  \/ ListDomains(p)
  \/ Compute(p)
  \/ WriteOverride(p)
  \/ Broadcast(p)
  \/ SaveOwned(p)
  \/ CleanLoad(p)
  \/ CleanRead(p)
  \/ CleanWrite(p)
  \/ CleanSave(p)

-----------------------------------------------------------------------------
(* The process, the users and the other programs.                          *)

\* The process is ended anywhere; a save it was in leaves a torn file.
Kill ==
  /\ "kill" \in Faults
  /\ Spend("faults")
  /\ phase # "down"
  /\ phase' = "down"
  /\ \/ UNCHANGED json
     \/ /\ \E p \in Threads : pc[p] \in {"flag", "save", "cleanSave"}
        /\ json' = Torn
  /\ mu' = Nobody
  /\ pc' = [p \in Threads |-> "idle"]
  /\ req' = [p \in Threads |-> "sync"]
  /\ answer' = [p \in Threads |-> "none"]
  /\ cs' = NoLocals
  /\ UNCHANGED <<table, registryVars, session>>

Start ==
  /\ phase = "down"
  /\ phase' = "boot"
  /\ Goto(Main, "lock")
  /\ UNCHANGED <<table, registryVars, json, session, mu, req, answer, cs, left>>

LogOn(u) ==
  /\ session = Nobody
  /\ Spend("logons")
  /\ session' = u
  /\ UNCHANGED <<table, registryVars, json, mu, threadVars, cs, phase>>

LogOff ==
  /\ session # Nobody
  /\ left.logons > 0
  /\ session' = Nobody
  /\ UNCHANGED <<table, registryVars, json, mu, threadVars, cs, phase, left>>

\* A write of somebody else; in the middle of a sync only if "during" is given.
Foreign(what, u) ==
  /\ what \in Outside
  /\ "during" \in Outside \/ mu = Nobody
  /\ session = u
  /\ Spend("outside")
  /\ UNCHANGED <<table, json, session, mu, threadVars, cs, phase>>

UserAdds(u, e) ==
  /\ e \notin override[u]
  /\ override' = [override EXCEPT ![u] = @ \cup {e}]
  /\ theirs' = [theirs EXCEPT ![u] = @ \cup {e}]
  /\ Foreign("add", u)

UserRemoves(u, e) ==
  /\ e \in override[u]
  /\ override' = [override EXCEPT ![u] = @ \ {e}]
  /\ theirs' = [theirs EXCEPT ![u] = @ \ {e}]
  /\ Foreign("remove", u)

\* Proxy software replaces the list by one of its own.
ProxyWipes(u) ==
  /\ override[u] # {}
  /\ override' = [override EXCEPT ![u] = {}]
  /\ theirs' = [theirs EXCEPT ![u] = {}]
  /\ Foreign("wipe", u)

Next ==
  \/ \E p \in Handlers : ChangeMapping(p)
  \/ \E p \in Handlers : ChangeUnsaved(p)
  \/ \E p \in Handlers, what \in Toggles : Toggle(p, what)
  \/ \E p \in Handlers : SelfCheck(p)
  \/ Tick
  \/ \E p \in Threads : Step(p)
  \/ Kill
  \/ Start
  \/ \E u \in User : LogOn(u)
  \/ LogOff
  \/ \E u \in User, e \in Entry : UserAdds(u, e)
  \/ \E u \in User, e \in Entry : UserRemoves(u, e)
  \/ \E u \in User : ProxyWipes(u)

Spec == Init /\ [][Next]_vars

\* The scheduler runs every thread that can run, sync.Mutex hands the lock to
\* each waiting goroutine, and the ticker of the janitor never stops.
Fairness ==
  /\ \A p \in Threads : WF_vars(Step(p)) /\ SF_vars(Lock(p))
  /\ WF_vars(Tick)

FairSpec == Spec /\ Fairness

-----------------------------------------------------------------------------
(* Properties.                                                             *)

Labels == {"idle", "lock", "flag", "load", "read", "list", "compute", "write",
           "broadcast", "save", "cleanLoad", "cleanRead", "cleanWrite",
           "cleanBroadcast", "cleanSave"}

\* Every variable is of the right kind.
TypeOK ==
  /\ table \subseteq Domain
  /\ override \in [User -> SUBSET Entry]
  /\ theirs \in [User -> SUBSET Entry]
  /\ json \in Settings \cup {Torn}
  /\ session \in User \cup {Nobody}
  /\ mu \in Threads \cup {Nobody}
  /\ pc \in [Threads -> Labels]
  /\ req \in [Threads -> Toggles \cup {"sync"}]
  /\ answer \in [Threads -> {"none", "ok", "error"}]
  /\ phase \in {"down", "boot", "serving"}

\* The load of bypass.json, the registry and the save are one critical section (lines
\* 25-26, 250-309): the switch that a sync or clean-up is going to write back is the
\* one in the file, so that a toggle is never undone by a sync that began before it.
ToggleNotUndone ==
  \A p \in Threads :
    pc[p] \in {"read", "list", "compute", "write", "broadcast", "save",
              "cleanRead", "cleanWrite", "cleanBroadcast", "cleanSave"}
      => mu = p /\ cs.syncOn = loadBypassSettings(json).syncOn

\* "owned: the entries that LocalMap has written" (line 36): outside a critical
\* section each entry that LocalMap put into the list and that is still there is
\* in the record, so that removing the mapping or switching off can take it back.
NoOrphans ==
  mu = Nobody =>
    \A u \in User : override[u] \ theirs[u] \subseteq loadBypassSettings(json).owned

\* "Present already, but not written by LocalMap: not put on record" (line 278): an
\* entry that the user has put there never gets on the record.
UserEntriesUnclaimed ==
  [][\A u \in User :
       (loadBypassSettings(json').owned \ loadBypassSettings(json).owned)
         \cap theirs[u] = {}]_vars

\* "Only entries of its own are removed; entries of the same name that the user
\* has added by hand stay" (line 24).  A wiped entry that stays on record and is
\* added again by hand breaks it.
UserEntriesKept ==
  [][\A u \in User, p \in Threads :
       mu = p /\ override'[u] # override[u] => theirs[u] \subseteq theirs'[u]]_vars

\* With the switch off no sync writes the list (lines 225, 252): a write that is
\* not the clean-up finds the switch on in the file.
QuietWhenOff ==
  [][\A p \in Threads :
       pc[p] = "write" /\ pc'[p] = "broadcast" => loadBypassSettings(json).syncOn]_vars

\* "A failed synchronisation or clean-up is reported" (line 362): switching off that
\* is answered with success leaves the switch off in the file.
OffAckMeansOff ==
  [][\A p \in Handlers :
       req[p] \in {"off", "offClean"} /\ answer[p] = "none" /\ answer'[p] = "ok"
         => ~loadBypassSettings(json').syncOn]_vars

\* A mapping needs no bypass entry, has one, or cannot have one now.
Covered ==
  session # Nobody /\ loadBypassSettings(json).syncOn =>
    /\ desiredBypassEntries(table) \subseteq override[session]
    /\ override[session] \ theirs[session] \subseteq desiredBypassEntries(table)

\* Once nobody changes anything any more, the janitor has put back whatever was
\* missing and has taken away what LocalMap had left (lines 239-247), whatever
\* failures, wipes and overlapping requests there were, those included whose change
\* was kept in memory and never synced because the table could not be saved.
EventuallyCovered == <>[]Covered

\* No request waits for bypassMu forever: setProxyBypassSync holds it when it
\* syncs or cleans up and must not take it again (lines 249, 319, 363-376).
RequestsEnd == \A p \in Threads : pc[p] # "idle" ~> pc[p] = "idle"

=============================================================================
