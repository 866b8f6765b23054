# TLA+ models of LocalMap

LocalMap maps local domain names to local services.  A Windows engine (Go, `src/engine`)
keeps a table of mappings, routes HTTP requests by their Host header, and keeps four pieces of
the system in line with the table: the hosts file, the bypass list of the system proxy, a local
CA in the trust store, and a scheduled task.  This directory holds TLA+ modules that model the
engine, TLC configurations that check them, and TLAPS proofs about them.

Line numbers refer to the files under `src/engine` unless a path is given.

## 1. The system

| Component | State it keeps | Operations | What makes it correct |
|---|---|---|---|
| Mapping store (`store.go`) | `s.list`; `mappings.json` | `NewStore`, `List`, `Find`, `Upsert`, `Remove`, `Replace`, `saveLocked`, under `s.mu` | no domain twice; what was acknowledged is saved; it behaves as a partial function with a saved copy |
| Hosts file (`hostsfile.go`) | the Windows hosts file, a managed block between two markers | `splitHosts`, `SyncHosts`, `HostsInSync`; no lock | the block lists the table; nothing else in the file changes; rewriting is stable |
| Mapping handlers (`api.go:187-235`) and start-up (`main.go:65-84`) | requests under way | a change of the store, then the hosts file, then the bypass list | the side effects follow the table, whatever overlaps |
| Proxy bypass (`proxybypass_windows.go`) | `ProxyOverride` in the registry hive of the logged-on user; `bypass.json`: a switch and the entries LocalMap has written | sync, clean-up, switch, self check, a janitor every minute; all under `bypassMu` | entries of LocalMap are on record, the user's are left alone, a wiped list is healed, the switch is obeyed |
| Local HTTPS (`cert.go`, `api.go:259-321`, `main.go:86-96, 190-216`) | `ca.crt`, `ca.key`, `certs/`, the trust store, `e.certs`, `e.tlsSrv`, `e.httpsOn` | enable, disable under `httpsMu`; handshakes; restoration at start-up | a listener has certificates, on and off mean what they say, a restart restores, disabling rolls back |
| Start-up and instances (`main.go`, `ui-tauri/src-tauri/src/main.rs`) | ports 80, 20190, 443; the data directory | bind or exit; migration of the legacy directory | one instance serves; a second one leaves no trace |
| Reverse proxy (`proxy.go`) | none of its own; browsers keep its 308 | Host header to target; 308 to https; headers rewritten; failed dials answered | one lookup per request; no circles; what the table says when nothing changes |
| Control API guard (`api.go:74-137, 477-490`) | `token` file | token and Host checks, state report, self check | read-only; no false alarm |
| Scheduled task (`task_windows.go`) | a task of the Windows scheduler | install, uninstall, status, action; deleted by the installer when it is for another program | starts the engine that is installed, on the data that is in use |
| Admin page (`admin.html`) | the row being edited, the last state | polling every 5 s, forms, self check, updater | an edit is not overwritten by a poll; the page comes to show what the engine has |
| Installer, release and developer scripts | files | the installer ends all engines; the rest is run by hand | out of scope but for the kill |

How they interact.  A handler changes the store, then calls `syncHosts`, then
`logSyncProxyBypass`, and answers; nothing covers the three together.  The main thread makes the
same two calls before it serves.  The janitor and the self check only do the last one.  HTTPS
shares the table with the others (`Find` in `GetCertificate`) and, for the redirect, `e.httpsOn` with
the proxy.  Every handler
runs on a goroutine of its own, so any two operations can overlap wherever no mutex forbids it.
All files are written in place by `os.WriteFile`, which truncates first.

What is hard here, and hard to test: overlapping rewrites of the hosts file; kills in the middle
of a file write or between two writes that belong together; external commands (`certutil`, `reg`,
`powershell`) that fail half way through an operation; a registry value that other programs write
at any moment; state that survives in the trust store, on disk or on record longer than what it
describes.  `PROJECT.json` lists these hazards at their lines, with the properties that guard them.

## 2. The modules

| Module | Models | Kind |
|---|---|---|
| `Domains` | spelling, normalisation and validation of domains (`store.go:20, 44-67`) | operators |
| `Store` | the store with its list, loops, file and failing saves | specification |
| `MappingTable` | what the store promises: a partial function with a saved copy | abstract specification |
| `MCStore` | symmetry for TLC | model |
| `HostsFile` | hosts lines, the managed block, overwriting a file at byte offsets | operators |
| `HostsFileCheck` | every short hosts file, rewritten over and over, against a reference | specification |
| `Engine` | handlers, start-up, kills; composes `HostsFile` with `MappingTable` as the store | specification |
| `ProxyBypass` | the bypass list, its record, the threads that sync it, users and proxy software | specification |
| `Https` | CA files, trust store, listener, enable, disable, handshakes, restarts | specification |
| `HttpsSwitch` | what that looks like to a request: on, and listening | abstract specification |
| `Routing` | visits through the proxy and the probe of the self check, over a changing world; composes with `HttpsSwitch` | specification |
| `AdminPage` | the admin page: polls, commands, a row edited in place | specification |
| `Startup` | several engine processes, their starters, two data directories, the task, the ports | specification |
| `StoreProofs`, `HostsFileProofs`, `EngineProofs`, `BypassProofs`, `HttpsProofs`, `RoutingProofs`, `AdminPageProofs`, `StartupProofs` | theorems about `Store`, `HostsFileCheck`, `Engine`, `ProxyBypass`, `Https`, `Routing`, `AdminPage`, `Startup` | TLAPS proofs |

### Domains, Store, MappingTable

A text is a record: the name, whether it is in upper case, and the dots and blanks behind it.
`normalizeDomain` is translated in the order of the code (the dot first, then the blanks), so that
it is *not* idempotent, and `ValidateMapping` normalises its own copy as the code does.
Each method of the store holds `s.mu` from end to end and is one action.  A save succeeds, or
fails with the file unchanged, torn or written; `Remove` drops the error.  `Kill` and `KillInSave`
end the process, `NewStore` starts it and refuses a torn file, as `log.Fatal` at `main.go:67` does.
`reply` is the result of the last method; a kill resets it, because nobody hears it.

`MappingTable` has one action per promise (`Put`, `Delete`, `Rename`, `Refuse`, `Kill`, `Start`).
The refinement mapping in `Store` turns the list into a function by `Find`, the loop of the code;
it is a function of the list only because no domain occurs twice.  `Engine` uses `MappingTable`
in place of `Store`, which the refinement justifies.

### HostsFile, HostsFileCheck, Engine

A hosts file is a sequence of lines: markers, blank lines, entries and texts of the user.
`splitHosts` is a recursive function of the number of turns of its loop (`Found`), each of which is
`SplitStep`.  `Engine` splits `syncHosts` where other threads can come
in between: `ListDomains` (the table), `ReadHosts`, `OpenHosts` (`os.WriteFile` truncates) and
`WriteHosts`.  Two writers write from offset 0, so `Overwrite` keeps what the longer text has
behind the shorter one; for that, lines have byte widths (exact for the markers, examples for
names and texts).  `Receive` is the part that the handlers share.  A request that is refused
(`Refused`) is answered and changes nothing.  A failing save ends a POST or a PUT with the change in
memory and the hosts file as it was, and does not end a DELETE, as in the code.  A write of the hosts
file can fail before it truncates and after it.  The history variable `solo` names the last thread
as long as nobody overlapped it and its rewrite did not fail.

### ProxyBypass

Every mapped domain calls for two entries.  `override` is the list of each user, `theirs` says
which of its entries the user has put there (history), `json` is `bypass.json`.  A thread goes
through the labels of `pc`: `lock`, then for the switch `flag`, then `load`, `read`, `list`,
`compute`, `write`, `broadcast`, `save`, or `cleanLoad` ... `cleanSave`.  The table can change between `list`
and `compute`, because the code calls `domains()` twice (265, 279).  `cs` holds the local variables
of the thread in the critical section.  Users log on and off, add and remove entries, proxy
software wipes the list; these are external.  Entries are whole texts: case folding is left out.
Any call of the registry can fail, with a session as well as without one (`RegistryFails`).  A mapping
whose save failed is in the table, and nothing is synced for it (`ChangeUnsaved`).
An engine that is not SYSTEM writes the hive of its own user (117-118): the same as a session that never
ends.  The broadcast changes no state of the system; when programs take the new list up is Windows'
affair and theirs (`api.go:414` asks for a restart of the browser), so that it is a step without effect.

### Https

A certificate is the number of the CA that signed it; the trust store is a set of CAs, all of the
same common name, so `CATrusted` is "not empty".  Enabling and disabling are step by step
(`certutil`, each file, the listener); the handshake takes `e.certs` at one moment and writes its
leaf at a later one, under no lock that disabling takes.  `Kill` may leave `ca.crt` or `ca.key`
half written; so may a write that fails.  A file that cannot be removed is passed over, as in
`cert.go:183-185`.  `StartHTTPS` and `SwitchOn` are two steps: at `main.go:193-207` the port is taken and
`e.tlsSrv` set, at 214 HTTPS counts as on, and requests take no lock.  `ResetData` replaces the data
directory, `OtherProgram` takes port 443.

`HttpsSwitch` keeps of all that `e.httpsOn` and whether there is a listener, with `Listen`, `SwitchOn`,
`Close`, `SwitchOff` and `Kill`.  Enabling listens first and switches on afterwards, disabling closes the
listener first and switches off last; `Https` implements just that.  So there are two states in between,
"listening and not on" and "on and not listening"; a failing `certutil` leaves the engine in the second.

### Routing

A visit goes through `connect` (over TLS, the handshake with its lookup in `GetCertificate`), `find`
(the lookup in `proxy.go:24`), `route` (the redirect, the 404 or the dial) and `send` (the Director).
Between any two steps mappings, HTTPS (`HttpsSwitch`) and the services may change, any number of
times.  A request reads `e.httpsOn` after the lookup and takes no lock, so that it meets both states in
between of `HttpsSwitch`.  The dial fails before anything is sent, or what follows it breaks off; both end
in the answer of `ErrorHandler` (`BreakOff`).  The browser follows a 308
and keeps it (`cached`).  A visit carries what the properties need of its history: the targets that
its domain has had (`seen`), and whether anything has changed since it began (`calm`).
The self check of HTTPS is in the same module: `on`, `domains()`, `domains()` again for the name,
and a handshake.  `NewProxyHandler` keeps nothing between requests, so one visit stands for all.

### AdminPage

The page runs a single thread; an action is the run of one event handler, or of what follows one
`await`.  Requests for the state and commands are under way in slots, are answered by the engine
at one moment and reach the page at a later one, in any order or never.  `Render` rebuilds all rows
and so replaces the input fields of an edited row, or leaves none if its mapping is gone.
`editing` blocks `refresh()` (line 323), but not the answer to a request that is under way.
A save that is answered ends *the* edit (315-317), also when the user has turned to another row by
then; `saved` in `inputs` notes that (history).  A save that is refused ends none.  The engine may
answer an error and have the mapping nevertheless, when only the saving of its file failed.
`Elsewhere` is another page or a restart.  The commands on the task and on the bypass switch are
left out: they ask, and refresh when that succeeds, as `Delete` does.
The button that repairs the trust in the CA enables HTTPS once more, whatever the state is by then.

### Startup

Processes share two data directories, the hosts file and three ports; each has its own table and its own
`on` (`e.httpsOn`).  `pc` goes through `main()`: `migrate`, `copy`, then `option` for `-install` and
`-uninstall`, or `load`, `rewrite`, `https`, `proxy`, `api`, `serving`.  What `log.Fatal` ends goes through
`ending`, where it still has its ports: a `mappings.json` that does not parse (`Torn`), a `token` that
cannot be written (a `Fault` of `Load`), a port of the proxy or of the API that is taken.  Whatever else
fails is logged and passed over: the migration, the hosts file, port 443 and a CA that cannot be loaded
(`"bad"`).  The scheduled task passes the `-data` that `TaskInstall` has put into it, and so skips the
migration; the task of an earlier version passes the legacy directory (`OldTasks`).  The shell looks at
the API port first and starts an engine afterwards.  The installer ends all engines and may delete the
task.  Changes of the table and of HTTPS are single steps here, because `Store`, `Engine` and `Https` take
them apart; but each may fail on the way and leaves then what such a failure leaves: a mapping in memory
only, a torn file, a hosts file as it was or cut, a CA complete, half written or not removed, a listener
closed while HTTPS counts as on.  A kill in the middle of a write is such a failure with a kill after it.
The history variable `calm` names a process that has met no other one and to which nothing has failed;
what has failed in the processes before it counts for nothing.  `acked` is the table after the last change.
The bypass list, rewritten at `main.go:83` with the same timing as the hosts file, is left to
`ProxyBypass`.

## 3. What TLC checks

| Run | Constants | Shows |
|---|---|---|
| `store` | 2 names, 1 bad name, 2 targets, 1 bad target, one character behind a name, all faults | `TypeOK`, `UniqueDomains`, `AckedChangeSaved`; `Store` implements `MappingTable` |
| `hosts_file` | 2 domains, 2 user texts, every file of up to 4 lines | the loop agrees with the reference; a rewrite keeps all lines outside a block, read off the markers, unless a begin marker has no end marker; it is in sync and stable |
| `engine` | 2 handlers and the main thread, 2 domains, 4 changes, all faults (save, hosts file, kill) | `HostsFollowTable`: a change that runs alone leaves the block right whatever was before; `SoloRewriteKeepsLines` |
| `bypass_crash` | 1 handler, janitor, main; 3 requests, 2 outside writes, 2 faults (registry, either file, kill), 1 further log-on | `ToggleNotUndone`, `QuietWhenOff`, `UserEntriesUnclaimed` |
| `bypass_live` | 2 handlers, janitor, main; 2 requests, a wipe at any moment, 1 failure of the registry or of the save of the table, fairness | `NoOrphans`, `OffAckMeansOff`, `EventuallyCovered`, `RequestsEnd` |
| `https` | 2 handlers, 1 connection, 3 requests, 2 faults of any kind (`certutil`, files, port, kill, new data), fairness | `OffMeansNotServing`, `ServingHasCerts`, `OnIsRestartable`, `RequestsEnd`; `Https` implements `HttpsSwitch` |
| `startup` | 2 processes, 2 starts by any starter or with an option, 1 kill or installation, 1 failure, 1 change, port 443 free or taken, any legacy directory (its CA or its `mappings.json` torn, too), the old task, fairness | `LoneServerInStep`, `SomeoneServes` |
| `routing` | 1 visit at a time, 2 domains, 2 targets, another origin, changes without bound, fairness | `ForwardedAsOne`, `CalmVisitServed`, `EveryVisitEnds`, `SelfCheckRight` |
| `admin_page` | 2 domains, 2 requests and 1 command at once, 4 acts, polls without bound, fairness | `EditOutlivesPolls`, `PageCatchesUp` |

Bounds.  Two names or domains are what a rename, a collision and a stale list need; nothing in the
code counts further than "another one".  Requests, outside writes and faults are bounded by the
number that the longest interesting story takes (enable, disable, enable with two faults; map,
unmap, map again with a wipe between).  One domain is enough for the bypass list, since its entries
never interact; two handlers with the janitor give every pair of overlapping operations.
Four lines hold every order of two markers around an entry and a text.
Two processes give every meeting of two instances, or one that comes back after a kill, with what a
failure in the first has left; a process started a third time is beyond this run, not beyond the proof.
The list of `Store` cannot grow beyond the names, and needs no bound.  `MaxTail = 1` gives the
dot, the blank and none.
`Routing` needs no bound at all: its state is finite, and a visit meets changes as long as it lasts.
Four acts (edits, commands, changes from elsewhere, lost answers) let the page meet a stale answer
after a failed command in the middle of an edit, and one more; typing, cancelling and polls are free.

Deadlock checking is off where the system may stop: requests are bounded, and a store that refuses
its file stays down.  It is on where something always goes on: `ProxyBypass` with its janitor,
`HostsFileCheck`, `Routing`, and `AdminPage` with its interval.

Fairness (`FairSpec`).  Weak fairness of each thread's steps: the Go
scheduler is preemptive and none of these steps waits for anything but the mutex.  Strong fairness
of `Lock`: `sync.Mutex` goes to starvation mode after a millisecond and hands the lock to the first
waiter.  Weak fairness of `Tick`: the ticker of the janitor.  In `Routing`, weak fairness of the steps
of a visit: its goroutine runs, and the dial and what follows it succeed or fail (a target that accepts
and never answers holds its visit for ever; that is not modelled).  In `AdminPage`,
of `Poll` (the interval), of the engine's answers and of their arrival, unless one is lost.  Nothing is assumed of requests,
users, other programs or faults; those are bounded, so that they end.  External commands are taken
to return: a `powershell` that hangs would hold the mutex, which the code has no timeout for.

### Where the code does not keep what it says

These runs are expected to find a violation; `PROJECT.json` quotes the statement and the cause.

| Run | Property | Story |
|---|---|---|
| `engine_overlap_user` | `UserLinesKept` | a handler reads the hosts file that another has just truncated, and writes it without the user's lines |
| `https_reset` | `EnableTrustsCA` | an older CA of the same name is trusted, so the new one is not installed |
| `startup_data` | `LastChangeServed` | the task of an earlier version starts the next engine on the legacy directory, without the mappings made since |

Further limits, stated as properties of the modules but without a run of their own; a
configuration with the constants given shows each:

- `Store!StoredIsServed` (`MaxTail = 2`): "a. " is accepted and stored as "a.", which no request reaches.
- `Store!AckedRemovalSaved` (`Faults = {"disk"}`): a removal whose save failed is answered with success.
- `Store!RestartReadsFile` (`{"kill"}`): a kill inside the save leaves a file that no start accepts.
- `Engine!UserLinesKept` with one handler and `{"kill"}`: a kill after the truncation loses the user's lines.
- `ProxyBypass!UserEntriesKept` (`Outside = {"add", "wipe"}`): a wiped entry stays on record, the user adds
  it by hand, LocalMap removes it.
- `ProxyBypass!NoOrphans` with `{"kill"}`: a kill between the registry write and the save of the record.
- `ProxyBypass!NoOrphans` with two users and no fault: one record for the lists of both.
- `ProxyBypass!OffAckMeansOff` with `{"save"}`: a failing save is logged, and the answer is ok.
- `Https!DisableMeansUntrusted` with `{"port"}`: enabling fails after the CA was installed, and disabling does nothing.
- `Https!RollbackComplete` with a connection: a handshake writes its leaf after the rollback.
- `Https!EnableMeansServing` with `{"certutil"}`: a disabling that fails after it has closed the listener
  leaves HTTPS on; enabling answers "already" and opens no listener.
- `Https!ServedLeafsOfCA` with a connection and `{"kill"}`, or with a connection alone: a leaf survives
  its CA in `certs/` (killed between `cert.go:183` and `185`, or written by a handshake after it) and is
  served under the next CA.
- `Routing!RollbackRestoresHttp`: a browser keeps the 308, so that http addresses lead to https, where
  nobody listens, also after HTTPS is switched off (`README.md:64` of the repository says that they work).
- `AdminPage!TypedTextKept`: an answer that was asked for before the edit wipes what is typed.  So does
  any answer after a save: the save of one row, answered while the user edits another one, ends that edit
  (`admin.html:315-317`), and its fields go with the next answer, contrary to the comment at 323.
- `AdminPage!EditCanEnd`: the row that is edited vanishes, its buttons with it, and the page does not
  refresh until another row is edited or the page is loaded again.
- `Startup!ServerUndisturbed`: a second instance takes a new mapping out of the hosts file, finds the
  port taken and ends.
- `Startup!LastChangeServed` with two processes started by hand and no task: both migrate, and the slower
  robocopy overwrites a mapping made with the faster one.
- `Https!RestartResumes` with `{"kill"}`: a CA half written is refused at every start.

Other places where the code and what is said of it differ, or where nothing makes good what has failed.
The modules have these behaviours, and the properties say so where they would not hold otherwise:

- A begin marker whose end marker is missing: a rewrite takes everything behind it for its block and
  deletes it, the user's lines too (`hostsfile.go`; `docs/index.html:158, 187` say that only the block
  changes).  `Closed` in `HostsFileCheck` is the premise that excludes it.
- `CHANGELOG.md:6` and `ui-tauri/src-tauri/installer-hooks.nsh:11` say that the engine ends when 80, 443 or
  20190 cannot be bound.  For 443 that is not so: `main.go:92-94` logs it and goes on.  `SomeoneServes`
  is about what the code does.
- A torn `mappings.json`, and a `token` that is missing and cannot be written, end every start
  (`main.go:64-72`), by whomever; nobody serves until someone repairs the file.
- Enabling that fails after the CA was written (`api.go:282-287`) leaves the CA, and the next start serves
  HTTPS, which nobody has acknowledged.  A CA half written is refused by every enabling and every start.
- A handshake that was accepted before the listener closed may look for the store after disabling has set
  it to nil (`main.go:203`); `ServingHasCerts` is about the time while the port is listened on.
- A POST or PUT whose save fails is answered with an error while the mapping is in memory and served,
  without hosts file and bypass list, till the next change or start.
- Two rewrites of the hosts file that overlap can leave the older list behind.  It stays until the next
  rewrite that runs alone; that this one repairs it is `HostsFollowTable`.
- A self check that overlaps a removal may raise a false alarm; `SelfCheckRight` is about calm ones.
- A migration that is killed or fails after the first file finds data in the new directory at the next
  start and does not go on; the rest stays in the legacy directory.
- A failing `broadcastProxyChange` is only logged, and the next sync finds the list right and tells nobody.

## 4. What is proved

Every safety property of the passing runs, invariant or action property, is also a theorem, and so are
the two refinements.  A theorem holds for all values of the constants that meet the
named assumptions of the modules: any number of handlers, domains, users, processes, tabs, requests
and faults, and files of any length.  Each proof module states its inductive invariant `IInv` (in
`HostsFileProofs`, `Typed`), which TLC has confirmed on the configurations of section 3, then has one lemma
for each action or group of actions, and the theorems at its end.

| Module | Theorems: run property | Why the properties are not inductive alone |
|---|---|---|
| `StoreProofs` | `TypeCorrect`: `TypeOK`; `DomainsStayUnique`: `UniqueDomains`; `AcksAreDurable`: `AckedChangeSaved`; `StoreIsMappingTable`: `IsMappingTable` | the list is unique only if the file is, because a start reads it; an old answer must not meet a restarted process |
| `HostsFileProofs` | `SplitRight`: `SplitMeetsReference`; `RewritesAreStable`: `RewriteIsStable`; `UserLinesStay`: `RewriteKeepsUserLines` | the loop needs an induction over its turns (below); what is kept has no marker and no blank line at its end |
| `EngineProofs` | `TypeCorrect`: `TypeOK`; `LoneRequestsAreInSync`: `HostsFollowTable`; `LoneRewritesKeepLines`: `SoloRewriteKeepsLines` | next to the thread named by `solo` none is at work, so that its list is the table and the file is empty before its write |
| `BypassProofs` | `TypeCorrect`: `TypeOK`; `TogglesStay`: `ToggleNotUndone`; `OffIsQuiet`: `QuietWhenOff`; `ClaimsNothingOfTheUser`: `UserEntriesUnclaimed`; `OwnEntriesOnRecord`: `NoOrphans`; `OffAckIsOff`: `OffAckMeansOff` | the thread past `lock` holds `bypassMu`, its label fits its request, and its copy of the record is the record until it saves |
| `HttpsProofs` | `TypeCorrect`: `TypeOK`; `NeverServedWhileOff`: `OffMeansNotServing`; `ListenerHasStore`: `ServingHasCerts`; `FilesBringItBack`: `OnIsRestartable`; `ImplementsSwitch`: `IsHttpsSwitch` | the main thread enables without `httpsMu`, which is safe only because no handler runs before it is done; where a thread is fixes `httpsOn`, and the store that it holds is that of the files |
| `RoutingProofs` | `TypeCorrect`: `TypeOK`; `RequestsReachOneTarget`: `ForwardedAsOne`; `CalmVisitsServed`: `CalmVisitServed`; `CalmSelfChecksRight`: `SelfCheckRight` | the target found is among those that the domain has had; without a change, what each earlier step found still is so |
| `AdminPageProofs` | `TypeCorrect`: `TypeOK`; `FieldsOutlivePolls`: `EditOutlivesPolls` | input fields belong to the row that is edited until a save is answered, and while a row is edited all requests under way are from before |
| `StartupProofs` | `TypeCorrect`: `TypeOK`; `LoneServersComeBack`: `LoneServerInStep` | the calm process is the only one alive, ports belong to living processes, and each step of the start keeps what the ones before it reached, whatever failed in earlier processes |

Refinement.  `StoreIsMappingTable` maps the list of `Store` to a function with `TableOf`; that appending,
overwriting and removing become `With` and `Without` needs uniqueness before and after the step.  For
`ImplementsSwitch` the mapping is the identity on `httpsOn` and "there is a listener"; each step is one of
`HttpsSwitch` or a stutter; where `Https` listens, switches on or switches off, `Exclusive` and `InStep` give
the guard that the code has not at that place.

Induction over data.  The library's induction schemas take a predicate as a parameter, which
the provers cannot instantiate.  `HostsFileProofs` states induction for a *set* of numbers instead
(`Induction`), and proves it from the well-foundedness of strict inclusion between finite sets.  From it
follow the value of the recursive function `Found` after each turn, that there is one place where the
trailing blank lines begin, what a run of entries yields, and that the loop agrees with the reference
(`FoundMeetsReference`).  `EngineProofs` reaches these lemmas through an instance and shows
first that the operators of both are equal (`SameSplit` and the following).  Of overlapping writes
`EngineProofs` uses no more than that `Overwrite` yields lines, and that nothing stays behind a write
into an empty file; no byte width enters.

Assumptions.  Most constants are only required to tell a special value from the ordinary ones:
`NoneAssumption`, `AbsentAssumption`, `StoreAssumption`, `TornAssumption`, `FileAssumption`,
`ThreadAssumption`, `NamesAssumption`.  `BoundAssumption` and its like say that bounds are numbers,
`UserTextAssumption` that a hosts file is finite, `OldTasksAssumption` which directories a task left by
an earlier version can pass.  TLC evaluates all of them in the runs.
Some properties have their condition within: `RewriteKeepsUserLines` closed blocks, `HostsFollowTable`
and `SoloRewriteKeepsLines` a request that nothing overlaps, `LoneServerInStep` a calm process,
`EditOutlivesPolls` that no save has been answered since the fields were drawn, `CalmVisitServed` and
`SelfCheckRight` that nothing changes meanwhile.
Three theorems about `ProxyBypass` have hypotheses of their own, and section 3 lists what happens without them:
- `ClaimsNothingOfTheUser`: one user (`OneUser`; the record does not name whose list it is about), who
  does not write between the read and the write of a sync (`"during" \notin Outside`; the registry
  offers no way to find out).  Kills and all faults are allowed.
- `OwnEntriesOnRecord`: one user, no kill and no failing save between the two writes that belong together.
  Everything that others write, and when, is allowed.
- `OffAckIsOff`: no failing save, whose error the handler only logs.  Kills are allowed.

Only model-checked: the liveness properties `EventuallyCovered`, both `RequestsEnd`,
`SomeoneServes`, `EveryVisitEnds` and `PageCatchesUp` (liveness under fairness is beyond the provers,
as is `ENABLED`), and the violations of section 3.

What the proofs brought to light about the models: the cases of `SplitStep` overlapped, so
that the order of a `CASE` decided where the code has a `switch`; `Refuse` of `MappingTable` counted
the elements of a table that nothing said was finite; `HostsFileCheck` allowed infinite tables.
All three are corrected.

## 5. Not modelled

- A target that never answers; streaming, WebSockets and time limits of `httputil.ReverseProxy` and `net/http`: library code.
- The checks of the token and of the Host header: each looks at one request and at nothing that changes.
- The self check's looks at the owner of port 80, at the trust store, the hosts file and the task, and
  the state report but for what `AdminPage` renders: reads, with nothing done about what they find.
- `TaskStatus` and `TaskAction`: reads of the scheduler.  `TaskRunNow` has no caller.
- Expiry of certificates, ten and two years away; the tearing of a leaf, which is made anew.
- The shutdown by signal, which ends in the same state as a kill.
- The window, the updater, the release and developer scripts: no state shared with the engine.

## 6. Plan

1. (done) `Domains`, `Store`, `MappingTable` with proofs; `HostsFile`, `Engine`; `ProxyBypass`; `Https`.
2. (done) `Startup`: several instances, the ports, the directories and the task.
3. (done) `HttpsSwitch`, `Routing`: requests over a changing world; `AdminPage`: polling against editing.
4. (done) Proofs of all safety properties and of both refinements.
5. Next: what `normalizeDomain` keeps and changes, as lemmas; `UserLinesKept` of `Engine` under the
   hypothesis that nothing overlaps and nothing is killed; what `Startup` promises of two instances; the
   lost removal, the overlapping self check and the handshake without a store as bounded stale states.
