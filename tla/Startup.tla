------------------------------ MODULE Startup ------------------------------
(***************************************************************************)
(* Engine processes that start, meet and end (src/engine/main.go, the      *)
(* desktop shell, the installer, the scheduled task).  They share the      *)
(* hosts file, three ports and, unless the task names another, a data      *)
(* directory.  The port of the proxy is their only lock, and it is taken   *)
(* late: before, a process has migrated the legacy data, loaded its table, *)
(* rewritten the hosts file and taken port 443.                            *)
(*                                                                         *)
(* A change of the table with its save and its rewrite of the hosts file   *)
(* is one step here, and so is a change of HTTPS; Store, Engine and Https  *)
(* take them apart.  Each of them may fail on the way; a process that is   *)
(* killed in the middle of a write is one whose write fails and that is    *)
(* killed then.                                                            *)
(***************************************************************************)
EXTENDS Integers

CONSTANTS
  Instance,     \* engine processes
  Domain,       \* domains that can be mapped
  Nobody,       \* no process
  Other,        \* a program that is not LocalMap
  Absent,       \* there is no such file
  Torn,         \* a mappings.json that cannot be read or parsed
  Starters,     \* who starts processes: a subset of {"task", "shell", "hand",
                \* "install", "uninstall"}, the last two for the options
  OldTasks,     \* tasks of earlier versions: a subset of Dirs \cup {Absent}
  MaxStarts,    \* bound: processes started
  MaxKills,     \* bound: kills
  MaxFaults,    \* bound: writes of files and calls of certutil that fail
  MaxChanges    \* bound: changes of the table and of HTTPS

ASSUME NamesAssumption == {Nobody, Other} \cap Instance = {} /\ Nobody # Other
ASSUME AbsentAssumption == \A D \in SUBSET Domain : D # Absent /\ D # Torn
ASSUME OldTasksAssumption == OldTasks \subseteq {"default", "legacy", Absent}

VARIABLES
  data,         \* per directory: mappings.json, Absent, Torn or its domains, and the CA
  task,         \* the directory that the scheduled task passes as -data, or Absent
  hosts,        \* the domains in the managed block
  port,         \* who listens on each port
  pc, by, dir,  \* per process: what it does next, who started it, its directory,
  todo, table, on,  \* the files it still copies, its table, httpsOn
  shell,        \* the desktop shell: "idle", or "spawn" when it found no engine
  acked,        \* history: the table after the last change, or Absent
  calm,         \* history: the process that has met no other one and to which nothing
                \* has failed, or Nobody
  starts, kills, changes, faults  \* history: how many there have been

locals == <<by, dir, todo, table, on>>
counts == <<starts, kills, changes, faults>>
vars == <<data, task, hosts, port, pc, locals, shell, acked, calm, counts>>

\* %ProgramData%\LocalMap, and the directory data\ of earlier versions.
Dirs == {"default", "legacy"}
Saved(d) == IF data[d].mappings = Absent THEN {} ELSE data[d].mappings

\* A CA that LoadOrCreateCA loads or, without its key, replaces, and one with a file
\* that it cannot parse.
CAs == {"none", "good", "bad"}
CA(i) == data[dir[i]].ca

Ports == {"https", "proxy", "api"}
Files == {"mappings", "ca"}

\* Where a process can be: not there, in main(), in an option, or serving.
Labels == {"none", "migrate", "copy", "option", "load", "rewrite", "https", "proxy", "api",
           "serving", "ending"}

Init ==
  /\ \E m \in {Absent, Torn, Domain}, c \in CAs :
       data = [d \in Dirs |-> IF d = "legacy" THEN [mappings |-> m, ca |-> c]
                              ELSE [mappings |-> Absent, ca |-> "none"]]
  /\ task \in OldTasks
  /\ hosts = {}
  /\ port \in {[p \in Ports |-> IF p = "https" THEN o ELSE Nobody] : o \in {Nobody, Other}}
  /\ pc = [i \in Instance |-> "none"]
  /\ by = [i \in Instance |-> Nobody]
  /\ dir = [i \in Instance |-> "default"]
  /\ todo = [i \in Instance |-> {}]
  /\ table = [i \in Instance |-> {}]
  /\ on = [i \in Instance |-> FALSE]
  /\ shell = "idle"
  /\ acked = Absent
  /\ calm = Nobody
  /\ starts = 0 /\ kills = 0 /\ changes = 0 /\ faults = 0

Alive(i) == pc[i] # "none"
Goto(i, label) == pc' = [pc EXCEPT ![i] = label]

\* Something fails in a process, or nothing.
Fault(i) ==
  /\ faults < MaxFaults
  /\ faults' = faults + 1
  /\ calm' = IF calm = i THEN Nobody ELSE calm

NoFault == UNCHANGED <<calm, faults>>

\* The hosts file is written, or the write fails before or after the file is cut.
WriteHosts(i, domains) ==
  \/ hosts' = domains /\ NoFault
  \/ hosts' \in {hosts, {}} /\ Fault(i)

-----------------------------------------------------------------------------
(* What starts an engine.                                                  *)

\* The shell starts an engine if it cannot connect to the API.
ShellLooks ==
  /\ "shell" \in Starters
  /\ shell = "idle"
  /\ port["api"] = Nobody
  /\ starts < MaxStarts
  /\ shell' = "spawn"
  /\ UNCHANGED <<data, task, hosts, port, pc, locals, acked, calm, counts>>

\* Only the scheduled task gives a data directory; an engine cannot tell the shell
\* from a hand.
Begin(i, who) ==
  /\ ~Alive(i)
  /\ starts < MaxStarts
  /\ starts' = starts + 1
  /\ who = "shell" => shell = "spawn"
  /\ who = "task" => task # Absent
  /\ shell' = IF who = "shell" THEN "idle" ELSE shell
  /\ by' = [by EXCEPT ![i] = IF who = "shell" THEN "hand" ELSE who]
  /\ dir' = [dir EXCEPT ![i] = IF who = "task" THEN task ELSE "default"]
  /\ Goto(i, "migrate")
  /\ calm' = IF \E j \in Instance : Alive(j) THEN Nobody ELSE i
  /\ UNCHANGED <<data, task, hosts, port, todo, table, on, acked, kills, changes, faults>>

-----------------------------------------------------------------------------
(* main(), step by step.                                                   *)

\* The options -install and -uninstall come after the migration.
AfterMigration(i) == IF by[i] \in {"install", "uninstall"} THEN "option" ELSE "load"

\* migrateLegacyData looks for data in both directories, without -data only.
Migrate(i) ==
  LET has(d) == (IF data[d].mappings # Absent THEN {"mappings"} ELSE {})
                  \cup (IF data[d].ca # "none" THEN {"ca"} ELSE {})
      needed == by[i] # "task" /\ has("default") = {} /\ has("legacy") # {}
  IN
  /\ pc[i] = "migrate"
  /\ todo' = [todo EXCEPT ![i] = IF needed THEN has("legacy") ELSE {}]
  /\ Goto(i, IF needed THEN "copy" ELSE AfterMigration(i))
  /\ UNCHANGED <<data, task, hosts, port, by, dir, table, on, shell, acked, calm, counts>>

\* robocopy copies file by file, over what is there by now.
Copy(i, f) ==
  /\ pc[i] = "copy"
  /\ f \in todo[i]
  /\ todo' = [todo EXCEPT ![i] = @ \ {f}]
  /\ data' = IF f = "ca" THEN [data EXCEPT !["default"].ca = data["legacy"].ca]
             ELSE [data EXCEPT !["default"].mappings = data["legacy"].mappings]
  /\ Goto(i, IF todo'[i] = {} THEN AfterMigration(i) ELSE "copy")
  /\ UNCHANGED <<task, hosts, port, by, dir, table, on, shell, acked, calm, counts>>

\* Mutant of CopyFails: what was not copied stays to be copied.
CopyFails_keepsRest(i) ==
  /\ pc[i] = "copy"
  /\ Goto(i, AfterMigration(i))
  /\ UNCHANGED <<data, task, hosts, port, locals, shell, acked, calm, counts>>

\* A robocopy that fails is logged, and the start goes on.
CopyFails(i) ==
  /\ pc[i] = "copy"
  /\ todo' = [todo EXCEPT ![i] = {}]
  /\ Goto(i, AfterMigration(i))
  /\ UNCHANGED <<data, task, hosts, port, by, dir, table, on, shell, acked, calm, counts>>

\* The process ends: its ports are free.
Exit(i) ==
  /\ port' = [p \in Ports |-> IF port[p] = i THEN Nobody ELSE port[p]]
  /\ Goto(i, "none")
  /\ by' = [by EXCEPT ![i] = Nobody]
  /\ dir' = [dir EXCEPT ![i] = "default"]
  /\ table' = [table EXCEPT ![i] = {}]
  /\ todo' = [todo EXCEPT ![i] = {}]
  /\ on' = [on EXCEPT ![i] = FALSE]

\* TaskInstall or TaskUninstall, which may fail, and the end.
Option(i) ==
  /\ pc[i] = "option"
  /\ task' \in {task, IF by[i] = "install" THEN dir[i] ELSE Absent}
  /\ Exit(i)
  /\ UNCHANGED <<data, hosts, shell, acked, calm, counts>>

\* NewStore, which ends the process if the file cannot be read or parsed, and
\* loadOrCreateToken, which ends it if there is no token and none can be written.
Load(i) ==
  /\ pc[i] = "load"
  /\ \/ /\ data[dir[i]].mappings # Torn
        /\ table' = [table EXCEPT ![i] = Saved(dir[i])]
        /\ Goto(i, "rewrite")
        /\ NoFault
     \/ data[dir[i]].mappings = Torn /\ Goto(i, "ending") /\ UNCHANGED table /\ NoFault
     \/ Fault(i) /\ Goto(i, "ending") /\ UNCHANGED table
  /\ UNCHANGED <<data, task, hosts, port, by, dir, todo, on, shell, acked, starts, kills,
                 changes>>

\* Mutant of Rewrite: nothing is written for an empty table.
Rewrite_unlessEmpty(i) ==
  /\ pc[i] = "rewrite"
  /\ WriteHosts(i, IF table[i] = {} THEN hosts ELSE table[i])
  /\ Goto(i, "https")
  /\ UNCHANGED <<data, task, port, locals, shell, acked, starts, kills, changes>>

\* syncHosts, before any port is taken; a write that fails is logged.
Rewrite(i) ==
  /\ pc[i] = "rewrite"
  /\ WriteHosts(i, table[i])
  /\ Goto(i, "https")
  /\ UNCHANGED <<data, task, port, locals, shell, acked, starts, kills, changes>>

Listen(i, p) == port' = [port EXCEPT ![p] = i]

\* Port 443 is taken if it is free, and HTTPS is on then.
TakeHttps(i) ==
  IF port["https"] = Nobody THEN Listen(i, "https") /\ on' = [on EXCEPT ![i] = TRUE]
  ELSE UNCHANGED <<port, on>>

\* Mutant of RestoreHttps: a CA that cannot be loaded ends the process.
RestoreHttps_fatal(i) ==
  /\ pc[i] = "https"
  /\ IF CA(i) = "good" THEN TakeHttps(i) ELSE UNCHANGED <<port, on>>
  /\ Goto(i, IF CA(i) = "bad" THEN "ending" ELSE "proxy")
  /\ UNCHANGED <<data, task, hosts, by, dir, todo, table, shell, acked, calm, counts>>

\* With a ca.crt the CA is loaded and port 443 taken.  A CA that cannot be loaded and a
\* port that cannot be had are logged, and the start goes on.
RestoreHttps(i) ==
  /\ pc[i] = "https"
  /\ IF CA(i) = "good" THEN TakeHttps(i) ELSE UNCHANGED <<port, on>>
  /\ Goto(i, "proxy")
  /\ UNCHANGED <<data, task, hosts, by, dir, todo, table, shell, acked, calm, counts>>

\* A port that is taken ends the process, with the ports that it has, a moment later.
Bind(i, p, next) ==
  /\ pc[i] = p
  /\ \/ port[p] = Nobody /\ Listen(i, p) /\ Goto(i, next)
     \/ port[p] # Nobody /\ UNCHANGED port /\ Goto(i, "ending")
  /\ UNCHANGED <<data, task, hosts, locals, shell, acked, calm, counts>>

BindProxy(i) == Bind(i, "proxy", "api")
BindApi(i) == Bind(i, "api", "serving")

\* log.Fatal.
End(i) ==
  /\ pc[i] = "ending"
  /\ Exit(i)
  /\ UNCHANGED <<data, task, hosts, shell, acked, calm, counts>>

Step(i) ==
  \/ Migrate(i)
  \/ \E f \in Files : Copy(i, f)
  \/ CopyFails(i)
  \/ Option(i)
  \/ Load(i)
  \/ Rewrite(i)
  \/ RestoreHttps(i)
  \/ BindProxy(i)
  \/ BindApi(i)
  \/ End(i)

-----------------------------------------------------------------------------
(* A serving engine, and its end.                                          *)

Serving(i) == pc[i] = "serving"
Spend == changes < MaxChanges /\ changes' = changes + 1

\* A mapping is added or removed, saved and written to the hosts file.  A save that
\* fails leaves the file as it was or cut; an addition is answered with the error then
\* and the hosts file left, a removal goes on as if nothing had failed.
ChangeMapping(i, d) ==
  LET removed == d \in table[i]
      new == IF removed THEN table[i] \ {d} ELSE table[i] \cup {d}
  IN
  /\ Serving(i)
  /\ Spend
  /\ table' = [table EXCEPT ![i] = new]
  /\ \/ /\ data' = [data EXCEPT ![dir[i]].mappings = new]
        /\ WriteHosts(i, new)
        /\ acked' = new
     \/ /\ Fault(i)
        /\ data' \in {data, [data EXCEPT ![dir[i]].mappings = Torn]}
        /\ hosts' = IF removed THEN new ELSE hosts
        /\ acked' = IF removed THEN new ELSE Absent
  /\ UNCHANGED <<task, port, pc, by, dir, todo, on, shell, starts, kills>>

\* The CA is made, trusted, and port 443 tried; what fails on the way leaves what was
\* written before.
EnableHttps(i) ==
  /\ Serving(i)
  /\ Spend
  /\ ~on[i] /\ CA(i) # "bad"
  /\ \/ /\ data' = [data EXCEPT ![dir[i]].ca = "good"]
        /\ TakeHttps(i)
        /\ NoFault
     \/ /\ Fault(i)
        /\ \E c \in {CA(i), "bad", "good"} :
             /\ CA(i) = "good" => c = "good"
             /\ data' = [data EXCEPT ![dir[i]].ca = c]
        /\ UNCHANGED <<port, on>>
  /\ UNCHANGED <<task, hosts, pc, by, dir, todo, table, shell, acked, starts, kills>>

\* The listener is closed, the CA deleted from the trust store and its files removed.
\* If certutil fails, HTTPS still counts as on; a file that is not removed is passed
\* over.
DisableHttps(i) ==
  /\ Serving(i)
  /\ Spend
  /\ on[i]
  /\ port' = [port EXCEPT !["https"] = IF @ = i THEN Nobody ELSE @]
  /\ \/ /\ data' = [data EXCEPT ![dir[i]].ca = "none"]
        /\ on' = [on EXCEPT ![i] = FALSE]
        /\ NoFault
     \/ UNCHANGED data /\ on' \in {on, [on EXCEPT ![i] = FALSE]} /\ Fault(i)
  /\ UNCHANGED <<task, hosts, pc, by, dir, todo, table, shell, acked, starts, kills>>

\* POST /api/task/install and /uninstall.
TaskInstall(i) == Serving(i) /\ Spend /\ task' = dir[i]
TaskUninstall(i) == Serving(i) /\ Spend /\ task' = Absent

ChangeTask(i) ==
  /\ TaskInstall(i) \/ TaskUninstall(i)
  /\ UNCHANGED <<data, hosts, port, pc, locals, shell, acked, calm, starts, kills, faults>>

\* A process is ended at any point.
Kill(i) ==
  /\ Alive(i)
  /\ kills < MaxKills
  /\ kills' = kills + 1
  /\ Exit(i)
  /\ UNCHANGED <<data, task, hosts, shell, acked, calm, starts, changes, faults>>

\* The installer ends all engines, and deletes the task unless it is for the same
\* program; what directory the task passes is not looked at.
Installer ==
  /\ kills < MaxKills
  /\ kills' = kills + 1
  /\ port' = [p \in Ports |-> IF port[p] \in Instance THEN Nobody ELSE port[p]]
  /\ pc' = [i \in Instance |-> "none"]
  /\ by' = [i \in Instance |-> Nobody]
  /\ dir' = [i \in Instance |-> "default"]
  /\ table' = [i \in Instance |-> {}]
  /\ todo' = [i \in Instance |-> {}]
  /\ on' = [i \in Instance |-> FALSE]
  /\ task' \in {task, Absent}
  /\ UNCHANGED <<data, hosts, shell, acked, calm, starts, changes, faults>>

Next ==
  \/ ShellLooks
  \/ \E i \in Instance, who \in Starters : Begin(i, who)
  \/ \E i \in Instance : Step(i)
  \/ \E i \in Instance, d \in Domain : ChangeMapping(i, d)
  \/ \E i \in Instance : EnableHttps(i) \/ DisableHttps(i) \/ ChangeTask(i)
  \/ \E i \in Instance : Kill(i)
  \/ Installer

Spec == Init /\ [][Next]_vars

\* Every process that can run is run; nothing in main() waits.
FairSpec == Spec /\ \A i \in Instance : WF_vars(Step(i))

-----------------------------------------------------------------------------
(* Properties.                                                             *)

\* Every variable is of the right kind, and files are left to copy exactly while
\* robocopy runs.
TypeOK ==
  /\ data \in [Dirs -> [mappings : (SUBSET Domain) \cup {Absent, Torn}, ca : CAs]]
  /\ task \in Dirs \cup {Absent}
  /\ hosts \subseteq Domain
  /\ port \in [Ports -> Instance \cup {Nobody, Other}]
  /\ pc \in [Instance -> Labels]
  /\ by \in [Instance -> Starters \cup {"hand", Nobody}]
  /\ dir \in [Instance -> Dirs]
  /\ table \in [Instance -> SUBSET Domain]
  /\ todo \in [Instance -> SUBSET Files]
  /\ on \in [Instance -> BOOLEAN]
  /\ \A i \in Instance : todo[i] # {} <=> pc[i] = "copy"
  /\ shell \in {"idle", "spawn"}
  /\ acked \in (SUBSET Domain) \cup {Absent}
  /\ calm \in Instance \cup {Nobody}

\* What a serving process has in memory is in the file and in the hosts file.
InStep(i) ==
  /\ hosts = table[i]
  /\ table[i] = Saved(dir[i])

\* "After a restart domains and HTTPS come back by themselves" (docs/index.html:170),
\* as far as the code keeps it: an engine that meets no other one and to which nothing
\* fails serves what is in the file, with the hosts file to match and with HTTPS if
\* there is a CA that can be loaded.  So a rewrite, a save, an enabling or a disabling
\* that failed in an earlier process, a kill and a migration half done are made good by
\* the next start, except a mappings.json that cannot be read, with which none serves,
\* and a CA that cannot be loaded, with which HTTPS stays off.
LoneServerInStep ==
  \A i \in Instance :
    calm = i /\ Serving(i) =>
      InStep(i) /\ (CA(i) = "good" => port["https"] \in {i, Other})

\* "A port that is taken ends the process" (main.go:101-110): of several processes
\* that start at once some one gets to serve, they never refuse each other all; and a
\* port 443 that is taken, a failed migration, a CA that cannot be loaded and a hosts
\* file that cannot be written end none.  A mappings.json that cannot be read and a
\* token that cannot be written do (main.go:64-71), and are left out.
SomeoneServes ==
  \A k \in 0..MaxKills, f \in 0..MaxFaults :
    (/\ kills = k /\ faults = f
     /\ \A d \in Dirs : data[d].mappings # Torn
     /\ \E i \in Instance : by[i] \in {"task", "hand"} /\ pc[i] # "ending")
      ~> (kills # k \/ faults # f \/ \E i \in Instance : Serving(i))

\* "Ends at once, so that there are never two instances, each with data of its own"
\* (main.go:101-102): when the others are gone, the server is as they found it.
ServerUndisturbed ==
  \A i \in Instance :
    Serving(i) /\ (\A j \in Instance \ {i} : ~Alive(j)) => InStep(i)

\* "The engines of the scheduled task and of the shell share one set of data, so that
\* no mapping disappears" (main.go:138-140): an engine that meets no other one serves
\* the table as the last change has left it.
LastChangeServed ==
  \A i \in Instance :
    calm = i /\ Serving(i) /\ acked # Absent => table[i] = acked

=============================================================================
