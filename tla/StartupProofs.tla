--------------------------- MODULE StartupProofs ---------------------------
(***************************************************************************)
(* Theorems about Startup for every set of processes and domains and every *)
(* number of starts, kills, changes and failures: an engine that meets no  *)
(* other one and to which nothing fails serves what is in the files, and   *)
(* HTTPS with a CA that can be loaded.                                     *)
(***************************************************************************)
EXTENDS Startup, TLAPS

-----------------------------------------------------------------------------
(* The inductive invariant.                                                *)

\* A process that has met no other one is the only one there is.
LoneIsAlone ==
  \A i, j \in Instance : calm = i /\ Alive(i) /\ Alive(j) => j = i

\* A port that LocalMap holds is held by a process that runs.
PortsOfLive ==
  \A i \in Instance, p \in Ports : port[p] = i => Alive(i)

\* What a process has done so far holds: its table is that of the file, the hosts
\* file that of its table, and with a CA port 443 is taken.
Loaded(i) == pc[i] = "rewrite" => table[i] = Saved(dir[i])
Rewritten(i) == pc[i] \in {"https", "proxy", "api", "serving"} => InStep(i)
Restored(i) ==
  pc[i] \in {"proxy", "api", "serving"} /\ CA(i) = "good" => port["https"] \in {i, Other}

LoneSoFar == \A i \in Instance : calm = i => Loaded(i) /\ Rewritten(i) /\ Restored(i)

IInv == TypeOK /\ LoneIsAlone /\ PortsOfLive /\ LoneSoFar

\* What LoneSoFar says of one process.
SoFar(i) == Loaded(i) /\ Rewritten(i) /\ Restored(i)

-----------------------------------------------------------------------------
(* What one process leaves of the others.                                  *)

\* A step of a process only concerns the one that has met no other if it is that one.
LEMMA StepOfOne ==
  ASSUME IInv, TypeOK', NEW i \in Instance, Alive(i), calm' \in {calm, Nobody},
         \A j \in Instance \ {i} : pc'[j] = pc[j],
         \A p \in Ports : port'[p] \in {port[p], Nobody} \/ (port'[p] = i /\ Alive(i)'),
         Alive(i)' \/ \A p \in Ports : port'[p] # i,
         calm' = i => SoFar(i)'
  PROVE  IInv'
<1>0. \A j \in Instance : calm' = j => calm = j
  BY NamesAssumption
<1>1. LoneIsAlone'
  BY <1>0 DEF IInv, LoneIsAlone, Alive
<1>2. PortsOfLive'
  <2> SUFFICES ASSUME NEW j \in Instance, NEW p \in Ports, port'[p] = j
               PROVE  Alive(j)'
    BY DEF PortsOfLive
  <2>1. CASE j = i
    BY <2>1
  <2>2. CASE j # i
    <3>1. port[p] = j
      BY <2>2, NamesAssumption
    <3> QED BY <2>2, <3>1 DEF IInv, PortsOfLive, Alive
  <2> QED BY <2>1, <2>2
<1>3. LoneSoFar'
  <2> SUFFICES ASSUME NEW j \in Instance, calm' = j, j # i
               PROVE  SoFar(j)'
    BY DEF LoneSoFar, SoFar
  <2>1. pc'[j] = "none"
    BY <1>0 DEF IInv, LoneIsAlone, Alive
  <2> QED BY <2>1 DEF SoFar, Loaded, Rewritten, Restored
<1> QED BY <1>1, <1>2, <1>3 DEF IInv

\* The table in a file, if there is one and it can be read.
LEMMA SavedType ==
  ASSUME TypeOK, NEW d \in Dirs, data[d].mappings # Torn
  PROVE  Saved(d) \in SUBSET Domain
<1>1. data[d] \in [mappings : (SUBSET Domain) \cup {Absent, Torn}, ca : CAs]
  BY DEF TypeOK
<1>2. data[d].mappings \in SUBSET Domain \/ data[d].mappings = Absent
  BY <1>1
<1> QED BY <1>2 DEF Saved

\* A process that ends holds no port, and leaves the files as they are.
LEMMA ExitKeeps ==
  ASSUME IInv, NEW i \in Instance, Alive(i), Exit(i), task' \in Dirs \cup {Absent},
         UNCHANGED <<data, hosts, shell, acked, calm>>
  PROVE  IInv'
<1>1. /\ pc' = [pc EXCEPT ![i] = "none"]
      /\ port' = [p \in Ports |-> IF port[p] = i THEN Nobody ELSE port[p]]
  BY DEF Exit, Goto
<1>2. pc'[i] = "none" /\ \A j \in Instance \ {i} : pc'[j] = pc[j]
  BY <1>1 DEF IInv, TypeOK
<1>3. \A p \in Ports : port'[p] \in {port[p], Nobody} /\ port'[p] # i
  BY <1>1, NamesAssumption
<1>4. TypeOK'
  BY <1>1, <1>3 DEF Exit, IInv, TypeOK, Labels, Dirs
<1>5. SoFar(i)'
  BY <1>2 DEF SoFar, Loaded, Rewritten, Restored
<1> QED BY <1>2, <1>3, <1>4, <1>5, StepOfOne

\* A failure is the end of the calm of the process that has it.
LEMMA FaultIs ==
  ASSUME TypeOK, NEW i \in Instance, Fault(i)
  PROVE  /\ calm' \in {calm, Nobody} /\ calm' # i
         /\ calm' \in Instance \cup {Nobody}
BY NamesAssumption DEF Fault, TypeOK

\* The hosts file is written, or the process has had a failure.
LEMMA WriteHostsIs ==
  ASSUME TypeOK, NEW i \in Instance, NEW D \in SUBSET Domain, WriteHosts(i, D)
  PROVE  /\ hosts' \in SUBSET Domain
         /\ calm' \in {calm, Nobody} /\ calm' \in Instance \cup {Nobody}
         /\ calm' = i => hosts' = D /\ calm = i
<1>1. CASE hosts' = D /\ NoFault
  BY <1>1 DEF NoFault, TypeOK
<1>2. CASE hosts' \in {hosts, {}} /\ Fault(i)
  BY <1>2, FaultIs DEF TypeOK
<1> QED BY <1>1, <1>2 DEF WriteHosts

\* A process that goes on has changed its own state and the ports at most.
LEMMA GoesOn ==
  ASSUME IInv, TypeOK', NEW i \in Instance, NEW label \in Labels \ {"none"}, Alive(i),
         Goto(i, label), calm' \in {calm, Nobody},
         \A p \in Ports : port'[p] \in {port[p], Nobody, i},
         calm' = i => SoFar(i)'
  PROVE  IInv'
<1>1. pc'[i] = label /\ \A j \in Instance \ {i} : pc'[j] = pc[j]
  BY DEF Goto, IInv, TypeOK
<1>2. Alive(i)'
  BY <1>1 DEF Alive
<1>3. \A p \in Ports : port'[p] \in {port[p], Nobody} \/ (port'[p] = i /\ Alive(i)')
  BY <1>2
<1> QED BY <1>1, <1>2, <1>3, StepOfOne

-----------------------------------------------------------------------------
(* Starts.                                                                 *)

LEMMA InitIInv == Init => IInv
<1> SUFFICES ASSUME Init PROVE IInv
  OBVIOUS
<1>1. data \in [Dirs -> [mappings : (SUBSET Domain) \cup {Absent, Torn}, ca : CAs]]
  <2>1. PICK m \in {Absent, Torn, Domain}, c \in CAs :
          data = [d \in Dirs |-> IF d = "legacy" THEN [mappings |-> m, ca |-> c]
                                 ELSE [mappings |-> Absent, ca |-> "none"]]
    BY DEF Init
  <2>2. m \in (SUBSET Domain) \cup {Absent, Torn} /\ "none" \in CAs
    BY DEF CAs
  <2> QED BY <2>1, <2>2
<1>2. port \in [Ports -> {Nobody, Other}] /\ calm = Nobody
  BY DEF Init
<1>3. TypeOK
  BY <1>1, <1>2, OldTasksAssumption DEF Init, TypeOK, Labels, Dirs
<1> QED
  BY <1>2, <1>3, NamesAssumption
     DEF IInv, LoneIsAlone, PortsOfLive, LoneSoFar

LEMMA ShellLooksKeeps == ASSUME IInv, ShellLooks PROVE IInv'
BY DEF ShellLooks, locals, counts, IInv, TypeOK, LoneIsAlone, PortsOfLive, LoneSoFar,
   Loaded, Rewritten, Restored, Alive, InStep, Saved, CA

\* A process that starts has met no other one if none runs, and has done nothing yet.
LEMMA BeginKeeps ==
  ASSUME IInv, NEW i \in Instance, NEW who \in Starters, Begin(i, who)
  PROVE  IInv'
<1>1. /\ pc' = [pc EXCEPT ![i] = "migrate"]
      /\ calm' = IF \E j \in Instance : Alive(j) THEN Nobody ELSE i
      /\ port' = port /\ ~Alive(i)
  BY DEF Begin, Goto
<1>2. pc'[i] = "migrate" /\ \A j \in Instance \ {i} : pc'[j] = pc[j]
  BY <1>1 DEF IInv, TypeOK
<1>3. TypeOK'
  <2>1. dir' \in [Instance -> Dirs]
    BY DEF Begin, IInv, TypeOK, Dirs
  <2>2. \A j \in Instance : todo'[j] # {} <=> pc'[j] = "copy"
    BY <1>1, <1>2 DEF Begin, IInv, TypeOK, Alive
  <2> QED BY <1>1, <2>1, <2>2 DEF Begin, IInv, TypeOK, Labels
<1>4. LoneIsAlone'
  BY <1>1, <1>2, NamesAssumption DEF LoneIsAlone, Alive
<1>5. PortsOfLive'
  BY <1>1, <1>2 DEF IInv, PortsOfLive, Alive
<1>6. LoneSoFar'
  BY <1>1, <1>2, NamesAssumption DEF LoneSoFar, Loaded, Rewritten, Restored
<1> QED BY <1>3, <1>4, <1>5, <1>6 DEF IInv

-----------------------------------------------------------------------------
(* main(), step by step.                                                   *)

LEMMA AfterMigrationIs == ASSUME NEW i PROVE AfterMigration(i) \in {"option", "load"}
BY DEF AfterMigration

\* Before the table is loaded nothing is promised.
LEMMA EarlyStep ==
  ASSUME IInv, TypeOK', NEW i \in Instance, Alive(i),
         NEW label \in {"copy", "option", "load"}, Goto(i, label),
         UNCHANGED <<port, calm>>
  PROVE  IInv'
<1>1. pc'[i] = label
  BY DEF Goto, IInv, TypeOK
<1>2. SoFar(i)'
  BY <1>1 DEF SoFar, Loaded, Rewritten, Restored
<1> QED BY <1>2, GoesOn DEF Labels

LEMMA MigrateKeeps == ASSUME IInv, NEW i \in Instance, Migrate(i) PROVE IInv'
<1> DEFINE has(d) == (IF data[d].mappings # Absent THEN {"mappings"} ELSE {})
                       \cup (IF data[d].ca # "none" THEN {"ca"} ELSE {})
           needed == by[i] # "task" /\ has("default") = {} /\ has("legacy") # {}
           label == IF needed THEN "copy" ELSE AfterMigration(i)
<1>1. /\ pc[i] = "migrate"
      /\ todo' = [todo EXCEPT ![i] = IF needed THEN has("legacy") ELSE {}]
      /\ Goto(i, label)
      /\ UNCHANGED <<data, task, hosts, port, by, dir, table, on, shell, acked, calm, counts>>
  BY DEF Migrate
<1>2. /\ has("legacy") \subseteq Files
      /\ label \in {"copy", "option", "load"}
      /\ label = "copy" <=> (IF needed THEN has("legacy") ELSE {}) # {}
  BY AfterMigrationIs DEF Files
<1> HIDE DEF has, needed, label
<1>3. (IF needed THEN has("legacy") ELSE {}) \in SUBSET Files
  BY <1>2
<1>4. TypeOK'
  BY <1>1, <1>2, <1>3 DEF Goto, IInv, TypeOK, Labels
<1> QED BY <1>1, <1>2, <1>4, EarlyStep DEF Alive

LEMMA CopyKeeps == ASSUME IInv, NEW i \in Instance, NEW f \in Files, Copy(i, f) PROVE IInv'
<1> DEFINE label == IF todo'[i] = {} THEN AfterMigration(i) ELSE "copy"
<1>1. /\ pc[i] = "copy"
      /\ todo' = [todo EXCEPT ![i] = @ \ {f}]
      /\ Goto(i, label)
      /\ UNCHANGED <<task, hosts, port, by, dir, table, on, shell, acked, calm, counts>>
  BY DEF Copy
<1>2. /\ label \in {"copy", "option", "load"}
      /\ label = "copy" <=> todo'[i] # {}
  BY AfterMigrationIs
<1>3. data' \in [Dirs -> [mappings : (SUBSET Domain) \cup {Absent, Torn}, ca : CAs]]
  <2>1. "legacy" \in Dirs /\ "default" \in Dirs
    BY DEF Dirs
  <2>2. CASE f = "ca"
    <3>1. data["legacy"].ca \in CAs
      BY <2>1 DEF IInv, TypeOK
    <3>2. data' = [data EXCEPT !["default"].ca = data["legacy"].ca]
      BY <2>2 DEF Copy
    <3> QED BY <2>1, <3>1, <3>2 DEF IInv, TypeOK
  <2>3. CASE f # "ca"
    <3>1. data["legacy"].mappings \in (SUBSET Domain) \cup {Absent, Torn}
      BY <2>1 DEF IInv, TypeOK
    <3>2. data' = [data EXCEPT !["default"].mappings = data["legacy"].mappings]
      BY <2>3 DEF Copy
    <3> QED BY <2>1, <3>1, <3>2 DEF IInv, TypeOK
  <2> QED BY <2>2, <2>3
<1> HIDE DEF label
<1>4. TypeOK'
  BY <1>1, <1>2, <1>3 DEF Goto, IInv, TypeOK, Labels
<1> QED BY <1>1, <1>2, <1>4, EarlyStep DEF Alive

LEMMA CopyFailsKeeps == ASSUME IInv, NEW i \in Instance, CopyFails(i) PROVE IInv'
<1>1. AfterMigration(i) \in {"option", "load"}
  BY AfterMigrationIs
<1>2. TypeOK'
  BY <1>1 DEF CopyFails, Goto, IInv, TypeOK, Labels
<1> QED BY <1>1, <1>2, EarlyStep DEF CopyFails, Alive

LEMMA OptionKeeps == ASSUME IInv, NEW i \in Instance, Option(i) PROVE IInv'
<1>1. task' \in Dirs \cup {Absent}
  BY DEF Option, IInv, TypeOK
<1> QED BY <1>1, ExitKeeps DEF Option, Alive

LEMMA LoadKeeps == ASSUME IInv, NEW i \in Instance, Load(i) PROVE IInv'
<1>0. pc[i] = "load" /\ Alive(i)
      /\ UNCHANGED <<data, task, hosts, port, by, dir, todo, on, shell, acked>>
  BY DEF Load, Alive
<1>1. CASE /\ data[dir[i]].mappings # Torn
           /\ table' = [table EXCEPT ![i] = Saved(dir[i])]
           /\ Goto(i, "rewrite")
           /\ NoFault
  <2>1. Saved(dir[i]) \in SUBSET Domain
    BY <1>1, SavedType DEF IInv, TypeOK
  <2>2. TypeOK'
    BY <1>0, <1>1, <2>1 DEF NoFault, Goto, IInv, TypeOK, Labels
  <2>3. pc'[i] = "rewrite" /\ table'[i] = Saved(dir[i])
    BY <1>1 DEF Goto, IInv, TypeOK
  <2>4. SoFar(i)'
    BY <1>0, <2>3 DEF SoFar, Loaded, Rewritten, Restored, Saved
  <2> QED BY <1>0, <1>1, <2>2, <2>4, GoesOn DEF NoFault, Labels
<1>2. ASSUME Goto(i, "ending"), UNCHANGED table, NoFault \/ Fault(i)
      PROVE  IInv'
  <2>1. calm' \in {calm, Nobody} /\ calm' \in Instance \cup {Nobody}
    BY <1>2, FaultIs DEF NoFault, IInv, TypeOK
  <2>2. TypeOK'
    BY <1>0, <1>2, <2>1 DEF Goto, IInv, TypeOK, Labels
  <2>3. pc'[i] = "ending"
    BY <1>2 DEF Goto, IInv, TypeOK
  <2>4. SoFar(i)'
    BY <2>3 DEF SoFar, Loaded, Rewritten, Restored
  <2> QED BY <1>0, <1>2, <2>1, <2>2, <2>4, GoesOn DEF Labels
<1> QED BY <1>1, <1>2 DEF Load

LEMMA RewriteKeeps == ASSUME IInv, NEW i \in Instance, Rewrite(i) PROVE IInv'
<1>0. /\ pc[i] = "rewrite" /\ Alive(i)
      /\ WriteHosts(i, table[i]) /\ Goto(i, "https")
      /\ UNCHANGED <<data, task, port, by, dir, todo, table, on, shell, acked>>
  BY DEF Rewrite, locals, Alive
<1>1. /\ hosts' \in SUBSET Domain
      /\ calm' \in {calm, Nobody} /\ calm' \in Instance \cup {Nobody}
      /\ calm' = i => hosts' = table[i] /\ calm = i
  BY <1>0, WriteHostsIs DEF IInv, TypeOK
<1>2. TypeOK'
  BY <1>0, <1>1 DEF Goto, IInv, TypeOK, Labels
<1>3. pc'[i] = "https"
  BY <1>0 DEF Goto, IInv, TypeOK
<1>4. calm = i => table[i] = Saved(dir[i])
  BY <1>0 DEF IInv, LoneSoFar, Loaded
<1>5. calm' = i => SoFar(i)'
  BY <1>0, <1>1, <1>3, <1>4
     DEF SoFar, Loaded, Rewritten, Restored, InStep, Saved
<1> QED BY <1>0, <1>1, <1>2, <1>5, GoesOn DEF Labels

\* Who has met no other one finds port 443 free or with another program.
LEMMA LonePort ==
  ASSUME IInv, NEW i \in Instance, calm = i, Alive(i), NEW p \in Ports, port[p] # i
  PROVE  port[p] \in {Nobody, Other}
BY DEF IInv, TypeOK, LoneIsAlone, PortsOfLive

\* Port 443 is taken by the process that may, and by no other.
LEMMA TakeHttpsIs ==
  ASSUME IInv, NEW i \in Instance, TakeHttps(i)
  PROVE  /\ port' \in [Ports -> Instance \cup {Nobody, Other}]
         /\ on' \in [Instance -> BOOLEAN]
         /\ \A p \in Ports : port'[p] \in {port[p], i}
         /\ calm = i /\ Alive(i) => port'["https"] \in {i, Other}
<1>0. "https" \in Ports
  BY DEF Ports
<1>1. CASE port["https"] = Nobody /\ Listen(i, "https") /\ on' = [on EXCEPT ![i] = TRUE]
  <2>1. PICK yes \in BOOLEAN : on' = [on EXCEPT ![i] = yes]
    BY <1>1
  <2>2. port' = [port EXCEPT !["https"] = i]
    BY <1>1 DEF Listen
  <2>3. on' \in [Instance -> BOOLEAN]
    BY <2>1 DEF IInv, TypeOK
  <2> QED BY <1>0, <2>2, <2>3 DEF IInv, TypeOK
<1>2. CASE port["https"] # Nobody /\ UNCHANGED <<port, on>>
  <2>1. calm = i /\ Alive(i) => port["https"] \in {i, Other}
    BY <1>0, <1>2, LonePort
  <2> QED BY <1>2, <2>1 DEF IInv, TypeOK
<1> QED BY <1>1, <1>2 DEF TakeHttps

LEMMA RestoreHttpsKeeps == ASSUME IInv, NEW i \in Instance, RestoreHttps(i) PROVE IInv'
<1>1. /\ pc[i] = "https" /\ Goto(i, "proxy")
      /\ IF CA(i) = "good" THEN TakeHttps(i) ELSE UNCHANGED <<port, on>>
      /\ UNCHANGED <<data, task, hosts, by, dir, todo, table, shell, acked, calm>>
  BY DEF RestoreHttps
<1>2. pc'[i] = "proxy" /\ Alive(i)
  BY <1>1 DEF Goto, IInv, TypeOK, Alive
<1>3. /\ port' \in [Ports -> Instance \cup {Nobody, Other}]
      /\ on' \in [Instance -> BOOLEAN]
      /\ \A p \in Ports : port'[p] \in {port[p], i}
      /\ calm = i /\ CA(i) = "good" => port'["https"] \in {i, Other}
  BY <1>1, <1>2, TakeHttpsIs DEF IInv, TypeOK
<1>4. TypeOK'
  BY <1>1, <1>3 DEF Goto, IInv, TypeOK, Labels
<1>5. ASSUME calm = i
      PROVE  SoFar(i)'
  <2>1. InStep(i)
    BY <1>1, <1>5 DEF IInv, LoneSoFar, Rewritten
  <2>2. InStep(i)'
    BY <1>1, <2>1 DEF InStep, Saved
  <2>3. CA(i)' = CA(i)
    BY <1>1 DEF CA
  <2> QED BY <1>2, <1>3, <1>5, <2>2, <2>3 DEF SoFar, Loaded, Rewritten, Restored
<1> QED BY <1>1, <1>2, <1>3, <1>4, <1>5, GoesOn DEF Labels

\* Taking the port of the proxy or of the API leaves port 443 as it is.
LEMMA BindKeeps ==
  ASSUME IInv, NEW i \in Instance, NEW p \in {"proxy", "api"}, NEW next \in {"api", "serving"},
         Bind(i, p, next)
  PROVE  IInv'
<1>0. pc[i] = p /\ Alive(i)
      /\ UNCHANGED <<data, task, hosts, locals, shell, acked, calm, counts>>
  BY DEF Bind, Alive
<1>1. CASE port[p] = Nobody /\ Listen(i, p) /\ Goto(i, next)
  <2>1. port' = [port EXCEPT ![p] = i] /\ UNCHANGED <<by, dir, todo, table, on>>
    BY <1>0, <1>1 DEF Listen, locals
  <2>2. pc'[i] = next
    BY <1>1 DEF Goto, IInv, TypeOK
  <2>3. TypeOK'
    BY <1>0, <1>1, <2>1 DEF Goto, IInv, TypeOK, Labels
  <2>4. \A q \in Ports : port'[q] \in {port[q], i}
    BY <2>1 DEF IInv, TypeOK
  <2>5. ASSUME calm = i
        PROVE  SoFar(i)'
    <3>1. Rewritten(i) /\ Restored(i)
      BY <2>5 DEF IInv, LoneSoFar
    <3>2. InStep(i) /\ (CA(i) = "good" => port["https"] \in {i, Other})
      BY <1>0, <3>1 DEF Rewritten, Restored
    <3>3. port'["https"] = port["https"]
      BY <2>1 DEF IInv, TypeOK, Ports
    <3>4. InStep(i)' /\ (CA(i)' = "good" => port'["https"] \in {i, Other})
      BY <1>0, <2>1, <3>2, <3>3 DEF InStep, Saved, CA
    <3> QED BY <2>2, <3>4 DEF SoFar, Loaded, Rewritten, Restored
  <2> QED BY <1>0, <1>1, <2>3, <2>4, <2>5, GoesOn DEF Labels
<1>2. CASE UNCHANGED port /\ Goto(i, "ending")
  <2>1. TypeOK'
    BY <1>0, <1>2 DEF locals, Goto, IInv, TypeOK, Labels
  <2>2. pc'[i] = "ending"
    BY <1>2 DEF Goto, IInv, TypeOK
  <2>3. SoFar(i)'
    BY <2>2 DEF SoFar, Loaded, Rewritten, Restored
  <2> QED BY <1>0, <1>2, <2>1, <2>3, GoesOn DEF Labels
<1> QED BY <1>1, <1>2 DEF Bind

\* log.Fatal.
LEMMA EndKeeps == ASSUME IInv, NEW i \in Instance, End(i) PROVE IInv'
<1>1. task' \in Dirs \cup {Absent}
  BY DEF End, IInv, TypeOK
<1> QED BY <1>1, ExitKeeps DEF End, Alive

LEMMA StepKeeps == ASSUME IInv, NEW i \in Instance, Step(i) PROVE IInv'
<1>1. BindProxy(i) \/ BindApi(i) => IInv'
  BY BindKeeps DEF BindProxy, BindApi
<1> QED
  BY <1>1, MigrateKeeps, CopyKeeps, CopyFailsKeeps, OptionKeeps, LoadKeeps,
  RewriteKeeps, RestoreHttpsKeeps, EndKeeps
  DEF Step

-----------------------------------------------------------------------------
(* A serving engine, and its end.                                          *)

\* A serving process that keeps serving.
LEMMA ServesOn ==
  ASSUME IInv, TypeOK', NEW i \in Instance, Serving(i), UNCHANGED pc, calm' \in {calm, Nobody},
         \A p \in Ports : port'[p] \in {port[p], Nobody, i},
         calm' = i => InStep(i)' /\ (CA(i)' = "good" => port'["https"] \in {i, Other})
  PROVE  IInv'
<1>1. calm' = i => SoFar(i)'
  BY DEF Serving, SoFar, Loaded, Rewritten, Restored
<1>2. Alive(i) /\ Alive(i)' /\ \A j \in Instance \ {i} : pc'[j] = pc[j]
  BY DEF Serving, Alive
<1>3. \A p \in Ports : port'[p] \in {port[p], Nobody} \/ (port'[p] = i /\ Alive(i)')
  BY <1>2
<1> QED BY <1>1, <1>2, <1>3, StepOfOne

\* What a serving process that has met no other one may rely on.
LEMMA LoneServes ==
  ASSUME IInv, NEW i \in Instance, Serving(i), calm = i
  PROVE  InStep(i) /\ (CA(i) = "good" => port["https"] \in {i, Other})
BY DEF IInv, LoneSoFar, Rewritten, Restored, Serving

LEMMA ChangeMappingKeeps ==
  ASSUME IInv, NEW i \in Instance, NEW d \in Domain, ChangeMapping(i, d)
  PROVE  IInv'
<1> DEFINE removed == d \in table[i]
           new == IF removed THEN table[i] \ {d} ELSE table[i] \cup {d}
<1>1. /\ Serving(i)
      /\ table' = [table EXCEPT ![i] = new]
      /\ UNCHANGED <<task, port, pc, by, dir, todo, on, shell, starts, kills>>
  BY DEF ChangeMapping
<1>2. \/ /\ data' = [data EXCEPT ![dir[i]].mappings = new]
         /\ WriteHosts(i, new)
         /\ acked' = new
      \/ /\ Fault(i)
         /\ data' \in {data, [data EXCEPT ![dir[i]].mappings = Torn]}
         /\ hosts' = IF removed THEN new ELSE hosts
         /\ acked' = IF removed THEN new ELSE Absent
  BY DEF ChangeMapping
<1>3. new \in SUBSET Domain /\ dir[i] \in Dirs
  BY <1>1 DEF IInv, TypeOK
<1> HIDE DEF removed, new
<1>4. table'[i] = new
  BY <1>1 DEF IInv, TypeOK
<1>5. CASE /\ data' = [data EXCEPT ![dir[i]].mappings = new]
           /\ WriteHosts(i, new)
           /\ acked' = new
  <2>1. data' \in [Dirs -> [mappings : (SUBSET Domain) \cup {Absent, Torn}, ca : CAs]]
    BY <1>3, <1>5 DEF IInv, TypeOK
  <2>2. /\ hosts' \in SUBSET Domain
        /\ calm' \in {calm, Nobody} /\ calm' \in Instance \cup {Nobody}
        /\ calm' = i => hosts' = new /\ calm = i
    BY <1>3, <1>5, WriteHostsIs DEF IInv
  <2>3. TypeOK'
    BY <1>1, <1>3, <1>5, <2>1, <2>2 DEF IInv, TypeOK
  <2>4. data'[dir[i]].mappings = new /\ data'[dir[i]].ca = data[dir[i]].ca
    BY <1>3, <1>5 DEF IInv, TypeOK
  <2>5. new # Absent
    BY <1>3, AbsentAssumption
  <2>6. calm' = i => InStep(i)'
    BY <1>1, <1>4, <2>2, <2>4, <2>5 DEF InStep, Saved
  <2>7. calm' = i => (CA(i)' = "good" => port'["https"] \in {i, Other})
    BY <1>1, <2>2, <2>4, LoneServes DEF CA
  <2> QED BY <1>1, <2>2, <2>3, <2>6, <2>7, ServesOn
<1>6. CASE /\ Fault(i)
           /\ data' \in {data, [data EXCEPT ![dir[i]].mappings = Torn]}
           /\ hosts' = IF removed THEN new ELSE hosts
           /\ acked' = IF removed THEN new ELSE Absent
  <2>1. data' \in [Dirs -> [mappings : (SUBSET Domain) \cup {Absent, Torn}, ca : CAs]]
    <3>1. CASE data' = data
      BY <3>1 DEF IInv, TypeOK
    <3>2. CASE data' = [data EXCEPT ![dir[i]].mappings = Torn]
      <4>1. PICK m \in (SUBSET Domain) \cup {Absent, Torn} :
              data' = [data EXCEPT ![dir[i]].mappings = m]
        BY <3>2
      <4> QED BY <1>3, <4>1 DEF IInv, TypeOK
    <3> QED BY <1>6, <3>1, <3>2
  <2>2. hosts' \in SUBSET Domain /\ acked' \in (SUBSET Domain) \cup {Absent}
    BY <1>3, <1>6 DEF IInv, TypeOK
  <2>3. calm' \in {calm, Nobody} /\ calm' # i /\ calm' \in Instance \cup {Nobody}
    BY <1>6, FaultIs DEF IInv
  <2>4. TypeOK'
    BY <1>1, <1>3, <2>1, <2>2, <2>3 DEF IInv, TypeOK
  <2> QED BY <1>1, <2>3, <2>4, ServesOn
<1> QED BY <1>2, <1>5, <1>6

\* A change of the CA leaves the mappings as they are.
LEMMA CaLeavesMappings ==
  ASSUME IInv, NEW i \in Instance, NEW c \in CAs,
         data' = [data EXCEPT ![dir[i]].ca = c], UNCHANGED <<hosts, table, dir>>
  PROVE  /\ data' \in [Dirs -> [mappings : (SUBSET Domain) \cup {Absent, Torn}, ca : CAs]]
         /\ CA(i)' = c
         /\ InStep(i) => InStep(i)'
<1>1. dir[i] \in Dirs
  BY DEF IInv, TypeOK
<1>2. data'[dir[i]].mappings = data[dir[i]].mappings /\ data'[dir[i]].ca = c
  BY <1>1 DEF IInv, TypeOK
<1>3. data' \in [Dirs -> [mappings : (SUBSET Domain) \cup {Absent, Torn}, ca : CAs]]
  BY <1>1 DEF IInv, TypeOK
<1> QED BY <1>2, <1>3 DEF InStep, Saved, CA

LEMMA EnableHttpsKeeps == ASSUME IInv, NEW i \in Instance, EnableHttps(i) PROVE IInv'
<1>0. /\ Serving(i) /\ Alive(i)
      /\ UNCHANGED <<task, hosts, pc, by, dir, todo, table, shell, acked>>
  BY DEF EnableHttps, Serving, Alive
<1>1. CASE data' = [data EXCEPT ![dir[i]].ca = "good"] /\ TakeHttps(i) /\ NoFault
  <2>1. /\ data' \in [Dirs -> [mappings : (SUBSET Domain) \cup {Absent, Torn}, ca : CAs]]
        /\ InStep(i) => InStep(i)'
    BY <1>0, <1>1, CaLeavesMappings DEF CAs
  <2>2. /\ port' \in [Ports -> Instance \cup {Nobody, Other}]
        /\ on' \in [Instance -> BOOLEAN]
        /\ \A p \in Ports : port'[p] \in {port[p], i}
        /\ calm = i => port'["https"] \in {i, Other}
    BY <1>0, <1>1, TakeHttpsIs
  <2>3. TypeOK'
    BY <1>0, <1>1, <2>1, <2>2 DEF NoFault, IInv, TypeOK
  <2>4. calm = i => InStep(i)'
    BY <1>0, <2>1, LoneServes
  <2> QED BY <1>0, <1>1, <2>2, <2>3, <2>4, ServesOn DEF NoFault
<1>2. ASSUME Fault(i), NEW c \in CAs, data' = [data EXCEPT ![dir[i]].ca = c],
             UNCHANGED <<port, on>>
      PROVE  IInv'
  <2>1. data' \in [Dirs -> [mappings : (SUBSET Domain) \cup {Absent, Torn}, ca : CAs]]
    BY <1>0, <1>2, CaLeavesMappings
  <2>2. calm' \in {calm, Nobody} /\ calm' # i /\ calm' \in Instance \cup {Nobody}
    BY <1>2, FaultIs DEF IInv
  <2>3. TypeOK'
    BY <1>0, <1>2, <2>1, <2>2 DEF IInv, TypeOK
  <2> QED BY <1>0, <1>2, <2>2, <2>3, ServesOn
<1>3. {CA(i), "bad", "good"} \subseteq CAs
  BY DEF CA, CAs, IInv, TypeOK
<1> QED BY <1>1, <1>2, <1>3 DEF EnableHttps

LEMMA DisableHttpsKeeps == ASSUME IInv, NEW i \in Instance, DisableHttps(i) PROVE IInv'
<1>0. /\ Serving(i)
      /\ port' = [port EXCEPT !["https"] = IF @ = i THEN Nobody ELSE @]
      /\ UNCHANGED <<task, hosts, pc, by, dir, todo, table, shell, acked>>
  BY DEF DisableHttps
<1>1. PICK no \in BOOLEAN :
        \/ data' = [data EXCEPT ![dir[i]].ca = "none"] /\ on' = [on EXCEPT ![i] = no] /\ NoFault
        \/ UNCHANGED data /\ on' \in {on, [on EXCEPT ![i] = no]} /\ Fault(i)
  BY DEF DisableHttps
<1>2. on' \in [Instance -> BOOLEAN]
  BY <1>1 DEF IInv, TypeOK
<1>3. /\ port' \in [Ports -> Instance \cup {Nobody, Other}]
      /\ \A p \in Ports : port'[p] \in {port[p], Nobody}
  BY <1>0 DEF IInv, TypeOK
<1>4. CASE data' = [data EXCEPT ![dir[i]].ca = "none"] /\ NoFault
  <2>1. /\ data' \in [Dirs -> [mappings : (SUBSET Domain) \cup {Absent, Torn}, ca : CAs]]
        /\ CA(i)' = "none"
        /\ InStep(i) => InStep(i)'
    BY <1>0, <1>4, CaLeavesMappings DEF CAs
  <2>2. TypeOK'
    BY <1>0, <1>2, <1>3, <1>4, <2>1 DEF NoFault, IInv, TypeOK
  <2>3. calm = i => InStep(i)'
    BY <1>0, <2>1, LoneServes
  <2> QED BY <1>0, <1>3, <1>4, <2>1, <2>2, <2>3, ServesOn DEF NoFault
<1>5. CASE UNCHANGED data /\ Fault(i)
  <2>1. calm' \in {calm, Nobody} /\ calm' # i /\ calm' \in Instance \cup {Nobody}
    BY <1>5, FaultIs DEF IInv
  <2>2. TypeOK'
    BY <1>0, <1>2, <1>3, <1>5, <2>1 DEF IInv, TypeOK
  <2> QED BY <1>0, <1>3, <2>1, <2>2, ServesOn
<1> QED BY <1>1, <1>4, <1>5

LEMMA ChangeTaskKeeps == ASSUME IInv, NEW i \in Instance, ChangeTask(i) PROVE IInv'
<1>1. /\ Serving(i) /\ task' \in {dir[i], Absent}
      /\ UNCHANGED <<data, hosts, port, pc, by, dir, todo, table, on, shell, acked, calm>>
  BY DEF ChangeTask, TaskInstall, TaskUninstall, locals
<1>2. TypeOK'
  BY <1>1 DEF IInv, TypeOK
<1>3. calm = i => InStep(i)' /\ (CA(i)' = "good" => port'["https"] \in {i, Other})
  BY <1>1, LoneServes DEF InStep, Saved, CA
<1> QED BY <1>1, <1>2, <1>3, ServesOn

LEMMA KillKeeps == ASSUME IInv, NEW i \in Instance, Kill(i) PROVE IInv'
<1>1. task' \in Dirs \cup {Absent}
  BY DEF Kill, IInv, TypeOK
<1> QED BY <1>1, ExitKeeps DEF Kill

\* When all engines have ended nobody holds a port and nothing is promised.
LEMMA InstallerKeeps == ASSUME IInv, Installer PROVE IInv'
<1>1. \A i \in Instance : pc'[i] = "none"
  BY DEF Installer
<1>2. TypeOK'
  BY DEF Installer, IInv, TypeOK, Labels, Dirs
<1>3. LoneIsAlone' /\ LoneSoFar'
  BY <1>1 DEF LoneIsAlone, LoneSoFar, Loaded, Rewritten, Restored, Alive
<1>4. PortsOfLive'
  BY NamesAssumption DEF Installer, PortsOfLive
<1> QED BY <1>2, <1>3, <1>4 DEF IInv

LEMMA StutterKeeps == ASSUME IInv, UNCHANGED vars PROVE IInv'
BY DEF vars, locals, counts, IInv, TypeOK, LoneIsAlone, PortsOfLive, LoneSoFar,
   Loaded, Rewritten, Restored, Alive, InStep, Saved, CA

LEMMA NextKeeps == ASSUME IInv, [Next]_vars PROVE IInv'
BY ShellLooksKeeps, BeginKeeps, StepKeeps, ChangeMappingKeeps, EnableHttpsKeeps,
   DisableHttpsKeeps, ChangeTaskKeeps, KillKeeps, InstallerKeeps, StutterKeeps DEF Next

LEMMA AlwaysIInv == Spec => []IInv
BY InitIInv, NextKeeps, PTL DEF Spec

-----------------------------------------------------------------------------
(* The theorems.                                                           *)

\* Processes, ports and files stay of their kind, whatever processes start, are
\* refused a port, are killed or serve, in whatever order (main.go).
THEOREM TypeCorrect == Spec => []TypeOK
<1>1. IInv => TypeOK
  BY DEF IInv
<1> QED BY <1>1, AlwaysIInv, PTL

\* An engine that meets no other one and to which nothing fails comes back with the
\* table of the file, the hosts file to match, and HTTPS if there is a CA that can be
\* loaded (main.go:45-99): no number of earlier processes, kills, failed changes, half
\* migrations and refused ports makes it serve anything else.
THEOREM LoneServersComeBack == Spec => []LoneServerInStep
<1>1. IInv => LoneServerInStep
  BY LoneServes DEF LoneServerInStep
<1> QED BY <1>1, AlwaysIInv, PTL

=============================================================================
