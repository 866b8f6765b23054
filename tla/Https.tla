------------------------------- MODULE Https -------------------------------
(***************************************************************************)
(* Local HTTPS (src/engine/api.go, cert.go, main.go): a CA of its own in   *)
(* two files, a copy of it in the system's trust store, leaf certificates  *)
(* signed on demand, and a TLS listener on port 443.  Enabling and         *)
(* disabling run under httpsMu; TLS handshakes run whenever they come and  *)
(* take no lock but the certificate store's own.                           *)
(*                                                                         *)
(* A certificate is the number of its CA: the n-th CA that was created.    *)
(* All domains here are mapped; a handshake for another one is refused     *)
(* before anything that this module is about.                              *)
(***************************************************************************)
EXTENDS Integers, FiniteSets

CONSTANTS
  Handlers,     \* goroutines of the control API
  Conns,        \* TLS connections
  Main,         \* the main thread
  Nobody,       \* no thread
  Domain,       \* mapped domains
  Absent,       \* there is no such file, certificate or store
  Bad,          \* a file that is not a PEM text
  Faults,       \* a subset of {"kill", "certutil", "disk", "port", "reset"}
  MaxCA,        \* bound: CAs created
  MaxRequests,  \* bound: enable and disable requests
  MaxFaults     \* bound: faults

ASSUME ThreadAssumption ==
  Main \notin Handlers /\ Nobody \notin Handlers \cup {Main}
ASSUME FileAssumption == Absent \notin Nat /\ Bad \notin Nat /\ Absent # Bad
ASSUME BoundAssumption == MaxCA \in Nat

VARIABLES
  crt, key,     \* ca.crt and ca.key
  leafFile,     \* certs/: per domain, the CA that signed the leaf in the file
  trust,        \* the CAs named "LocalMap Local CA" in the trust store
  created,      \* how many CAs there have been
  certs,        \* e.certs: Absent, or [crt, key, leafs]
  tlsSrv,       \* e.tlsSrv is set: the listener on 443 is open
  httpsOn,      \* e.httpsOn
  mu,           \* who holds httpsMu
  pc, req, answer,  \* per thread: what it does next, is asked for, has answered
  cs,           \* the CertStore that a thread is about to install
  conn,         \* per connection: a handshake under way, or Absent
  portTaken,    \* another program listens on 443
  phase,        \* of the process: "down", "boot", "serving"
  requests, faults  \* history: how many there have been

files == <<crt, key, leafFile>>
engine == <<certs, tlsSrv, httpsOn>>
threads == <<mu, pc, req, answer, cs>>
world == <<conn, portTaken, phase>>
counts == <<requests, faults>>
vars == <<files, trust, created, engine, threads, world, counts>>

Threads == Handlers \cup {Main}
CA == 1..MaxCA
CertStore == [crt : CA, key : CA, leafs : [Domain -> CA \cup {Absent}]]
NoLeafs == [d \in Domain |-> Absent]

ASSUME StoreAssumption == Absent \notin CertStore

\* certutil looks for the common name, which all CAs of LocalMap share.
CATrusted == trust # {}

Init ==
  /\ crt = Absent /\ key = Absent /\ leafFile = NoLeafs
  /\ trust = {} /\ created = 0
  /\ certs = Absent /\ tlsSrv = FALSE /\ httpsOn = FALSE
  /\ mu = Nobody
  /\ pc = [p \in Threads |-> "idle"]
  /\ req = [p \in Threads |-> "none"]
  /\ answer = [p \in Threads |-> "none"]
  /\ cs = Absent
  /\ conn = [c \in Conns |-> Absent]
  /\ portTaken = FALSE
  /\ phase = "serving"
  /\ requests = 0 /\ faults = 0

Goto(p, label) == pc' = [pc EXCEPT ![p] = label]
Fault(kind) == kind \in Faults /\ faults < MaxFaults /\ faults' = faults + 1

-----------------------------------------------------------------------------
(* POST /api/https/enable and /disable.                                    *)

Request(p, what) ==
  /\ phase = "serving"
  /\ pc[p] = "idle"
  /\ requests < MaxRequests
  /\ requests' = requests + 1
  /\ req' = [req EXCEPT ![p] = what]
  /\ answer' = [answer EXCEPT ![p] = "none"]
  /\ Goto(p, "lock")
  /\ UNCHANGED <<files, trust, created, engine, mu, cs, world, faults>>

Lock(p) ==
  /\ pc[p] = "lock"
  /\ mu = Nobody
  /\ mu' = p
  /\ Goto(p, req[p])
  /\ UNCHANGED <<files, trust, created, engine, req, answer, cs, world, counts>>

\* The deferred Unlock and the answer; main starts serving, with HTTPS or not.
Return(p, result) ==
  /\ Goto(p, "idle")
  /\ mu' = IF mu = p THEN Nobody ELSE mu
  /\ answer' = [answer EXCEPT ![p] = result]
  /\ cs' = Absent
  /\ phase' = IF p = Main THEN "serving" ELSE phase
  /\ UNCHANGED <<req, conn, portTaken>>

Continue(p, label) == Goto(p, label) /\ UNCHANGED <<mu, req, answer, world>>

\* Enabling what is on: the CA is installed if none of its name is trusted.
BeginEnable(p) ==
  /\ pc[p] = "enable"
  /\ \/ ~httpsOn /\ Continue(p, "loadCA") /\ UNCHANGED cs
     \/ /\ httpsOn
        /\ certs # Absent /\ ~CATrusted
        /\ Continue(p, "install") /\ UNCHANGED cs
     \/ /\ httpsOn
        /\ ~(certs # Absent /\ ~CATrusted)
        /\ Return(p, "ok")
  /\ UNCHANGED <<files, trust, created, engine, counts>>

\* Mutant of LoadCA: what pem.Decode says is not looked at.
LoadCA_unparsed(p) ==
  /\ pc[p] = "loadCA"
  /\ crt # Absent /\ key # Absent
  /\ cs' = [crt |-> crt, key |-> key, leafs |-> NoLeafs]
  /\ Continue(p, IF p = Main THEN "listen" ELSE "trust")
  /\ UNCHANGED <<files, trust, created, engine, counts>>

\* LoadOrCreateCA: both files can be read.  Whether they belong together is not
\* looked at.
LoadCA(p) ==
  /\ pc[p] = "loadCA"
  /\ crt # Absent /\ key # Absent
  /\ \/ Bad \in {crt, key} /\ Return(p, "error")
     \/ /\ Bad \notin {crt, key}
        /\ cs' = [crt |-> crt, key |-> key, leafs |-> NoLeafs]
        /\ Continue(p, IF p = Main THEN "listen" ELSE "trust")
  /\ UNCHANGED <<files, trust, created, engine, counts>>

\* LoadOrCreateCA: a file is missing, so a CA is made; first its certificate is
\* written.  A write that fails leaves the old file, or one that is cut short.
CreateCA(p) ==
  /\ pc[p] = "loadCA"
  /\ crt = Absent \/ key = Absent
  /\ \/ /\ created < MaxCA
        /\ created' = created + 1
        /\ crt' = created'
        /\ cs' = [crt |-> created', key |-> created', leafs |-> NoLeafs]
        /\ Continue(p, "writeKey")
        /\ UNCHANGED faults
     \/ Fault("disk") /\ crt' \in {crt, Bad} /\ Return(p, "error") /\ UNCHANGED created
  /\ UNCHANGED <<key, leafFile, trust, engine, requests>>

\* Mutant of WriteKey: the key stays in memory.
WriteKey_memoryOnly(p) ==
  /\ pc[p] = "writeKey"
  /\ Continue(p, IF p = Main THEN "listen" ELSE "trust")
  /\ UNCHANGED <<files, trust, created, engine, cs, counts>>

WriteKey(p) ==
  /\ pc[p] = "writeKey"
  /\ \/ /\ key' = cs.key
        /\ Continue(p, IF p = Main THEN "listen" ELSE "trust")
        /\ UNCHANGED <<cs, faults>>
     \/ Fault("disk") /\ key' \in {key, Bad} /\ Return(p, "error")
  /\ UNCHANGED <<crt, leafFile, trust, created, engine, requests>>

CheckTrust(p) ==
  /\ pc[p] = "trust"
  /\ Continue(p, IF CATrusted THEN "listen" ELSE "install")
  /\ UNCHANGED <<files, trust, created, engine, cs, counts>>

\* Mutant of InstallCA: the error path keeps the lock.
InstallCA_keepsLock(p) ==
  /\ pc[p] = "install"
  /\ \/ /\ trust' = trust \cup ({crt} \cap CA)
        /\ IF httpsOn THEN Return(p, "ok") ELSE Continue(p, "listen") /\ UNCHANGED cs
        /\ UNCHANGED faults
     \/ /\ Fault("certutil")
        /\ Goto(p, "idle")
        /\ answer' = [answer EXCEPT ![p] = "error"]
        /\ UNCHANGED <<trust, mu, req, cs, world>>
  /\ UNCHANGED <<files, created, engine, requests>>

\* certutil -addstore of the file ca.crt; it may fail for want of rights.
InstallCA(p) ==
  /\ pc[p] = "install"
  /\ \/ /\ trust' = trust \cup ({crt} \cap CA)
        /\ IF httpsOn THEN Return(p, "ok") ELSE Continue(p, "listen") /\ UNCHANGED cs
        /\ UNCHANGED faults
     \/ Fault("certutil") /\ Return(p, "error") /\ UNCHANGED trust
  /\ UNCHANGED <<files, created, engine, requests>>

\* Mutant of Listen: the store is not handed to the engine.
Listen_noStore(p) ==
  /\ pc[p] = "listen"
  /\ \/ ~portTaken /\ ~tlsSrv /\ tlsSrv' = TRUE /\ Continue(p, "on") /\ UNCHANGED cs
     \/ (portTaken \/ tlsSrv) /\ Return(p, "error") /\ UNCHANGED tlsSrv
  /\ UNCHANGED <<files, trust, created, certs, httpsOn, counts>>

\* Mutant of Listen: HTTPS counts as on before the port is had.
Listen_onFirst(p) ==
  /\ pc[p] = "listen"
  /\ certs' = cs
  /\ httpsOn' = TRUE
  /\ \/ ~portTaken /\ ~tlsSrv /\ tlsSrv' = TRUE /\ Continue(p, "on") /\ UNCHANGED cs
     \/ (portTaken \/ tlsSrv) /\ Return(p, "error") /\ UNCHANGED tlsSrv
  /\ UNCHANGED <<files, trust, created, counts>>

\* e.certs is set; then startHTTPS listens and serves, or finds the port taken.
Listen(p) ==
  /\ pc[p] = "listen"
  /\ certs' = cs
  /\ \/ ~portTaken /\ ~tlsSrv /\ tlsSrv' = TRUE /\ Continue(p, "on") /\ UNCHANGED cs
     \/ (portTaken \/ tlsSrv) /\ Return(p, "error") /\ UNCHANGED tlsSrv
  /\ UNCHANGED <<files, trust, created, httpsOn, counts>>

\* startHTTPS ends: until now handshakes came in and http was not redirected.
SwitchOn(p) ==
  /\ pc[p] = "on"
  /\ httpsOn' = TRUE
  /\ Return(p, "ok")
  /\ UNCHANGED <<files, trust, created, certs, tlsSrv, counts>>

\* Mutant of BeginDisable: the listener stays open.
BeginDisable_keepsListener(p) ==
  /\ pc[p] = "disable"
  /\ \/ ~httpsOn /\ Return(p, "ok")
     \/ httpsOn /\ Continue(p, "delstore") /\ UNCHANGED cs
  /\ UNCHANGED <<files, trust, created, engine, counts>>

\* Disabling what is off changes nothing; else the listener is closed first.
BeginDisable(p) ==
  /\ pc[p] = "disable"
  /\ \/ ~httpsOn /\ Return(p, "ok") /\ UNCHANGED engine
     \/ /\ httpsOn
        /\ tlsSrv' = FALSE
        /\ Continue(p, IF certs # Absent THEN "delstore" ELSE "off")
        /\ UNCHANGED <<certs, httpsOn, cs>>
  /\ UNCHANGED <<files, trust, created, counts>>

\* UninstallCA: certutil -delstore by the common name; if it fails, nothing else
\* is undone.
DeleteFromStore(p) ==
  /\ pc[p] = "delstore"
  /\ \/ trust' = {} /\ Continue(p, "removeCrt") /\ UNCHANGED <<cs, faults>>
     \/ Fault("certutil") /\ Return(p, "error") /\ UNCHANGED trust
  /\ UNCHANGED <<files, created, engine, requests>>

\* os.Remove and os.RemoveAll: what cannot be deleted stays, and nobody is told.
RemoveCrt(p) ==
  /\ pc[p] = "removeCrt"
  /\ \/ crt' = Absent /\ UNCHANGED faults
     \/ Fault("disk") /\ UNCHANGED crt
  /\ Continue(p, "removeKey")
  /\ UNCHANGED <<key, leafFile, trust, created, engine, cs, requests>>

RemoveKey(p) ==
  /\ pc[p] = "removeKey"
  /\ \/ key' = Absent /\ UNCHANGED faults
     \/ Fault("disk") /\ UNCHANGED key
  /\ Continue(p, "removeLeafs")
  /\ UNCHANGED <<crt, leafFile, trust, created, engine, cs, requests>>

RemoveLeafs(p) ==
  /\ pc[p] = "removeLeafs"
  /\ \/ leafFile' = NoLeafs /\ UNCHANGED faults
     \/ Fault("disk") /\ UNCHANGED leafFile
  /\ Continue(p, "off")
  /\ UNCHANGED <<crt, key, trust, created, engine, cs, requests>>

SwitchOff(p) ==
  /\ pc[p] = "off"
  /\ certs' = Absent
  /\ httpsOn' = FALSE
  /\ Return(p, "ok")
  /\ UNCHANGED <<files, trust, created, tlsSrv, counts>>

EnableStep(p) ==
  \/ BeginEnable(p)
  \/ LoadCA(p)
  \/ CreateCA(p)
  \/ WriteKey(p)
  \/ CheckTrust(p)
  \/ InstallCA(p)
  \/ Listen(p)
  \/ SwitchOn(p)

DisableStep(p) ==
  \/ BeginDisable(p)
  \/ DeleteFromStore(p)
  \/ RemoveCrt(p)
  \/ RemoveKey(p)
  \/ RemoveLeafs(p)
  \/ SwitchOff(p)

Step(p) == Lock(p) \/ EnableStep(p) \/ DisableStep(p)

-----------------------------------------------------------------------------
(* TLS handshakes.                                                         *)

Hello(c, d) ==
  /\ tlsSrv
  /\ conn[c] = Absent
  /\ conn' = [conn EXCEPT ![c] = [domain |-> d, store |-> Absent]]
  /\ UNCHANGED <<files, trust, created, engine, threads, portTaken, phase, counts>>

EndHandshake(c) == conn' = [conn EXCEPT ![c] = Absent]

\* GetCertificate reads e.certs; without one it panics, which net/http recovers.
GetCertificate(c) ==
  /\ conn[c] # Absent
  /\ conn[c].store = Absent
  /\ \/ certs # Absent /\ conn' = [conn EXCEPT ![c].store = certs]
     \/ certs = Absent /\ EndHandshake(c)
  /\ UNCHANGED <<files, trust, created, engine, threads, portTaken, phase, counts>>

\* The CertStore of the handshake is the one that the engine still has.
SameStore(s) == certs # Absent /\ s.crt = certs.crt /\ s.key = certs.key

\* The leaf in the memory of the store that the handshake uses.
InMemory(s, d) == IF SameStore(s) THEN certs.leafs[d] ELSE s.leafs[d]

\* The leaf that Leaf finds or makes: memory, file, or signed now; signing fails
\* with a key that is not the one of the certificate.
LeafFor(s, d) ==
  CASE InMemory(s, d) # Absent                             -> InMemory(s, d)
    [] InMemory(s, d) = Absent /\ leafFile[d] # Absent     -> leafFile[d]
    [] OTHER -> IF s.crt = s.key THEN s.crt ELSE Absent

\* Leaf, under the mutex of the CertStore only: a leaf just signed is written to
\* certs/, whatever has become of the CA.
Leaf(c) ==
  LET s == conn[c].store
      d == conn[c].domain
  IN
  /\ conn[c] # Absent
  /\ s # Absent
  /\ leafFile' = IF InMemory(s, d) = Absent /\ leafFile[d] = Absent
                 THEN [leafFile EXCEPT ![d] = LeafFor(s, d)]
                 ELSE leafFile
  /\ certs' = IF SameStore(s) THEN [certs EXCEPT !.leafs[d] = LeafFor(s, d)]
              ELSE certs
  /\ EndHandshake(c)
  /\ UNCHANGED <<crt, key, trust, created, tlsSrv, httpsOn, threads, portTaken,
                 phase, counts>>

-----------------------------------------------------------------------------
(* The process and its surroundings.                                       *)

\* The process is ended anywhere; a file that was being written is cut short.
Kill ==
  /\ Fault("kill")
  /\ phase # "down"
  /\ phase' = "down"
  /\ \/ UNCHANGED <<crt, key>>
     \/ /\ \E p \in Threads : pc[p] = "writeKey"
        /\ \/ key' = Bad /\ UNCHANGED crt
           \/ crt' = Bad /\ UNCHANGED key
  /\ certs' = Absent /\ tlsSrv' = FALSE /\ httpsOn' = FALSE
  /\ mu' = Nobody
  /\ pc' = [p \in Threads |-> "idle"]
  /\ req' = [p \in Threads |-> "none"]
  /\ answer' = [p \in Threads |-> "none"]
  /\ cs' = Absent
  /\ conn' = [c \in Conns |-> Absent]
  /\ UNCHANGED <<leafFile, trust, created, portTaken, requests>>

\* The engine starts: with a ca.crt it loads the CA and listens before it serves.
Start ==
  /\ phase = "down"
  /\ \/ crt # Absent /\ phase' = "boot" /\ Goto(Main, "loadCA")
     \/ crt = Absent /\ phase' = "serving" /\ UNCHANGED pc
  /\ UNCHANGED <<files, trust, created, engine, mu, req, answer, cs, conn,
                 portTaken, counts>>

\* Another program takes port 443, or gives it back.
OtherProgram ==
  /\ ~tlsSrv
  /\ \/ portTaken /\ UNCHANGED faults
     \/ ~portTaken /\ Fault("port")
  /\ portTaken' = ~portTaken
  /\ UNCHANGED <<files, trust, created, engine, threads, conn, phase, requests>>

\* The data directory is replaced while the engine does not run (a reinstallation,
\* another -data): no CA in it, but the old one still in the trust store.
ResetData ==
  /\ phase = "down"
  /\ Fault("reset")
  /\ crt' = Absent /\ key' = Absent /\ leafFile' = NoLeafs
  /\ UNCHANGED <<trust, created, engine, threads, world, requests>>

Handshake(c) ==
  \/ \E d \in Domain : Hello(c, d)
  \/ GetCertificate(c)
  \/ Leaf(c)

Next ==
  \/ \E p \in Handlers, what \in {"enable", "disable"} : Request(p, what)
  \/ \E p \in Threads : Step(p)
  \/ \E c \in Conns : Handshake(c)
  \/ Kill
  \/ Start
  \/ OtherProgram
  \/ ResetData

Spec == Init /\ [][Next]_vars

\* Every goroutine that can run is run, and sync.Mutex hands the lock to each that
\* waits for it.
FairSpec ==
  Spec /\ \A p \in Threads : WF_vars(Step(p)) /\ SF_vars(Lock(p))

-----------------------------------------------------------------------------
(* Properties.                                                             *)

\* Every variable is of the right kind.
TypeOK ==
  /\ {crt, key} \subseteq CA \cup {Absent, Bad}
  /\ leafFile \in [Domain -> CA \cup {Absent}]
  /\ trust \subseteq CA
  /\ {certs, cs} \subseteq CertStore \cup {Absent}
  /\ {tlsSrv, httpsOn} \subseteq BOOLEAN
  /\ mu \in Handlers \cup {Nobody}
  /\ answer \in [Threads -> {"none", "ok", "error"}]

\* httpsMu keeps the state together (api.go:34-36): once the engine answers requests,
\* it never is outside a critical section that HTTPS is shown as off and still served.
OffMeansNotServing == phase = "serving" /\ mu = Nobody /\ tlsSrv => httpsOn

\* While 443 is listened on there is a certificate store, across every overlap of
\* requests and restarts (main.go:203).  A handshake that was accepted before the
\* listener was closed may find none: GetCertificate takes no lock.
ServingHasCerts == tlsSrv => certs # Absent

\* "HTTPS comes back when the engine restarts" (README.md:61) from the files alone:
\* whenever HTTPS is on, they hold the CA that is in use.
OnIsRestartable ==
  mu = Nobody /\ phase = "serving" /\ httpsOn =>
    certs # Absent /\ crt = certs.crt /\ key = certs.key

Answered(p, what) ==
  req[p] = what /\ answer[p] = "none" /\ answer'[p] = "ok"

\* "Installed again if the CA was replaced and is not in the trust store"
\* (api.go:267-269, 283): enabling that succeeds leaves the CA in use trusted.
EnableTrustsCA ==
  [][\A p \in Handlers : Answered(p, "enable") =>
       certs' # Absent /\ certs'.crt \in trust']_vars

\* "Switch it off in the panel and on again" as the cure of a missing listener
\* (api.go:377): enabling that succeeds leaves the listener open.
EnableMeansServing ==
  [][\A p \in Handlers : Answered(p, "enable") => tlsSrv']_vars

\* "A complete rollback: the CA is deleted from the trust store" (README.md:63):
\* disabling that succeeds leaves no CA of LocalMap trusted.
DisableMeansUntrusted ==
  [][\A p \in Handlers : Answered(p, "disable") => trust' = {}]_vars

\* "A complete rollback: ca.crt, ca.key and certs/ are deleted" (README.md:63-64):
\* they stay deleted as long as a successful disabling is the last request.
RollbackComplete ==
  \A p \in Handlers : req[p] = "disable" /\ answer[p] = "ok" =>
    crt = Absent /\ key = Absent /\ leafFile = NoLeafs

\* "A leaf certificate is signed on demand for each domain" (README.md:57): the leafs
\* in use are signed by the CA in use.
ServedLeafsOfCA ==
  certs # Absent => \A d \in Domain : certs.leafs[d] \in {certs.crt, Absent}

\* "With a ca.crt the engine listens on 443 again after a restart" (README.md:61).
RestartResumes ==
  [][phase = "boot" /\ phase' = "serving" /\ ~portTaken => tlsSrv']_vars

Switch == INSTANCE HttpsSwitch WITH on <- httpsOn, listening <- tlsSrv

\* To requests and handshakes, which take no lock, all of this is a switch of which
\* the listener is always the first to move, opening and closing, whatever fails half
\* way: no request is redirected to a listener that is not there yet.
IsHttpsSwitch == Switch!Spec

\* No request waits for httpsMu forever, whichever command or listen fails.
RequestsEnd == \A p \in Handlers : pc[p] # "idle" ~> pc[p] = "idle"

=============================================================================
