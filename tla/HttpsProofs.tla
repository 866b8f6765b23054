---------------------------- MODULE HttpsProofs ----------------------------
(***************************************************************************)
(* Theorems about Https for every set of handlers, connections, domains    *)
(* and faults, and for every bound: the lock, what a switched-on HTTPS     *)
(* finds in the files, and that enabling and disabling implement           *)
(* HttpsSwitch.                                                            *)
(***************************************************************************)
EXTENDS Https, TLAPS

-----------------------------------------------------------------------------
(* The inductive invariant.                                                *)

Labels == {"idle", "lock", "enable", "loadCA", "writeKey", "trust", "install",
           "listen", "on", "disable", "delstore", "removeCrt", "removeKey",
           "removeLeafs", "off"}

\* What TypeOK leaves open because no property of a run is about it.
Typed ==
  /\ TypeOK
  /\ created \in 0..MaxCA
  /\ conn \in [Conns -> [domain : Domain, store : CertStore \cup {Absent}]
                          \cup {Absent}]
  /\ pc \in [Threads -> Labels]
  /\ req \in [Threads -> {"none", "enable", "disable"}]
  /\ phase \in {"down", "boot", "serving"}

\* A handler holds httpsMu exactly in the critical section; the main thread
\* enables HTTPS without it, before any handler can run.
Exclusive ==
  /\ \A p \in Handlers : pc[p] \notin {"idle", "lock"} <=> mu = p
  /\ \A p \in Handlers : pc[p] = "lock" => req[p] \in {"enable", "disable"}
  /\ pc[Main] \in {"idle", "loadCA", "writeKey", "listen", "on"}
  /\ pc[Main] # "idle" => phase = "boot"
  /\ phase # "serving" => \A p \in Handlers : pc[p] = "idle"

\* The listener is open only while HTTPS is on or about to be, and where the code
\* takes HTTPS to be on or off, it is.
InStep ==
  /\ tlsSrv => httpsOn \/ \E p \in Threads : pc[p] = "on"
  /\ phase # "serving" => ~httpsOn
  /\ \A p \in Threads :
       /\ pc[p] \in {"loadCA", "writeKey", "trust", "listen"} => ~httpsOn
       /\ pc[p] = "on" => ~httpsOn /\ tlsSrv
       /\ pc[p] \in {"delstore", "removeCrt", "removeKey", "removeLeafs", "off"}
            => httpsOn /\ ~tlsSrv

\* The certificate and the key of s are those in the files.
OfFiles(s) == s # Absent /\ crt = s.crt /\ key = s.key

\* While HTTPS is on the engine's store is the one in the files, until disabling
\* has begun to delete them; a store about to be installed is, too.
StoreOfFiles ==
  /\ httpsOn => \/ OfFiles(certs)
                \/ \E p \in Threads : pc[p] \in {"removeKey", "removeLeafs", "off"}
  /\ \A p \in Threads :
       /\ pc[p] = "writeKey" => cs # Absent /\ crt = cs.crt
       /\ pc[p] \in {"trust", "listen"} \/ (pc[p] = "install" /\ ~httpsOn)
            => OfFiles(cs)
       /\ pc[p] = "on" => OfFiles(certs)

IInv == Typed /\ Exclusive /\ InStep /\ StoreOfFiles

\* A store just made is one, whose leafs are still to be signed.
LEMMA NewStoreType ==
  ASSUME NEW c \in CA, NEW k \in CA
  PROVE  /\ [crt |-> c, key |-> k, leafs |-> NoLeafs] \in CertStore
         /\ [crt |-> c, key |-> k, leafs |-> NoLeafs] # Absent
  BY StoreAssumption DEF CertStore, NoLeafs

\* What a handshake presents is a certificate that some CA has signed, or none.
LEMMA LeafForType ==
  ASSUME Typed, NEW s \in CertStore, NEW d \in Domain
  PROVE  LeafFor(s, d) \in CA \cup {Absent}
  BY DEF Typed, TypeOK, CertStore, LeafFor, InMemory, SameStore

-----------------------------------------------------------------------------
(* Every step keeps the variables of their kinds.                          *)

\* Whatever a thread or a connection does, each variable stays of its kind.
LEMMA TypedStep ==
  ASSUME IInv, [Next]_vars
  PROVE  Typed'
<1> USE ThreadAssumption, FileAssumption, BoundAssumption, StoreAssumption
<1>1. ASSUME NEW p \in Handlers, NEW what \in {"enable", "disable"}, Request(p, what)
      PROVE  Typed'
  BY <1>1
  DEF Request, Goto, Threads, CA, CertStore, Labels, files, engine, world, IInv,
      Typed, TypeOK
<1>2. ASSUME NEW p \in Threads, Lock(p)
      PROVE  Typed'
  BY <1>2
  DEF Lock, Exclusive, Goto, Threads, CA, CertStore, Labels, files, engine, world,
      counts, IInv, Typed, TypeOK
<1>3. ASSUME NEW p \in Threads, BeginEnable(p)
      PROVE  Typed'
  BY <1>3
  DEF BeginEnable, Goto, Continue, Return, Threads, CA, CertStore, Labels, files,
      engine, world, counts, IInv, Typed, TypeOK
<1>4. ASSUME NEW p \in Threads, LoadCA(p)
      PROVE  Typed'
  BY <1>4
  DEF LoadCA, Goto, Continue, Return, Threads, CA, CertStore, NoLeafs, Labels, files,
      engine, world, counts, IInv, Typed, TypeOK
<1>5. ASSUME NEW p \in Threads, CreateCA(p)
      PROVE  Typed'
  BY <1>5
  DEF CreateCA, Goto, Continue, Return, Fault, Threads, CA, CertStore, NoLeafs,
      Labels, engine, world, counts, IInv, Typed, TypeOK
<1>6. ASSUME NEW p \in Threads, WriteKey(p)
      PROVE  Typed'
  <2>1. cs \in CertStore
    BY <1>6 DEF IInv, Typed, TypeOK, StoreOfFiles, WriteKey
  <2> QED
    BY <1>6, <2>1
    DEF WriteKey, Goto, Continue, Return, Fault, Threads, CA, CertStore, Labels,
        engine, world, counts, IInv, Typed, TypeOK
<1>7. ASSUME NEW p \in Threads, CheckTrust(p)
      PROVE  Typed'
  BY <1>7
  DEF CheckTrust, Goto, Continue, Threads, CA, CertStore, Labels, files, engine,
      world, counts, IInv, Typed, TypeOK
<1>8. ASSUME NEW p \in Threads, InstallCA(p)
      PROVE  Typed'
  BY <1>8
  DEF InstallCA, Goto, Continue, Return, Fault, Threads, CA, CertStore, Labels, files,
      engine, world, IInv, Typed, TypeOK
<1>9. ASSUME NEW p \in Threads, Listen(p)
      PROVE  Typed'
  BY <1>9
  DEF Listen, Goto, Continue, Return, Threads, world, CA, CertStore, Labels, files,
      counts, IInv, Typed, TypeOK
<1>24. ASSUME NEW p \in Threads, SwitchOn(p)
       PROVE  Typed'
  BY <1>24
  DEF SwitchOn, Goto, Return, Threads, CA, CertStore, Labels, files, counts, IInv,
      Typed, TypeOK
<1>10. ASSUME NEW p \in Threads, BeginDisable(p)
       PROVE  Typed'
  BY <1>10
  DEF BeginDisable, Goto, Continue, Return, Threads, CA, CertStore, Labels, files,
      engine, world, counts, IInv, Typed, TypeOK
<1>11. ASSUME NEW p \in Threads, DeleteFromStore(p)
       PROVE  Typed'
  BY <1>11
  DEF DeleteFromStore, Goto, Continue, Return, Fault, Threads, CA, CertStore, Labels,
      files, engine, world, IInv, Typed, TypeOK
<1>12. ASSUME NEW p \in Threads, RemoveCrt(p)
       PROVE  Typed'
  BY <1>12
  DEF RemoveCrt, Goto, Continue, Fault, Threads, CA, CertStore, Labels, engine, world,
      counts, IInv, Typed, TypeOK
<1>13. ASSUME NEW p \in Threads, RemoveKey(p)
       PROVE  Typed'
  BY <1>13
  DEF RemoveKey, Goto, Continue, Fault, Threads, CA, CertStore, Labels, engine, world,
      counts, IInv, Typed, TypeOK
<1>14. ASSUME NEW p \in Threads, RemoveLeafs(p)
       PROVE  Typed'
  BY <1>14
  DEF RemoveLeafs, Goto, Continue, Fault, Threads, CA, CertStore, NoLeafs, Labels,
      engine, world, counts, IInv, Typed, TypeOK
<1>15. ASSUME NEW p \in Threads, SwitchOff(p)
       PROVE  Typed'
  BY <1>15
  DEF SwitchOff, Goto, Return, Threads, CA, CertStore, Labels, files, counts, IInv,
      Typed, TypeOK
<1>16. ASSUME NEW c \in Conns, NEW d \in Domain, Hello(c, d)
       PROVE  Typed'
  BY <1>16
  DEF Hello, Threads, CA, CertStore, Labels, files, engine, threads, counts, IInv,
      Typed, TypeOK
<1>17. ASSUME NEW c \in Conns, GetCertificate(c)
       PROVE  Typed'
  BY <1>17
  DEF GetCertificate, EndHandshake, Threads, CA, CertStore, Labels, files, engine,
      threads, counts, IInv, Typed, TypeOK
<1>18. ASSUME NEW c \in Conns, Leaf(c)
       PROVE  Typed'
  BY <1>18
  DEF Leaf, EndHandshake, LeafFor, InMemory, SameStore, Threads, CA, CertStore,
      Labels, threads, counts, IInv, Typed, TypeOK
<1>19. ASSUME Kill
       PROVE  Typed'
  BY <1>19 DEF Kill, Fault, Threads, CA, CertStore, Labels, IInv, Typed, TypeOK
<1>20. ASSUME Start
       PROVE  Typed'
  BY <1>20
  DEF Start, Goto, Threads, CA, CertStore, Labels, files, engine, counts, IInv, Typed,
      TypeOK
<1>21. ASSUME OtherProgram
       PROVE  Typed'
  BY <1>21
  DEF OtherProgram, Fault, Threads, CA, CertStore, Labels, files, engine, threads,
      IInv, Typed, TypeOK
<1>22. ASSUME ResetData
       PROVE  Typed'
  BY <1>22
  DEF ResetData, Fault, Threads, CA, CertStore, NoLeafs, Labels, engine, threads,
      world, IInv, Typed, TypeOK
<1>23. ASSUME UNCHANGED vars
       PROVE  Typed'
  BY <1>23
  DEF vars, Threads, CA, CertStore, Labels, files, engine, threads, world, counts,
      IInv, Typed, TypeOK
<1> QED
  BY <1>1, <1>2, <1>3, <1>4, <1>5, <1>6, <1>7, <1>8, <1>9, <1>10, <1>11, <1>12, <1>13,
  <1>14, <1>15, <1>16, <1>17, <1>18, <1>19, <1>20, <1>21, <1>22, <1>23,
  <1>24
  DEF Next, Step, EnableStep, DisableStep, Handshake

\* Whoever is in the critical section stays alone in it.
LEMMA ExclusiveStep ==
  ASSUME IInv, [Next]_vars
  PROVE  Exclusive'
<1> USE ThreadAssumption, FileAssumption, BoundAssumption, StoreAssumption
<1>1. ASSUME NEW p \in Handlers, NEW what \in {"enable", "disable"}, Request(p, what)
      PROVE  Exclusive'
  BY <1>1
  DEF Request, Goto, Threads, files, engine, world, IInv, Typed, TypeOK, Labels,
      Exclusive
<1>2. ASSUME NEW p \in Threads, Lock(p)
      PROVE  Exclusive'
  BY <1>2
  DEF Lock, Goto, Threads, files, engine, world, counts, IInv, Typed, TypeOK, Labels,
      Exclusive
<1>3. ASSUME NEW p \in Threads, BeginEnable(p)
      PROVE  Exclusive'
  BY <1>3
  DEF BeginEnable, Goto, Continue, Return, Threads, files, engine, world, counts,
      IInv, Typed, TypeOK, Labels, Exclusive
<1>4. ASSUME NEW p \in Threads, LoadCA(p)
      PROVE  Exclusive'
  BY <1>4
  DEF LoadCA, Goto, Continue, Return, Threads, files, engine, world, counts, IInv,
      Typed, TypeOK, Labels, Exclusive
<1>5. ASSUME NEW p \in Threads, CreateCA(p)
      PROVE  Exclusive'
  BY <1>5
  DEF CreateCA, Goto, Continue, Return, Fault, Threads, engine, world, counts, IInv,
      Typed, TypeOK, Labels, Exclusive
<1>6. ASSUME NEW p \in Threads, WriteKey(p)
      PROVE  Exclusive'
  BY <1>6
  DEF WriteKey, Goto, Continue, Return, Fault, Threads, engine, world, counts, IInv,
      Typed, TypeOK, Labels, Exclusive
<1>7. ASSUME NEW p \in Threads, CheckTrust(p)
      PROVE  Exclusive'
  BY <1>7
  DEF CheckTrust, Goto, Continue, Threads, files, engine, world, counts, IInv, Typed,
      TypeOK, Labels, Exclusive
<1>8. ASSUME NEW p \in Threads, InstallCA(p)
      PROVE  Exclusive'
  BY <1>8
  DEF InstallCA, Goto, Continue, Return, Fault, Threads, files, engine, world, IInv,
      Typed, TypeOK, Labels, Exclusive
<1>9. ASSUME NEW p \in Threads, Listen(p)
      PROVE  Exclusive'
  BY <1>9
  DEF Listen, Goto, Continue, Return, Threads, world, files, counts, IInv, Typed,
      TypeOK, Labels, Exclusive
<1>24. ASSUME NEW p \in Threads, SwitchOn(p)
       PROVE  Exclusive'
  BY <1>24
  DEF SwitchOn, Goto, Return, Threads, files, counts, IInv, Typed, TypeOK, Labels,
      Exclusive
<1>10. ASSUME NEW p \in Threads, BeginDisable(p)
       PROVE  Exclusive'
  BY <1>10
  DEF BeginDisable, Goto, Continue, Return, Threads, files, engine, world, counts,
      IInv, Typed, TypeOK, Labels, Exclusive
<1>11. ASSUME NEW p \in Threads, DeleteFromStore(p)
       PROVE  Exclusive'
  BY <1>11
  DEF DeleteFromStore, Goto, Continue, Return, Fault, Threads, files, engine, world,
      IInv, Typed, TypeOK, Labels, Exclusive
<1>12. ASSUME NEW p \in Threads, RemoveCrt(p)
       PROVE  Exclusive'
  BY <1>12
  DEF RemoveCrt, Goto, Continue, Fault, Threads, engine, world, counts, IInv, Typed,
      TypeOK, Labels, Exclusive
<1>13. ASSUME NEW p \in Threads, RemoveKey(p)
       PROVE  Exclusive'
  BY <1>13
  DEF RemoveKey, Goto, Continue, Fault, Threads, engine, world, counts, IInv, Typed,
      TypeOK, Labels, Exclusive
<1>14. ASSUME NEW p \in Threads, RemoveLeafs(p)
       PROVE  Exclusive'
  BY <1>14
  DEF RemoveLeafs, Goto, Continue, Fault, Threads, engine, world, counts, IInv, Typed,
      TypeOK, Labels, Exclusive
<1>15. ASSUME NEW p \in Threads, SwitchOff(p)
       PROVE  Exclusive'
  BY <1>15
  DEF SwitchOff, Goto, Return, Threads, files, counts, IInv, Typed, TypeOK, Labels,
      Exclusive
<1>16. ASSUME NEW c \in Conns, NEW d \in Domain, Hello(c, d)
       PROVE  Exclusive'
  BY <1>16
  DEF Hello, Threads, files, engine, threads, counts, IInv, Typed, TypeOK, Labels,
      Exclusive
<1>17. ASSUME NEW c \in Conns, GetCertificate(c)
       PROVE  Exclusive'
  BY <1>17
  DEF GetCertificate, EndHandshake, Threads, files, engine, threads, counts, IInv,
      Typed, TypeOK, Labels, Exclusive
<1>18. ASSUME NEW c \in Conns, Leaf(c)
       PROVE  Exclusive'
  BY <1>18
  DEF Leaf, EndHandshake, SameStore, Threads, threads, counts, IInv, Typed, TypeOK,
      Labels, Exclusive
<1>19. ASSUME Kill
       PROVE  Exclusive'
  BY <1>19 DEF Kill, Fault, Threads, IInv, Typed, TypeOK, Labels, Exclusive
<1>20. ASSUME Start
       PROVE  Exclusive'
  BY <1>20
  DEF Start, Goto, Threads, files, engine, counts, IInv, Typed, TypeOK, Labels,
      Exclusive
<1>21. ASSUME OtherProgram
       PROVE  Exclusive'
  BY <1>21
  DEF OtherProgram, Fault, Threads, files, engine, threads, IInv, Typed, TypeOK,
      Labels, Exclusive
<1>22. ASSUME ResetData
       PROVE  Exclusive'
  BY <1>22
  DEF ResetData, Fault, Threads, engine, threads, world, IInv, Typed, TypeOK, Labels,
      Exclusive
<1>23. ASSUME UNCHANGED vars
       PROVE  Exclusive'
  BY <1>23
  DEF vars, Threads, files, engine, threads, world, counts, IInv, Typed, TypeOK,
      Labels, Exclusive
<1> QED
  BY <1>1, <1>2, <1>3, <1>4, <1>5, <1>6, <1>7, <1>8, <1>9, <1>10, <1>11, <1>12, <1>13,
  <1>14, <1>15, <1>16, <1>17, <1>18, <1>19, <1>20, <1>21, <1>22, <1>23,
  <1>24
  DEF Next, Step, EnableStep, DisableStep, Handshake

\* Where the code takes HTTPS to be on or off, it is.
LEMMA InStepStep ==
  ASSUME IInv, [Next]_vars
  PROVE  InStep'
<1> USE ThreadAssumption, FileAssumption, BoundAssumption, StoreAssumption
<1>1. ASSUME NEW p \in Handlers, NEW what \in {"enable", "disable"}, Request(p, what)
      PROVE  InStep'
  BY <1>1
  DEF Request, Goto, Threads, files, engine, world, IInv, Typed, TypeOK, Labels,
      Exclusive, InStep
<1>2. ASSUME NEW p \in Threads, Lock(p)
      PROVE  InStep'
  BY <1>2
  DEF Lock, Goto, Threads, files, engine, world, counts, IInv, Typed, TypeOK, Labels,
      Exclusive, InStep
<1>3. ASSUME NEW p \in Threads, BeginEnable(p)
      PROVE  InStep'
  BY <1>3
  DEF BeginEnable, Goto, Continue, Return, Threads, files, engine, world, counts,
      IInv, Typed, TypeOK, Labels, Exclusive, InStep
<1>4. ASSUME NEW p \in Threads, LoadCA(p)
      PROVE  InStep'
  BY <1>4
  DEF LoadCA, Goto, Continue, Return, Threads, files, engine, world, counts, IInv,
      Typed, TypeOK, Labels, Exclusive, InStep
<1>5. ASSUME NEW p \in Threads, CreateCA(p)
      PROVE  InStep'
  BY <1>5
  DEF CreateCA, Goto, Continue, Return, Fault, Threads, engine, world, counts, IInv,
      Typed, TypeOK, Labels, Exclusive, InStep
<1>6. ASSUME NEW p \in Threads, WriteKey(p)
      PROVE  InStep'
  BY <1>6
  DEF WriteKey, Goto, Continue, Return, Fault, Threads, engine, world, counts, IInv,
      Typed, TypeOK, Labels, Exclusive, InStep
<1>7. ASSUME NEW p \in Threads, CheckTrust(p)
      PROVE  InStep'
  BY <1>7
  DEF CheckTrust, Goto, Continue, Threads, files, engine, world, counts, IInv, Typed,
      TypeOK, Labels, Exclusive, InStep
<1>8. ASSUME NEW p \in Threads, InstallCA(p)
      PROVE  InStep'
  BY <1>8
  DEF InstallCA, Goto, Continue, Return, Fault, Threads, files, engine, world, IInv,
      Typed, TypeOK, Labels, Exclusive, InStep
<1>9. ASSUME NEW p \in Threads, Listen(p)
      PROVE  InStep'
  BY <1>9
  DEF Listen, Goto, Continue, Return, Threads, world, files, counts, IInv, Typed,
      TypeOK, Labels, Exclusive, InStep
<1>24. ASSUME NEW p \in Threads, SwitchOn(p)
       PROVE  InStep'
  BY <1>24
  DEF SwitchOn, Goto, Return, Threads, files, counts, IInv, Typed, TypeOK, Labels,
      Exclusive, InStep
<1>10. ASSUME NEW p \in Threads, BeginDisable(p)
       PROVE  InStep'
  BY <1>10
  DEF BeginDisable, Goto, Continue, Return, Threads, files, engine, world, counts,
      IInv, Typed, TypeOK, Labels, Exclusive, InStep
<1>11. ASSUME NEW p \in Threads, DeleteFromStore(p)
       PROVE  InStep'
  BY <1>11
  DEF DeleteFromStore, Goto, Continue, Return, Fault, Threads, files, engine, world,
      IInv, Typed, TypeOK, Labels, Exclusive, InStep
<1>12. ASSUME NEW p \in Threads, RemoveCrt(p)
       PROVE  InStep'
  BY <1>12
  DEF RemoveCrt, Goto, Continue, Fault, Threads, engine, world, counts, IInv, Typed,
      TypeOK, Labels, Exclusive, InStep
<1>13. ASSUME NEW p \in Threads, RemoveKey(p)
       PROVE  InStep'
  BY <1>13
  DEF RemoveKey, Goto, Continue, Fault, Threads, engine, world, counts, IInv, Typed,
      TypeOK, Labels, Exclusive, InStep
<1>14. ASSUME NEW p \in Threads, RemoveLeafs(p)
       PROVE  InStep'
  BY <1>14
  DEF RemoveLeafs, Goto, Continue, Fault, Threads, engine, world, counts, IInv, Typed,
      TypeOK, Labels, Exclusive, InStep
<1>15. ASSUME NEW p \in Threads, SwitchOff(p)
       PROVE  InStep'
  BY <1>15
  DEF SwitchOff, Goto, Return, Threads, files, counts, IInv, Typed, TypeOK, Labels,
      Exclusive, InStep
<1>16. ASSUME NEW c \in Conns, NEW d \in Domain, Hello(c, d)
       PROVE  InStep'
  BY <1>16
  DEF Hello, Threads, files, engine, threads, counts, IInv, Typed, TypeOK, Labels,
      Exclusive, InStep
<1>17. ASSUME NEW c \in Conns, GetCertificate(c)
       PROVE  InStep'
  BY <1>17
  DEF GetCertificate, EndHandshake, Threads, files, engine, threads, counts, IInv,
      Typed, TypeOK, Labels, Exclusive, InStep
<1>18. ASSUME NEW c \in Conns, Leaf(c)
       PROVE  InStep'
  BY <1>18
  DEF Leaf, EndHandshake, SameStore, Threads, threads, counts, IInv, Typed, TypeOK,
      Labels, Exclusive, InStep
<1>19. ASSUME Kill
       PROVE  InStep'
  BY <1>19 DEF Kill, Fault, Threads, IInv, Typed, TypeOK, Labels, Exclusive, InStep
<1>20. ASSUME Start
       PROVE  InStep'
  BY <1>20
  DEF Start, Goto, Threads, files, engine, counts, IInv, Typed, TypeOK, Labels,
      Exclusive, InStep
<1>21. ASSUME OtherProgram
       PROVE  InStep'
  BY <1>21
  DEF OtherProgram, Fault, Threads, files, engine, threads, IInv, Typed, TypeOK,
      Labels, Exclusive, InStep
<1>22. ASSUME ResetData
       PROVE  InStep'
  BY <1>22
  DEF ResetData, Fault, Threads, engine, threads, world, IInv, Typed, TypeOK, Labels,
      Exclusive, InStep
<1>23. ASSUME UNCHANGED vars
       PROVE  InStep'
  BY <1>23
  DEF vars, Threads, files, engine, threads, world, counts, IInv, Typed, TypeOK,
      Labels, Exclusive, InStep
<1> QED
  BY <1>1, <1>2, <1>3, <1>4, <1>5, <1>6, <1>7, <1>8, <1>9, <1>10, <1>11, <1>12, <1>13,
  <1>14, <1>15, <1>16, <1>17, <1>18, <1>19, <1>20, <1>21, <1>22, <1>23,
  <1>24
  DEF Next, Step, EnableStep, DisableStep, Handshake

\* A store in use, or about to be, keeps agreeing with the files.
LEMMA StoreStep ==
  ASSUME IInv, [Next]_vars
  PROVE  StoreOfFiles'
<1> USE ThreadAssumption, FileAssumption, BoundAssumption, StoreAssumption
<1>1. ASSUME NEW p \in Handlers, NEW what \in {"enable", "disable"}, Request(p, what)
      PROVE  StoreOfFiles'
  BY <1>1
  DEF Request, Goto, Threads, files, engine, world, IInv, Typed, TypeOK, Labels, CA,
      CertStore, Exclusive, InStep, StoreOfFiles, OfFiles
<1>2. ASSUME NEW p \in Threads, Lock(p)
      PROVE  StoreOfFiles'
  BY <1>2
  DEF Lock, Goto, Threads, files, engine, world, counts, IInv, Typed, TypeOK, Labels,
      CA, CertStore, Exclusive, InStep, StoreOfFiles, OfFiles
<1>3. ASSUME NEW p \in Threads, BeginEnable(p)
      PROVE  StoreOfFiles'
  BY <1>3
  DEF BeginEnable, Goto, Continue, Return, Threads, files, engine, world, counts,
      IInv, Typed, TypeOK, Labels, CA, CertStore, Exclusive, InStep, StoreOfFiles,
      OfFiles
<1>4. ASSUME NEW p \in Threads, LoadCA(p)
      PROVE  StoreOfFiles'
  <2>1. Bad \notin {crt, key} => crt \in CA /\ key \in CA
    BY <1>4 DEF LoadCA, IInv, Typed, TypeOK
  <2>2. Bad \notin {crt, key} => [crt |-> crt, key |-> key, leafs |-> NoLeafs] # Absent
    BY <2>1, NewStoreType
  <2> QED
    BY <1>4, <2>2
    DEF LoadCA, Goto, Continue, Return, Threads, files, engine, world, counts, IInv,
        Typed, TypeOK, Labels, CA, CertStore, Exclusive, InStep, StoreOfFiles, OfFiles
<1>5. ASSUME NEW p \in Threads, CreateCA(p)
      PROVE  StoreOfFiles'
  <2>1. created' = created + 1 /\ created < MaxCA => created' \in CA
    BY DEF IInv, Typed, CA
  <2>2. created' = created + 1 /\ created < MaxCA =>
          [crt |-> created', key |-> created', leafs |-> NoLeafs] # Absent
    BY <2>1, NewStoreType
  <2> QED
    BY <1>5, <2>2
    DEF CreateCA, Goto, Continue, Return, Fault, Threads, engine, world, counts, IInv,
        Typed, TypeOK, Labels, CA, CertStore, Exclusive, InStep, StoreOfFiles, OfFiles
<1>6. ASSUME NEW p \in Threads, WriteKey(p)
      PROVE  StoreOfFiles'
  BY <1>6
  DEF WriteKey, Goto, Continue, Return, Fault, Threads, engine, world, counts, IInv,
      Typed, TypeOK, Labels, CA, CertStore, Exclusive, InStep, StoreOfFiles, OfFiles
<1>7. ASSUME NEW p \in Threads, CheckTrust(p)
      PROVE  StoreOfFiles'
  BY <1>7
  DEF CheckTrust, Goto, Continue, Threads, files, engine, world, counts, IInv, Typed,
      TypeOK, Labels, CA, CertStore, Exclusive, InStep, StoreOfFiles, OfFiles
<1>8. ASSUME NEW p \in Threads, InstallCA(p)
      PROVE  StoreOfFiles'
  BY <1>8
  DEF InstallCA, Goto, Continue, Return, Fault, Threads, files, engine, world, IInv,
      Typed, TypeOK, Labels, CA, CertStore, Exclusive, InStep, StoreOfFiles, OfFiles
<1>9. ASSUME NEW p \in Threads, Listen(p)
      PROVE  StoreOfFiles'
  BY <1>9
  DEF Listen, Goto, Continue, Return, Threads, world, files, counts, IInv, Typed,
      TypeOK, Labels, CA, CertStore, Exclusive, InStep, StoreOfFiles, OfFiles
<1>24. ASSUME NEW p \in Threads, SwitchOn(p)
       PROVE  StoreOfFiles'
  BY <1>24
  DEF SwitchOn, Goto, Return, Threads, files, counts, IInv, Typed, TypeOK, Labels,
      CA, CertStore, Exclusive, InStep, StoreOfFiles, OfFiles
<1>10. ASSUME NEW p \in Threads, BeginDisable(p)
       PROVE  StoreOfFiles'
  BY <1>10
  DEF BeginDisable, Goto, Continue, Return, Threads, files, engine, world, counts,
      IInv, Typed, TypeOK, Labels, CA, CertStore, Exclusive, InStep, StoreOfFiles,
      OfFiles
<1>11. ASSUME NEW p \in Threads, DeleteFromStore(p)
       PROVE  StoreOfFiles'
  BY <1>11
  DEF DeleteFromStore, Goto, Continue, Return, Fault, Threads, files, engine, world,
      IInv, Typed, TypeOK, Labels, CA, CertStore, Exclusive, InStep, StoreOfFiles,
      OfFiles
<1>12. ASSUME NEW p \in Threads, RemoveCrt(p)
       PROVE  StoreOfFiles'
  BY <1>12
  DEF RemoveCrt, Goto, Continue, Fault, Threads, engine, world, counts, IInv, Typed,
      TypeOK, Labels, CA, CertStore, Exclusive, InStep, StoreOfFiles, OfFiles
<1>13. ASSUME NEW p \in Threads, RemoveKey(p)
       PROVE  StoreOfFiles'
  BY <1>13
  DEF RemoveKey, Goto, Continue, Fault, Threads, engine, world, counts, IInv, Typed,
      TypeOK, Labels, CA, CertStore, Exclusive, InStep, StoreOfFiles, OfFiles
<1>14. ASSUME NEW p \in Threads, RemoveLeafs(p)
       PROVE  StoreOfFiles'
  BY <1>14
  DEF RemoveLeafs, Goto, Continue, Fault, Threads, engine, world, counts, IInv, Typed,
      TypeOK, Labels, CA, CertStore, Exclusive, InStep, StoreOfFiles, OfFiles
<1>15. ASSUME NEW p \in Threads, SwitchOff(p)
       PROVE  StoreOfFiles'
  BY <1>15
  DEF SwitchOff, Goto, Return, Threads, files, counts, IInv, Typed, TypeOK, Labels,
      CA, CertStore, Exclusive, InStep, StoreOfFiles, OfFiles
<1>16. ASSUME NEW c \in Conns, NEW d \in Domain, Hello(c, d)
       PROVE  StoreOfFiles'
  BY <1>16
  DEF Hello, Threads, files, engine, threads, counts, IInv, Typed, TypeOK, Labels, CA,
      CertStore, Exclusive, InStep, StoreOfFiles, OfFiles
<1>17. ASSUME NEW c \in Conns, GetCertificate(c)
       PROVE  StoreOfFiles'
  BY <1>17
  DEF GetCertificate, EndHandshake, Threads, files, engine, threads, counts, IInv,
      Typed, TypeOK, Labels, CA, CertStore, Exclusive, InStep, StoreOfFiles, OfFiles
<1>18. ASSUME NEW c \in Conns, Leaf(c)
       PROVE  StoreOfFiles'
  <2>1. LeafFor(conn[c].store, conn[c].domain) \in CA \cup {Absent}
    BY <1>18, LeafForType DEF Leaf, IInv, Typed
  <2>2. certs # Absent =>
          /\ [certs EXCEPT !.leafs[conn[c].domain] =
                LeafFor(conn[c].store, conn[c].domain)] \in CertStore
          /\ certs'.crt = certs.crt /\ certs'.key = certs.key
    BY <1>18, <2>1 DEF Leaf, IInv, Typed, TypeOK, CertStore
  <2> QED
    BY <1>18, <2>2
    DEF Leaf, EndHandshake, SameStore, Threads, threads, counts, IInv, Typed, TypeOK,
        Labels, CA, CertStore, Exclusive, InStep, StoreOfFiles, OfFiles
<1>19. ASSUME Kill
       PROVE  StoreOfFiles'
  BY <1>19
  DEF Kill, Fault, Threads, IInv, Typed, TypeOK, Labels, CA, CertStore, Exclusive,
      InStep, StoreOfFiles, OfFiles
<1>20. ASSUME Start
       PROVE  StoreOfFiles'
  BY <1>20
  DEF Start, Goto, Threads, files, engine, counts, IInv, Typed, TypeOK, Labels, CA,
      CertStore, Exclusive, InStep, StoreOfFiles, OfFiles
<1>21. ASSUME OtherProgram
       PROVE  StoreOfFiles'
  BY <1>21
  DEF OtherProgram, Fault, Threads, files, engine, threads, IInv, Typed, TypeOK,
      Labels, CA, CertStore, Exclusive, InStep, StoreOfFiles, OfFiles
<1>22. ASSUME ResetData
       PROVE  StoreOfFiles'
  BY <1>22
  DEF ResetData, Fault, Threads, engine, threads, world, IInv, Typed, TypeOK, Labels,
      CA, CertStore, Exclusive, InStep, StoreOfFiles, OfFiles
<1>23. ASSUME UNCHANGED vars
       PROVE  StoreOfFiles'
  BY <1>23
  DEF vars, Threads, files, engine, threads, world, counts, IInv, Typed, TypeOK,
      Labels, CA, CertStore, Exclusive, InStep, StoreOfFiles, OfFiles
<1> QED
  BY <1>1, <1>2, <1>3, <1>4, <1>5, <1>6, <1>7, <1>8, <1>9, <1>10, <1>11, <1>12, <1>13,
  <1>14, <1>15, <1>16, <1>17, <1>18, <1>19, <1>20, <1>21, <1>22, <1>23,
  <1>24
  DEF Next, Step, EnableStep, DisableStep, Handshake

-----------------------------------------------------------------------------
(* The invariants of the runs, for every instance.                         *)

\* The inductive invariant holds in every state of every behaviour.
LEMMA AlwaysIInv == Spec => []IInv
<1>1. Init => IInv
  <2>1. Init => Typed
    <3>1. Init => TypeOK
      BY DEF Init, TypeOK, NoLeafs
    <3>2. Init => conn \in [Conns -> [domain : Domain, store : CertStore \cup {Absent}]
                                      \cup {Absent}]
      BY DEF Init
    <3>3. Init => created \in 0..MaxCA
      BY BoundAssumption DEF Init
    <3>4. Init => /\ pc \in [Threads -> Labels]
                  /\ req \in [Threads -> {"none", "enable", "disable"}]
                  /\ phase \in {"down", "boot", "serving"}
      BY DEF Init, Labels
    <3> QED BY <3>1, <3>2, <3>3, <3>4 DEF Typed
  <2>2. Init => Exclusive /\ InStep /\ StoreOfFiles
    BY ThreadAssumption DEF Init, Exclusive, InStep, StoreOfFiles, Threads
  <2> QED BY <2>1, <2>2 DEF IInv
<1>2. IInv /\ [Next]_vars => IInv'
  BY TypedStep, ExclusiveStep, InStepStep, StoreStep DEF IInv
<1> QED BY <1>1, <1>2, PTL DEF Spec

\* Files, stores, certificates and answers are always of their kinds.
THEOREM TypeCorrect == Spec => []TypeOK
<1>1. IInv => TypeOK
  BY DEF IInv, Typed
<1> QED BY <1>1, AlwaysIInv, PTL

\* Once the engine answers requests, HTTPS shown as off is not served outside the
\* critical section of httpsMu.
THEOREM NeverServedWhileOff == Spec => []OffMeansNotServing
<1>1. ASSUME IInv, phase = "serving", mu = Nobody, NEW p \in Threads
      PROVE  pc[p] # "on"
  BY <1>1, ThreadAssumption DEF IInv, Exclusive, Threads
<1>2. IInv => OffMeansNotServing
  BY <1>1 DEF IInv, InStep, OffMeansNotServing
<1> QED BY <1>2, AlwaysIInv, PTL

\* While 443 is listened on the engine has a certificate store.  (A handshake of before
\* the listener was closed is not covered.)
THEOREM ListenerHasStore == Spec => []ServingHasCerts
<1>1. IInv => ServingHasCerts
  BY DEF IInv, InStep, StoreOfFiles, OfFiles, ServingHasCerts
<1> QED BY <1>1, AlwaysIInv, PTL

\* The files alone bring back the CA in use, at whatever moment between two
\* requests the engine ends.
THEOREM FilesBringItBack == Spec => []OnIsRestartable
<1>1. ASSUME IInv, mu = Nobody, phase = "serving"
      PROVE  \A p \in Threads : pc[p] \notin {"removeKey", "removeLeafs", "off"}
  BY <1>1, ThreadAssumption DEF IInv, Exclusive, Threads
<1>2. IInv => OnIsRestartable
  BY <1>1 DEF IInv, StoreOfFiles, OfFiles, OnIsRestartable
<1> QED BY <1>2, AlwaysIInv, PTL

-----------------------------------------------------------------------------
(* Enabling and disabling implement the switch.                            *)

\* One step of Https is one step of the switch, or none.
LEMMA StepRefines ==
  ASSUME IInv, [Next]_vars
  PROVE  [Switch!Next]_<<httpsOn, tlsSrv>>
<1> USE
DEF Switch!Next, Switch!Listen, Switch!SwitchOn, Switch!Close, Switch!SwitchOff,
    Switch!Kill
<1>1. ASSUME NEW p \in Threads, Listen(p)
      PROVE  Switch!Listen \/ UNCHANGED <<httpsOn, tlsSrv>>
  BY <1>1 DEF Listen, IInv, InStep
<1>7. ASSUME NEW p \in Threads, SwitchOn(p)
      PROVE  Switch!SwitchOn
  BY <1>7 DEF SwitchOn, IInv, InStep
<1>2. ASSUME NEW p \in Threads, BeginDisable(p)
      PROVE  Switch!Close \/ UNCHANGED <<httpsOn, tlsSrv>>
  BY <1>2 DEF BeginDisable, engine, IInv, Typed, TypeOK
<1>3. ASSUME NEW p \in Threads, SwitchOff(p)
      PROVE  Switch!SwitchOff
  BY <1>3 DEF SwitchOff, IInv, InStep
<1>4. ASSUME Kill
      PROVE  Switch!Kill
  BY <1>4 DEF Kill
<1>5. ASSUME NEW p \in Threads,
             \/ Lock(p) \/ BeginEnable(p) \/ LoadCA(p) \/ CreateCA(p)
             \/ WriteKey(p) \/ CheckTrust(p) \/ InstallCA(p)
             \/ DeleteFromStore(p) \/ RemoveCrt(p) \/ RemoveKey(p) \/ RemoveLeafs(p)
      PROVE  UNCHANGED <<httpsOn, tlsSrv>>
  BY <1>5 DEF Lock, BeginEnable, LoadCA, CreateCA, WriteKey, CheckTrust, InstallCA,
              DeleteFromStore, RemoveCrt, RemoveKey, RemoveLeafs, engine
<1>6. ASSUME \/ \E p \in Handlers, what \in {"enable", "disable"} : Request(p, what)
             \/ \E c \in Conns : Handshake(c)
             \/ Start \/ OtherProgram \/ ResetData \/ UNCHANGED vars
      PROVE  UNCHANGED <<httpsOn, tlsSrv>>
  BY <1>6 DEF Request, Handshake, Hello, GetCertificate, Leaf, Start, OtherProgram,
              ResetData, vars, engine
<1> QED
  BY <1>1, <1>2, <1>3, <1>4, <1>5, <1>6, <1>7 DEF Next, Step, EnableStep, DisableStep

\* To requests and handshakes the locks, files, commands and failures are a switch of
\* which the listener is the first to open and the first to close.
THEOREM ImplementsSwitch == Spec => IsHttpsSwitch
<1>1. Init => Switch!Init
  BY DEF Init, Switch!Init
<1>2. IInv /\ [Next]_vars => [Switch!Next]_(Switch!vars)
  BY StepRefines DEF Switch!vars
<1> QED
  BY <1>1, <1>2, AlwaysIInv, PTL DEF Spec, IsHttpsSwitch, Switch!Spec

=============================================================================
