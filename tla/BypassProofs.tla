---------------------------- MODULE BypassProofs ---------------------------
(***************************************************************************)
(* Theorems about ProxyBypass for every set of handlers, users, domains,   *)
(* faults and outside writes, and for every bound: what the critical       *)
(* section keeps together, and under which circumstances the record of     *)
(* ownership is right.                                                     *)
(***************************************************************************)
EXTENDS ProxyBypass, TLAPS

-----------------------------------------------------------------------------
(* The inductive invariant.                                                *)

SyncLabels == {"load", "read", "list", "compute", "write", "broadcast", "save"}

CleanLabels == {"cleanLoad", "cleanRead", "cleanWrite", "cleanBroadcast", "cleanSave"}

Locals == [target : User \cup {Nobody}, entries : SUBSET Entry, mine : SUBSET Entry,
           desired : SUBSET Entry, owned : SUBSET Entry, syncOn : BOOLEAN]

Typed ==
  /\ TypeOK
  /\ cs \in Locals

\* Who is in the critical section holds bypassMu, and what it does fits the request.
Exclusive ==
  /\ \A p \in Threads : pc[p] \notin {"idle", "lock"} <=> mu = p
  /\ phase = "down" => \A p \in Threads : pc[p] = "idle"
  /\ \A p \in Threads :
       /\ pc[p] = "flag" => req[p] \in Toggles
       /\ pc[p] \in SyncLabels => req[p] \in {"on", "sync"}
       /\ pc[p] \in CleanLabels => req[p] = "offClean"

\* A sync that goes on has found the switch on, and it still is.
SwitchedOn ==
  \A p \in Threads : pc[p] \in SyncLabels \ {"load"} => cs.syncOn

\* The current record of ownership.
Record == loadBypassSettings(json).owned

\* Until it has computed, a sync or clean-up goes by the record that is there; the
\* list that it writes is that of a user.
AsRead ==
  \A p \in Threads :
    /\ pc[p] \in {"read", "list", "compute", "cleanRead"} => cs.owned = Record
    /\ pc[p] \in {"list", "compute", "write", "cleanWrite"} => cs.target \in User

IInv == Typed /\ Exclusive /\ ToggleNotUndone /\ SwitchedOn /\ AsRead

-----------------------------------------------------------------------------
(* With one user who does not write in the middle of a sync.               *)

OneUser == \A u, v \in User : u = v

\* The local copy of the list is the list, and what is about to go on record has
\* not been put there by the user.
Unclaimed ==
  /\ \A u \in User : theirs[u] \subseteq override[u]
  /\ \A p \in Threads :
       /\ pc[p] \in {"list", "compute"} => cs.entries = override[cs.target]
       /\ pc[p] \in {"list", "compute", "write", "cleanWrite"}
            => cs.mine = theirs[cs.target]
       /\ pc[p] \in {"write", "broadcast", "save"} =>
            \A u \in User : (cs.owned \ Record) \cap theirs[u] = {}

-----------------------------------------------------------------------------
(* With one user, no kill and no failing save.                             *)

\* The entries of a user's list that LocalMap has put there.
Own(u) == override[u] \ theirs[u]

\* They are on record; between the write and the save they are on the new record.
OnRecord ==
  /\ \/ \A u \in User : Own(u) \subseteq Record
     \/ \E p \in Threads : pc[p] \in {"broadcast", "save", "cleanBroadcast", "cleanSave"}
  /\ \A p \in Threads :
       /\ pc[p] \in {"list", "compute", "write"} => cs.entries \ cs.mine \subseteq cs.owned
       /\ pc[p] \in {"broadcast", "save"} => \A u \in User : Own(u) \subseteq cs.owned
       /\ pc[p] = "cleanWrite" => cs.entries \subseteq cs.mine
       /\ pc[p] \in {"cleanBroadcast", "cleanSave"} => \A u \in User : Own(u) = {}

\* With the switch saved as off, cleaning up finds it off (no failing save).
OffSaved ==
  \A p \in Threads : pc[p] \in CleanLabels => ~loadBypassSettings(json).syncOn

-----------------------------------------------------------------------------
(* The invariant is kept by every step.                                    *)

\* The two entries of a domain are entries.
LEMMA DesiredType ==
  ASSUME NEW S \in SUBSET Domain
  PROVE  desiredBypassEntries(S) \subseteq Entry
  BY DEF desiredBypassEntries, Entry

\* Whatever has become of the file, settings are loaded, and the switch can be set.
LEMMA LoadedType ==
  ASSUME Typed
  PROVE  /\ loadBypassSettings(json) \in Settings
         /\ \A b \in BOOLEAN :
              [loadBypassSettings(json) EXCEPT !.syncOn = b] \in Settings
<1>1. loadBypassSettings(json) \in Settings
  BY DEF Typed, TypeOK, loadBypassSettings, Settings
<1> QED BY <1>1 DEF Settings

\* What TypeOK says of the threads, and what it leaves out.
ThreadsTyped ==
  /\ table \subseteq Domain
  /\ session \in User \cup {Nobody}
  /\ mu \in Threads \cup {Nobody}
  /\ pc \in [Threads -> Labels]
  /\ req \in [Threads -> Toggles \cup {"sync"}]
  /\ answer \in [Threads -> {"none", "ok", "error"}]
  /\ phase \in {"down", "boot", "serving"}
  /\ cs \in Locals

\* The locals of nobody are locals.
LEMMA NoLocalsType == NoLocals \in Locals
  BY DEF NoLocals, Locals

\* A thread that returns leaves locals, lock and answer of their kinds.
LEMMA ReturnType ==
  ASSUME Typed, NEW p \in Threads, NEW result \in {"ok", "error"}, Return(p, result)
  PROVE  ThreadsTyped'
<1>1. pc' \in [Threads -> Labels]
  BY DEF Return, Goto, Typed, TypeOK, Labels
<1> QED BY <1>1, NoLocalsType DEF Return, Typed, TypeOK, ThreadsTyped

\* So does one that goes on, if it leaves its locals of their kind.
LEMMA InsideType ==
  ASSUME Typed, NEW p \in Threads, NEW label \in Labels, Inside(p, label), cs' \in Locals
  PROVE  ThreadsTyped'
  BY DEF Inside, Goto, Typed, TypeOK, ThreadsTyped

\* A write keeps the lists of the others, and the entries of the user are his.
LEMMA WriteType ==
  ASSUME Typed, WriteEntries
  PROVE  /\ override' \in [User -> SUBSET Entry]
         /\ theirs' \in [User -> SUBSET Entry]
  BY DEF WriteEntries, Typed, TypeOK, Locals

\* Each variable stays of its kind.
LEMMA TypedStep ==
  ASSUME IInv, [Next]_vars
  PROVE  Typed'
<1> USE ThreadAssumption, FileAssumption
<1>1. ASSUME NEW p \in Handlers, ChangeMapping(p)
      PROVE  Typed'
  BY <1>1
  DEF ChangeMapping, Ask, Free, Spend, Goto, Threads, registryVars, IInv, Typed, TypeOK,
      Labels, Toggles
<1>2. ASSUME NEW p \in Handlers, NEW what \in Toggles, Toggle(p, what)
      PROVE  Typed'
  BY <1>2
  DEF Toggle, Ask, Free, Spend, Goto, Threads, registryVars, IInv, Typed, TypeOK,
      Labels, Toggles
<1>3. ASSUME NEW p \in Handlers, SelfCheck(p)
      PROVE  Typed'
  BY <1>3
  DEF SelfCheck, Ask, Free, Spend, Goto, Threads, registryVars, IInv, Typed, TypeOK,
      Labels, Toggles
<1>4. ASSUME Tick
      PROVE  Typed'
  BY <1>4
  DEF Tick, Ask, Free, Goto, Threads, registryVars, IInv, Typed, TypeOK, Labels, Toggles
<1>5. ASSUME NEW p \in Threads, Lock(p)
      PROVE  Typed'
  BY <1>5
  DEF Lock, Goto, Threads, registryVars, IInv, Typed, TypeOK, Labels, Toggles,
      SyncLabels, CleanLabels, Exclusive
<1>6. ASSUME NEW p \in Threads, SetFlag(p)
      PROVE  Typed'
  <2>1. json' \in Settings \cup {Torn}
    BY <1>6, LoadedType DEF SetFlag, saveBypassSettings, IInv, Typed, TypeOK
  <2>2. req[p] \in Toggles
    BY <1>6 DEF SetFlag, IInv, Exclusive
  <2>3. \/ Return(p, "ok")
        \/ (Inside(p, "load") \/ Inside(p, "cleanLoad")) /\ cs' \in Locals
    BY <1>6, <2>2 DEF SetFlag, Toggles, IInv, Typed
  <2>4. ThreadsTyped'
    BY <2>3, ReturnType, InsideType DEF Labels, IInv
  <2> QED
    BY <1>6, <2>1, <2>4
    DEF SetFlag, registryVars, ThreadsTyped, IInv, Typed, TypeOK
<1>7. ASSUME NEW p \in Threads, Load(p)
      PROVE  Typed'
  <2>1. Return(p, "ok") \/ (Inside(p, "read") /\ cs' \in Locals)
    BY <1>7, LoadedType DEF Load, Locals, Settings, IInv, Typed
  <2>2. ThreadsTyped'
    BY <2>1, ReturnType, InsideType DEF Labels, IInv
  <2> QED BY <1>7, <2>2 DEF Load, registryVars, ThreadsTyped, IInv, Typed, TypeOK
<1>8. ASSUME NEW p \in Threads, ReadOverride(p)
      PROVE  Typed'
  <2>1. session # Nobody => /\ override[session] \in SUBSET Entry
                            /\ theirs[session] \in SUBSET Entry
    BY DEF IInv, Typed, TypeOK
  <2>2. Return(p, "error") \/ (Inside(p, "list") /\ cs' \in Locals)
    BY <1>8, <2>1 DEF ReadOverride, RegistryFails, Locals, IInv, Typed, TypeOK
  <2>3. ThreadsTyped'
    BY <2>2, ReturnType, InsideType DEF Labels, IInv
  <2> QED
    BY <1>8, <2>3
    DEF ReadOverride, RegistryFails, registryVars, ThreadsTyped, IInv, Typed, TypeOK
<1>9. ASSUME NEW p \in Threads, ListDomains(p)
      PROVE  Typed'
  <2>1. desiredBypassEntries(table) \subseteq Entry
    BY DesiredType DEF IInv, Typed, TypeOK
  <2>2. Inside(p, "compute") /\ cs' \in Locals
    BY <1>9, <2>1 DEF ListDomains, Locals, IInv, Typed
  <2>3. ThreadsTyped'
    BY <2>2, ReturnType, InsideType DEF Labels, IInv
  <2> QED BY <1>9, <2>3 DEF ListDomains, registryVars, ThreadsTyped, IInv, Typed, TypeOK
<1>10. ASSUME NEW p \in Threads, Compute(p)
       PROVE  Typed'
  <2>1. desiredBypassEntries(table) \subseteq Entry
    BY DesiredType DEF IInv, Typed, TypeOK
  <2>2. (Inside(p, "write") \/ Inside(p, "save")) /\ cs' \in Locals
    BY <1>10, <2>1 DEF Compute, ComputeWith, Missing, Locals, IInv, Typed
  <2>3. ThreadsTyped'
    BY <2>2, ReturnType, InsideType DEF Labels, IInv
  <2> QED
    BY <1>10, <2>3
    DEF Compute, ComputeWith, registryVars, ThreadsTyped, IInv, Typed, TypeOK
<1>11. ASSUME NEW p \in Threads, WriteOverride(p)
       PROVE  Typed'
  <2>1. Return(p, "error") \/ (Inside(p, "broadcast") /\ cs' \in Locals)
    BY <1>11 DEF WriteOverride, RegistryFails, IInv, Typed
  <2>2. ThreadsTyped'
    BY <2>1, ReturnType, InsideType DEF Labels, IInv
  <2> QED
    BY <1>11, <2>2, WriteType
    DEF WriteOverride, RegistryFails, registryVars, ThreadsTyped, IInv, Typed, TypeOK
<1>12. ASSUME NEW p \in Threads, Broadcast(p)
       PROVE  Typed'
  BY <1>12
  DEF Broadcast, registryVars, Goto, Inside, Threads, IInv,
      Typed, TypeOK, Labels, Toggles
<1>13. ASSUME NEW p \in Threads, SaveOwned(p)
       PROVE  Typed'
  <2>1. json' \in Settings \cup {Torn}
    BY <1>13 DEF SaveOwned, saveBypassSettings, IInv, Typed, TypeOK, Locals, Settings
  <2>2. Return(p, "ok")
    BY <1>13 DEF SaveOwned
  <2>3. ThreadsTyped'
    BY <2>2, ReturnType, InsideType DEF Labels, IInv
  <2> QED
    BY <1>13, <2>3, <2>1
    DEF SaveOwned, registryVars, ThreadsTyped, IInv, Typed, TypeOK
<1>14. ASSUME NEW p \in Threads, CleanLoad(p)
       PROVE  Typed'
  <2>1. Return(p, "ok") \/ (Inside(p, "cleanRead") /\ cs' \in Locals)
    BY <1>14, LoadedType DEF CleanLoad, Locals, Settings, IInv, Typed
  <2>2. ThreadsTyped'
    BY <2>1, ReturnType, InsideType DEF Labels, IInv
  <2> QED BY <1>14, <2>2 DEF CleanLoad, registryVars, ThreadsTyped, IInv, Typed, TypeOK
<1>15. ASSUME NEW p \in Threads, CleanRead(p)
       PROVE  Typed'
  <2>1. session # Nobody => /\ override[session] \in SUBSET Entry
                            /\ theirs[session] \in SUBSET Entry
    BY DEF IInv, Typed, TypeOK
  <2>2. \/ Return(p, "error")
        \/ (Inside(p, "cleanWrite") \/ Inside(p, "cleanSave")) /\ cs' \in Locals
    <3>1. CASE session = Nobody \/ RegistryFails(p)
      BY <1>15, <3>1 DEF CleanRead, RegistryFails
    <3>2. CASE session # Nobody /\ ~RegistryFails(p)
      <4>1. cs' = [cs EXCEPT !.target = session, !.mine = theirs[session],
                             !.entries = override[session] \ cs.owned]
        BY <1>15, <3>2 DEF CleanRead
      <4>2. cs' \in Locals
        BY <2>1, <3>2, <4>1 DEF Locals, IInv, Typed, TypeOK
      <4>3. Inside(p, "cleanWrite") \/ Inside(p, "cleanSave")
        BY <1>15, <3>2 DEF CleanRead
      <4> QED BY <4>2, <4>3
    <3> QED BY <3>1, <3>2
  <2>3. ThreadsTyped'
    BY <2>2, ReturnType, InsideType DEF Labels, IInv
  <2> QED BY <1>15, <2>3
  DEF CleanRead, RegistryFails, registryVars, ThreadsTyped, IInv, Typed, TypeOK
<1>16. ASSUME NEW p \in Threads, CleanWrite(p)
       PROVE  Typed'
  <2>1. Return(p, "error") \/ (Inside(p, "cleanBroadcast") /\ cs' \in Locals)
    BY <1>16 DEF CleanWrite, RegistryFails, IInv, Typed
  <2>2. ThreadsTyped'
    BY <2>1, ReturnType, InsideType DEF Labels, IInv
  <2> QED
    BY <1>16, <2>2, WriteType
    DEF CleanWrite, RegistryFails, registryVars, ThreadsTyped, IInv, Typed, TypeOK
<1>17. ASSUME NEW p \in Threads, CleanSave(p)
       PROVE  Typed'
  <2>1. json' \in Settings \cup {Torn}
    BY <1>17 DEF CleanSave, saveBypassSettings, IInv, Typed, TypeOK, Locals, Settings
  <2>2. Return(p, "ok")
    BY <1>17 DEF CleanSave
  <2>3. ThreadsTyped'
    BY <2>2, ReturnType, InsideType DEF Labels, IInv
  <2> QED
    BY <1>17, <2>3, <2>1
    DEF CleanSave, registryVars, ThreadsTyped, IInv, Typed, TypeOK
<1>18. ASSUME Kill
       PROVE  Typed'
  BY <1>18, NoLocalsType
  DEF Kill, Spend, Threads, registryVars, IInv, Typed, TypeOK, Labels, Toggles
<1>19. ASSUME Start
       PROVE  Typed'
  BY <1>19 DEF Start, Goto, Threads, registryVars, IInv, Typed, TypeOK, Labels, Toggles
<1>20. ASSUME NEW u \in User, LogOn(u)
       PROVE  Typed'
  BY <1>20
  DEF LogOn, registryVars, Spend, Threads, threadVars, IInv, Typed, TypeOK, Labels,
      Toggles
<1>21. ASSUME LogOff
       PROVE  Typed'
  BY <1>21
  DEF LogOff, Threads, registryVars, threadVars, IInv, Typed, TypeOK, Labels, Toggles
<1>22. ASSUME NEW u \in User, NEW e \in Entry, UserAdds(u, e)
       PROVE  Typed'
  BY <1>22
  DEF UserAdds, Foreign, Spend, Threads, threadVars, IInv, Typed, TypeOK, Labels,
      Toggles
<1>23. ASSUME NEW u \in User, NEW e \in Entry, UserRemoves(u, e)
       PROVE  Typed'
  BY <1>23
  DEF UserRemoves, Foreign, Spend, Threads, threadVars, IInv, Typed, TypeOK, Labels,
      Toggles
<1>24. ASSUME NEW u \in User, ProxyWipes(u)
       PROVE  Typed'
  BY <1>24
  DEF ProxyWipes, Foreign, Spend, Threads, threadVars, IInv, Typed, TypeOK, Labels,
      Toggles
<1>25. ASSUME UNCHANGED vars
       PROVE  Typed'
  BY <1>25 DEF vars, Threads, IInv, Typed, TypeOK, Labels, Toggles
<1>26. ASSUME NEW p \in Handlers, ChangeUnsaved(p)
       PROVE  Typed'
  BY <1>26
  DEF ChangeUnsaved, Free, Threads, registryVars, IInv, Typed, TypeOK, Labels,
      Toggles
<1> QED
  BY <1>1, <1>2, <1>3, <1>4, <1>5, <1>6, <1>7, <1>8, <1>9, <1>10, <1>11, <1>12, <1>13,
  <1>14, <1>15, <1>16, <1>17, <1>18, <1>19, <1>20, <1>21, <1>22, <1>23, <1>24, <1>25,
  <1>26
  DEF Next, Step

\* Whoever is in the critical section stays alone in it, with the request it came for.
LEMMA ExclusiveStep ==
  ASSUME IInv, [Next]_vars
  PROVE  Exclusive'
<1> USE ThreadAssumption, FileAssumption
<1>1. ASSUME NEW p \in Handlers, ChangeMapping(p)
      PROVE  Exclusive'
  BY <1>1
  DEF ChangeMapping, Ask, Free, Spend, Goto, Threads, registryVars, IInv, Typed, TypeOK,
      Labels, Toggles, Exclusive, SyncLabels, CleanLabels
<1>2. ASSUME NEW p \in Handlers, NEW what \in Toggles, Toggle(p, what)
      PROVE  Exclusive'
  BY <1>2
  DEF Toggle, Ask, Free, Spend, Goto, Threads, registryVars, IInv, Typed, TypeOK,
      Labels, Toggles, Exclusive, SyncLabels, CleanLabels
<1>3. ASSUME NEW p \in Handlers, SelfCheck(p)
      PROVE  Exclusive'
  BY <1>3
  DEF SelfCheck, Ask, Free, Spend, Goto, Threads, registryVars, IInv, Typed, TypeOK,
      Labels, Toggles, Exclusive, SyncLabels, CleanLabels
<1>4. ASSUME Tick
      PROVE  Exclusive'
  BY <1>4
  DEF Tick, Ask, Free, Goto, Threads, registryVars, IInv, Typed, TypeOK, Labels,
      Toggles, Exclusive, SyncLabels, CleanLabels
<1>5. ASSUME NEW p \in Threads, Lock(p)
      PROVE  Exclusive'
  BY <1>5
  DEF Lock, Goto, Threads, registryVars, IInv, Typed, TypeOK, Labels, Toggles,
      Exclusive, SyncLabels, CleanLabels
<1>6. ASSUME NEW p \in Threads, SetFlag(p)
      PROVE  Exclusive'
  <2>1. req[p] \in Toggles
    BY <1>6 DEF SetFlag, IInv, Exclusive
  <2>2. CASE req[p] = "off"
    BY <1>6, <2>2
    DEF SetFlag, saveBypassSettings, Spend, Goto, Return, Inside, Threads,
        registryVars, IInv, Typed, TypeOK, Labels, Toggles, Exclusive, SyncLabels,
        CleanLabels
  <2>3. CASE req[p] = "on"
    BY <1>6, <2>3
    DEF SetFlag, saveBypassSettings, Spend, Goto, Return, Inside, Threads,
        registryVars, IInv, Typed, TypeOK, Labels, Toggles, Exclusive, SyncLabels,
        CleanLabels
  <2>4. CASE req[p] = "offClean"
    BY <1>6, <2>4
    DEF SetFlag, saveBypassSettings, Spend, Goto, Return, Inside, Threads,
        registryVars, IInv, Typed, TypeOK, Labels, Toggles, Exclusive, SyncLabels,
        CleanLabels
  <2> QED BY <2>1, <2>2, <2>3, <2>4 DEF Toggles
<1>7. ASSUME NEW p \in Threads, Load(p)
      PROVE  Exclusive'
  BY <1>7
  DEF Load, Goto, Return, Inside, Threads, registryVars, IInv, Typed, TypeOK, Labels,
      Toggles, Exclusive, SyncLabels, CleanLabels
<1>8. ASSUME NEW p \in Threads, ReadOverride(p)
      PROVE  Exclusive'
  BY <1>8
  DEF ReadOverride, RegistryFails, Goto, Return, Inside, Threads, registryVars, IInv,
      Typed, TypeOK, Labels, Toggles, Exclusive, SyncLabels, CleanLabels
<1>9. ASSUME NEW p \in Threads, ListDomains(p)
      PROVE  Exclusive'
  BY <1>9
  DEF ListDomains, desiredBypassEntries, Goto, Inside, Threads, registryVars, IInv,
      Typed, TypeOK, Labels, Toggles, Exclusive, SyncLabels, CleanLabels
<1>10. ASSUME NEW p \in Threads, Compute(p)
       PROVE  Exclusive'
  BY <1>10
  DEF Compute, ComputeWith, Missing, desiredBypassEntries, Goto, Inside, Threads,
      registryVars, IInv, Typed, TypeOK, Labels, Toggles, Exclusive, SyncLabels,
      CleanLabels
<1>11. ASSUME NEW p \in Threads, WriteOverride(p)
       PROVE  Exclusive'
  BY <1>11
  DEF WriteOverride, RegistryFails, Spend, Goto, Return, Inside, Threads,
      registryVars, IInv, Typed, TypeOK, Labels, Toggles, Exclusive, SyncLabels,
      CleanLabels
<1>12. ASSUME NEW p \in Threads, Broadcast(p)
       PROVE  Exclusive'
  BY <1>12
  DEF Broadcast, registryVars, Goto, Inside, Threads, IInv,
      Typed, TypeOK, Labels, Toggles, Exclusive, SyncLabels, CleanLabels
<1>13. ASSUME NEW p \in Threads, SaveOwned(p)
       PROVE  Exclusive'
  BY <1>13
  DEF SaveOwned, saveBypassSettings, Spend, Goto, Return, Threads, registryVars, IInv,
      Typed, TypeOK, Labels, Toggles, Exclusive, SyncLabels, CleanLabels
<1>14. ASSUME NEW p \in Threads, CleanLoad(p)
       PROVE  Exclusive'
  BY <1>14
  DEF CleanLoad, Goto, Return, Inside, Threads, registryVars, IInv, Typed, TypeOK,
      Labels, Toggles, Exclusive, SyncLabels, CleanLabels
<1>15. ASSUME NEW p \in Threads, CleanRead(p)
       PROVE  Exclusive'
  BY <1>15
  DEF CleanRead, RegistryFails, Goto, Return, Inside, Threads, registryVars, IInv,
      Typed, TypeOK, Labels, Toggles, Exclusive, SyncLabels, CleanLabels
<1>16. ASSUME NEW p \in Threads, CleanWrite(p)
       PROVE  Exclusive'
  BY <1>16
  DEF CleanWrite, RegistryFails, Spend, Goto, Return, Inside, Threads, registryVars,
      IInv, Typed, TypeOK, Labels, Toggles, Exclusive, SyncLabels, CleanLabels
<1>17. ASSUME NEW p \in Threads, CleanSave(p)
       PROVE  Exclusive'
  BY <1>17
  DEF CleanSave, saveBypassSettings, Spend, Goto, Return, Threads, registryVars, IInv,
      Typed, TypeOK, Labels, Toggles, Exclusive, SyncLabels, CleanLabels
<1>18. ASSUME Kill
       PROVE  Exclusive'
  BY <1>18
  DEF Kill, Spend, Threads, registryVars, IInv, Typed, TypeOK, Labels, Toggles,
      Exclusive, SyncLabels, CleanLabels
<1>19. ASSUME Start
       PROVE  Exclusive'
  BY <1>19
  DEF Start, Goto, Threads, registryVars, IInv, Typed, TypeOK, Labels, Toggles,
      Exclusive, SyncLabels, CleanLabels
<1>20. ASSUME NEW u \in User, LogOn(u)
       PROVE  Exclusive'
  BY <1>20
  DEF LogOn, registryVars, Spend, Threads, threadVars, IInv, Typed, TypeOK, Labels,
      Toggles, Exclusive, SyncLabels, CleanLabels
<1>21. ASSUME LogOff
       PROVE  Exclusive'
  BY <1>21
  DEF LogOff, Threads, registryVars, threadVars, IInv, Typed, TypeOK, Labels, Toggles,
      Exclusive, SyncLabels, CleanLabels
<1>22. ASSUME NEW u \in User, NEW e \in Entry, UserAdds(u, e)
       PROVE  Exclusive'
  BY <1>22
  DEF UserAdds, Foreign, Spend, Threads, threadVars, IInv, Typed, TypeOK, Labels,
      Toggles, Exclusive, SyncLabels, CleanLabels
<1>23. ASSUME NEW u \in User, NEW e \in Entry, UserRemoves(u, e)
       PROVE  Exclusive'
  BY <1>23
  DEF UserRemoves, Foreign, Spend, Threads, threadVars, IInv, Typed, TypeOK, Labels,
      Toggles, Exclusive, SyncLabels, CleanLabels
<1>24. ASSUME NEW u \in User, ProxyWipes(u)
       PROVE  Exclusive'
  BY <1>24
  DEF ProxyWipes, Foreign, Spend, Threads, threadVars, IInv, Typed, TypeOK, Labels,
      Toggles, Exclusive, SyncLabels, CleanLabels
<1>25. ASSUME UNCHANGED vars
       PROVE  Exclusive'
  BY <1>25
  DEF vars, Threads, IInv, Typed, TypeOK, Labels, Toggles, Exclusive, SyncLabels,
      CleanLabels
<1>26. ASSUME NEW p \in Handlers, ChangeUnsaved(p)
       PROVE  Exclusive'
  BY <1>26
  DEF ChangeUnsaved, Free, Threads, registryVars, IInv, Typed, TypeOK, Labels,
      Toggles, Exclusive, SyncLabels, CleanLabels
<1> QED
  BY <1>1, <1>2, <1>3, <1>4, <1>5, <1>6, <1>7, <1>8, <1>9, <1>10, <1>11, <1>12, <1>13,
  <1>14, <1>15, <1>16, <1>17, <1>18, <1>19, <1>20, <1>21, <1>22, <1>23, <1>24, <1>25,
  <1>26
  DEF Next, Step

\* Who returns leaves nobody in the critical section.
LEMMA ReturnLeaves ==
  ASSUME IInv, NEW p \in Threads, pc[p] \notin {"idle", "lock"}, NEW result,
         Return(p, result)
  PROVE  \A q \in Threads : pc'[q] \in {"idle", "lock"}
  BY DEF IInv, Typed, TypeOK, Exclusive, Return, Goto

\* Who goes on in it is the only one there.
LEMMA InsideStays ==
  ASSUME IInv, NEW p \in Threads, pc[p] \notin {"idle", "lock"}, NEW label,
         Inside(p, label)
  PROVE  /\ pc'[p] = label
         /\ \A q \in Threads \ {p} : pc'[q] \in {"idle", "lock"}
  BY DEF IInv, Typed, TypeOK, Exclusive, Inside, Goto

\* The switch that a critical section goes by stays the one in the file.
LEMMA SwitchStep ==
  ASSUME IInv, [Next]_vars
  PROVE  (ToggleNotUndone /\ SwitchedOn)'
<1> USE ThreadAssumption, FileAssumption
<1>0. \A p \in Threads : pc'[p] \notin {"idle", "lock"} <=> mu' = p
  BY ExclusiveStep DEF Exclusive
<1>1. ASSUME NEW p \in Handlers, ChangeMapping(p)
      PROVE  (ToggleNotUndone /\ SwitchedOn)'
  BY <1>1
  DEF ChangeMapping, Ask, Free, Spend, Goto, registryVars, IInv, Typed, TypeOK,
      Exclusive, ToggleNotUndone, SwitchedOn, SyncLabels, Toggles
<1>2. ASSUME NEW p \in Handlers, NEW what \in Toggles, Toggle(p, what)
      PROVE  (ToggleNotUndone /\ SwitchedOn)'
  BY <1>2
  DEF Toggle, Ask, Free, Spend, Goto, registryVars, IInv, Typed, TypeOK, Exclusive,
      ToggleNotUndone, SwitchedOn, SyncLabels, Toggles
<1>3. ASSUME NEW p \in Handlers, SelfCheck(p)
      PROVE  (ToggleNotUndone /\ SwitchedOn)'
  BY <1>3
  DEF SelfCheck, Ask, Free, Spend, Goto, registryVars, IInv, Typed, TypeOK, Exclusive,
      ToggleNotUndone, SwitchedOn, SyncLabels, Toggles
<1>4. ASSUME Tick
      PROVE  (ToggleNotUndone /\ SwitchedOn)'
  BY <1>4
  DEF Tick, Ask, Free, Goto, registryVars, IInv, Typed, TypeOK, Exclusive,
      ToggleNotUndone, SwitchedOn, SyncLabels, Toggles
<1>5. ASSUME NEW p \in Threads, Lock(p)
      PROVE  (ToggleNotUndone /\ SwitchedOn)'
  BY <1>5
  DEF Lock, Goto, registryVars, IInv, Typed, TypeOK, Exclusive, ToggleNotUndone,
      SwitchedOn, SyncLabels, Toggles, Threads
<1>6. ASSUME NEW p \in Threads, SetFlag(p)
      PROVE  (ToggleNotUndone /\ SwitchedOn)'
  <2>1. req[p] \in Toggles
    BY <1>6 DEF SetFlag, IInv, Exclusive
  <2>2. Return(p, "ok") \/ Inside(p, "load") \/ Inside(p, "cleanLoad")
    BY <1>6, <2>1 DEF SetFlag, Toggles
  <2>3. pc[p] = "flag"
    BY <1>6 DEF SetFlag
  <2> QED
    BY <2>2, <2>3, ReturnLeaves, InsideStays
    DEF ToggleNotUndone, SwitchedOn, SyncLabels
<1>7. ASSUME NEW p \in Threads, Load(p)
      PROVE  (ToggleNotUndone /\ SwitchedOn)'
  <2>1. \/ Return(p, "ok")
        \/ /\ Inside(p, "read")
           /\ cs'.syncOn = loadBypassSettings(json).syncOn /\ cs'.syncOn
    BY <1>7, LoadedType DEF Load, Settings, Locals, IInv, Typed
  <2>2. pc[p] = "load" /\ json' = json
    BY <1>7 DEF Load
  <2> QED
    BY <1>0, <2>1, <2>2, ReturnLeaves, InsideStays
    DEF ToggleNotUndone, SwitchedOn, SyncLabels
<1>8. ASSUME NEW p \in Threads, ReadOverride(p)
      PROVE  (ToggleNotUndone /\ SwitchedOn)'
  BY <1>8, ReturnLeaves, InsideStays, <1>0
  DEF ReadOverride, RegistryFails, Locals, IInv, Typed, ToggleNotUndone, SwitchedOn,
      SyncLabels
<1>9. ASSUME NEW p \in Threads, ListDomains(p)
      PROVE  (ToggleNotUndone /\ SwitchedOn)'
  BY <1>9, ReturnLeaves, InsideStays, <1>0
  DEF ListDomains, desiredBypassEntries, Locals, IInv, Typed, ToggleNotUndone,
      SwitchedOn, SyncLabels
<1>10. ASSUME NEW p \in Threads, Compute(p)
       PROVE  (ToggleNotUndone /\ SwitchedOn)'
  BY <1>10, ReturnLeaves, InsideStays, <1>0
  DEF Compute, ComputeWith, Missing, desiredBypassEntries, Locals, IInv, Typed,
      ToggleNotUndone, SwitchedOn, SyncLabels
<1>11. ASSUME NEW p \in Threads, WriteOverride(p)
       PROVE  (ToggleNotUndone /\ SwitchedOn)'
  BY <1>11, ReturnLeaves, InsideStays, <1>0
  DEF WriteOverride, RegistryFails, IInv, Typed, ToggleNotUndone, SwitchedOn, SyncLabels
<1>12. ASSUME NEW p \in Threads, Broadcast(p)
       PROVE  (ToggleNotUndone /\ SwitchedOn)'
  BY <1>12, ReturnLeaves, InsideStays, <1>0
  DEF Broadcast, IInv, Typed, ToggleNotUndone, SwitchedOn, SyncLabels
<1>13. ASSUME NEW p \in Threads, SaveOwned(p)
       PROVE  (ToggleNotUndone /\ SwitchedOn)'
  BY <1>13, ReturnLeaves, InsideStays, <1>0
  DEF SaveOwned, IInv, Typed, ToggleNotUndone, SwitchedOn, SyncLabels
<1>14. ASSUME NEW p \in Threads, CleanLoad(p)
       PROVE  (ToggleNotUndone /\ SwitchedOn)'
  <2>1. \/ Return(p, "ok")
        \/ /\ Inside(p, "cleanRead")
           /\ cs'.syncOn = loadBypassSettings(json).syncOn
    BY <1>14, LoadedType DEF CleanLoad, Settings, Locals, IInv, Typed
  <2>2. pc[p] = "cleanLoad" /\ json' = json
    BY <1>14 DEF CleanLoad
  <2> QED
    BY <1>0, <2>1, <2>2, ReturnLeaves, InsideStays
    DEF ToggleNotUndone, SwitchedOn, SyncLabels
<1>15. ASSUME NEW p \in Threads, CleanRead(p)
       PROVE  (ToggleNotUndone /\ SwitchedOn)'
  <2>1. cs'.syncOn = cs.syncOn \/ Return(p, "error")
    BY <1>15 DEF CleanRead, RegistryFails, Locals, IInv, Typed
  <2>2. Return(p, "error") \/ Inside(p, "cleanWrite") \/ Inside(p, "cleanSave")
    BY <1>15 DEF CleanRead, RegistryFails
  <2>3. pc[p] = "cleanRead" /\ json' = json
    BY <1>15 DEF CleanRead, RegistryFails
  <2> QED
    BY <1>0, <2>1, <2>2, <2>3, ReturnLeaves, InsideStays
    DEF ToggleNotUndone, SwitchedOn, SyncLabels, IInv
<1>16. ASSUME NEW p \in Threads, CleanWrite(p)
       PROVE  (ToggleNotUndone /\ SwitchedOn)'
  BY <1>16, ReturnLeaves, InsideStays, <1>0
  DEF CleanWrite, RegistryFails, IInv, Typed, ToggleNotUndone, SwitchedOn, SyncLabels
<1>17. ASSUME NEW p \in Threads, CleanSave(p)
       PROVE  (ToggleNotUndone /\ SwitchedOn)'
  BY <1>17, ReturnLeaves, InsideStays, <1>0
  DEF CleanSave, IInv, Typed, ToggleNotUndone, SwitchedOn, SyncLabels
<1>18. ASSUME Kill
       PROVE  (ToggleNotUndone /\ SwitchedOn)'
  BY <1>18
  DEF Kill, Spend, registryVars, IInv, Typed, TypeOK, Exclusive, ToggleNotUndone,
      SwitchedOn, SyncLabels, Toggles
<1>19. ASSUME Start
       PROVE  (ToggleNotUndone /\ SwitchedOn)'
  BY <1>19
  DEF Start, Goto, registryVars, IInv, Typed, TypeOK, Exclusive, ToggleNotUndone,
      SwitchedOn, SyncLabels, Toggles
<1>20. ASSUME NEW u \in User, LogOn(u)
       PROVE  (ToggleNotUndone /\ SwitchedOn)'
  BY <1>20
  DEF LogOn, registryVars, Spend, threadVars, IInv, Typed, TypeOK, Exclusive,
      ToggleNotUndone, SwitchedOn, SyncLabels, Toggles
<1>21. ASSUME LogOff
       PROVE  (ToggleNotUndone /\ SwitchedOn)'
  BY <1>21
  DEF LogOff, registryVars, threadVars, IInv, Typed, TypeOK, Exclusive,
      ToggleNotUndone, SwitchedOn, SyncLabels, Toggles
<1>22. ASSUME NEW u \in User, NEW e \in Entry, UserAdds(u, e)
       PROVE  (ToggleNotUndone /\ SwitchedOn)'
  BY <1>22
  DEF UserAdds, Foreign, Spend, threadVars, IInv, Typed, TypeOK, Exclusive,
      ToggleNotUndone, SwitchedOn, SyncLabels, Toggles
<1>23. ASSUME NEW u \in User, NEW e \in Entry, UserRemoves(u, e)
       PROVE  (ToggleNotUndone /\ SwitchedOn)'
  BY <1>23
  DEF UserRemoves, Foreign, Spend, threadVars, IInv, Typed, TypeOK, Exclusive,
      ToggleNotUndone, SwitchedOn, SyncLabels, Toggles
<1>24. ASSUME NEW u \in User, ProxyWipes(u)
       PROVE  (ToggleNotUndone /\ SwitchedOn)'
  BY <1>24
  DEF ProxyWipes, Foreign, Spend, threadVars, IInv, Typed, TypeOK, Exclusive,
      ToggleNotUndone, SwitchedOn, SyncLabels, Toggles
<1>25. ASSUME UNCHANGED vars
       PROVE  (ToggleNotUndone /\ SwitchedOn)'
  BY <1>25
  DEF vars, IInv, Typed, TypeOK, Exclusive, ToggleNotUndone, SwitchedOn, SyncLabels,
      Toggles
<1>26. ASSUME NEW p \in Handlers, ChangeUnsaved(p)
       PROVE  (ToggleNotUndone /\ SwitchedOn)'
  BY <1>26
  DEF ChangeUnsaved, Free, Threads, registryVars, IInv, Typed, TypeOK, Exclusive,
      ToggleNotUndone, SwitchedOn, SyncLabels, Toggles
<1> QED
  BY <1>1, <1>2, <1>3, <1>4, <1>5, <1>6, <1>7, <1>8, <1>9, <1>10, <1>11, <1>12, <1>13,
  <1>14, <1>15, <1>16, <1>17, <1>18, <1>19, <1>20, <1>21, <1>22, <1>23, <1>24, <1>25,
  <1>26
  DEF Next, Step

\* A step that leaves the file, the lists and the locals alone, lets nobody leave the
\* critical section and answers nobody.
Quiet ==
  /\ UNCHANGED <<json, override, theirs, cs>>
  /\ \A p \in Threads :
       \/ pc'[p] = pc[p]
       \/ pc[p] \in {"idle", "lock"} /\ pc'[p] \in {"lock", "flag", "load"}
  /\ \A p \in Threads : answer'[p] \in {answer[p], "none", "error"}

\* A write of the user or of proxy software.
Outsider(u) ==
  \/ \E e \in Entry : UserAdds(u, e) \/ UserRemoves(u, e)
  \/ ProxyWipes(u)

\* A step in the critical section.
Work(p) ==
  \/ SetFlag(p) \/ Load(p) \/ ReadOverride(p) \/ ListDomains(p) \/ Compute(p)
  \/ WriteOverride(p) \/ Broadcast(p) \/ SaveOwned(p)
  \/ CleanLoad(p) \/ CleanRead(p) \/ CleanWrite(p) \/ CleanSave(p)

\* There are no other steps.
LEMMA Kinds ==
  ASSUME IInv, [Next]_vars
  PROVE  \/ Quiet
         \/ Kill
         \/ \E u \in User : Outsider(u)
         \/ \E p \in Threads : Work(p)
<1>1. ASSUME \/ \E p \in Handlers : ChangeMapping(p) \/ ChangeUnsaved(p) \/ SelfCheck(p)
             \/ \E p \in Handlers, what \in Toggles : Toggle(p, what)
             \/ Tick
      PROVE  Quiet
  BY <1>1
  DEF ChangeMapping, ChangeUnsaved, SelfCheck, Toggle, Tick, Ask, Free, Goto,
      registryVars, Quiet, Threads, IInv, Typed, TypeOK
<1>2. ASSUME NEW p \in Threads, Lock(p)
      PROVE  Quiet
  BY <1>2 DEF Lock, Goto, registryVars, Quiet, IInv, Typed, TypeOK
<1>3. ASSUME Start
      PROVE  Quiet
  BY <1>3 DEF Start, Goto, registryVars, Quiet, Threads, IInv, Typed, TypeOK, Exclusive
<1>4. ASSUME LogOff \/ (\E u \in User : LogOn(u)) \/ UNCHANGED vars
      PROVE  Quiet
  BY <1>4 DEF LogOff, LogOn, vars, threadVars, registryVars, Quiet
<1> QED
  BY <1>1, <1>2, <1>3, <1>4 DEF Next, Step, Outsider, Work

\* The local copies stay what they were read as.
LEMMA AsReadStep ==
  ASSUME IInv, [Next]_vars
  PROVE  AsRead'
<1> USE DEF AsRead
<1>1. CASE Quiet
  BY <1>1 DEF Quiet, Record, IInv
<1>2. CASE Kill
  BY <1>2 DEF Kill
<1>3. CASE \E u \in User : Outsider(u)
  BY <1>3
  DEF Outsider, UserAdds, UserRemoves, ProxyWipes, Foreign, threadVars, Record, IInv
<1>4. ASSUME NEW p \in Threads, SetFlag(p)
      PROVE  AsRead'
  <2>1. Return(p, "ok") \/ Inside(p, "load") \/ Inside(p, "cleanLoad")
    BY <1>4 DEF SetFlag, IInv, Exclusive, Toggles
  <2> QED BY <1>4, <2>1, ReturnLeaves, InsideStays DEF SetFlag
<1>5. ASSUME NEW p \in Threads, Load(p) \/ CleanLoad(p)
      PROVE  AsRead'
  <2>1. pc[p] \in {"load", "cleanLoad"} /\ json' = json
    BY <1>5 DEF Load, CleanLoad
  <2>2. \/ Return(p, "ok")
        \/ (Inside(p, "read") \/ Inside(p, "cleanRead")) /\ cs'.owned = Record
    BY <1>5 DEF Load, CleanLoad, Record, Locals, IInv, Typed
  <2> QED BY <2>1, <2>2, ReturnLeaves, InsideStays DEF Record
<1>6. ASSUME NEW p \in Threads, ReadOverride(p) \/ ListDomains(p)
      PROVE  AsRead'
  <2>1. pc[p] \in {"read", "list"} /\ json' = json /\ cs.owned = Record
    BY <1>6 DEF ReadOverride, RegistryFails, ListDomains, IInv
  <2>2. \/ Return(p, "error")
        \/ /\ Inside(p, "list") \/ Inside(p, "compute")
           /\ cs'.owned = cs.owned /\ cs'.target \in User
    BY <1>6 DEF ReadOverride, RegistryFails, ListDomains, Locals, IInv, Typed, TypeOK
  <2> QED BY <2>1, <2>2, ReturnLeaves, InsideStays DEF Record
<1>7. ASSUME NEW p \in Threads, Compute(p) \/ CleanRead(p)
      PROVE  AsRead'
  <2>1. pc[p] \in {"compute", "cleanRead"}
    BY <1>7 DEF Compute, ComputeWith, CleanRead, RegistryFails
  <2>2. \/ Return(p, "error")
        \/ Inside(p, "save") \/ Inside(p, "cleanSave")
        \/ (Inside(p, "write") \/ Inside(p, "cleanWrite")) /\ cs'.target \in User
    BY <1>7
    DEF Compute, ComputeWith, CleanRead, RegistryFails, Locals, IInv, Typed, TypeOK
  <2> QED BY <2>1, <2>2, ReturnLeaves, InsideStays
<1>8. ASSUME NEW p \in Threads, WriteOverride(p) \/ CleanWrite(p) \/ Broadcast(p)
      PROVE  AsRead'
  <2>1. pc[p] \in {"write", "cleanWrite", "broadcast", "cleanBroadcast"}
    BY <1>8 DEF WriteOverride, RegistryFails, CleanWrite, Broadcast
  <2>2. \/ Return(p, "error")
        \/ Inside(p, "broadcast") \/ Inside(p, "cleanBroadcast")
        \/ Inside(p, "save") \/ Inside(p, "cleanSave")
    BY <1>8 DEF WriteOverride, RegistryFails, CleanWrite, Broadcast
  <2> QED BY <2>1, <2>2, ReturnLeaves, InsideStays
<1>9. ASSUME NEW p \in Threads, SaveOwned(p) \/ CleanSave(p)
      PROVE  AsRead'
  BY <1>9, ReturnLeaves DEF SaveOwned, CleanSave
<1> QED
  BY <1>1, <1>2, <1>3, <1>4, <1>5, <1>6, <1>7, <1>8, <1>9, Kinds DEF Work

\* The inductive invariant holds in every state of every behaviour.
LEMMA AlwaysIInv == Spec => []IInv
<1>1. Init => IInv
  <2> SUFFICES ASSUME Init PROVE IInv
    OBVIOUS
  <2>1. cs \in Locals
    BY NoLocalsType DEF Init
  <2>2. json \in Settings /\ override \in [User -> SUBSET Entry]
    BY DEF Init, Settings
  <2>3. Typed
    BY <2>1, <2>2, ThreadAssumption DEF Init, Typed, TypeOK, Threads, Labels, Toggles
  <2>4. Exclusive /\ ToggleNotUndone /\ SwitchedOn /\ AsRead
    BY ThreadAssumption
    DEF Init, Exclusive, ToggleNotUndone, SwitchedOn, AsRead, SyncLabels, CleanLabels,
        Threads
  <2> QED BY <2>3, <2>4 DEF IInv
<1>2. IInv /\ [Next]_vars => IInv'
  BY TypedStep, ExclusiveStep, SwitchStep, AsReadStep DEF IInv
<1> QED BY <1>1, <1>2, PTL DEF Spec

\* Registry, file, locks and requests are always of their kinds.
THEOREM TypeCorrect == Spec => []TypeOK
<1>1. IInv => TypeOK
  BY DEF IInv, Typed
<1> QED BY <1>1, AlwaysIInv, PTL

\* The switch that a sync or clean-up will write back is the one in the file, in
\* spite of kills, torn files and failing saves: no toggle is undone by them.
THEOREM TogglesStay == Spec => []ToggleNotUndone
<1>1. IInv => ToggleNotUndone
  BY DEF IInv
<1> QED BY <1>1, AlwaysIInv, PTL

\* With the switch off in the file no sync writes the user's list.
THEOREM OffIsQuiet == Spec => QuietWhenOff
<1>1. ASSUME IInv, NEW p \in Threads, pc[p] = "write"
      PROVE  loadBypassSettings(json).syncOn
  BY <1>1 DEF IInv, ToggleNotUndone, SwitchedOn, SyncLabels
<1>2. IInv /\ [Next]_vars =>
        [\A p \in Threads :
           pc[p] = "write" /\ pc'[p] = "broadcast" => loadBypassSettings(json).syncOn]_vars
  BY <1>1
<1> QED BY <1>2, AlwaysIInv, PTL DEF Spec, QuietWhenOff

-----------------------------------------------------------------------------
(* One user who does not write in the middle of a sync.                    *)

\* The copies stay true, and what is about to go on record is not the user's.
LEMMA UnclaimedStep ==
  ASSUME OneUser, "during" \notin Outside, IInv, Unclaimed, [Next]_vars
  PROVE  Unclaimed'
<1> USE DEF Unclaimed
<1>1. CASE Quiet
  BY <1>1 DEF Quiet, Record
<1>2. CASE Kill
  BY <1>2 DEF Kill, registryVars
<1>3. ASSUME NEW u \in User, Outsider(u)
      PROVE  Unclaimed'
  <2>1. mu = Nobody /\ pc' = pc
    BY <1>3 DEF Outsider, UserAdds, UserRemoves, ProxyWipes, Foreign, threadVars
  <2>2. \A p \in Threads : pc'[p] \in {"idle", "lock"}
    BY <2>1, ThreadAssumption DEF IInv, Exclusive, Threads
  <2>3. \A v \in User : theirs'[v] \subseteq override'[v]
    BY <1>3 DEF Outsider, UserAdds, UserRemoves, ProxyWipes, IInv, Typed, TypeOK
  <2> QED BY <2>2, <2>3
<1>4. ASSUME NEW p \in Threads, SetFlag(p)
      PROVE  Unclaimed'
  <2>1. Return(p, "ok") \/ Inside(p, "load") \/ Inside(p, "cleanLoad")
    BY <1>4 DEF SetFlag, IInv, Exclusive, Toggles
  <2> QED BY <1>4, <2>1, ReturnLeaves, InsideStays DEF SetFlag, registryVars
<1>5. ASSUME NEW p \in Threads, Load(p) \/ CleanLoad(p) \/ SaveOwned(p) \/ CleanSave(p)
      PROVE  Unclaimed'
  <2>1. /\ pc[p] \in {"load", "cleanLoad", "save", "cleanSave"}
        /\ Return(p, "ok") \/ Inside(p, "read") \/ Inside(p, "cleanRead")
        /\ UNCHANGED <<override, theirs>>
    BY <1>5 DEF Load, CleanLoad, SaveOwned, CleanSave, registryVars
  <2> QED BY <2>1, ReturnLeaves, InsideStays
<1>6. ASSUME NEW p \in Threads, ReadOverride(p) \/ CleanRead(p)
      PROVE  Unclaimed'
  <2>1. pc[p] \in {"read", "cleanRead"} /\ UNCHANGED <<override, theirs>>
    BY <1>6 DEF ReadOverride, RegistryFails, CleanRead, registryVars
  <2>2. \/ Return(p, "error")
        \/ Inside(p, "cleanSave")
        \/ Inside(p, "cleanWrite") /\ cs'.mine = theirs[cs'.target]
        \/ /\ Inside(p, "list")
           /\ cs'.mine = theirs[cs'.target] /\ cs'.entries = override[cs'.target]
    BY <1>6 DEF ReadOverride, RegistryFails, CleanRead, Locals, IInv, Typed
  <2> QED BY <2>1, <2>2, ReturnLeaves, InsideStays
<1>7. ASSUME NEW p \in Threads, ListDomains(p)
      PROVE  Unclaimed'
  <2>1. /\ pc[p] = "list" /\ Inside(p, "compute")
        /\ cs'.mine = cs.mine /\ cs'.entries = cs.entries /\ cs'.target = cs.target
        /\ UNCHANGED <<override, theirs>>
    BY <1>7 DEF ListDomains, registryVars, Locals, IInv, Typed
  <2> QED BY <2>1, InsideStays
<1>8. ASSUME NEW p \in Threads, Compute(p)
      PROVE  Unclaimed'
  <2>1. /\ pc[p] = "compute"
        /\ Inside(p, "write") \/ Inside(p, "save")
        /\ cs'.mine = cs.mine /\ cs'.target = cs.target
        /\ cs'.owned \subseteq cs.owned \cup Missing
        /\ UNCHANGED <<override, theirs, json>>
    BY <1>8 DEF Compute, ComputeWith, registryVars, Locals, IInv, Typed
  <2>2. cs.owned = Record /\ cs.target \in User /\ cs.entries = override[cs.target]
    BY <2>1 DEF IInv, AsRead
  <2>3. \A u \in User : Missing \cap theirs[u] = {}
    BY <2>2 DEF OneUser, Missing
  <2>4. \A u \in User : (cs'.owned \ Record') \cap theirs'[u] = {}
    BY <2>1, <2>2, <2>3 DEF Record
  <2> QED BY <2>1, <2>4, InsideStays
<1>9. ASSUME NEW p \in Threads, WriteOverride(p) \/ CleanWrite(p)
      PROVE  Unclaimed'
  <2>1. /\ pc[p] \in {"write", "cleanWrite"}
        /\ \/ Return(p, "error") /\ UNCHANGED <<override, theirs>>
           \/ /\ WriteEntries /\ UNCHANGED <<cs, json>>
              /\ \/ pc[p] = "write" /\ Inside(p, "broadcast")
                 \/ Inside(p, "cleanBroadcast")
    BY <1>9 DEF WriteOverride, RegistryFails, CleanWrite, registryVars
  <2>2. CASE Return(p, "error") /\ UNCHANGED <<override, theirs>>
    BY <2>1, <2>2, ReturnLeaves
  <2>3. CASE WriteEntries
    <3>1. cs.target \in User /\ cs.mine = theirs[cs.target]
      BY <2>1 DEF IInv, AsRead
    <3>2. \A u \in User : theirs'[u] \subseteq theirs[u] /\ theirs'[u] \subseteq override'[u]
      BY <2>3, <3>1 DEF WriteEntries, OneUser, IInv, Typed, TypeOK
    <3> QED BY <2>1, <2>3, <3>2, ReturnLeaves, InsideStays DEF Record
  <2> QED BY <2>1, <2>2, <2>3
<1>10. ASSUME NEW p \in Threads, Broadcast(p)
      PROVE  Unclaimed'
  <2>1. /\ pc[p] \in {"broadcast", "cleanBroadcast"}
        /\ \/ pc[p] = "broadcast" /\ Inside(p, "save")
           \/ Inside(p, "cleanSave")
        /\ UNCHANGED <<override, theirs, cs, json>>
    BY <1>10 DEF Broadcast, registryVars
  <2> QED BY <2>1, InsideStays DEF Record
<1> QED
  BY <1>1, <1>2, <1>3, <1>4, <1>5, <1>6, <1>7, <1>8, <1>9, <1>10, Kinds DEF Work

\* Settings that are saved as they are read are read back.
LEMMA SavedType ==
  ASSUME IInv
  PROVE  /\ [syncOn |-> cs.syncOn, owned |-> cs.owned] \in Settings
         /\ [syncOn |-> cs.syncOn, owned |-> {}] \in Settings
  BY DEF IInv, Typed, Locals, Settings

\* Setting the switch does not touch the record, unless it tears the file.
LEMMA SetFlagKeepsRecord ==
  ASSUME IInv, NEW p \in Threads, SetFlag(p)
  PROVE  Record' = Record \/ ("save" \in Faults /\ Record' \subseteq Record)
<1>1. loadBypassSettings(json) \in Settings
  BY LoadedType DEF IInv
<1>2. /\ [loadBypassSettings(json) EXCEPT !.syncOn = (req[p] = "on")] \in Settings
      /\ [loadBypassSettings(json) EXCEPT !.syncOn = (req[p] = "on")].owned = Record
  BY <1>1 DEF Settings, Record
<1>3. \/ json' = [loadBypassSettings(json) EXCEPT !.syncOn = (req[p] = "on")]
      \/ "save" \in Faults /\ json' \in {json, Torn}
  BY DEF SetFlag, saveBypassSettings
<1> QED BY <1>2, <1>3, FileAssumption DEF Record, loadBypassSettings

\* If no save fails, the switch that is asked for is the one in the file afterwards.
LEMMA SetFlagSaves ==
  ASSUME "save" \notin Faults, IInv, NEW p \in Threads, SetFlag(p), req[p] # "on"
  PROVE  ~loadBypassSettings(json').syncOn
<1>1. loadBypassSettings(json) \in Settings
  BY LoadedType DEF IInv
<1>2. /\ [loadBypassSettings(json) EXCEPT !.syncOn = FALSE] \in Settings
      /\ [loadBypassSettings(json) EXCEPT !.syncOn = FALSE].syncOn = FALSE
  BY <1>1 DEF Settings
<1>3. json' = [loadBypassSettings(json) EXCEPT !.syncOn = FALSE]
  BY DEF SetFlag, saveBypassSettings
<1> QED BY <1>2, <1>3, FileAssumption DEF loadBypassSettings

\* The record grows by the entries that the sync adds, and only when it saves them.
LEMMA RecordGrows ==
  ASSUME IInv, [Next]_vars
  PROVE  \/ Record' \subseteq Record
         \/ \E p \in Threads : pc[p] = "save" /\ Record' \subseteq cs.owned
<1>1. CASE Quiet
  BY <1>1 DEF Quiet, Record
<1>2. CASE Kill
  BY <1>2 DEF Kill, Record, loadBypassSettings
<1>3. CASE \E u \in User : Outsider(u)
  BY <1>3 DEF Outsider, UserAdds, UserRemoves, ProxyWipes, Foreign, Record
<1>4. ASSUME NEW p \in Threads, SetFlag(p)
      PROVE  Record' \subseteq Record
  BY <1>4, SetFlagKeepsRecord
<1>5. ASSUME NEW p \in Threads, SaveOwned(p)
      PROVE  pc[p] = "save" /\ (Record' \subseteq Record \/ Record' \subseteq cs.owned)
  BY <1>5 DEF SaveOwned, saveBypassSettings, Record, loadBypassSettings
<1>6. ASSUME NEW p \in Threads, CleanSave(p)
      PROVE  Record' \subseteq Record
  BY <1>6 DEF CleanSave, saveBypassSettings, Record, loadBypassSettings
<1>7. ASSUME NEW p \in Threads,
             \/ Load(p) \/ ReadOverride(p) \/ ListDomains(p) \/ Compute(p) \/ WriteOverride(p)
             \/ Broadcast(p) \/ CleanLoad(p) \/ CleanRead(p) \/ CleanWrite(p)
      PROVE  Record' = Record
  BY <1>7
  DEF Load, ReadOverride, RegistryFails, ListDomains, Compute, ComputeWith,
      WriteOverride, Broadcast, CleanLoad, CleanRead, CleanWrite, Record
<1> QED
  BY <1>1, <1>2, <1>3, <1>4, <1>5, <1>6, <1>7, Kinds DEF Work

\* On a machine with one user, and unless he edits the list between the read and the
\* write of a sync, an entry of his never gets on the record of LocalMap's own.
THEOREM ClaimsNothingOfTheUser ==
  ASSUME OneUser, "during" \notin Outside
  PROVE  Spec => UserEntriesUnclaimed
<1>1. Init => Unclaimed
  BY DEF Init, Unclaimed, Threads, Entry
<1>2. IInv /\ Unclaimed /\ [Next]_vars => Unclaimed'
  BY UnclaimedStep
<1>3. IInv /\ Unclaimed /\ [Next]_vars =>
        [\A u \in User :
           (loadBypassSettings(json').owned \ loadBypassSettings(json).owned)
             \cap theirs[u] = {}]_vars
  <2> SUFFICES ASSUME IInv, Unclaimed, [Next]_vars, NEW u \in User
               PROVE  (Record' \ Record) \cap theirs[u] = {}
    BY DEF Record
  <2>1. CASE Record' \subseteq Record
    BY <2>1
  <2>2. ASSUME NEW p \in Threads, pc[p] = "save", Record' \subseteq cs.owned
        PROVE  (Record' \ Record) \cap theirs[u] = {}
    BY <2>2 DEF Unclaimed
  <2> QED BY <2>1, <2>2, RecordGrows
<1> QED
  BY <1>1, <1>2, <1>3, AlwaysIInv, PTL DEF Spec, UserEntriesUnclaimed

-----------------------------------------------------------------------------
(* One user, no kill and no failing save.                                  *)

\* What is LocalMap's own in the list stays on the record, on the new one between the
\* write and the save.
LEMMA OnRecordStep ==
  ASSUME OneUser, Faults \cap {"kill", "save"} = {}, IInv, OnRecord, [Next]_vars
  PROVE  OnRecord'
<1> USE DEF OnRecord
<1>a. ASSUME NEW p \in Threads,
             pc[p] \notin {"idle", "lock", "broadcast", "save", "cleanBroadcast", "cleanSave"}
      PROVE  \A u \in User : Own(u) \subseteq Record
  BY <1>a, ThreadAssumption DEF IInv, Exclusive
<1>1. CASE Quiet
  BY <1>1 DEF Quiet, Record, Own
<1>2. CASE Kill
  BY <1>2 DEF Kill
<1>3. ASSUME NEW u \in User, Outsider(u)
      PROVE  OnRecord'
  <2>1. pc' = pc /\ json' = json /\ cs' = cs
    BY <1>3 DEF Outsider, UserAdds, UserRemoves, ProxyWipes, Foreign, threadVars
  <2>2. \A v \in User : Own(v)' \subseteq Own(v)
    BY <1>3 DEF Outsider, UserAdds, UserRemoves, ProxyWipes, Own, IInv, Typed, TypeOK
  <2> QED BY <2>1, <2>2 DEF Record
<1>4. ASSUME NEW p \in Threads, SetFlag(p)
      PROVE  OnRecord'
  <2>1. /\ pc[p] = "flag"
        /\ Return(p, "ok") \/ Inside(p, "load") \/ Inside(p, "cleanLoad")
        /\ UNCHANGED <<override, theirs>>
    BY <1>4 DEF SetFlag, registryVars, IInv, Exclusive, Toggles
  <2>2. Record' = Record
    BY <1>4, SetFlagKeepsRecord
  <2>3. \A u \in User : (Own(u) \subseteq Record)'
    BY <1>a, <2>1, <2>2 DEF Own
  <2> QED BY <2>1, <2>3, ReturnLeaves, InsideStays
<1>5. ASSUME NEW p \in Threads, Load(p) \/ CleanLoad(p)
      PROVE  OnRecord'
  <2>1. /\ pc[p] \in {"load", "cleanLoad"}
        /\ Return(p, "ok") \/ Inside(p, "read") \/ Inside(p, "cleanRead")
        /\ UNCHANGED <<override, theirs, json>>
    BY <1>5 DEF Load, CleanLoad, registryVars
  <2>2. \A u \in User : (Own(u) \subseteq Record)'
    BY <1>a, <2>1 DEF Own, Record
  <2> QED BY <2>1, <2>2, ReturnLeaves, InsideStays
<1>6. ASSUME NEW p \in Threads, ReadOverride(p) \/ ListDomains(p)
      PROVE  OnRecord'
  <2>1. /\ pc[p] \in {"read", "list"}
        /\ UNCHANGED <<override, theirs, json>>
    BY <1>6 DEF ReadOverride, RegistryFails, ListDomains, registryVars
  <2>2. \A u \in User : Own(u) \subseteq Record
    BY <1>a, <2>1
  <2>3. \/ Return(p, "error")
        \/ /\ Inside(p, "list") \/ Inside(p, "compute")
           /\ cs'.entries \ cs'.mine \subseteq cs'.owned
    <3>1. CASE ReadOverride(p)
      <4>1. cs.owned = Record
        BY <3>1 DEF ReadOverride, RegistryFails, IInv, AsRead
      <4>2. session # Nobody => override[session] \ theirs[session] \subseteq cs.owned
        BY <2>2, <4>1 DEF Own, IInv, Typed, TypeOK
      <4> QED BY <3>1, <4>2 DEF ReadOverride, RegistryFails, Locals, IInv, Typed
    <3>2. CASE ListDomains(p)
      BY <3>2 DEF ListDomains, Locals, IInv, Typed
    <3> QED BY <1>6, <3>1, <3>2
  <2> QED BY <2>1, <2>2, <2>3, ReturnLeaves, InsideStays DEF Own, Record
<1>7. ASSUME NEW p \in Threads, Compute(p)
      PROVE  OnRecord'
  <2>1. /\ pc[p] = "compute"
        /\ UNCHANGED <<override, theirs, json>>
    BY <1>7 DEF Compute, ComputeWith, registryVars
  <2>2. cs.entries \ cs.mine \subseteq cs.owned /\ cs.owned = Record
    BY <2>1 DEF IInv, AsRead
  <2>3. \A u \in User : Own(u) \subseteq Record
    BY <1>a, <2>1
  <2>4. /\ cs'.entries \ cs'.mine \subseteq cs'.owned
        /\ Inside(p, "write") \/ (Inside(p, "save") /\ cs'.owned = cs.owned)
    <3> DEFINE owned == cs.owned \cup Missing
               dropped == ((cs.entries \cup Missing) \cap owned) \ cs.desired
    <3>1. cs' = [cs EXCEPT !.entries = (@ \cup Missing) \ dropped, !.owned = owned \ dropped]
      BY <1>7 DEF Compute, ComputeWith
    <3>2. /\ cs'.entries = (cs.entries \cup Missing) \ dropped
          /\ cs'.owned = owned \ dropped /\ cs'.mine = cs.mine
      BY <3>1 DEF Locals, IInv, Typed
    <3>3. Inside(p, "write") \/ (Inside(p, "save") /\ Missing \cup dropped = {})
      BY <1>7 DEF Compute, ComputeWith
    <3> QED BY <2>2, <3>2, <3>3
  <2> QED BY <2>1, <2>2, <2>3, <2>4, InsideStays DEF Own, Record
<1>8. ASSUME NEW p \in Threads, CleanRead(p)
      PROVE  OnRecord'
  <2>1. /\ pc[p] = "cleanRead"
        /\ UNCHANGED <<override, theirs, json>>
    BY <1>8 DEF CleanRead, RegistryFails, registryVars
  <2>2. cs.owned = Record /\ \A u \in User : Own(u) \subseteq Record
    BY <1>a, <2>1 DEF IInv, AsRead
  <2>3. CASE session = Nobody \/ RegistryFails(p)
    BY <1>8, <2>1, <2>2, <2>3, ReturnLeaves DEF CleanRead, RegistryFails, Own, Record
  <2>4. CASE session # Nobody /\ ~RegistryFails(p)
    <3>1. session \in User
      BY <2>4 DEF IInv, Typed, TypeOK
    <3>2. /\ cs'.entries = override[session] \ cs.owned
          /\ cs'.mine = theirs[session]
      BY <1>8, <2>4 DEF CleanRead, Locals, IInv, Typed
    <3>3. cs'.entries \subseteq cs'.mine
      BY <2>2, <3>1, <3>2 DEF Own
    <3>4. \/ Inside(p, "cleanWrite")
          \/ Inside(p, "cleanSave") /\ override[session] \cap cs.owned = {}
      BY <1>8, <2>4 DEF CleanRead
    <3>5. override[session] \cap cs.owned = {} => \A u \in User : Own(u) = {}
      BY <2>2, <3>1 DEF Own, OneUser
    <3> QED BY <2>1, <2>2, <3>3, <3>4, <3>5, InsideStays DEF Own, Record
  <2> QED BY <2>3, <2>4
<1>9. ASSUME NEW p \in Threads, WriteOverride(p) \/ CleanWrite(p)
      PROVE  OnRecord'
  <2>1. /\ pc[p] \in {"write", "cleanWrite"}
        /\ json' = json
        /\ \/ Return(p, "error") /\ UNCHANGED <<override, theirs>>
           \/ /\ WriteEntries /\ cs' = cs
              /\ \/ pc[p] = "write" /\ Inside(p, "broadcast")
                 \/ pc[p] = "cleanWrite" /\ Inside(p, "cleanBroadcast")
    BY <1>9 DEF WriteOverride, RegistryFails, CleanWrite, registryVars
  <2>2. CASE Return(p, "error") /\ UNCHANGED <<override, theirs>>
    <3>1. \A u \in User : (Own(u) \subseteq Record)'
      BY <1>a, <2>1, <2>2 DEF Own, Record
    <3> QED BY <2>1, <2>2, <3>1, ReturnLeaves
  <2>3. CASE WriteEntries
    <3>1. \A u \in User : Own(u)' = cs.entries \ (cs.mine \cap cs.entries)
      BY <2>1, <2>3 DEF WriteEntries, Own, OneUser, IInv, AsRead, Typed, TypeOK
    <3>2. pc[p] = "write" => cs.entries \ cs.mine \subseteq cs.owned
      OBVIOUS
    <3>3. pc[p] = "cleanWrite" => cs.entries \subseteq cs.mine
      OBVIOUS
    <3>4. CASE Return(p, "error") /\ UNCHANGED <<override, theirs>>
      BY <2>2, <3>4
    <3>5. CASE pc[p] = "write" /\ Inside(p, "broadcast") /\ cs' = cs
      BY <2>1, <3>1, <3>2, <3>5, InsideStays
    <3>6. CASE pc[p] = "cleanWrite" /\ Inside(p, "cleanBroadcast") /\ cs' = cs
      BY <2>1, <3>1, <3>3, <3>6, InsideStays
    <3> QED BY <2>1, <3>4, <3>5, <3>6
  <2> QED BY <2>1, <2>2, <2>3
<1>10. ASSUME NEW p \in Threads, Broadcast(p)
       PROVE  OnRecord'
  <2>1. /\ \/ pc[p] = "broadcast" /\ Inside(p, "save")
           \/ pc[p] = "cleanBroadcast" /\ Inside(p, "cleanSave")
        /\ UNCHANGED <<override, theirs, cs, json>>
    BY <1>10 DEF Broadcast, registryVars
  <2> QED BY <2>1, InsideStays DEF Own, Record
<1>11. ASSUME NEW p \in Threads, SaveOwned(p) \/ CleanSave(p)
       PROVE  OnRecord'
  <2>1. /\ (pc[p] = "save" /\ Record' = cs.owned) \/ pc[p] = "cleanSave"
        /\ Return(p, "ok") /\ UNCHANGED <<override, theirs>>
    BY <1>11, FileAssumption, SavedType
    DEF SaveOwned, CleanSave, saveBypassSettings, registryVars, Record,
        loadBypassSettings
  <2>2. \A u \in User : (Own(u) \subseteq Record)'
    BY <2>1 DEF Own
  <2> QED BY <2>1, <2>2, ReturnLeaves
<1> QED
  BY <1>1, <1>2, <1>3, <1>4, <1>5, <1>6, <1>7, <1>8, <1>9, <1>10, <1>11, Kinds DEF Work

\* On a machine with one user, if no kill and no failing save comes in between, each
\* entry that LocalMap has put into the list is on record outside the critical section,
\* whatever the user and proxy software write at whatever moment.
THEOREM OwnEntriesOnRecord ==
  ASSUME OneUser, Faults \cap {"kill", "save"} = {}
  PROVE  Spec => []NoOrphans
<1>1. Init => OnRecord
  BY DEF Init, OnRecord, Own, Threads
<1>2. IInv /\ OnRecord /\ [Next]_vars => OnRecord'
  BY OnRecordStep
<1>3. IInv /\ OnRecord => NoOrphans
  BY ThreadAssumption DEF IInv, Exclusive, OnRecord, Own, Record, NoOrphans, Threads
<1> QED
  BY <1>1, <1>2, <1>3, AlwaysIInv, PTL DEF Spec

-----------------------------------------------------------------------------
(* No failing save.                                                        *)

\* Once the switch is off in the file, it is while the entries are cleaned up.
LEMMA OffSavedStep ==
  ASSUME "save" \notin Faults, IInv, OffSaved, [Next]_vars
  PROVE  OffSaved'
<1> USE DEF OffSaved, CleanLabels
<1>1. CASE Quiet
  BY <1>1 DEF Quiet
<1>2. CASE Kill
  BY <1>2 DEF Kill
<1>3. CASE \E u \in User : Outsider(u)
  BY <1>3 DEF Outsider, UserAdds, UserRemoves, ProxyWipes, Foreign, threadVars
<1>4. ASSUME NEW p \in Threads, SetFlag(p)
      PROVE  OffSaved'
  <2>1. req[p] \in Toggles /\ pc[p] = "flag"
    BY <1>4 DEF SetFlag, IInv, Exclusive
  <2>2. \/ Return(p, "ok") \/ Inside(p, "load")
        \/ Inside(p, "cleanLoad") /\ req[p] = "offClean"
    BY <1>4, <2>1 DEF SetFlag, Toggles
  <2>3. req[p] = "offClean" => ~loadBypassSettings(json').syncOn
    BY <1>4, SetFlagSaves
  <2> QED BY <2>1, <2>2, <2>3, ReturnLeaves, InsideStays
<1>5. ASSUME NEW p \in Threads,
             \/ Load(p) \/ ReadOverride(p) \/ ListDomains(p) \/ Compute(p)
             \/ WriteOverride(p) \/ SaveOwned(p)
      PROVE  OffSaved'
  <2>1. pc[p] \in {"load", "read", "list", "compute", "write", "save"}
    BY <1>5
    DEF Load, ReadOverride, RegistryFails, ListDomains, Compute, ComputeWith,
        WriteOverride, SaveOwned
  <2>2. \/ Return(p, "ok") \/ Return(p, "error")
        \/ Inside(p, "read") \/ Inside(p, "list") \/ Inside(p, "compute")
        \/ Inside(p, "write") \/ Inside(p, "broadcast") \/ Inside(p, "save")
    BY <1>5
    DEF Load, ReadOverride, RegistryFails, ListDomains, Compute, ComputeWith,
        WriteOverride, SaveOwned
  <2> QED BY <2>1, <2>2, ReturnLeaves, InsideStays
<1>6. ASSUME NEW p \in Threads,
             Broadcast(p) \/ CleanLoad(p) \/ CleanRead(p) \/ CleanWrite(p)
      PROVE  OffSaved'
  <2>1. /\ pc[p] \in CleanLabels \cup {"broadcast"} /\ json' = json
        /\ \/ Return(p, "ok") \/ Return(p, "error")
           \/ pc[p] = "broadcast" /\ Inside(p, "save")
           \/ pc[p] # "broadcast" /\ \E l \in CleanLabels : Inside(p, l)
    BY <1>6 DEF Broadcast, CleanLoad, CleanRead, RegistryFails, CleanWrite
  <2> QED BY <2>1, ReturnLeaves, InsideStays
<1>7. ASSUME NEW p \in Threads, CleanSave(p)
      PROVE  OffSaved'
  BY <1>7, ReturnLeaves DEF CleanSave
<1> QED
  BY <1>1, <1>2, <1>3, <1>4, <1>5, <1>6, <1>7, Kinds DEF Work

\* If no save fails, switching off that is answered with success leaves the switch off
\* in the file, whatever else fails and whenever the engine is killed.
THEOREM OffAckIsOff ==
  ASSUME "save" \notin Faults
  PROVE  Spec => OffAckMeansOff
<1> DEFINE Ack(p) == req[p] \in {"off", "offClean"} /\ answer[p] = "none" /\ answer'[p] = "ok"
<1>1. Init => OffSaved
  BY DEF Init, OffSaved, CleanLabels, Threads
<1>2. IInv /\ OffSaved /\ [Next]_vars => OffSaved'
  BY OffSavedStep
<1>3. IInv /\ OffSaved /\ [Next]_vars =>
        [\A p \in Handlers :
           req[p] \in {"off", "offClean"} /\ answer[p] = "none" /\ answer'[p] = "ok"
             => ~loadBypassSettings(json').syncOn]_vars
  <2> SUFFICES ASSUME IInv, OffSaved, [Next]_vars, NEW p \in Handlers, Ack(p)
               PROVE  ~loadBypassSettings(json').syncOn
    OBVIOUS
  <2>0. p \in Threads
    BY DEF Threads
  <2>1. ~Quiet
    BY <2>0 DEF Quiet
  <2>2. ~Kill
    BY <2>0 DEF Kill
  <2>3. \A u \in User : ~Outsider(u)
    BY DEF Outsider, UserAdds, UserRemoves, ProxyWipes, Foreign, threadVars
  <2>4. PICK q \in Threads : Work(q)
    BY <2>1, <2>2, <2>3, Kinds
  <2>5. Return(q, "ok")
    <3>1. ASSUME NEW l, Inside(q, l)
          PROVE  FALSE
      BY <3>1 DEF Inside
    <3>2. ~Return(q, "error")
      BY <2>0 DEF Return, IInv, Typed, TypeOK
    <3>3. SetFlag(q) => req[q] \in Toggles
      BY DEF SetFlag, IInv, Exclusive
    <3> QED
      BY <2>4, <3>1, <3>2, <3>3
      DEF Work, SetFlag, Load, ReadOverride, RegistryFails, ListDomains, Compute,
          ComputeWith, WriteOverride, Broadcast, SaveOwned, CleanLoad, CleanRead,
          CleanWrite, CleanSave, Toggles
  <2>6. q = p
    BY <2>0, <2>5 DEF Return, IInv, Typed, TypeOK
  <2>7. CASE SetFlag(p)
    BY <2>0, <2>7, SetFlagSaves
  <2>8. CASE CleanLoad(p)
    BY <2>0, <2>8 DEF CleanLoad, OffSaved, CleanLabels
  <2>9. CASE CleanSave(p)
    <3>1. cs.syncOn = loadBypassSettings(json).syncOn /\ ~loadBypassSettings(json).syncOn
      BY <2>0, <2>9 DEF CleanSave, OffSaved, CleanLabels, IInv, ToggleNotUndone
    <3>2. json' = [syncOn |-> cs.syncOn, owned |-> {}]
      BY <2>9 DEF CleanSave, saveBypassSettings
    <3> QED BY <3>1, <3>2, SavedType, FileAssumption DEF loadBypassSettings
  <2>10. CASE pc[p] \in SyncLabels
    BY <2>0, <2>10 DEF IInv, Exclusive
  <2>11. ~(CleanRead(p) \/ CleanWrite(p) \/ (Broadcast(p) /\ pc[p] = "cleanBroadcast"))
    <3>1. ASSUME NEW l, l # "idle", Inside(p, l)
          PROVE  FALSE
      BY <2>0, <3>1 DEF Inside
    <3>2. ~Return(p, "error")
      BY <2>0 DEF Return, IInv, Typed, TypeOK
    <3> QED BY <3>1, <3>2 DEF CleanRead, RegistryFails, CleanWrite, Broadcast
  <2> QED
    BY <2>4, <2>6, <2>7, <2>8, <2>9, <2>10, <2>11
    DEF Work, Load, ReadOverride, RegistryFails, ListDomains, Compute, ComputeWith,
        WriteOverride, Broadcast, SaveOwned, SyncLabels
<1> QED
  BY <1>1, <1>2, <1>3, AlwaysIInv, PTL DEF Spec, OffAckMeansOff

=============================================================================
