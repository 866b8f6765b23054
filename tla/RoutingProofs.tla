--------------------------- MODULE RoutingProofs ---------------------------
(***************************************************************************)
(* Theorems about Routing for every set of tabs, domains and targets: a    *)
(* request reaches one target that its domain had while it was under way,  *)
(* and when nothing changes meanwhile visits and self checks get what the  *)
(* table and the HTTPS switch say.                                         *)
(***************************************************************************)
EXTENDS Routing, TLAPS

-----------------------------------------------------------------------------
(* The inductive invariant.                                                *)

\* A visit has seen the target that its domain has now, and the one it has found.
Witnessed(v) ==
  LET x == visit[v] IN
  /\ table[x.domain] \in x.seen
  /\ x.at \in {"route", "send"} => x.found \in x.seen
  /\ x.at = "send" => x.found # None

\* What a visit has found out still is so, if nothing has changed.
CalmVisit(v) ==
  LET x == visit[v] IN
  x.calm =>
    /\ x.at \in {"route", "send"} => x.found = table[x.domain]
    /\ x.at = "send" => x.found \in running /\ (on => x.tls)
    /\ x.at # "connect" /\ x.tls => listening /\ Mapped(x.domain)
    /\ x.typed \/ x.kept => x.tls
    /\ x.tls => x.typed \/ x.kept \/ (on /\ Mapped(x.domain))

\* So it is with what a self check has found out.
CalmProbe ==
  probe.calm =>
    /\ probe.at # "count" => \E d \in Domain : Mapped(d)
    /\ probe.at = "dial" => probe.name # None /\ Mapped(probe.name)

IInv ==
  /\ TypeOK
  /\ \A v \in Visits : Under(v) => Witnessed(v) /\ CalmVisit(v)
  /\ Probing => CalmProbe

\* What IInv says of one tab.
VisitInv(v) == Under(v) => Witnessed(v) /\ CalmVisit(v)

-----------------------------------------------------------------------------
(* Steps of the world.                                                     *)

\* A visit that has seen a change is a visit.
LEMMA DisturbedVisit ==
  ASSUME TypeOK, table' \in [Domain -> Target \cup {None}], NEW v \in Visits, Under(v)
  PROVE  [visit[v] EXCEPT !.calm = FALSE,
                          !.seen = @ \cup {table'[visit[v].domain]}] \in VisitState
<1>1. visit[v] \in VisitState
  BY DEF TypeOK, Under
<1>2. table'[visit[v].domain] \in Target \cup {None}
  BY <1>1 DEF VisitState
<1> QED BY <1>1, <1>2 DEF VisitState

\* A change under the visits leaves them of their kind.
LEMMA DisturbType ==
  ASSUME TypeOK, Disturb, table' \in [Domain -> Target \cup {None}]
  PROVE  /\ visit' \in [Visits -> VisitState \cup {None}]
         /\ answer' \in [Visits -> AnswerState \cup {None}]
         /\ probe' \in ProbeState \cup {None}
<1>1. [result |-> "refused", sent |-> None] \in AnswerState
  BY DEF AnswerState
<1>2. Probing => [probe EXCEPT !.calm = FALSE] \in ProbeState
  BY DEF TypeOK, Probing, ProbeState
<1> QED BY <1>1, <1>2, DisturbedVisit DEF Disturb, TypeOK

\* A visit that is under way has seen the change, and is calm no more.
LEMMA DisturbKeeps ==
  ASSUME IInv, Disturb, table' \in [Domain -> Target \cup {None}]
  PROVE  /\ \A v \in Visits : VisitInv(v)'
         /\ (Probing => CalmProbe)'
<1>1. ASSUME NEW v \in Visits, Under(v)'
      PROVE  (Witnessed(v) /\ CalmVisit(v))'
  <2>1. Under(v) /\ visit[v] \in VisitState
    BY <1>1 DEF Disturb, Under, IInv, TypeOK
  <2>2. visit'[v] = [visit[v] EXCEPT !.calm = FALSE,
                                     !.seen = @ \cup {table'[visit[v].domain]}]
    BY <1>1 DEF Disturb, Under
  <2>3. /\ visit'[v].calm = FALSE
        /\ visit'[v].seen = visit[v].seen \cup {table'[visit[v].domain]}
        /\ visit'[v].domain = visit[v].domain
        /\ visit'[v].at = visit[v].at /\ visit'[v].found = visit[v].found
    BY <2>1, <2>2 DEF VisitState
  <2>4. Witnessed(v)
    BY <2>1 DEF IInv
  <2> QED BY <2>3, <2>4 DEF Witnessed, CalmVisit
<1>2. Probing' => ~probe'.calm
  BY NoneAssumption DEF Disturb, Probing, IInv, TypeOK, ProbeState
<1> QED BY <1>1, <1>2 DEF VisitInv, CalmProbe

\* The table, HTTPS and the services change.
LEMMA WorldStep ==
  ASSUME IInv, ChangeTable \/ SwitchHttps \/ ServiceChanges
  PROVE  IInv'
<1>1. table' \in [Domain -> Target \cup {None}]
  <2>1. ASSUME ChangeTable
        PROVE  table' \in [Domain -> Target \cup {None}]
    BY <2>1 DEF ChangeTable, IInv, TypeOK
  <2> QED BY <2>1 DEF SwitchHttps, ServiceChanges, IInv, TypeOK
<1>2. {on', listening'} \subseteq BOOLEAN
  BY DEF ChangeTable, SwitchHttps, ServiceChanges, Https!Listen, Https!SwitchOn, Https!Close,
         Https!SwitchOff, IInv, TypeOK
<1>3. running' \subseteq Target
  BY DEF ChangeTable, SwitchHttps, ServiceChanges, IInv, TypeOK
<1>4. Disturb
  BY DEF ChangeTable, SwitchHttps, ServiceChanges
<1>5. cached' = cached /\ verdict' = verdict
  BY <1>4 DEF Disturb
<1>6. TypeOK'
  BY <1>1, <1>2, <1>3, <1>4, <1>5, DisturbType DEF IInv, TypeOK
<1> QED BY <1>1, <1>4, <1>6, DisturbKeeps DEF IInv, VisitInv

-----------------------------------------------------------------------------
(* Steps of a visit.                                                       *)

\* The visit that a step is about is the only one to change, and the world stays.
OnlyTab(v) ==
  /\ \A w \in Visits \ {v} : visit'[w] = visit[w]
  /\ UNCHANGED <<world, check>>

\* What holds of the other visits and of the self check goes on to hold.
LEMMA OthersKeep ==
  ASSUME IInv, NEW v \in Visits, OnlyTab(v), TypeOK', VisitInv(v)'
  PROVE  IInv'
<1>1. ASSUME NEW w \in Visits, w # v
      PROVE  VisitInv(w)'
  <2>1. VisitInv(w)
    BY DEF IInv, VisitInv
  <2>2. visit'[w] = visit[w] /\ UNCHANGED world
    BY <1>1 DEF OnlyTab
  <2> QED BY <2>1, <2>2 DEF VisitInv, Under, Witnessed, CalmVisit, Mapped, world
<1>2. (Probing => CalmProbe)'
  BY DEF OnlyTab, IInv, Probing, CalmProbe, Mapped, world, check
<1> QED BY <1>1, <1>2 DEF IInv, VisitInv

\* A visit begins.
LEMMA VisitStep ==
  ASSUME IInv, NEW v \in Visits, NEW d \in Domain, NEW https \in BOOLEAN,
         NEW origin \in {None, d, Other}, Visit(v, d, https, origin)
  PROVE  IInv'
<1> DEFINE x == [at |-> "connect", domain |-> d, origin |-> origin,
                 typed |-> https, kept |-> ~https /\ d \in cached,
                 tls |-> https \/ d \in cached,
                 found |-> None, seen |-> {table[d]}, calm |-> TRUE]
<1>1. x \in VisitState
  <2>1. table[d] \in Target \cup {None}
    BY DEF IInv, TypeOK
  <2> QED BY <2>1 DEF VisitState, Labels, Origin
<1>2. /\ visit' = [visit EXCEPT ![v] = x]
      /\ answer' = [answer EXCEPT ![v] = None]
      /\ UNCHANGED <<world, cached, check>>
  BY DEF Visit
<1>3. x.at = "connect" /\ x.domain = d /\ x.seen = {table[d]}
      /\ x.tls = (https \/ d \in cached)
      /\ x.typed = https /\ x.kept = (~https /\ d \in cached)
  OBVIOUS
<1> HIDE DEF x
<1>4. TypeOK' /\ visit'[v] = x /\ OnlyTab(v)
  BY <1>1, <1>2 DEF IInv, TypeOK, world, check, OnlyTab
<1>5. table'[d] \in x.seen
  BY <1>2, <1>3 DEF world
<1>6. VisitInv(v)'
  BY <1>3, <1>4, <1>5 DEF VisitInv, Witnessed, CalmVisit
<1> QED BY <1>4, <1>6, OthersKeep

\* A visit ends with an answer.
LEMMA EndStep ==
  ASSUME IInv, NEW v \in Visits, NEW result, NEW sent, AnswerSent(v, result, sent),
         [result |-> result, sent |-> sent] \in AnswerState,
         UNCHANGED <<world, cached, check>>
  PROVE  IInv'
<1>1. TypeOK' /\ OnlyTab(v)
  BY DEF AnswerSent, IInv, TypeOK, OnlyTab, world, check
<1>2. ~Under(v)'
  BY DEF AnswerSent, Under, IInv, TypeOK
<1> QED BY <1>1, <1>2, OthersKeep DEF VisitInv

\* A visit goes on, to one of its labels.
LEMMA GoStep ==
  ASSUME IInv, NEW v \in Visits, NEW x \in VisitState, UNCHANGED <<world, answer, check>>,
         visit' = [visit EXCEPT ![v] = x], cached' \subseteq Domain,
         visit'[v] = x => (Witnessed(v) /\ CalmVisit(v))'
  PROVE  IInv'
<1>1. TypeOK' /\ OnlyTab(v) /\ visit'[v] = x
  BY DEF IInv, TypeOK, OnlyTab, world, check
<1> QED BY <1>1, OthersKeep DEF VisitInv

\* Each step of a visit keeps what has been found out.
LEMMA ProceedStep ==
  ASSUME IInv, NEW v \in Visits, Proceed(v)
  PROVE  IInv'
<1> DEFINE x == visit[v]
<1>1. Under(v) /\ x \in VisitState /\ Witnessed(v) /\ CalmVisit(v)
  <2>1. Under(v)
    BY
    DEF Proceed, Connect, Handshake, Find, Redirect, RedirectAs, NotFound, Dial, Send,
        SendAs, BreakOff, At
  <2> QED BY <2>1 DEF IInv, TypeOK, Under
<1>2. ASSUME NEW label \in {"find", "send"}, Goto(v, label),
             UNCHANGED <<world, cached, check>>,
             label = "find" /\ x.tls => listening /\ Mapped(x.domain),
             label = "send" => /\ x.at = "route" /\ x.found # None
                               /\ x.found \in running /\ (on => x.tls)
      PROVE  IInv'
  <2>1. [x EXCEPT !.at = label] \in VisitState
    BY <1>1, <1>2 DEF VisitState, Labels
  <2>2. visit' = [visit EXCEPT ![v] = [x EXCEPT !.at = label]] /\ answer' = answer
    BY <1>2 DEF Goto
  <2>3. visit'[v] = [x EXCEPT !.at = label] =>
          /\ visit'[v].at = label /\ visit'[v].domain = x.domain
          /\ visit'[v].found = x.found /\ visit'[v].seen = x.seen
          /\ visit'[v].calm = x.calm /\ visit'[v].tls = x.tls
          /\ visit'[v].typed = x.typed /\ visit'[v].kept = x.kept
    BY <1>1 DEF VisitState
  <2>4. visit'[v] = [x EXCEPT !.at = label] => (Witnessed(v) /\ CalmVisit(v))'
    BY <1>1, <1>2, <2>3 DEF Witnessed, CalmVisit, Mapped, world
  <2>5. cached' \subseteq Domain
    BY <1>2 DEF IInv, TypeOK
  <2> QED BY <1>2, <2>1, <2>2, <2>4, <2>5, GoStep
<1>3. CASE Connect(v)
  BY <1>2, <1>3 DEF Connect
<1>4. CASE Handshake(v)
  <2>1. CASE listening /\ Mapped(x.domain)
    BY <1>2, <1>4, <2>1 DEF Handshake
  <2>2. CASE ~(listening /\ Mapped(x.domain))
    BY <1>4, <2>2, EndStep DEF Handshake, Answer, AnswerState
  <2> QED BY <2>1, <2>2
<1>5. CASE Find(v)
  <2> DEFINE y == [x EXCEPT !.at = "route", !.found = table[x.domain]]
  <2>1. table[x.domain] \in Target \cup {None}
    BY <1>1 DEF VisitState, IInv, TypeOK
  <2>2. y \in VisitState
    BY <1>1, <2>1 DEF VisitState, Labels
  <2>3. visit' = [visit EXCEPT ![v] = y]
    BY <1>5 DEF Find
  <2>4. visit'[v] = y =>
          /\ visit'[v].at = "route" /\ visit'[v].domain = x.domain
          /\ visit'[v].found = table[x.domain] /\ visit'[v].seen = x.seen
          /\ visit'[v].calm = x.calm /\ visit'[v].tls = x.tls
          /\ visit'[v].typed = x.typed /\ visit'[v].kept = x.kept
    BY <1>1 DEF VisitState
  <2>5. x.at = "find" /\ UNCHANGED <<world, cached, answer, check>>
    BY <1>5 DEF Find, At
  <2>6. visit'[v] = y => (Witnessed(v) /\ CalmVisit(v))'
    BY <1>1, <2>4, <2>5 DEF Witnessed, CalmVisit, Mapped, world
  <2>7. cached' \subseteq Domain
    BY <2>5 DEF IInv, TypeOK
  <2> HIDE DEF y
  <2> QED BY <2>2, <2>3, <2>5, <2>6, <2>7, GoStep
<1>6. CASE Redirect(v)
  <2> DEFINE y == [x EXCEPT !.at = "connect", !.tls = TRUE]
  <2>1. y \in VisitState
    BY <1>1 DEF VisitState, Labels
  <2>2. visit' = [visit EXCEPT ![v] = y]
    BY <1>6 DEF Redirect, RedirectAs
  <2>3. visit'[v] = y =>
          /\ visit'[v].at = "connect" /\ visit'[v].domain = x.domain
          /\ visit'[v].found = x.found /\ visit'[v].seen = x.seen
          /\ visit'[v].calm = x.calm /\ visit'[v].tls = TRUE
          /\ visit'[v].typed = x.typed /\ visit'[v].kept = x.kept
    BY <1>1 DEF VisitState
  <2>4. /\ x.at = "route" /\ x.found # None /\ on
        /\ cached' = cached \cup {x.domain}
        /\ UNCHANGED <<world, answer, check>>
    BY <1>6 DEF Redirect, RedirectAs, ToBeRedirected, At
  <2>5. visit'[v] = y => (Witnessed(v) /\ CalmVisit(v))'
    BY <1>1, <2>3, <2>4 DEF Witnessed, CalmVisit, Mapped, world
  <2>6. cached' \subseteq Domain
    BY <1>1, <2>4 DEF IInv, TypeOK, VisitState
  <2> HIDE DEF y
  <2> QED BY <2>1, <2>2, <2>4, <2>5, <2>6, GoStep
<1>7. CASE NotFound(v)
  BY <1>7, EndStep DEF NotFound, Answer, AnswerState
<1>8. CASE Dial(v)
  <2>1. CASE x.found \in running
    <3>1. on => x.tls
      BY <1>8 DEF Dial, ToBeRedirected
    <3> QED BY <1>2, <1>8, <2>1, <3>1 DEF Dial, At
  <2>2. CASE x.found \notin running
    BY <1>8, <2>2, EndStep DEF Dial, Answer, AnswerState
  <2> QED BY <2>1, <2>2
<1>9. CASE Send(v)
  <2> DEFINE sent == [host |-> x.found,
                      origin |-> IF x.origin = x.domain THEN x.found ELSE x.origin]
  <2>1. x.found \in Target
    BY <1>1, <1>9 DEF Send, SendAs, At, Witnessed, VisitState
  <2>2. [result |-> "served", sent |-> sent] \in AnswerState
    BY <1>1, <2>1 DEF AnswerState, VisitState
  <2>3. AnswerSent(v, "served", sent) /\ UNCHANGED <<world, cached, check>>
    BY <1>9 DEF Send, SendAs
  <2> HIDE DEF sent
  <2> QED BY <2>2, <2>3, EndStep
<1>10. CASE BreakOff(v)
  BY <1>10, EndStep DEF BreakOff, Answer, AnswerState
<1> QED
  BY <1>3, <1>4, <1>5, <1>6, <1>7, <1>8, <1>9, <1>10 DEF Proceed

-----------------------------------------------------------------------------
(* Steps of the self check.                                                *)

\* A self check leaves the visits alone.
LEMMA SelfCheckStep ==
  ASSUME IInv, SelfCheck
  PROVE  IInv'
<1>1. UNCHANGED <<world, tabs>>
  BY DEF SelfCheck, Check, CountDomains, NameServer, ProbeTLS, Conclude
<1>2. \A v \in Visits : VisitInv(v)'
  BY <1>1 DEF IInv, VisitInv, Under, Witnessed, CalmVisit, Mapped, world, tabs
<1>3. ASSUME NEW y \in ProbeState, probe' = y, verdict' = verdict,
             y.calm => /\ y.at # "count" => \E d \in Domain : Mapped(d)
                       /\ y.at = "dial" => y.name # None /\ Mapped(y.name)
      PROVE  IInv'
  <2>1. TypeOK'
    BY <1>1, <1>3 DEF IInv, TypeOK, world, tabs
  <2>2. CalmProbe'
    BY <1>1, <1>3 DEF CalmProbe, Mapped, world
  <2> QED BY <1>2, <2>1, <2>2 DEF IInv, VisitInv
<1>4. ASSUME probe' = None, verdict' \in {"skipped", "good", "bad"}
      PROVE  IInv'
  BY <1>1, <1>2, <1>4 DEF IInv, TypeOK, VisitInv, Probing, world, tabs
<1>5. CASE Check
  <2>1. [at |-> "count", name |-> None, calm |-> TRUE] \in ProbeState
    BY DEF ProbeState
  <2> QED BY <1>3, <1>5, <2>1 DEF Check
<1>6. CASE CountDomains
  <2>1. CASE \A d \in Domain : ~Mapped(d)
    BY <1>4, <1>6, <2>1 DEF CountDomains, Conclude
  <2>2. CASE \E d \in Domain : Mapped(d)
    <3>1. probe' = [probe EXCEPT !.at = "list"] /\ verdict' = verdict
      BY <1>6, <2>2 DEF CountDomains
    <3>2. [probe EXCEPT !.at = "list"] \in ProbeState
      BY <1>6 DEF CountDomains, ProbeAt, Probing, IInv, TypeOK, ProbeState
    <3>3. [probe EXCEPT !.at = "list"].at = "list"
      BY <1>6 DEF CountDomains, ProbeAt, Probing, IInv, TypeOK, ProbeState
    <3> QED BY <1>3, <2>2, <3>1, <3>2, <3>3
  <2> QED BY <2>1, <2>2
<1>7. CASE NameServer
  <2>1. probe \in ProbeState /\ CalmProbe /\ probe.at = "list"
    BY <1>7 DEF NameServer, ProbeAt, Probing, IInv, TypeOK
  <2>2. PICK d \in Domain \cup {None} :
          /\ IF d = None THEN \A e \in Domain : ~Mapped(e) ELSE Mapped(d)
          /\ probe' = [probe EXCEPT !.at = "dial", !.name = d]
    BY <1>7 DEF NameServer
  <2> DEFINE y == [probe EXCEPT !.at = "dial", !.name = d]
  <2>3. y \in ProbeState /\ y.name = d /\ y.calm = probe.calm
    BY <2>1 DEF ProbeState
  <2>4. y.calm => y.name # None /\ Mapped(y.name) /\ \E e \in Domain : Mapped(e)
    BY <2>1, <2>2, <2>3 DEF CalmProbe
  <2>5. verdict' = verdict
    BY <1>7 DEF NameServer
  <2> HIDE DEF y
  <2>6. probe' = y
    BY <2>2 DEF y
  <2> QED BY <1>3, <2>3, <2>4, <2>5, <2>6
<1>8. CASE ProbeTLS
  BY <1>4, <1>8 DEF ProbeTLS, Conclude
<1> QED BY <1>5, <1>6, <1>7, <1>8 DEF SelfCheck

-----------------------------------------------------------------------------
(* The properties of the runs, for every instance.                         *)

\* The inductive invariant holds in every state of every behaviour.
LEMMA AlwaysIInv == Spec => []IInv
<1>1. Init => IInv
  BY DEF Init, Https!Init, IInv, TypeOK, Under, Probing
<1>2. IInv /\ [Next]_vars => IInv'
  <2>1. ASSUME IInv, UNCHANGED vars
        PROVE  IInv'
    BY <2>1
    DEF IInv, TypeOK, Under, Probing, Witnessed, CalmVisit, CalmProbe, Mapped, vars,
        world, tabs, check
  <2> QED
    BY <2>1, WorldStep, ProceedStep, VisitStep, SelfCheckStep DEF Next
<1> QED BY <1>1, <1>2, PTL DEF Spec

\* Tables, visits, answers and self checks are always of their kinds.
THEOREM TypeCorrect == Spec => []TypeOK
<1>1. IInv => TypeOK
  BY DEF IInv
<1> QED BY <1>1, AlwaysIInv, PTL

\* A visit ends with its connection, or in one of five ways of its own.
LEMMA HowVisitsEnd ==
  ASSUME IInv, [Next]_vars, NEW v \in Visits, Ends(v)
  PROVE  \/ answer'[v].result = "refused" /\ ~UNCHANGED world
         \/ Handshake(v) /\ answer'[v].result = "refused"
         \/ NotFound(v) /\ answer'[v].result = "notFound"
         \/ Dial(v) /\ answer'[v].result = "badGateway"
         \/ Send(v) /\ answer'[v].result = "served"
         \/ BreakOff(v) /\ answer'[v].result = "badGateway"
<1> DEFINE x == visit[v]
<1>1. x \in VisitState /\ Under(v) /\ visit'[v] = None
  BY DEF Ends, Under, IInv, TypeOK
<1>2. ASSUME NEW y \in VisitState, visit' = [visit EXCEPT ![v] = y]
      PROVE  FALSE
  BY <1>1, <1>2, NoneAssumption DEF IInv, TypeOK
<1>3. ASSUME NEW result, Answer(v, result)
      PROVE  answer'[v].result = result
  BY <1>3 DEF Answer, AnswerSent, IInv, TypeOK
<1>4. CASE ChangeTable \/ SwitchHttps \/ ServiceChanges
  <2>1. Disturb
    BY <1>4 DEF ChangeTable, SwitchHttps, ServiceChanges
  <2>2. table' \in [Domain -> Target \cup {None}]
    BY <1>4, WorldStep DEF IInv, TypeOK
  <2>3. Cut(v)
    BY <1>1, <2>1, <2>2, DisturbedVisit, NoneAssumption DEF Disturb, IInv
  <2>4. answer'[v] = [result |-> "refused", sent |-> None]
    BY <2>1, <2>3 DEF Disturb
  <2>5. UNCHANGED world => listening' = listening
    BY DEF world
  <2>6. listening /\ ~listening'
    BY <2>3 DEF Cut
  <2>7. ~UNCHANGED world
    BY <2>5, <2>6, Zenon
  <2> QED BY <2>4, <2>7
<1>5. ASSUME NEW w \in Visits, Proceed(w), w # v
      PROVE  FALSE
  BY <1>1, <1>5, NoneAssumption
  DEF Proceed, Connect, Handshake, Find, Redirect, RedirectAs, NotFound, Dial, Send,
      SendAs, BreakOff, Goto, Answer, AnswerSent, IInv, TypeOK
<1>6. ASSUME NEW w \in Visits, NEW d \in Domain, NEW https \in BOOLEAN,
             NEW origin \in {None, d, Other}, Visit(w, d, https, origin)
      PROVE  FALSE
  <2>1. w # v
    BY <1>1, <1>6 DEF Visit
  <2> QED BY <1>1, <1>6, <2>1, NoneAssumption DEF Visit, IInv, TypeOK
<1>7. ASSUME Connect(v) \/ Find(v) \/ Redirect(v)
      PROVE  FALSE
  <2>1. CASE Connect(v)
    <3>1. [x EXCEPT !.at = "find"] \in VisitState
      BY <1>1 DEF VisitState, Labels
    <3> QED BY <1>2, <2>1, <3>1 DEF Connect, Goto
  <2>2. CASE Find(v)
    <3>1. [x EXCEPT !.at = "route", !.found = table[x.domain]] \in VisitState
      BY <1>1 DEF VisitState, Labels, IInv, TypeOK
    <3> QED BY <1>2, <2>2, <3>1 DEF Find
  <2>3. CASE Redirect(v)
    <3>1. [x EXCEPT !.at = "connect", !.tls = TRUE] \in VisitState
      BY <1>1 DEF VisitState, Labels
    <3> QED BY <1>2, <2>3, <3>1 DEF Redirect, RedirectAs
  <2> QED BY <1>7, <2>1, <2>2, <2>3
<1>8. ASSUME NEW label \in {"find", "send"}, Goto(v, label)
      PROVE  FALSE
  <2>1. [x EXCEPT !.at = label] \in VisitState
    BY <1>1 DEF VisitState, Labels
  <2> QED BY <1>2, <1>8, <2>1 DEF Goto
<1>9. CASE Handshake(v)
  BY <1>3, <1>8, <1>9 DEF Handshake
<1>10. CASE NotFound(v)
  BY <1>3, <1>10 DEF NotFound
<1>11. CASE Dial(v)
  BY <1>3, <1>8, <1>11 DEF Dial
<1>12. CASE Send(v)
  BY <1>12 DEF Send, SendAs, AnswerSent, IInv, TypeOK
<1>14. CASE BreakOff(v)
  BY <1>3, <1>14 DEF BreakOff
<1>13. CASE SelfCheck \/ UNCHANGED vars
  BY <1>1, <1>13, NoneAssumption
  DEF SelfCheck, Check, CountDomains, NameServer, ProbeTLS, Conclude, vars, tabs
<1> QED
  BY <1>4, <1>5, <1>6, <1>7, <1>9, <1>10, <1>11, <1>12, <1>13, <1>14
  DEF Next, Proceed

\* Whatever happens to mapping, HTTPS and services while a request is under way, the
\* service that gets it is one that the domain was mapped to during the visit, and is
\* named as itself in Host and origin.
THEOREM RequestsReachOneTarget == Spec => ForwardedAsOne
<1> DEFINE Right(v) ==
      LET x == visit[v]
          sent == answer'[v].sent
      IN
      Ends(v) /\ answer'[v].result = "served" =>
        /\ x.found \in x.seen \ {None}
        /\ sent.host = x.found
        /\ sent.origin = IF x.origin = x.domain THEN x.found ELSE x.origin
<1>1. ASSUME IInv, [Next]_vars, NEW v \in Visits
      PROVE  Right(v)
  <2> SUFFICES ASSUME Ends(v), answer'[v].result = "served"
               PROVE  Right(v)
    OBVIOUS
  <2>1. Send(v)
    BY <1>1, HowVisitsEnd
  <2>2. Under(v) /\ visit[v].at = "send" /\ Witnessed(v)
    BY <1>1, <2>1 DEF Send, SendAs, At, IInv
  <2>3. answer'[v] =
          [result |-> "served",
           sent |-> [host |-> visit[v].found,
                     origin |-> IF visit[v].origin = visit[v].domain THEN visit[v].found
                                ELSE visit[v].origin]]
    BY <1>1, <2>1 DEF Send, SendAs, AnswerSent, IInv, TypeOK
  <2> QED BY <2>2, <2>3 DEF Witnessed
<1>2. IInv /\ [Next]_vars => [\A v \in Visits : Right(v)]_vars
  BY <1>1
<1> QED BY <1>2, AlwaysIInv, PTL DEF Spec, ForwardedAsOne

\* A visit during which nothing changes gets what the table and the switch say, except
\* from a listener left closed by a failed disabling and by a 308 kept since HTTPS was
\* on.
THEOREM CalmVisitsServed == Spec => CalmVisitServed
<1> DEFINE Right(v) ==
      LET x == visit[v]
          t == table[x.domain]
          result == answer'[v].result
      IN
      EndsCalmly(v) /\ (on => listening) /\ ~Misled(v) =>
        /\ t # None /\ (x.typed => on) =>
             x.tls = on /\ result = IF t \in running THEN "served" ELSE "badGateway"
        /\ t = None => result = IF x.typed \/ x.kept THEN "refused" ELSE "notFound"
<1>1. ASSUME IInv, [Next]_vars, NEW v \in Visits
      PROVE  Right(v)
  <2> SUFFICES ASSUME EndsCalmly(v), on => listening, ~Misled(v)
               PROVE  Right(v)
    OBVIOUS
  <2> DEFINE x == visit[v]
             t == table[x.domain]
  <2>1. /\ x \in VisitState /\ CalmVisit(v) /\ x.calm
        /\ Ends(v) /\ UNCHANGED world
        /\ on \in BOOLEAN
    BY <1>1 DEF EndsCalmly, Ends, Under, IInv, TypeOK
  <2>2. x.kept => on
    BY DEF Misled
  <2>3. CASE Handshake(v) /\ answer'[v].result = "refused"
    <3>1. x.tls /\ ~(listening /\ t # None)
      <4>1. ASSUME Goto(v, "find")
            PROVE  FALSE
        <5>1. [x EXCEPT !.at = "find"] \in VisitState
          BY <2>1 DEF VisitState, Labels
        <5> QED BY <2>1, <4>1, <5>1, NoneAssumption, <1>1
                DEF Goto, Ends, Under, IInv, TypeOK
      <4> QED BY <2>3, <4>1 DEF Handshake, Mapped
    <3> QED BY <2>1, <2>2, <2>3, <3>1 DEF CalmVisit, Mapped, VisitState
  <2>4. CASE NotFound(v) /\ answer'[v].result = "notFound"
    <3>1. x.at = "route" /\ x.found = None
      BY <2>4 DEF NotFound, At
    <3> QED BY <2>1, <2>2, <2>4, <3>1 DEF CalmVisit, Mapped, VisitState
  <2>5. CASE Dial(v) /\ answer'[v].result = "badGateway"
    <3>1. x.at = "route" /\ x.found # None /\ (on => x.tls) /\ x.found \notin running
      <4>1. ASSUME Goto(v, "send")
            PROVE  FALSE
        <5>1. [x EXCEPT !.at = "send"] \in VisitState
          BY <2>1 DEF VisitState, Labels
        <5> QED BY <2>1, <4>1, <5>1, NoneAssumption, <1>1
                DEF Goto, Ends, Under, IInv, TypeOK
      <4> QED BY <2>5, <4>1 DEF Dial, At, ToBeRedirected
    <3> QED BY <2>1, <2>2, <2>5, <3>1 DEF CalmVisit, Mapped, VisitState
  <2>6. CASE Send(v) /\ answer'[v].result = "served"
    <3>1. x.at = "send" /\ x.found # None
      BY <1>1, <2>6 DEF Send, SendAs, At, IInv, Witnessed
    <3> QED BY <2>1, <2>2, <2>6, <3>1 DEF CalmVisit, Mapped, VisitState
  <2>7. ~BreakOff(v)
    BY <2>1, NoneAssumption DEF BreakOff, At, CalmVisit
  <2> QED BY <1>1, <2>1, <2>3, <2>4, <2>5, <2>6, <2>7, HowVisitsEnd
<1>2. IInv /\ [Next]_vars => [\A v \in Visits : Right(v)]_vars
  BY <1>1
<1> QED BY <1>2, AlwaysIInv, PTL DEF Spec, CalmVisitServed

\* A self check during which nothing changes finds the listener good if and only if it
\* listens, and probes nothing if there is no mapping.
THEOREM CalmSelfChecksRight == Spec => SelfCheckRight
<1> DEFINE Right ==
      Probing /\ ~Probing' /\ probe.calm =>
        verdict' =
          IF \A d \in Domain : ~Mapped(d) THEN "skipped"
          ELSE IF listening THEN "good" ELSE "bad"
<1>1. ASSUME IInv, [Next]_vars
      PROVE  Right
  <2> SUFFICES ASSUME Probing, probe' = None, probe.calm
               PROVE  Right
    BY DEF Probing
  <2>1. probe \in ProbeState /\ CalmProbe
    BY <1>1 DEF IInv, TypeOK, Probing
  <2>2. ~Disturb
    <3>1. [probe EXCEPT !.calm = FALSE] \in ProbeState
      BY <2>1 DEF ProbeState
    <3> QED BY <3>1, NoneAssumption DEF Disturb
  <2>3. probe # None
    BY DEF Probing
  <2>4. CountDomains \/ ProbeTLS
    <3>1. ASSUME NEW v \in Visits, Proceed(v)
          PROVE  probe' = probe
      BY <3>1
      DEF Proceed, Connect, Handshake, Find, Redirect, RedirectAs, NotFound, Dial,
          Send, SendAs, BreakOff, check
    <3>2. ~NameServer
      <4>1. \A d \in Domain \cup {None} :
              [probe EXCEPT !.at = "dial", !.name = d] \in ProbeState
        BY <2>1 DEF ProbeState
      <4> QED BY <4>1, NoneAssumption DEF NameServer
    <3> QED
      BY <1>1, <2>2, <2>3, <3>1, <3>2
      DEF Next, ChangeTable, SwitchHttps, ServiceChanges, Visit, SelfCheck, Check,
          vars, check
  <2>5. CASE CountDomains
    <3>1. [probe EXCEPT !.at = "list"] \in ProbeState
      BY <2>1 DEF ProbeState
    <3> QED BY <2>5, <3>1, NoneAssumption DEF CountDomains, Conclude
  <2>6. CASE ProbeTLS
    BY <2>1, <2>6 DEF ProbeTLS, ProbeAt, Conclude, CalmProbe
  <2> QED BY <2>4, <2>5, <2>6
<1>2. IInv /\ [Next]_vars => [Right]_vars
  BY <1>1
<1> QED BY <1>2, AlwaysIInv, PTL DEF Spec, SelfCheckRight

=============================================================================
