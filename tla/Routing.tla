------------------------------ MODULE Routing ------------------------------
(***************************************************************************)
(* Requests for mapped domains (src/engine/proxy.go, the handshake in      *)
(* main.go) while mappings, HTTPS and the target services change under     *)
(* them, and the self check that probes the same way (api.go).  A request  *)
(* takes no lock from its arrival to its answer: it reads the table in     *)
(* Find and e.httpsOn after it, over TLS the table in GetCertificate too.  *)
(*                                                                         *)
(* HTTPS is its abstract specification, HttpsSwitch, which Https           *)
(* implements.  The engine runs throughout; Store and Https restart it.    *)
(* A visit and a self check are not under way together: neither writes     *)
(* what the other reads.                                                   *)
(***************************************************************************)
EXTENDS Integers

CONSTANTS
  Visits,       \* tabs of a browser
  Domain,
  Target,       \* the addresses of local services
  None,         \* no target, no visit, no domain
  Other         \* an origin that is neither None nor the domain visited

Labels == {"connect", "find", "route", "send"}
Origin == Domain \cup {None, Other}

VisitState ==
  [at : Labels, domain : Domain, origin : Origin, typed : BOOLEAN, kept : BOOLEAN,
   tls : BOOLEAN, found : Target \cup {None}, seen : SUBSET (Target \cup {None}),
   calm : BOOLEAN]

ProbeState ==
  [at : {"count", "list", "dial"}, name : Domain \cup {None}, calm : BOOLEAN]

ASSUME NoneAssumption ==
  /\ None \notin Target \cup Domain \cup {Other}
  /\ None \notin VisitState \cup ProbeState

VARIABLES
  table,        \* per domain, its target or None
  on, listening,  \* HTTPS
  running,      \* the services that accept connections
  cached,       \* the domains for which the browser keeps a 308
  visit,        \* per tab, a visit under way or None
  answer,       \* per tab, what the last visit got, and what the service was sent
  probe,        \* the check of HTTPS in a self check under way, or None
  verdict       \* what the last one said

world == <<table, on, listening, running>>
tabs == <<cached, visit, answer>>
check == <<probe, verdict>>
vars == <<world, tabs, check>>

Https == INSTANCE HttpsSwitch

Mapped(d) == table[d] # None

Init ==
  /\ table = [d \in Domain |-> None]
  /\ Https!Init
  /\ running \in SUBSET Target
  /\ cached = {}
  /\ visit = [v \in Visits |-> None]
  /\ answer = [v \in Visits |-> None]
  /\ probe = None
  /\ verdict = "none"

-----------------------------------------------------------------------------
(* What changes under the requests.  A visit notes the targets that its    *)
(* domain has had since it began, and that something changed.              *)

Under(v) == visit[v] # None
Probing == probe # None

\* Closing the listener cuts the connections to it.
Cut(v) == Under(v) /\ listening /\ ~listening' /\ visit[v].tls /\ visit[v].at # "connect"

Disturb ==
  /\ visit' = [v \in Visits |->
       IF ~Under(v) \/ Cut(v) THEN None
       ELSE [visit[v] EXCEPT !.calm = FALSE, !.seen = @ \cup {table'[visit[v].domain]}]]
  /\ answer' = [v \in Visits |->
       IF Cut(v) THEN [result |-> "refused", sent |-> None] ELSE answer[v]]
  /\ probe' = IF Probing THEN [probe EXCEPT !.calm = FALSE] ELSE probe
  /\ UNCHANGED <<cached, verdict>>

\* Upsert, Remove and Replace.
ChangeTable ==
  /\ \/ \E d \in Domain, t \in Target \cup {None} : table' = [table EXCEPT ![d] = t]
     \/ \E old, d \in Domain, t \in Target :
          /\ Mapped(old) /\ ~Mapped(d)
          /\ table' = [table EXCEPT ![old] = None, ![d] = t]
  /\ table' # table
  /\ UNCHANGED <<on, listening, running>>
  /\ Disturb

SwitchHttps ==
  /\ Https!Listen \/ Https!SwitchOn \/ Https!Close \/ Https!SwitchOff
  /\ UNCHANGED <<table, running>>
  /\ Disturb

\* A service starts or ends.
ServiceChanges ==
  /\ \E t \in Target :
       running' = IF t \in running THEN running \ {t} ELSE running \cup {t}
  /\ UNCHANGED <<table, on, listening>>
  /\ Disturb

-----------------------------------------------------------------------------
(* A visit.                                                                *)

\* The user types a URL, or a page sends a request; a 308 kept by the browser
\* sends it to https at once.
Visit(v, d, https, origin) ==
  /\ ~Under(v)
  /\ ~Probing
  /\ visit' = [visit EXCEPT ![v] =
       [at |-> "connect", domain |-> d, origin |-> origin,
        typed |-> https, kept |-> ~https /\ d \in cached, tls |-> https \/ d \in cached,
        found |-> None, seen |-> {table[d]}, calm |-> TRUE]]
  /\ answer' = [answer EXCEPT ![v] = None]
  /\ UNCHANGED <<world, cached, check>>

At(v, label) == Under(v) /\ visit[v].at = label
Goto(v, label) == visit' = [visit EXCEPT ![v].at = label] /\ UNCHANGED answer

AnswerSent(v, result, sent) ==
  /\ visit' = [visit EXCEPT ![v] = None]
  /\ answer' = [answer EXCEPT ![v] = [result |-> result, sent |-> sent]]

Answer(v, result) == AnswerSent(v, result, None)

Connect(v) ==
  /\ At(v, "connect")
  /\ ~visit[v].tls
  /\ Goto(v, "find")
  /\ UNCHANGED <<world, cached, check>>

\* The handshake fails without a listener, and in GetCertificate for a domain
\* that is not mapped.
Handshake(v) ==
  /\ At(v, "connect")
  /\ visit[v].tls
  /\ IF listening /\ Mapped(visit[v].domain) THEN Goto(v, "find")
     ELSE Answer(v, "refused")
  /\ UNCHANGED <<world, cached, check>>

Find(v) ==
  /\ At(v, "find")
  /\ visit' = [visit EXCEPT ![v].at = "route", ![v].found = table[visit[v].domain]]
  /\ UNCHANGED <<world, cached, answer, check>>

\* The 308, which the browser follows and keeps.
RedirectAs(v, guard) ==
  /\ At(v, "route")
  /\ guard
  /\ visit' = [visit EXCEPT ![v].at = "connect", ![v].tls = TRUE]
  /\ cached' = cached \cup {visit[v].domain}
  /\ UNCHANGED <<world, answer, check>>

ToBeRedirected(v) == visit[v].found # None /\ on /\ ~visit[v].tls

\* Mutant of Redirect: requests over TLS are redirected like the others.
Redirect_always(v) == RedirectAs(v, visit[v].found # None /\ on)

\* Mutant of Redirect: the domain need not be mapped.
Redirect_unmapped(v) == RedirectAs(v, on /\ ~visit[v].tls)

Redirect(v) == RedirectAs(v, ToBeRedirected(v))

NotFound(v) ==
  /\ At(v, "route")
  /\ visit[v].found = None
  /\ Answer(v, "notFound")
  /\ UNCHANGED <<world, cached, check>>

Dial(v) ==
  /\ At(v, "route")
  /\ visit[v].found # None
  /\ ~ToBeRedirected(v)
  /\ IF visit[v].found \in running THEN Goto(v, "send") ELSE Answer(v, "badGateway")
  /\ UNCHANGED <<world, cached, check>>

\* What reaches the service, as the Director has set it before the dial: Host is
\* target, and so is the visited domain as origin.
SendAs(v, target) ==
  /\ At(v, "send")
  /\ AnswerSent(v, "served",
       [host |-> target,
        origin |-> IF visit[v].origin = visit[v].domain THEN target ELSE visit[v].origin])
  /\ UNCHANGED <<world, cached, check>>

\* Mutant of Send: the Director looks the domain up again.
Send_findsAgain(v) == SendAs(v, table[visit[v].domain])

Send(v) == SendAs(v, visit[v].found)

\* The service ends before it has answered (proxy.go:59-63).
BreakOff(v) ==
  /\ At(v, "send")
  /\ visit[v].found \notin running
  /\ Answer(v, "badGateway")
  /\ UNCHANGED <<world, cached, check>>

Proceed(v) ==
  \/ Connect(v)
  \/ Handshake(v)
  \/ Find(v)
  \/ Redirect(v)
  \/ NotFound(v)
  \/ Dial(v)
  \/ Send(v)
  \/ BreakOff(v)

-----------------------------------------------------------------------------
(* The check of the HTTPS listener in the self check.                      *)

Conclude(result) == probe' = None /\ verdict' = result /\ UNCHANGED <<world, tabs>>
ProbeAt(label) == Probing /\ probe.at = label

Check ==
  /\ ~Probing
  /\ \A v \in Visits : ~Under(v)
  /\ on
  /\ probe' = [at |-> "count", name |-> None, calm |-> TRUE]
  /\ UNCHANGED <<world, tabs, verdict>>

\* domains() is called once to see whether there are any ...
CountDomains ==
  /\ ProbeAt("count")
  /\ IF \A d \in Domain : ~Mapped(d) THEN Conclude("skipped")
     ELSE probe' = [probe EXCEPT !.at = "list"] /\ UNCHANGED <<world, tabs, verdict>>

\* Mutant of NameServer: a name that no engine has (the comment in api.go:371).
NameServer_invalid ==
  /\ ProbeAt("list")
  /\ probe' = [probe EXCEPT !.at = "dial", !.name = None]
  /\ UNCHANGED <<world, tabs, verdict>>

\* ... and once more for the name to probe, which is "selfcheck.invalid" if there
\* are none any more.
NameServer ==
  /\ ProbeAt("list")
  /\ \E d \in Domain \cup {None} :
       /\ IF d = None THEN \A e \in Domain : ~Mapped(e) ELSE Mapped(d)
       /\ probe' = [probe EXCEPT !.at = "dial", !.name = d]
  /\ UNCHANGED <<world, tabs, verdict>>

\* The probe is a handshake like any other.
ProbeTLS ==
  /\ ProbeAt("dial")
  /\ Conclude(IF listening /\ probe.name # None /\ Mapped(probe.name)
              THEN "good" ELSE "bad")

SelfCheck == Check \/ CountDomains \/ NameServer \/ ProbeTLS

-----------------------------------------------------------------------------
Next ==
  \/ ChangeTable
  \/ SwitchHttps
  \/ ServiceChanges
  \/ \E v \in Visits : Proceed(v)
  \/ \E v \in Visits, d \in Domain, https \in BOOLEAN :
       \E origin \in {None, d, Other} : Visit(v, d, https, origin)
  \/ SelfCheck

Spec == Init /\ [][Next]_vars

\* A request that has arrived is worked on: its goroutine runs, and the dial ends one
\* way or the other.  That a service which accepts also answers is an assumption: the
\* proxy sets no time limit (proxy.go:37-63).
FairSpec == Spec /\ \A v \in Visits : WF_vars(Proceed(v))

-----------------------------------------------------------------------------
(* Properties.                                                             *)

AnswerState ==
  [result : {"refused", "notFound", "badGateway", "served"},
   sent : [host : Target, origin : Origin \cup Target] \cup {None}]

\* Every variable is of the right kind.
TypeOK ==
  /\ table \in [Domain -> Target \cup {None}]
  /\ {on, listening} \subseteq BOOLEAN
  /\ running \subseteq Target
  /\ cached \subseteq Domain
  /\ visit \in [Visits -> VisitState \cup {None}]
  /\ answer \in [Visits -> AnswerState \cup {None}]
  /\ probe \in ProbeState \cup {None}
  /\ verdict \in {"none", "skipped", "good", "bad"}

Ends(v) == Under(v) /\ ~Under(v)'

\* A request "is routed by its Host header" and "gets the target's name, to pass the
\* checks of local services" (proxy.go:12-13, 42-44), whatever happens to the
\* mapping meanwhile: the service reached is one that the domain was mapped to during
\* the visit, and it reads its own name in Host and in the origin of the domain, but
\* not in that of another site.
ForwardedAsOne ==
  [][\A v \in Visits :
       LET x == visit[v]
           sent == answer'[v].sent
       IN
       Ends(v) /\ answer'[v].result = "served" =>
         /\ x.found \in x.seen \ {None}
         /\ sent.host = x.found
         /\ sent.origin = IF x.origin = x.domain THEN x.found ELSE x.origin
    ]_vars

\* A visit during which nothing changed.
EndsCalmly(v) == Ends(v) /\ visit[v].calm /\ UNCHANGED world

\* The browser was sent to https by a 308 of earlier, with HTTPS off by now.
Misled(v) == visit[v].kept /\ ~on

\* A visit during which nothing changes gets what the table says, over https if that
\* is on (proxy.go:15, README.md:59): the target's answer, or a page that names the
\* trouble.  Left out are a listener that a failed disabling has closed, and a 308
\* kept since HTTPS was on.
CalmVisitServed ==
  [][\A v \in Visits :
       LET x == visit[v]
           t == table[x.domain]
           result == answer'[v].result
       IN
       EndsCalmly(v) /\ (on => listening) /\ ~Misled(v) =>
         /\ t # None /\ (x.typed => on) =>
              x.tls = on /\ result = IF t \in running THEN "served" ELSE "badGateway"
         /\ t = None => result = IF x.typed \/ x.kept THEN "refused" ELSE "notFound"
    ]_vars

\* No visit is sent back and forth between http and https: each one is answered, even
\* if HTTPS and the mapping change all the while (proxy.go:25, r.TLS).
EveryVisitEnds == \A v \in Visits : Under(v) ~> ~Under(v)

\* "Nothing to probe with no domains, probing would only give a false alarm"
\* (api.go:371): a self check during which nothing changes finds the listener good if
\* and only if it listens, also after a disabling that failed half way.
SelfCheckRight ==
  [][Probing /\ ~Probing' /\ probe.calm =>
       verdict' =
         IF \A d \in Domain : ~Mapped(d) THEN "skipped"
         ELSE IF listening THEN "good" ELSE "bad"
    ]_vars

\* "Visits over http are as they were before" once HTTPS is switched off
\* (README.md:64): with no change meanwhile none is refused.
RollbackRestoresHttp ==
  [][\A v \in Visits :
       EndsCalmly(v) /\ ~on /\ ~visit[v].typed => answer'[v].result # "refused"
    ]_vars

=============================================================================
