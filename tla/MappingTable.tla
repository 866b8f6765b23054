---------------------------- MODULE MappingTable ----------------------------
(***************************************************************************)
(* What the mapping store promises, without its list, its search loops and *)
(* the spelling of domains: a partial function from domains to targets, a  *)
(* saved copy of it, and an answer that admits when the copy may be stale. *)
(* Store implements it; Engine uses it as its store.                       *)
(***************************************************************************)
CONSTANTS
  Domain,       \* the domains that can be mapped
  Target,       \* the targets they can be mapped to
  Lost,         \* a saved copy that cannot be read back: not a table
  Faults        \* a subset of {"disk", "kill"}

VARIABLES table, saved, up, reply

vars == <<table, saved, up, reply>>

Tables == UNION {[D -> Target] : D \in SUBSET Domain}
Empty == [d \in {} |-> d]

With(tab, d, t) == [x \in DOMAIN tab \cup {d} |-> IF x = d THEN t ELSE tab[x]]
Without(tab, d) == [x \in DOMAIN tab \ {d} |-> tab[x]]

Init ==
  /\ table = Empty
  /\ saved = Empty
  /\ up = TRUE
  /\ reply = "none"

\* The new table is saved, or the save fails and the answer says so.
Save(ack) ==
  \/ saved' = table' /\ reply' = ack
  \/ "disk" \in Faults /\ saved' \in {saved, Lost, table'} /\ reply' = "saveError"

\* The answer to a removal does not say whether it was saved.
SaveQuietly(ack) ==
  /\ \/ saved' = table'
     \/ "disk" \in Faults /\ saved' \in {saved, Lost}
  /\ reply' = ack

Put(d, t) ==
  /\ up
  /\ table' = With(table, d, t)
  /\ Save(IF d \in DOMAIN table THEN "updated" ELSE "created")
  /\ UNCHANGED up

Delete(d) ==
  /\ up
  /\ d \in DOMAIN table
  /\ table' = Without(table, d)
  /\ SaveQuietly("removed")
  /\ UNCHANGED up

\* A domain keeps or gives up its name; no other domain loses its target.
Rename(old, d, t) ==
  /\ up
  /\ old \in DOMAIN table
  /\ d = old \/ d \notin DOMAIN table
  /\ table' = With(Without(table, old), d, t)
  /\ Save("replaced")
  /\ UNCHANGED up

Refuse ==
  /\ up
  /\ \/ reply' \in {"invalid", "notFound"}
     \/ reply' = "taken" /\ \E d, e \in DOMAIN table : d # e
  /\ UNCHANGED <<table, saved, up>>

Kill ==
  /\ "kill" \in Faults
  /\ up
  /\ up' = FALSE
  /\ table' = Empty
  /\ reply' = "none"
  /\ saved' \in {saved, Lost}

Start ==
  /\ ~up
  /\ saved # Lost
  /\ up' = TRUE
  /\ table' = saved
  /\ UNCHANGED <<saved, reply>>

Next ==
  \/ \E d \in Domain, t \in Target : Put(d, t)
  \/ \E d \in Domain : Delete(d)
  \/ \E old \in Domain, d \in Domain, t \in Target : Rename(old, d, t)
  \/ Refuse
  \/ Kill
  \/ Start

Spec == Init /\ [][Next]_vars

=============================================================================
