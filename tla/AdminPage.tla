----------------------------- MODULE AdminPage -----------------------------
(***************************************************************************)
(* The admin page (src/engine/admin.html): it asks for the state every     *)
(* five seconds and after each command, and renders every answer that      *)
(* comes, while the user edits a row in place and others change the        *)
(* engine.  The script is a single thread: each action is one run of an    *)
(* event handler or of what follows an await.                              *)
(*                                                                         *)
(* The state is reduced to the mapped domains and HTTPS; the targets, the  *)
(* task and the bypass switch are rendered in the same way.                *)
(***************************************************************************)
EXTENDS Integers

CONSTANTS
  Domain,
  None,         \* no domain, no row, no answer yet
  MaxActs       \* bound: edits, commands, changes from elsewhere, lost answers

ASSUME NoneAssumption == None \notin Domain
ASSUME MaxActsAssumption == MaxActs \in Nat

VARIABLES
  server,       \* the state of the engine
  shown,        \* s, the state rendered last
  editing,      \* the domain whose row is edited, or None
  inputs,       \* the input fields in the page: whose row, whether typed in, and
                \* (history) whether a save has been answered since they were drawn
  disabled,     \* which of the HTTPS buttons are disabled
  request,      \* requests for the state under way
  cmd,          \* the command under way, or None
  acts          \* history: how many acts there have been

page == <<shown, editing, inputs, disabled>>
vars == <<server, page, request, cmd, acts>>

\* Bound: one poll, one refresh that follows a command, and one command at a time.
Slots == {"poll", "after"}
\* The last one repairs the trust in the CA, by enabling once more.
Buttons == {"enable", "disable", "fix"}
ByState(s) == IF s.https THEN {"enable"} ELSE {"disable"}
States == [domains : SUBSET Domain, https : BOOLEAN]

\* Fresh input fields in the row of a domain.
Fields(d) == [of |-> d, typed |-> FALSE, saved |-> FALSE]

Act == acts < MaxActs /\ acts' = acts + 1

Init ==
  /\ server \in States
  /\ shown = None /\ editing = None /\ inputs = None
  /\ disabled = {}
  /\ request = [r \in Slots |-> None]
  /\ cmd = None
  /\ acts = 0

\* Mutant of Render: the row that is edited is drawn even if the mapping is gone.
Render_anyRow(s, edited) ==
  /\ shown' = s
  /\ editing' = edited
  /\ inputs' = IF edited # None THEN Fields(edited) ELSE None
  /\ disabled' = (disabled \cap {"fix"}) \cup ByState(s)

\* render(s) replaces all rows; the one whose domain is edited gets fresh inputs.
Render(s, edited) ==
  /\ shown' = s
  /\ editing' = edited
  /\ inputs' = IF edited \in s.domains THEN Fields(edited) ELSE None
  /\ disabled' = (disabled \cap {"fix"}) \cup ByState(s)

-----------------------------------------------------------------------------
(* Requests for the state.                                                 *)

\* A request begins; early: an edit has begun since.
Asked == [at |-> "asked", state |-> None, early |-> FALSE]
Ask(r) == request' = [request EXCEPT ![r] = Asked]

\* refresh(): not while a row is edited.
Refresh(r) == IF editing' = None THEN Ask(r) ELSE UNCHANGED request

\* Mutant of Poll: no interval, only the first call.
Poll_once ==
  /\ shown = None /\ request["poll"] = None
  /\ UNCHANGED <<server, page, cmd, acts>>
  /\ Refresh("poll")

\* The interval of five seconds, and the call when the page is loaded.
Poll ==
  /\ request["poll"] = None
  /\ UNCHANGED <<server, page, cmd, acts>>
  /\ Refresh("poll")

Serve(r) ==
  /\ request[r] # None /\ request[r].at = "asked"
  /\ request' = [request EXCEPT ![r].at = "served", ![r].state = server]
  /\ UNCHANGED <<server, page, cmd, acts>>

\* Whether a row is edited by now is not looked at.
Arrive(r) ==
  /\ request[r] # None /\ request[r].at = "served"
  /\ Render(request[r].state, editing)
  /\ request' = [request EXCEPT ![r] = None]
  /\ UNCHANGED <<server, cmd, acts>>

\* The engine restarts meanwhile; the error is ignored.
Lose(r) ==
  /\ Act
  /\ request[r] # None
  /\ request' = [request EXCEPT ![r] = None]
  /\ UNCHANGED <<server, page, cmd>>

-----------------------------------------------------------------------------
(* The user.                                                               *)

\* Rows without inputs have a button for it.
Edit(d) ==
  /\ Act
  /\ shown # None /\ d \in shown.domains
  /\ inputs # None => inputs.of # d
  /\ Render(shown, d)
  /\ request' = [r \in Slots |-> IF request[r] = None THEN None
                                 ELSE [request[r] EXCEPT !.early = TRUE]]
  /\ UNCHANGED <<server, cmd>>

Type ==
  /\ inputs # None
  /\ inputs' = [inputs EXCEPT !.typed = TRUE]
  /\ UNCHANGED <<server, shown, editing, disabled, request, cmd, acts>>

Cancel ==
  /\ inputs # None
  /\ Render(shown, None)
  /\ UNCHANGED <<server, request, cmd, acts>>

Send(kind, old, new) ==
  /\ Act
  /\ cmd = None /\ request["after"] = None
  /\ cmd' = [kind |-> kind, old |-> old, new |-> new, at |-> "sent"]
  /\ UNCHANGED <<server, shown, editing, inputs, request>>

Save(d) == inputs # None /\ Send("put", inputs.of, d) /\ UNCHANGED disabled

Add(d) == Send("post", None, d) /\ UNCHANGED disabled

Delete(d) ==
  /\ shown # None /\ d \in shown.domains
  /\ inputs # None => inputs.of # d
  /\ Send("delete", d, None)
  /\ UNCHANGED disabled

\* "fix" is displayed while HTTPS is on and the CA is not trusted.
Press(button) ==
  /\ button \notin disabled
  /\ button = "fix" => shown # None /\ shown.https
  /\ Send(button, None, None)
  /\ disabled' = disabled \cup {button}

Command ==
  \/ \E d \in Domain : Save(d) \/ Add(d) \/ Delete(d)
  \/ \E button \in Buttons : Press(button)

\* What the engine makes of the command; it may also fail.
Result(c) ==
  CASE c.kind = "put"     -> [server EXCEPT !.domains = (@ \ {c.old}) \cup {c.new}]
    [] c.kind = "post"    -> [server EXCEPT !.domains = @ \cup {c.new}]
    [] c.kind = "delete"  -> [server EXCEPT !.domains = @ \ {c.old}]
    [] OTHER              -> [server EXCEPT !.https = (c.kind # "disable")]

Accepted(c) ==
  /\ c.kind \in {"put", "delete"} => c.old \in server.domains
  /\ c.kind = "put" => c.new = c.old \/ c.new \notin server.domains

\* An error leaves the engine as it was, except when only the save has failed: the
\* table has the mapping then.
Handle ==
  /\ cmd # None /\ cmd.at = "sent"
  /\ \/ Accepted(cmd) /\ server' = Result(cmd) /\ cmd' = [cmd EXCEPT !.at = "ok"]
     \/ UNCHANGED server /\ cmd' = [cmd EXCEPT !.at = "error"]
     \/ /\ cmd.kind \in {"put", "post"} /\ Accepted(cmd)
        /\ server' = Result(cmd)
        /\ cmd' = [cmd EXCEPT !.at = "error"]
  /\ UNCHANGED <<page, request, acts>>

SavedRow == cmd.kind = "put" /\ cmd.at = "ok"

\* What the user is editing when a save is answered stays in the page till it is
\* rendered again.
MarkSaved ==
  inputs' = IF SavedRow /\ inputs # None THEN [inputs EXCEPT !.saved = TRUE] ELSE inputs

\* Mutant of Finish: the edit is over after a save that was refused, too.
Finish_anyway ==
  /\ cmd # None /\ cmd.at # "sent"
  /\ cmd' = None
  /\ editing' = IF cmd.kind = "put" THEN None ELSE editing
  /\ MarkSaved
  /\ IF cmd.at = "ok" \/ cmd.kind = "disable" THEN Refresh("after")
     ELSE UNCHANGED request
  /\ UNCHANGED <<server, shown, disabled, acts>>

\* After the await: once a save is answered no row is edited, whichever the user has
\* turned to meanwhile; then refresh(), which follows an error of disabling only.
Finish ==
  /\ cmd # None /\ cmd.at # "sent"
  /\ cmd' = None
  /\ editing' = IF SavedRow THEN None ELSE editing
  /\ MarkSaved
  /\ disabled' = IF cmd.kind = "fix" \/ (cmd.kind = "enable" /\ cmd.at = "error")
                 THEN disabled \ {cmd.kind} ELSE disabled
  /\ IF cmd.at = "ok" \/ cmd.kind = "disable" THEN Refresh("after")
     ELSE UNCHANGED request
  /\ UNCHANGED <<server, shown, acts>>

-----------------------------------------------------------------------------
\* Another page, or the engine after a restart.
Elsewhere ==
  /\ Act
  /\ server' \in States \ {server}
  /\ UNCHANGED <<page, request, cmd>>

Next ==
  \/ Poll
  \/ \E r \in Slots : Serve(r) \/ Arrive(r) \/ Lose(r)
  \/ \E d \in Domain : Edit(d)
  \/ Type
  \/ Cancel
  \/ Command
  \/ Handle
  \/ Finish
  \/ Elsewhere

Spec == Init /\ [][Next]_vars

\* The interval fires, the engine answers, and answers that are not lost arrive.
FairSpec ==
  /\ Spec
  /\ WF_vars(Poll) /\ WF_vars(Handle) /\ WF_vars(Finish)
  /\ \A r \in Slots : WF_vars(Serve(r)) /\ WF_vars(Arrive(r))

-----------------------------------------------------------------------------
(* Properties.                                                             *)

Request == [at : {"asked", "served"}, state : States \cup {None}, early : BOOLEAN]

Cmd == [kind : {"put", "post", "delete"} \cup Buttons, old : Domain \cup {None},
        new : Domain \cup {None}, at : {"sent", "ok", "error"}]

\* Every variable is of the right kind, and input fields are those of a row shown.
TypeOK ==
  /\ server \in States
  /\ shown \in States \cup {None}
  /\ editing \in Domain \cup {None}
  /\ inputs \in [of : Domain, typed : BOOLEAN, saved : BOOLEAN] \cup {None}
  /\ inputs # None => shown \in States /\ inputs.of \in shown.domains
  /\ disabled \subseteq Buttons
  /\ request \in [Slots -> Request \cup {None}]
  /\ cmd \in Cmd \cup {None}

\* "No refresh while a row is edited, so that the input is not wiped out"
\* (admin.html:323), as far as the code keeps it: an answer that comes while there are
\* input fields, after whatever commands, refused saves and failures, was asked for
\* before the edit began, unless a save has been answered since, be it of this row or of
\* the one edited before.  What these two exceptions wipe is TypedTextKept.
EditOutlivesPolls ==
  [][\A r \in Slots : inputs # None /\ Arrive(r) => request[r].early \/ inputs.saved]_vars

\* Answers overtake each other and some are lost; still the page comes to show what
\* the engine has, with the buttons to match, unless a row stays edited
\* (admin.html:423, setInterval).
PageCatchesUp ==
  <>[](editing # None \/
       (shown = server /\ disabled = ByState(server)))

\* What is typed is not wiped by an answer (admin.html:323).
TypedTextKept ==
  [][\A r \in Slots : inputs # None /\ inputs.typed /\ Arrive(r) => inputs' = inputs]_vars

\* A row that is edited has its buttons to end the edit; without them the page would
\* never refresh again.
EditCanEnd == editing # None => inputs # None

=============================================================================
