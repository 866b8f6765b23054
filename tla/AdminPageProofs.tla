-------------------------- MODULE AdminPageProofs --------------------------
(***************************************************************************)
(* Theorems about AdminPage for every set of domains and every bound: what *)
(* is rendered, asked and commanded stays of its kind, and an answer that  *)
(* wipes input fields was asked for before the edit began or comes after a *)
(* save that has been answered since.                                      *)
(***************************************************************************)
EXTENDS AdminPage, TLAPS

-----------------------------------------------------------------------------
(* The inductive invariant.                                                *)

\* An answer under way has a state to render.
AnswersServed ==
  \A r \in Slots : request[r] # None /\ request[r].at = "served" => request[r].state \in States

\* A command names the rows that it is about.
CommandsNamed ==
  cmd # None =>
    /\ cmd.kind \in {"put", "delete"} => cmd.old \in Domain
    /\ cmd.kind \in {"put", "post"} => cmd.new \in Domain

\* While a row is edited, all requests under way are from before.
EditsSilence ==
  editing # None => \A r \in Slots : request[r] # None => request[r].early

\* Input fields are those of the row that is edited, until a save is answered.
FieldsOfEdit == inputs # None /\ ~inputs.saved => editing = inputs.of

IInv == TypeOK /\ AnswersServed /\ CommandsNamed /\ EditsSilence /\ FieldsOfEdit

-----------------------------------------------------------------------------
(* What the helpers leave behind.                                          *)

\* What has been asked is a request.
LEMMA AskedIsRequest == Asked \in Request
BY DEF Asked, Request

\* A rendered state is shown, with inputs in one of its rows at most.
LEMMA RenderType ==
  ASSUME NEW s \in States, NEW edited \in Domain \cup {None},
         Render(s, edited), disabled \subseteq Buttons
  PROVE  /\ shown' \in States
         /\ editing' = edited
         /\ inputs' \in [of : Domain, typed : BOOLEAN, saved : BOOLEAN] \cup {None}
         /\ inputs' # None => inputs'.of \in shown'.domains
         /\ FieldsOfEdit'
         /\ disabled' \subseteq Buttons
<1>1. edited \in s.domains => edited \in Domain
  BY DEF States
<1>2. ByState(s) \subseteq Buttons
  BY DEF ByState, Buttons
<1> QED BY <1>1, <1>2 DEF Render, Fields, FieldsOfEdit

\* A refresh asks while no row is edited; otherwise it does nothing.
LEMMA RefreshKeeps ==
  ASSUME IInv, NEW r \in Slots, Refresh(r), editing' \in {editing, None}
  PROVE  /\ request' \in [Slots -> Request \cup {None}]
         /\ AnswersServed'
         /\ EditsSilence'
<1>1. CASE editing' = None
  <2>1. request' = [request EXCEPT ![r] = Asked]
    BY <1>1 DEF Refresh, Ask
  <2>2. request' \in [Slots -> Request \cup {None}]
    BY <2>1, AskedIsRequest DEF IInv, TypeOK
  <2>3. AnswersServed'
    BY <2>1 DEF AnswersServed, Asked, IInv, TypeOK
  <2> QED BY <1>1, <2>2, <2>3 DEF EditsSilence
<1>2. CASE editing' # None
  BY <1>2 DEF Refresh, IInv, TypeOK, AnswersServed, EditsSilence
<1> QED BY <1>1, <1>2

\* What the engine has after a command is a state.
LEMMA ResultType ==
  ASSUME server \in States, NEW c \in Cmd,
         c.kind \in {"put", "post"} => c.new \in Domain
  PROVE  Result(c) \in States
<1>1. CASE c.kind = "put"
  BY <1>1 DEF Result, States
<1>2. CASE c.kind = "post"
  BY <1>2 DEF Result, States
<1>3. CASE c.kind = "delete"
  BY <1>3 DEF Result, States
<1>4. CASE c.kind \notin {"put", "post", "delete"}
  <2>1. Result(c) = [server EXCEPT !.https = (c.kind # "disable")]
    BY <1>4 DEF Result
  <2> QED BY <2>1 DEF States
<1> QED BY <1>1, <1>2, <1>3, <1>4

\* A command that is sent names the rows that it is about.
LEMMA SendKeeps ==
  ASSUME IInv, NEW kind \in {"put", "post", "delete"} \cup Buttons,
         NEW old \in Domain \cup {None}, NEW new \in Domain \cup {None},
         Send(kind, old, new), disabled' \subseteq Buttons,
         kind \in {"put", "delete"} => old \in Domain,
         kind \in {"put", "post"} => new \in Domain
  PROVE  IInv'
<1>1. cmd' \in Cmd /\ CommandsNamed'
  BY DEF Send, Cmd, CommandsNamed
<1> QED BY <1>1 DEF Send, IInv, TypeOK, AnswersServed, EditsSilence, FieldsOfEdit

-----------------------------------------------------------------------------
(* The invariant is inductive.                                             *)

LEMMA InitIInv == Init => IInv
BY DEF Init, IInv, TypeOK, AnswersServed, CommandsNamed, EditsSilence, FieldsOfEdit

LEMMA PollKeeps == ASSUME IInv, Poll PROVE IInv'
<1>1. Refresh("poll") /\ "poll" \in Slots /\ editing' = editing
  BY DEF Poll, page, Slots
<1>2. request' \in [Slots -> Request \cup {None}] /\ AnswersServed' /\ EditsSilence'
  BY <1>1, RefreshKeeps
<1> QED BY <1>2 DEF Poll, page, IInv, TypeOK, CommandsNamed, FieldsOfEdit

LEMMA ServeKeeps == ASSUME IInv, NEW r \in Slots, Serve(r) PROVE IInv'
<1>1. request[r] \in Request /\ server \in States
  BY DEF Serve, IInv, TypeOK
<1>2. [request[r] EXCEPT !.at = "served", !.state = server] \in Request
  BY <1>1 DEF Request
<1>3. request' = [request EXCEPT ![r] = [request[r] EXCEPT !.at = "served", !.state = server]]
  BY DEF Serve
<1>4. request' \in [Slots -> Request \cup {None}]
  BY <1>2, <1>3 DEF IInv, TypeOK
<1>5. AnswersServed' /\ EditsSilence'
  BY <1>1, <1>3 DEF Serve, page, IInv, TypeOK, Request, AnswersServed, EditsSilence
<1> QED BY <1>4, <1>5 DEF Serve, page, IInv, TypeOK, CommandsNamed, FieldsOfEdit

LEMMA ArriveKeeps == ASSUME IInv, NEW r \in Slots, Arrive(r) PROVE IInv'
<1>1. request[r].state \in States
  BY DEF Arrive, IInv, AnswersServed
<1>2. Render(request[r].state, editing)
  BY DEF Arrive
<1>3. /\ shown' \in States
      /\ editing' = editing
      /\ inputs' \in [of : Domain, typed : BOOLEAN, saved : BOOLEAN] \cup {None}
      /\ inputs' # None => inputs'.of \in shown'.domains
      /\ FieldsOfEdit'
      /\ disabled' \subseteq Buttons
  BY <1>1, <1>2, RenderType DEF IInv, TypeOK
<1>4. request' \in [Slots -> Request \cup {None}] /\ AnswersServed' /\ EditsSilence'
  BY <1>3 DEF Arrive, IInv, TypeOK, AnswersServed, EditsSilence
<1> QED BY <1>3, <1>4 DEF Arrive, IInv, TypeOK, CommandsNamed

LEMMA LoseKeeps == ASSUME IInv, NEW r \in Slots, Lose(r) PROVE IInv'
<1>1. request' \in [Slots -> Request \cup {None}] /\ AnswersServed' /\ EditsSilence'
  BY DEF Lose, page, IInv, TypeOK, AnswersServed, EditsSilence
<1> QED BY <1>1 DEF Lose, page, IInv, TypeOK, CommandsNamed, FieldsOfEdit

\* When an edit begins, all requests under way are from before.
LEMMA EditKeeps == ASSUME IInv, NEW d \in Domain, Edit(d) PROVE IInv'
<1>1. shown \in States /\ Render(shown, d)
  BY DEF Edit, IInv, TypeOK
<1>2. /\ shown' \in States
      /\ editing' = d
      /\ inputs' \in [of : Domain, typed : BOOLEAN, saved : BOOLEAN] \cup {None}
      /\ inputs' # None => inputs'.of \in shown'.domains
      /\ FieldsOfEdit'
      /\ disabled' \subseteq Buttons
  BY <1>1, RenderType DEF IInv, TypeOK
<1>3. ASSUME NEW r \in Slots, request[r] # None
      PROVE  /\ [request[r] EXCEPT !.early = TRUE] \in Request
             /\ [request[r] EXCEPT !.early = TRUE].early
             /\ [request[r] EXCEPT !.early = TRUE].at = request[r].at
             /\ [request[r] EXCEPT !.early = TRUE].state = request[r].state
  BY <1>3 DEF IInv, TypeOK, Request
<1>4. request' = [r \in Slots |-> IF request[r] = None THEN None
                                  ELSE [request[r] EXCEPT !.early = TRUE]]
  BY DEF Edit
<1>5. request' \in [Slots -> Request \cup {None}] /\ AnswersServed' /\ EditsSilence'
  BY <1>3, <1>4 DEF IInv, AnswersServed, EditsSilence
<1> QED BY <1>2, <1>5 DEF Edit, IInv, TypeOK, CommandsNamed

LEMMA TypeKeeps == ASSUME IInv, Type PROVE IInv'
BY DEF Type, IInv, TypeOK, AnswersServed, CommandsNamed, EditsSilence, FieldsOfEdit

LEMMA CancelKeeps == ASSUME IInv, Cancel PROVE IInv'
<1>1. shown \in States /\ Render(shown, None)
  BY DEF Cancel, IInv, TypeOK
<1>2. /\ shown' \in States
      /\ editing' = None
      /\ inputs' \in [of : Domain, typed : BOOLEAN, saved : BOOLEAN] \cup {None}
      /\ inputs' # None => inputs'.of \in shown'.domains
      /\ FieldsOfEdit'
      /\ disabled' \subseteq Buttons
  BY <1>1, RenderType DEF IInv, TypeOK
<1> QED BY <1>2 DEF Cancel, IInv, TypeOK, AnswersServed, CommandsNamed, EditsSilence

LEMMA CommandKeeps == ASSUME IInv, Command PROVE IInv'
<1>1. ASSUME NEW d \in Domain, Save(d)
      PROVE  IInv'
  <2>1. inputs.of \in Domain /\ Send("put", inputs.of, d) /\ disabled' \subseteq Buttons
    BY <1>1 DEF Save, IInv, TypeOK
  <2> QED BY <2>1, SendKeeps
<1>2. ASSUME NEW d \in Domain, Add(d)
      PROVE  IInv'
  <2>1. Send("post", None, d) /\ disabled' \subseteq Buttons
    BY <1>2 DEF Add, IInv, TypeOK
  <2> QED BY <2>1, SendKeeps
<1>3. ASSUME NEW d \in Domain, Delete(d)
      PROVE  IInv'
  <2>1. Send("delete", d, None) /\ disabled' \subseteq Buttons
    BY <1>3 DEF Delete, IInv, TypeOK
  <2> QED BY <2>1, SendKeeps
<1>4. ASSUME NEW button \in Buttons, Press(button)
      PROVE  IInv'
  <2>1. Send(button, None, None) /\ disabled' \subseteq Buttons
    BY <1>4 DEF Press, IInv, TypeOK
  <2>2. button \notin {"put", "post", "delete"}
    BY DEF Buttons
  <2> QED BY <2>1, <2>2, SendKeeps
<1> QED BY <1>1, <1>2, <1>3, <1>4 DEF Command

LEMMA HandleKeeps == ASSUME IInv, Handle PROVE IInv'
<1>1. cmd \in Cmd /\ (cmd.kind \in {"put", "post"} => cmd.new \in Domain)
  BY DEF Handle, IInv, TypeOK, CommandsNamed
<1>2. Result(cmd) \in States
  BY <1>1, ResultType DEF IInv, TypeOK
<1>3. server' \in States
  BY <1>2 DEF Handle, IInv, TypeOK
<1>4. cmd' \in Cmd /\ CommandsNamed'
  BY <1>1 DEF Handle, Cmd, IInv, CommandsNamed
<1> QED BY <1>3, <1>4 DEF Handle, page, IInv, TypeOK, AnswersServed, EditsSilence, FieldsOfEdit

LEMMA FinishKeeps == ASSUME IInv, Finish PROVE IInv'
<1>1. editing' \in {editing, None} /\ "after" \in Slots
  BY DEF Finish, Slots
<1>2. request' \in [Slots -> Request \cup {None}] /\ AnswersServed' /\ EditsSilence'
  <2>1. CASE Refresh("after")
    BY <1>1, <2>1, RefreshKeeps
  <2>2. CASE UNCHANGED request
    BY <1>1, <2>2 DEF IInv, TypeOK, AnswersServed, EditsSilence
  <2> QED BY <2>1, <2>2 DEF Finish
<1>3. /\ inputs' \in [of : Domain, typed : BOOLEAN, saved : BOOLEAN] \cup {None}
      /\ inputs' # None => inputs'.of \in shown'.domains
      /\ FieldsOfEdit'
  <2>1. CASE SavedRow /\ inputs # None
    <3>1. inputs \in [of : Domain, typed : BOOLEAN, saved : BOOLEAN]
      BY <2>1 DEF IInv, TypeOK
    <3>2. PICK yes \in BOOLEAN : yes /\ inputs' = [inputs EXCEPT !.saved = yes]
      BY <2>1 DEF Finish, MarkSaved
    <3>3. /\ inputs' \in [of : Domain, typed : BOOLEAN, saved : BOOLEAN]
          /\ inputs'.of = inputs.of /\ inputs'.saved
      BY <3>1, <3>2
    <3> QED BY <2>1, <3>3 DEF Finish, IInv, TypeOK, FieldsOfEdit
  <2>2. CASE ~SavedRow \/ inputs = None
    <3>1. inputs' = inputs /\ (inputs # None => editing' = editing)
      BY <2>2 DEF Finish, MarkSaved, SavedRow
    <3> QED BY <3>1 DEF Finish, IInv, TypeOK, FieldsOfEdit
  <2> QED BY <2>1, <2>2
<1>4. disabled' \subseteq Buttons /\ cmd' = None /\ UNCHANGED <<server, shown>>
  BY DEF Finish, IInv, TypeOK
<1>5. /\ server' \in States /\ shown' \in States \cup {None}
      /\ editing' \in Domain \cup {None}
  BY <1>1, <1>4 DEF IInv, TypeOK
<1>6. inputs # None => shown \in States
  BY DEF IInv, TypeOK
<1>7. inputs' # None => inputs # None
  BY DEF Finish, MarkSaved
<1>8. TypeOK'
  BY <1>2, <1>3, <1>4, <1>5, <1>6, <1>7 DEF TypeOK
<1>9. CommandsNamed'
  BY <1>4 DEF CommandsNamed
<1> QED BY <1>2, <1>3, <1>8, <1>9 DEF IInv

LEMMA ElsewhereKeeps == ASSUME IInv, Elsewhere PROVE IInv'
BY DEF Elsewhere, page, IInv, TypeOK, AnswersServed, CommandsNamed, EditsSilence, FieldsOfEdit

LEMMA StutterKeeps == ASSUME IInv, UNCHANGED vars PROVE IInv'
BY DEF vars, page, IInv, TypeOK, AnswersServed, CommandsNamed, EditsSilence, FieldsOfEdit

LEMMA NextKeeps == ASSUME IInv, [Next]_vars PROVE IInv'
BY PollKeeps, ServeKeeps, ArriveKeeps, LoseKeeps, EditKeeps, TypeKeeps, CancelKeeps,
   CommandKeeps, HandleKeeps, FinishKeeps, ElsewhereKeeps, StutterKeeps DEF Next

LEMMA AlwaysIInv == Spec => []IInv
BY InitIInv, NextKeeps, PTL DEF Spec

-----------------------------------------------------------------------------
(* The theorems.                                                           *)

\* The page, its requests and its command stay of their kind, and input fields are
\* those of a row that is shown: whatever of edits, commands, late answers and changes
\* from elsewhere admin.html lets happen, in whatever order.
THEOREM TypeCorrect == Spec => []TypeOK
<1>1. IInv => TypeOK
  BY DEF IInv
<1> QED BY <1>1, AlwaysIInv, PTL

\* Input fields are wiped by an answer only if it was asked for before the edit began or
\* a save has been answered since, for every number of commands, refused saves, failures
\* and lost answers in between (admin.html:300-325).
THEOREM FieldsOutlivePolls == Spec => EditOutlivesPolls
<1>1. ASSUME IInv, NEW r \in Slots, inputs # None, Arrive(r), ~inputs.saved
      PROVE  request[r].early
  <2>1. editing # None
    BY <1>1, NoneAssumption DEF IInv, TypeOK, FieldsOfEdit
  <2> QED BY <1>1, <2>1 DEF Arrive, IInv, EditsSilence
<1>2. IInv => \A r \in Slots : inputs # None /\ Arrive(r) => request[r].early \/ inputs.saved
  BY <1>1
<1> QED BY <1>2, AlwaysIInv, PTL DEF EditOutlivesPolls

=============================================================================
