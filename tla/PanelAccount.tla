----------------------------- MODULE PanelAccount -----------------------------
(***************************************************************************)
(* What else the side panel keeps of an account: the form for logging in,  *)
(* signing up, finding an id or a password and leaving (AuthModal.jsx,     *)
(* useAuth.js), the usage in the header (useUsageStatus.js) and the saved  *)
(* prompts of the server (useSavedLibrary.js).                             *)
(*                                                                         *)
(* Handlers that wait are `side.calls`.  Of the form's fields only the two *)
(* the server is asked about are kept; the others count as filled in.      *)
(* Left out are the prompts kept on the device: a prompt saved here has an *)
(* id that getPromptSaveId refuses, so none is ever merged at a login.     *)
(***************************************************************************)
EXTENDS PanelChat

CONSTANTS
  Names,     \* what is typed as nickname or as id
  Posts      \* prompts of the server

ASSUME AccountAssumption == Accounts \subseteq Names /\ "" \notin Names

VARIABLES
  side,      \* the form, the usage and the saved prompts on the panel
  members,   \* the server: who has an account
  shelf      \* the server: the prompts saved by each

accountVars == <<side, members, shelf>>

Fields == {"nickname", "userId"}
Blank == [f \in Fields |-> ""]

(* checked: duplicateChecks, the value found free; checking is one place   *)
(* for both fields.                                                        *)
BlankForm == [value |-> Blank, checked |-> Blank, checking |-> "", submitting |-> FALSE]

(* here: the form the call was sent from is still open, or the button of   *)
(* the search tab waits for it.                                            *)
Call == [kind |-> "", n |-> 0, token |-> 0, field |-> "", value |-> "", names |-> Blank, here |-> TRUE]
Forms == {"check", "login", "signup", "find", "withdraw"}
ListKinds == {"hydrate", "refresh", "unsave"}

NoConfirm == [post |-> "", token |-> 0]
NewSide ==
  [form |-> BlankForm,
   told |-> {},          \* history: what the server found free
   usage |-> "idle", of |-> 0,                     \* status, and the token it was read with
   saved |-> "local", shown |-> {},                \* savedStatus, serverSavedItems
   pending |-> {}, confirm |-> NoConfirm,          \* pendingSaveIds, confirmAction
   loose |-> FALSE,      \* history: answers crossed, or one was lost
   calls |-> {}]

AccountInit ==
  /\ side = NewSide
  /\ members = {[nickname |-> a, userId |-> a] : a \in Accounts}
  /\ shelf = [a \in Names |-> IF a \in Accounts THEN Posts ELSE {}]

Taken(f, v) == \E m \in members : m[f] = v

Free(s) == CHOOSE n \in 1..Cardinality(s.calls) + 1 : \A k \in s.calls : k.n # n
Asking(s, c) == [s EXCEPT !.calls = @ \cup {[c EXCEPT !.n = Free(s)]}]
Over(c) == [side EXCEPT !.calls = @ \ {c}]
Among(s, kinds) == {c \in s.calls : c.kind \in kinds}

ReadUsage(s, t) == Asking(s, [Call EXCEPT !.kind = "usage", !.token = t])
ReadSaved(s, kind, t, post, button) ==
  [Asking(s, [Call EXCEPT !.kind = kind, !.token = t, !.value = post, !.here = button])
     EXCEPT !.saved = "loading"]

(* The effects of another token: what was read for the old one is dropped, *)
(* answered or not (the version is raised, the effect cancelled), and both *)
(* are read for the new one.                                               *)
Entered(s) ==
  LET t == session'.token
      left == [s EXCEPT !.calls = {c \in @ : c.kind \notin {"usage", "hydrate"}}]
  IN  IF t = session.token THEN s
      ELSE IF t = 0 THEN [left EXCEPT !.usage = "idle", !.of = 0, !.saved = "local", !.shown = {}]
      ELSE ReadUsage(ReadSaved([left EXCEPT !.usage = "loading"], "hydrate", t, "", FALSE), t)

(* A form that closes forgets what is in it.                               *)
FormGone(s) == [s EXCEPT !.form = BlankForm, !.calls = {[c EXCEPT !.here = @ /\ c.kind \notin Forms] : c \in @}]

AccountFollows == side' = Entered(side) /\ UNCHANGED <<members, shelf>>
(* What the server does with a call, heard of or not.                      *)
Enrolled(c) == IF \E f \in Fields : Taken(f, c.names[f]) THEN members ELSE members \cup {c.names}
Withdrawn(c) == {m \in members : m.userId # session.owners[c.token]}
Unsaved(c) == [shelf EXCEPT ![session.owners[c.token]] = @ \ {c.value}]

(* The panel is closed and opened again; one of the calls may still have   *)
(* been carried out.                                                       *)
AccountReopens ==
  /\ side' = NewSide
  /\ \/ UNCHANGED <<members, shelf>>
     \/ \E c \in side.calls : c.kind = "signup" /\ members' = Enrolled(c) /\ UNCHANGED shelf
     \/ \E c \in side.calls : c.kind = "withdraw" /\ members' = Withdrawn(c) /\ UNCHANGED shelf
     \/ \E c \in side.calls : c.kind = "unsave" /\ shelf' = Unsaved(c) /\ UNCHANGED members

Uncovered == session.mode = "" /\ side.confirm = NoConfirm     \* no modal is open

----------------------------------------------------------------------------
(* The form *)

Mode(m) == session' = [session EXCEPT !.mode = m]

(* The buttons of the header, and of a guest's prompt refused at the limit. *)
OpenForm(m) ==
  /\ Uncovered
  /\ \/ m = "login" /\ ~LoggedIn
     \/ m = "login" /\ \E i \in DOMAIN panel.messages : panel.messages[i].by = "limit" /\ panel.messages[i].rid = 0
     \/ m = "withdraw" /\ LoggedIn
  /\ Mode(m) /\ UNCHANGED accountVars

MoveMode(m) ==
  /\ m \in IF session.mode # "login" THEN {"login"}
           ELSE {"signup", "find"} \cup IF LoggedIn THEN {"withdraw"} ELSE {}
  /\ session.mode # "" /\ Mode(m) /\ UNCHANGED accountVars

CloseForm ==
  /\ session.mode # "" /\ Mode("")
  /\ side' = FormGone(side) /\ UNCHANGED <<members, shelf>>

(* updateField: another value has to be checked again. *)
TypeName(f, v) ==
  /\ session.mode = "signup" \/ (session.mode \in {"login", "find"} /\ f = "userId")
  /\ v # side.form.value[f]
  /\ side' = [side EXCEPT !.form.value[f] = v, !.form.checked[f] = ""]
  /\ UNCHANGED <<session, members, shelf>>

CheckName(f) ==
  LET v == side.form.value[f]
  IN  /\ session.mode = "signup" /\ v # "" /\ side.form.checked[f] # v /\ side.form.checking # f
      /\ side' = [Asking(side, [Call EXCEPT !.kind = "check", !.field = f, !.value = v])
                    EXCEPT !.form.checking = f]
      /\ UNCHANGED <<session, members, shelf>>

(* validateSignup and the tests of submitAuth. *)
Filled(m) ==
  CASE m = "signup" -> \A f \in Fields : side.form.value[f] # "" /\ side.form.checked[f] = side.form.value[f]
    [] m = "login"  -> side.form.value["userId"] # ""
    [] OTHER        -> TRUE

SubmitForm(m) ==
  /\ session.mode = m /\ ~side.form.submitting /\ Filled(m)
  /\ m = "withdraw" => LoggedIn
  /\ side' = [Asking(side, [Call EXCEPT !.kind = m, !.token = session.token, !.names = side.form.value])
                EXCEPT !.form.submitting = TRUE]
  /\ UNCHANGED <<session, members, shelf>>

----------------------------------------------------------------------------
(* The answers to the form *)

(* Faulty: what is in the field by now counts as free. *)
FoundFieldFree(s, c) == [s EXCEPT !.form.checked[c.field] = s.form.value[c.field]]
FoundFree(s, c) == [s EXCEPT !.form.checked[c.field] = c.value]

CheckAnswer(c, how) ==
  /\ c \in side.calls /\ c.kind = "check" /\ how \in {"ok", "lost"}
  /\ LET free == how = "ok" /\ ~Taken(c.field, c.value)
         heard == [Over(c) EXCEPT !.told = IF free THEN @ \cup {<<c.field, c.value>>} ELSE @]
         said == IF free THEN FoundFree(heard, c)
                 ELSE IF how = "ok" THEN [heard EXCEPT !.form.checked[c.field] = ""]
                 ELSE heard
     IN  side' = IF c.here THEN [said EXCEPT !.form.checking = ""] ELSE heard
  /\ UNCHANGED <<session, members, shelf>>

(* A form that is still open can be sent again. *)
Unsent(c) == IF c.here THEN [Over(c) EXCEPT !.form.submitting = FALSE] ELSE Over(c)

(* saveSession: whatever form is open is closed. *)
SignsIn(a, c) ==
  /\ Len(session.owners) < MaxLogins
  /\ LET t == Len(session.owners) + 1
     IN  session' = [token |-> t, stored |-> t, owners |-> Append(session.owners, a), mode |-> ""]
  /\ side' = Entered(FormGone(Over(c)))

LoginAnswer(c, how) ==
  /\ c \in side.calls /\ c.kind = "login" /\ how \in {"ok", "lost"}
  /\ IF how = "ok" /\ Taken("userId", c.names["userId"])
     THEN SignsIn(c.names["userId"], c)
     ELSE side' = Unsent(c) /\ UNCHANGED session
  /\ UNCHANGED <<members, shelf>>

SignupAnswer(c, how) ==
  /\ c \in side.calls /\ c.kind = "signup" /\ how \in {"ok", "lost"}
  /\ LET free == \A f \in Fields : ~Taken(f, c.names[f])
     IN  /\ members' \in {Enrolled(c)} \cup IF how = "lost" THEN {members} ELSE {}
         /\ IF free /\ how = "ok" THEN SignsIn(c.names["userId"], c)
            ELSE side' = Unsent(c) /\ UNCHANGED session
  /\ UNCHANGED shelf

FindAnswer(c) ==
  /\ c \in side.calls /\ c.kind = "find"
  /\ side' = Unsent(c) /\ UNCHANGED <<session, members, shelf>>

(* handleWithdraw signs out whoever is signed in by now. *)
WithdrawAnswer(c, how) ==
  /\ c \in side.calls /\ c.kind = "withdraw" /\ how \in {"ok", "lost"}
  /\ IF how = "ok"
     THEN /\ session' = [SignedOut EXCEPT !.mode = ""] /\ members' = Withdrawn(c)
          /\ side' = Entered(FormGone(Over(c)))
     ELSE members' \in {members, Withdrawn(c)} /\ side' = Unsent(c) /\ UNCHANGED session
  /\ UNCHANGED shelf

----------------------------------------------------------------------------
(* The usage *)

(* The button after an error, or, silently, the panel coming to the front; *)
(* one request at a time.                                                  *)
RefreshUsage(silent) ==
  /\ LoggedIn /\ (~silent => side.usage = "error" /\ Uncovered)
  /\ Among(side, {"usage"}) = {}
  /\ side' = [ReadUsage(side, session.token) EXCEPT !.usage = IF silent THEN @ ELSE "loading"]
  /\ UNCHANGED <<session, members, shelf>>

UsageAnswer(c, how) ==
  /\ c \in side.calls /\ c.kind = "usage"
  /\ session' = IF how = "auth" THEN Expired ELSE session
  /\ side' = Entered(CASE how = "ok"   -> [Over(c) EXCEPT !.usage = "ready", !.of = c.token]
                       [] how = "auth" -> [Over(c) EXCEPT !.usage = "idle", !.of = 0]
                       [] how = "lost" -> [Over(c) EXCEPT !.usage = "error"])
  /\ UNCHANGED <<members, shelf>>

----------------------------------------------------------------------------
(* The saved prompts *)

RetrySaved ==
  /\ LoggedIn /\ Uncovered /\ side.saved = "error"
  /\ side' = ReadSaved(side, "refresh", session.token, "", FALSE)
  /\ UNCHANGED <<session, members, shelf>>

Unsaving(s, p, t, button) ==
  Asking(s, [Call EXCEPT !.kind = "unsave", !.token = t, !.value = p, !.here = button])

(* saveLibraryPrompt of the search tab, which lists what is saved.         *)
Unsave(p) ==
  /\ LoggedIn /\ Uncovered /\ p \in side.shown \ side.pending
  /\ side' = [Unsaving(side, p, session.token, TRUE) EXCEPT !.pending = @ \cup {p}]
  /\ UNCHANGED <<session, members, shelf>>

(* requestDeleteSavedItem of the list: the question keeps the session it   *)
(* was asked in.                                                           *)
AskDelete(p) ==
  /\ LoggedIn /\ Uncovered /\ p \in side.shown
  /\ side' = [side EXCEPT !.confirm = [post |-> p, token |-> session.token]]
  /\ UNCHANGED <<session, members, shelf>>

CloseConfirm(sure) ==
  /\ side.confirm # NoConfirm /\ session.mode = ""
  /\ LET closed == [side EXCEPT !.confirm = NoConfirm]
     IN  side' = IF sure THEN Unsaving(closed, side.confirm.post, side.confirm.token, FALSE) ELSE closed
  /\ UNCHANGED <<session, members, shelf>>

(* Answers that leave others of the list waiting, or meet another session. *)
Crosses(c) == Among(Over(c), ListKinds) # {} \/ c.token # session.token

Freed(s, c) == IF c.here THEN [s EXCEPT !.pending = @ \ {c.value}] ELSE s
Refused(c) == /\ session' = Expired
              /\ side' = Entered([Freed(Over(c), c) EXCEPT !.loose = @ \/ Crosses(c)])

(* Faulty: the list is taken to have changed by itself. *)
NotReadAgain(s, c) == Freed(s, c)
(* refreshSavedItems, for the session of the click. *)
ReadAgain(s, c) == ReadSaved(s, "refresh", c.token, c.value, c.here)

UnsaveAnswer(c, how) ==
  /\ c \in side.calls /\ c.kind = "unsave"
  /\ CASE how = "ok" ->
            /\ shelf' = Unsaved(c) /\ UNCHANGED session
            /\ side' = ReadAgain([Over(c) EXCEPT !.loose = @ \/ Crosses(c)], c)
       [] how = "lost" ->
            /\ shelf' \in {shelf, Unsaved(c)} /\ UNCHANGED session
            /\ side' = [Freed(Over(c), c) EXCEPT !.loose = @ \/ Crosses(c) \/ shelf' # shelf]
       [] how = "auth" -> Refused(c) /\ UNCHANGED shelf
  /\ UNCHANGED members

(* The answer to a reading for the session of a click is shown whoever is  *)
(* signed in by then; a login's own reading is dropped by the next one.    *)
SavedAnswer(c, how) ==
  /\ c \in side.calls /\ c.kind \in {"hydrate", "refresh"}
  /\ LET heard == [Freed(Over(c), c) EXCEPT !.loose = @ \/ Crosses(c)]
     IN  CASE how = "ok" ->
                side' = [heard EXCEPT !.saved = "server", !.shown = shelf[session.owners[c.token]]]
                /\ UNCHANGED session
           [] how = "lost" -> side' = [heard EXCEPT !.saved = "error"] /\ UNCHANGED session
           [] how = "auth" -> session' = Expired /\ side' = Entered([heard EXCEPT !.saved = "error"])
  /\ UNCHANGED <<members, shelf>>

----------------------------------------------------------------------------

(* Whatever the panel says it is waiting for is under way, and its end     *)
(* will free it: the three places that speak of a request agree on one     *)
(* that is still there, and the form, the usage, the saved prompts and     *)
(* each button of theirs have a call of their own.  A cancelled,           *)
(* superseded or late answer neither leaves the panel waiting for ever nor *)
(* ends the wait for another one.                                          *)
SpinnerHasRequest ==
  /\ waits.loading = waits.inFlight /\ waits.inFlight = (waits.active # 0)
  /\ waits.active # 0 => \E j \in jobs : j.n = waits.active /\ j.kind # "uuid"
  /\ side.form.submitting => \E c \in side.calls : c.here /\ c.kind \in Forms \ {"check"}
  /\ side.form.checking # "" => \E c \in side.calls : c.here /\ c.field = side.form.checking
  /\ side.usage = "loading" => \E c \in side.calls : c.kind = "usage" /\ c.token = session.token
  /\ side.saved = "loading" => Among(side, {"hydrate", "refresh"}) # {}
  /\ \A p \in side.pending : \E c \in side.calls : c.here /\ c.kind \in ListKinds /\ c.value = p

(* What the panel says of the account was said by the server, of this      *)
(* account: a signup goes out only with a nickname and an id that were     *)
(* found free as they are sent, the usage is the one of this session, and  *)
(* the saved prompts are the server's.  Left out (loose) are readings and  *)
(* changes of the list that crossed, met another session, or were lost.    *)
PanelAgrees ==
  /\ \A c \in side.calls : c.kind = "signup" => \A f \in Fields : <<f, c.names[f]>> \in side.told
  /\ side.usage = "ready" => side.of = session.token
  /\ LoggedIn /\ side.saved = "server" /\ ~side.loose /\ Among(side, ListKinds) = {} =>
       side.shown = shelf[session.owners[session.token]]
=============================================================================
