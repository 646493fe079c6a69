--------------------------- MODULE ExtensionProofs ---------------------------
(***************************************************************************)
(* For any number of executed prompts, and whatever the page, its user and *)
(* the side panel do meanwhile: the debugger is attached to the tab only   *)
(* while a handler of EXECUTE_PROMPT stands between its attach and its     *)
(* finally; and what the user typed and has not sent, replaced or put away *)
(* is in the input or in the preview.  The first proof needs to know where *)
(* every handler stands (RunTypeOK), the second what a preview is a        *)
(* preview of (DraftInv); with that each is an induction over the steps.   *)
(*                                                                         *)
(* For any accounts, logins, prompts and saved posts: the side panel waits *)
(* for nothing that is not under way, and what it says of the account the  *)
(* server said (PanelInv); and no message, retry, edit or handler that     *)
(* bears a request id bears another prompt than the one the id was sent    *)
(* with (IdInv).                                                           *)
(***************************************************************************)
EXTENDS Extension, TLAPS, FiniteSetTheorems, WellFoundedInduction

DebuggerInv == RunTypeOK /\ DebuggerReleased

(* What makes DraftKept inductive: a preview belongs to the input the      *)
(* content script knows, there is none while a reply is awaited, and only  *)
(* next to a preview of the input on the page can what the user typed and  *)
(* what the input holds be two things.                                     *)
DraftInv ==
  /\ field \in Nat /\ fields \in Nat /\ input \in Seq(Words)
  /\ inline \in [on : BOOLEAN, known : Nat, asks : Nat, of : Seq(Words), snapshot : Snapshots]
  /\ inline.snapshot.source # 0 => inline.snapshot.source = inline.known /\ inline.asks = 0
  /\ inline.snapshot.source = 0 \/ inline.known # field => draft \in {<<>>, input}
  /\ DraftKept

USE DEF Runs, Steps, Kinds, Sites, AiSites

(* No handler runs and no debugger is attached when the page is opened.    *)
LEMMA InitDebugger == Init => DebuggerInv
<1> SUFFICES ASSUME Init PROVE DebuggerInv
  OBVIOUS
<1>1. site \in Sites /\ attached = FALSE /\ run = [r \in Runs |-> NoRun]
  BY DEF Init, PageInit
<1>2. NoRun \in [at : Steps, text : Words, kind : Kinds]
  BY DEF NoRun, Words
<1> QED
  BY <1>1, <1>2 DEF DebuggerInv, RunTypeOK, DebuggerReleased

(* The handlers, the debugger and the page are left alone.                 *)
LEMMA KeepsDebugger ==
  ASSUME DebuggerInv, UNCHANGED <<site, attached, run>>
  PROVE  DebuggerInv'
BY DEF DebuggerInv, RunTypeOK, DebuggerReleased

(* A handler that moves outside the three places next to the debugger.     *)
LEMMA MovesDebugger ==
  ASSUME DebuggerInv, NEW r \in Runs, NEW at \in Steps, To(r, at),
         UNCHANGED <<site, attached>>,
         run[r].at \notin {"insert", "detach", "detach failed"}
  PROVE  DebuggerInv'
BY DEF DebuggerInv, RunTypeOK, DebuggerReleased, To

(* What the user does on the page: a closed tab and the browser's own      *)
(* button take the debugger away, another page does not.                   *)
LEMMA UserKeepsDebugger ==
  ASSUME DebuggerInv, UserOnPage
  PROVE  DebuggerInv'
<1>1. ASSUME NEW text \in Prompts, TypeInPage(text) PROVE DebuggerInv'
  BY <1>1, KeepsDebugger DEF TypeInPage, workerVars
<1>2. ASSUME SendByHand PROVE DebuggerInv'
  BY <1>2, KeepsDebugger DEF SendByHand, workerVars
<1>3. ASSUME NEW new \in Rendered, Rerender(new) PROVE DebuggerInv'
  BY <1>3, KeepsDebugger DEF Rerender, workerVars
<1>4. ASSUME NEW to \in Sites, NEW new \in Rendered, Navigate(to, new) PROVE DebuggerInv'
  BY <1>4 DEF Navigate, workerVars, DebuggerInv, RunTypeOK, DebuggerReleased
<1>5. ASSUME CloseTab PROVE DebuggerInv'
  BY <1>5 DEF CloseTab, DebuggerInv, RunTypeOK, DebuggerReleased
<1>6. ASSUME StopDebugger PROVE DebuggerInv'
  BY <1>6 DEF StopDebugger, DebuggerInv, RunTypeOK, DebuggerReleased
<1>7. ASSUME ToggleInline PROVE DebuggerInv'
  BY <1>7, KeepsDebugger DEF ToggleInline, workerVars
<1>8. ASSUME Trigger PROVE DebuggerInv'
  BY <1>8, KeepsDebugger DEF Trigger, workerVars
<1>9. ASSUME NEW ok \in BOOLEAN, ApplyImproved(ok) PROVE DebuggerInv'
  BY <1>9, KeepsDebugger DEF ApplyImproved, workerVars
<1>10. ASSUME NEW ok \in BOOLEAN, RestoreOriginal(ok) PROVE DebuggerInv'
  BY <1>10, KeepsDebugger DEF RestoreOriginal, workerVars
<1>11. ASSUME ClosePreview PROVE DebuggerInv'
  BY <1>11, KeepsDebugger DEF ClosePreview, workerVars
<1>12. ASSUME NEW r \in Runs, NEW text \in Texts, Execute(r, text) PROVE DebuggerInv'
  <2>1. text \in Prompts
    BY ExtensionAssumption
  <2>2. ExecutePrompt(r, text) /\ run[r].at = "idle"
    BY <1>12 DEF Execute, ExecutePrompt, Awaits
  <2> QED
    BY <2>1, <2>2 DEF ExecutePrompt, DebuggerInv, RunTypeOK, DebuggerReleased, Words
<1> QED
  BY <1>1, <1>2, <1>3, <1>4, <1>5, <1>6, <1>7, <1>8, <1>9, <1>10, <1>11, <1>12 DEF UserOnPage

(* The service worker: the attach of one handler makes another one fail,   *)
(* and whatever becomes of the insertion the detach follows.               *)
LEMMA WorkerKeepsDebugger ==
  ASSUME DebuggerInv, Worker
  PROVE  DebuggerInv'
<1>1. ASSUME NEW r \in Runs, FindTab(r) PROVE DebuggerInv'
  <2> DEFINE at == IF site \in {"chatgpt", "gemini"} THEN "write" ELSE "failed"
  <2>1. /\ run[r].at = "find"
        /\ run' = [run EXCEPT ![r] = [run[r] EXCEPT !.kind = site, !.at = at]]
        /\ UNCHANGED <<site, attached>>
    BY <1>1, Zenon DEF FindTab, Awaits, DebuggerInv, RunTypeOK
  <2>2. [run[r] EXCEPT !.kind = site, !.at = at] \in [at : Steps, text : Words, kind : Kinds]
    BY DEF DebuggerInv, RunTypeOK
  <2>3. RunTypeOK'
    BY <2>1, <2>2 DEF DebuggerInv, RunTypeOK
  <2>4. \A s \in Runs \ {r} : run'[s] = run[s]
    BY <2>1 DEF DebuggerInv, RunTypeOK
  <2> QED
    BY <2>1, <2>3, <2>4 DEF DebuggerInv, DebuggerReleased
<1>2. ASSUME NEW r \in Runs, NEW ok \in BOOLEAN, WritePrompt(r, ok) PROVE DebuggerInv'
  BY <1>2, MovesDebugger DEF WritePrompt, Awaits
<1>3. ASSUME NEW r \in Runs, ScriptFails(r) PROVE DebuggerInv'
  BY <1>3, MovesDebugger DEF ScriptFails, Awaits
<1>4. ASSUME NEW r \in Runs, FocusInput(r) PROVE DebuggerInv'
  BY <1>4, MovesDebugger DEF FocusInput, Awaits
<1>5. ASSUME NEW r \in Runs, AttachDebugger(r) PROVE DebuggerInv'
  <2>1. run[r].at = "attach" /\ UNCHANGED site
    BY <1>5 DEF AttachDebugger, Awaits
  <2>2. CASE UNCHANGED attached /\ To(r, "failed")
    BY <2>1, <2>2, MovesDebugger
  <2>3. CASE attached' = TRUE /\ To(r, "insert")
    <3>1. run'[r].at = "insert"
      BY <2>3 DEF To, DebuggerInv, RunTypeOK
    <3> QED
      BY <2>1, <2>3, <3>1 DEF To, DebuggerInv, RunTypeOK, DebuggerReleased
  <2> QED
    BY <1>5, <2>2, <2>3 DEF AttachDebugger
<1>6. ASSUME NEW r \in Runs, InsertText(r) PROVE DebuggerInv'
  <2>1. UNCHANGED <<site, attached>> /\ \E at \in {"detach", "detach failed"} : To(r, at)
    BY <1>6 DEF InsertText
  <2>2. PICK at \in {"detach", "detach failed"} : To(r, at)
    BY <2>1
  <2>3. run'[r].at = at /\ RunTypeOK'
    BY <2>1, <2>2 DEF To, DebuggerInv, RunTypeOK
  <2> QED
    BY <2>3 DEF DebuggerInv, DebuggerReleased
<1>7. ASSUME NEW r \in Runs, DetachDebugger(r) PROVE DebuggerInv'
  BY <1>7 DEF DetachDebugger, To, DebuggerInv, RunTypeOK, DebuggerReleased
<1>8. ASSUME NEW r \in Runs, VerifyText(r) PROVE DebuggerInv'
  BY <1>8, MovesDebugger DEF VerifyText, Awaits
<1>9. ASSUME NEW r \in Runs, SubmitInPage(r) PROVE DebuggerInv'
  BY <1>9, MovesDebugger DEF SubmitInPage, Awaits
<1>10. ASSUME NEW text \in Prompts \cup {""}, InlineReply(text) PROVE DebuggerInv'
  BY <1>10, KeepsDebugger DEF InlineReply, workerVars
<1>11. ASSUME RefreshInput PROVE DebuggerInv'
  BY <1>11, KeepsDebugger DEF RefreshInput, workerVars
<1> QED
  BY <1>1, <1>2, <1>3, <1>4, <1>5, <1>6, <1>7, <1>8, <1>9, <1>10, <1>11 DEF Worker

(* Nothing the panel does by itself touches the page.                      *)
LEMMA PanelLeavesPage ==
  ASSUME Panel
  PROVE  UNCHANGED pageVars
<1>1. CASE UserInChat
  BY <1>1 DEF UserInChat, InPanel
<1>2. CASE Answers
  BY <1>2 DEF Answers, InPanel
<1>3. CASE UserInAccount
  BY <1>3 DEF UserInAccount, InAccount
<1>4. CASE AccountAnswers
  BY <1>4 DEF AccountAnswers, InAccount
<1> QED
  BY <1>1, <1>2, <1>3, <1>4 DEF Panel

LEMMA DebuggerStep == DebuggerInv /\ [Next]_vars => DebuggerInv'
<1> SUFFICES ASSUME DebuggerInv, [Next]_vars PROVE DebuggerInv'
  OBVIOUS
<1>1. CASE UserOnPage \/ Worker
  BY <1>1, UserKeepsDebugger, WorkerKeepsDebugger
<1>2. CASE Panel
  BY <1>2, PanelLeavesPage, KeepsDebugger DEF pageVars
<1>3. CASE UNCHANGED vars
  BY <1>3, KeepsDebugger DEF vars, pageVars
<1> QED
  BY <1>1, <1>2, <1>3 DEF Next

(* The debugger is attached to the user's tab only between the attach of   *)
(* insertTextWithDebugger and its finally.                                 *)
THEOREM DebuggerIsReleased == Spec => []DebuggerReleased
<1>1. DebuggerInv => DebuggerReleased
  BY DEF DebuggerInv
<1> QED
  BY InitDebugger, DebuggerStep, <1>1, PTL DEF Spec

----------------------------------------------------------------------------
(* The typed text *)

Inline == [on : BOOLEAN, known : Nat, asks : Nat, of : Seq(Words), snapshot : Snapshots]

LEMMA EmptyText == <<>> \in Seq(Words)
OBVIOUS

LEMMA OneText == \A text \in Words : <<text>> \in Seq(Words)
OBVIOUS

LEMMA NoSnapshotType == NoSnapshot \in Snapshots /\ NoSnapshot.source = 0
BY EmptyText DEF NoSnapshot, Snapshots, Words

LEMMA ScriptType == Script \in Inline /\ Script.snapshot = NoSnapshot /\ Script.asks = 0
BY NoSnapshotType, EmptyText DEF Script, Inline

(* Putting the preview away changes nothing else.                          *)
LEMMA DismissedType ==
  ASSUME NEW s \in Inline
  PROVE  /\ Dismissed(s) \in Inline
         /\ Dismissed(s).snapshot = NoSnapshot
         /\ Dismissed(s).known = s.known /\ Dismissed(s).asks = s.asks /\ Dismissed(s).of = s.of
BY NoSnapshotType DEF Dismissed, Inline

(* An empty page has nothing to lose.                                      *)
LEMMA InitDraft == Init => DraftInv
<1> SUFFICES ASSUME Init PROVE DraftInv
  OBVIOUS
<1>1. /\ field \in {0, 1} /\ fields = field /\ input = <<>> /\ draft = <<>>
      /\ inline \in {Script, [Script EXCEPT !.on = TRUE]}
  BY DEF Init, PageInit
<1>2. inline \in Inline /\ inline.snapshot = NoSnapshot
  BY <1>1, ScriptType DEF Inline
<1> QED
  BY <1>1, <1>2, NoSnapshotType, EmptyText DEF DraftInv, DraftKept, Inline

(* The page, its input and the content script are left alone.              *)
LEMMA KeepsDraft ==
  ASSUME DraftInv, UNCHANGED <<field, fields, input, inline, draft>>
  PROVE  DraftInv'
BY DEF DraftInv, DraftKept

(* What is in the input is now what the user wants there: the preview may  *)
(* go or stay.                                                             *)
LEMMA FreshDraft ==
  ASSUME DraftInv, field' \in Nat, fields' \in Nat, input' \in Seq(Words), inline' \in Inline,
         draft' \in {<<>>, input'},
         inline'.snapshot.source # 0 => inline'.snapshot.source = inline'.known /\ inline'.asks = 0
  PROVE  DraftInv'
BY DEF DraftInv, DraftKept, Inline

(* A new page or a new input.                                              *)
LEMMA RenderedDraft ==
  ASSUME DraftInv, NEW new \in Rendered, Render(new),
         inline' = inline \/ inline' = [Script EXCEPT !.on = inline.on]
  PROVE  DraftInv'
<1>1. fields \in Nat /\ field' = new /\ fields' \in {new, fields} /\ input' = <<>> /\ draft' = <<>>
  BY DEF Render, DraftInv
<1>3. new \in Nat
  BY <1>1 DEF Rendered
<1>2. inline' \in Inline /\ (inline' = inline \/ inline'.snapshot.source = 0)
  BY ScriptType, NoSnapshotType DEF DraftInv, Inline
<1> QED
  BY <1>1, <1>2, <1>3, FreshDraft, EmptyText DEF DraftInv

(* writeValue puts its text into the input of the preview, or does nothing. *)
LEMMA WriteValueType ==
  ASSUME DraftInv, NEW text \in Words, NEW ok \in BOOLEAN, WriteValue(text, ok)
  PROVE  /\ input' \in Seq(Words)
         /\ inline.snapshot.source = field => input' = <<text>>
         /\ inline.snapshot.source # field => input' = input
BY OneText DEF WriteValue, DraftInv

(* The apply button reads the input again before it replaces it.           *)
LEMMA ApplyKeepsDraft ==
  ASSUME DraftInv, NEW ok \in BOOLEAN, ApplyImproved(ok)
  PROVE  DraftInv'
<1> DEFINE s == inline.snapshot
<1>1. /\ s \in Snapshots /\ inline \in Inline /\ s.source # 0 /\ s.source = inline.known /\ inline.asks = 0
      /\ UNCHANGED <<field, fields, draft>>
  BY DEF ApplyImproved, DraftInv, Inline
<1>2. CASE input # s.original
  <2>1. input' = input /\ inline' = [inline EXCEPT !.snapshot = [s EXCEPT !.open = FALSE]]
    BY <1>2, Zenon DEF ApplyImproved
  <2>2. /\ inline' \in Inline /\ inline'.known = inline.known /\ inline'.asks = inline.asks
        /\ inline'.snapshot.source = s.source /\ inline'.snapshot.original = s.original
        /\ inline'.snapshot.improved = s.improved
    BY <1>1, <2>1 DEF Inline, Snapshots
  <2> QED
    BY <1>1, <2>1, <2>2 DEF DraftInv, DraftKept, Inline
<1>3. CASE input = s.original
  <2>1. /\ WriteValue(s.improved, ok)
        /\ inline' = [inline EXCEPT !.snapshot = [s EXCEPT !.applied = ok]]
    BY <1>3, Zenon DEF ApplyImproved
  <2>2. /\ inline' \in Inline /\ inline'.known = inline.known /\ inline'.asks = inline.asks
        /\ inline'.snapshot.source = s.source /\ inline'.snapshot.original = s.original
        /\ inline'.snapshot.improved = s.improved
    BY <1>1, <2>1 DEF Inline, Snapshots
  <2>3. s.improved \in Words
    BY <1>1 DEF Snapshots
  <2>4. input' \in Seq(Words) /\ (s.source # field => input' = input)
    BY <2>1, <2>3, WriteValueType
  <2>5. draft \in {<<>>, s.original, <<s.improved>>}
    BY <1>3 DEF DraftInv, DraftKept
  <2> QED
    BY <1>1, <2>2, <2>4, <2>5 DEF DraftInv, DraftKept, Inline
<1> QED
  BY <1>2, <1>3

(* The restore button puts the original back only over what it had applied. *)
LEMMA RestoreKeepsDraft ==
  ASSUME DraftInv, NEW ok \in BOOLEAN, RestoreOriginal(ok)
  PROVE  DraftInv'
<1> DEFINE s == inline.snapshot
<1>1. /\ s \in Snapshots /\ inline \in Inline /\ s.source # 0 /\ s.source = inline.known /\ inline.asks = 0
      /\ input = <<s.improved>>
      /\ input' = IF s.source = field THEN s.original ELSE input
      /\ UNCHANGED <<field, fields, draft>>
  BY DEF RestoreOriginal, DraftInv, Inline
<1>2. inline' = [inline EXCEPT !.snapshot = [s EXCEPT !.applied = FALSE]] \/ inline' = inline
  BY Zenon DEF RestoreOriginal
<1>3. /\ inline' \in Inline /\ inline'.known = inline.known /\ inline'.asks = inline.asks
      /\ inline'.snapshot.source = s.source /\ inline'.snapshot.original = s.original
      /\ inline'.snapshot.improved = s.improved
  BY <1>1, <1>2 DEF Inline, Snapshots
<1>4. draft \in {<<>>, s.original, <<s.improved>>} /\ input' \in Seq(Words)
  BY <1>1, OneText DEF DraftInv, DraftKept, Snapshots
<1> QED
  BY <1>1, <1>3, <1>4 DEF DraftInv, DraftKept, Inline

(* A reply is a preview of the input it was asked for, with nothing typed  *)
(* lost meanwhile; or it comes too late and is dropped.                    *)
LEMMA ReplyKeepsDraft ==
  ASSUME DraftInv, NEW improved \in Words, InlineReply(improved)
  PROVE  DraftInv'
<1> DEFINE answered == [inline EXCEPT !.asks = 0, !.of = <<>>]
           shown == [source |-> inline.asks, original |-> inline.of, improved |-> improved,
                     applied |-> FALSE, open |-> improved # "" /\ input = inline.of]
<1>1. /\ inline \in Inline /\ inline.asks # 0 /\ inline.snapshot.source = 0
      /\ draft \in {<<>>, input} /\ UNCHANGED <<field, fields, input, draft>>
  BY DEF InlineReply, DraftInv, Inline
<1>2. \/ inline' = answered
      \/ inline.asks = inline.known /\ inline' = [answered EXCEPT !.snapshot = shown]
  BY Zenon DEF InlineReply
<1>3. answered \in Inline /\ answered.snapshot.source = 0 /\ answered.known = inline.known
  BY <1>1, EmptyText DEF Inline
<1>4. shown \in Snapshots /\ shown.source = inline.asks
  BY <1>1 DEF Inline, Snapshots
<1>5. CASE inline' = answered
  BY <1>1, <1>3, <1>5, FreshDraft DEF DraftInv
<1>6. CASE inline.asks = inline.known /\ inline' = [answered EXCEPT !.snapshot = shown]
  <2>1. /\ inline' \in Inline /\ inline'.asks = 0 /\ inline'.known = inline.known
        /\ inline'.snapshot = shown
    BY <1>3, <1>4, <1>6 DEF Inline
  <2> QED
    BY <1>1, <1>4, <1>6, <2>1, FreshDraft DEF DraftInv
<1> QED
  BY <1>2, <1>5, <1>6

(* What the user does on the page.                                         *)
LEMMA UserKeepsDraft ==
  ASSUME DraftInv, UserOnPage
  PROVE  DraftInv'
<1> USE DEF workerVars
<1>1. ASSUME NEW text \in Prompts, TypeInPage(text) PROVE DraftInv'
  <2>1. UNCHANGED <<field, fields, inline>> /\ input' = <<text>> /\ draft' = input' /\ text \in Words
    BY <1>1 DEF TypeInPage, Words
  <2> QED
    BY <2>1, OneText, FreshDraft DEF DraftInv, Inline
<1>2. ASSUME SendByHand PROVE DraftInv'
  BY <1>2, EmptyText, FreshDraft DEF SendByHand, DraftInv, Inline
<1>3. ASSUME NEW new \in Rendered, Rerender(new) PROVE DraftInv'
  BY <1>3, RenderedDraft DEF Rerender
<1>4. ASSUME NEW to \in Sites, NEW new \in Rendered, Navigate(to, new) PROVE DraftInv'
  BY <1>4, RenderedDraft DEF Navigate
<1>5. ASSUME CloseTab PROVE DraftInv'
  BY <1>5, RenderedDraft DEF CloseTab, Rendered
<1>6. ASSUME StopDebugger PROVE DraftInv'
  BY <1>6, KeepsDraft DEF StopDebugger
<1>7. ASSUME ToggleInline PROVE DraftInv'
  <2>1. /\ UNCHANGED <<field, fields, input>> /\ draft' = input
        /\ inline' = [Dismissed(inline) EXCEPT !.on = ~inline.on, !.known = IF inline.on THEN 0 ELSE @]
    BY <1>7 DEF ToggleInline
  <2>2. Dismissed(inline) \in Inline /\ Dismissed(inline).snapshot = NoSnapshot /\ inline \in Inline
    BY DismissedType DEF DraftInv, Inline
  <2>3. inline' \in Inline /\ inline'.snapshot.source = 0
    BY <2>1, <2>2, NoSnapshotType DEF Inline
  <2> QED
    BY <2>1, <2>3, FreshDraft DEF DraftInv
<1>8. ASSUME Trigger PROVE DraftInv'
  <2>1. /\ UNCHANGED <<field, fields, input>> /\ draft' = input
        /\ \/ inline' = Dismissed(inline)
           \/ inline' = [Dismissed(inline) EXCEPT !.asks = field, !.of = input]
    BY <1>8 DEF Trigger
  <2>2. Dismissed(inline) \in Inline /\ Dismissed(inline).snapshot = NoSnapshot
    BY DismissedType DEF DraftInv, Inline
  <2>3. inline' \in Inline /\ inline'.snapshot.source = 0
    BY <2>1, <2>2, NoSnapshotType DEF DraftInv, Inline
  <2> QED
    BY <2>1, <2>3, FreshDraft DEF DraftInv
<1>9. ASSUME NEW ok \in BOOLEAN, ApplyImproved(ok) PROVE DraftInv'
  BY <1>9, ApplyKeepsDraft
<1>10. ASSUME NEW ok \in BOOLEAN, RestoreOriginal(ok) PROVE DraftInv'
  BY <1>10, RestoreKeepsDraft
<1>11. ASSUME ClosePreview PROVE DraftInv'
  <2>1. UNCHANGED <<field, fields, input>> /\ draft' = input /\ inline' = Dismissed(inline)
    BY <1>11 DEF ClosePreview
  <2> QED
    BY <2>1, DismissedType, NoSnapshotType, FreshDraft DEF DraftInv, Inline
<1>12. ASSUME NEW r \in Runs, NEW text \in Texts, Execute(r, text) PROVE DraftInv'
  BY <1>12, KeepsDraft DEF Execute, ExecutePrompt
<1> QED
  BY <1>1, <1>2, <1>3, <1>4, <1>5, <1>6, <1>7, <1>8, <1>9, <1>10, <1>11, <1>12 DEF UserOnPage

(* The service worker writes prompts the user wants executed: what it      *)
(* replaces or adds to is no draft any more.                               *)
LEMMA WorkerKeepsDraft ==
  ASSUME DraftInv, RunTypeOK, Worker
  PROVE  DraftInv'
<1>0. ASSUME NEW r \in Runs PROVE run[r].text \in Words
  BY DEF RunTypeOK
<1>1. ASSUME NEW r \in Runs, FindTab(r) PROVE DraftInv'
  BY <1>1, KeepsDraft DEF FindTab
<1>2. ASSUME NEW r \in Runs, NEW ok \in BOOLEAN, WritePrompt(r, ok) PROVE DraftInv'
  <2>1. /\ UNCHANGED <<field, fields, inline>>
        /\ input' \in {<<run[r].text>>, input, <<>>, <<Part>>}
        /\ draft' = IF input' = input THEN draft ELSE <<>>
    BY <1>2 DEF WritePrompt
  <2>2. input' \in Seq(Words)
    BY <2>1, <1>0, OneText, EmptyText DEF DraftInv, Words
  <2>3. CASE input' = input
    BY <2>1, <2>3, KeepsDraft
  <2>4. CASE input' # input
    BY <2>1, <2>2, <2>4, FreshDraft DEF DraftInv, Inline
  <2> QED
    BY <2>3, <2>4
<1>3. ASSUME NEW r \in Runs, ScriptFails(r) PROVE DraftInv'
  BY <1>3, KeepsDraft DEF ScriptFails
<1>4. ASSUME NEW r \in Runs, FocusInput(r) PROVE DraftInv'
  BY <1>4, KeepsDraft DEF FocusInput
<1>5. ASSUME NEW r \in Runs, AttachDebugger(r) PROVE DraftInv'
  BY <1>5, KeepsDraft DEF AttachDebugger
<1>6. ASSUME NEW r \in Runs, InsertText(r) PROVE DraftInv'
  <2>1. /\ UNCHANGED <<field, fields, inline>>
        /\ input' \in {input, Append(input, run[r].text)}
        /\ draft' = IF input' = input THEN draft ELSE <<>>
    BY <1>6 DEF InsertText
  <2>2. input' \in Seq(Words)
    BY <2>1, <1>0 DEF DraftInv
  <2>3. CASE input' = input
    BY <2>1, <2>3, KeepsDraft
  <2>4. CASE input' # input
    BY <2>1, <2>2, <2>4, FreshDraft DEF DraftInv, Inline
  <2> QED
    BY <2>3, <2>4
<1>7. ASSUME NEW r \in Runs, DetachDebugger(r) PROVE DraftInv'
  BY <1>7, KeepsDraft DEF DetachDebugger
<1>8. ASSUME NEW r \in Runs, VerifyText(r) PROVE DraftInv'
  BY <1>8, KeepsDraft DEF VerifyText
<1>9. ASSUME NEW r \in Runs, SubmitInPage(r) PROVE DraftInv'
  <2>1. /\ UNCHANGED <<field, fields, inline>>
        /\ \/ input' = <<>> /\ draft' = <<>>
           \/ UNCHANGED <<input, draft>>
    BY <1>9 DEF SubmitInPage
  <2>2. CASE UNCHANGED <<input, draft>>
    BY <2>1, <2>2, KeepsDraft
  <2>3. CASE input' = <<>> /\ draft' = <<>>
    BY <2>1, <2>3, EmptyText, FreshDraft DEF DraftInv, Inline
  <2> QED
    BY <2>1, <2>2, <2>3
<1>10. ASSUME NEW text \in Prompts \cup {""}, InlineReply(text) PROVE DraftInv'
  BY <1>10, ReplyKeepsDraft DEF Words
<1>11. ASSUME RefreshInput PROVE DraftInv'
  <2>1. /\ UNCHANGED <<field, fields, input, draft>> /\ draft \in {<<>>, input}
        /\ inline' = [Dismissed(inline) EXCEPT !.known = field]
    BY <1>11 DEF RefreshInput, DraftInv
  <2>2. inline' \in Inline /\ inline'.snapshot.source = 0
    BY <2>1, DismissedType, NoSnapshotType DEF DraftInv, Inline
  <2> QED
    BY <2>1, <2>2, FreshDraft DEF DraftInv
<1> QED
  BY <1>1, <1>2, <1>3, <1>4, <1>5, <1>6, <1>7, <1>8, <1>9, <1>10, <1>11 DEF Worker

(* What the user typed and has not sent, replaced or dismissed is in the   *)
(* input or in the preview, for any number of inputs, replies and executed *)
(* prompts.                                                                *)
THEOREM DraftIsKept == Spec => []DraftKept
<1>1. DebuggerInv /\ DraftInv /\ [Next]_vars => DraftInv'
  <2> SUFFICES ASSUME DebuggerInv, DraftInv, [Next]_vars PROVE DraftInv'
    OBVIOUS
  <2>1. CASE UserOnPage
    BY <2>1, UserKeepsDraft
  <2>2. CASE Worker
    BY <2>2, WorkerKeepsDraft DEF DebuggerInv
  <2>3. CASE Panel
    BY <2>3, PanelLeavesPage, KeepsDraft DEF pageVars
  <2>4. CASE UNCHANGED vars
    BY <2>4, KeepsDraft DEF vars, pageVars
  <2> QED
    BY <2>1, <2>2, <2>3, <2>4 DEF Next
<1>2. DebuggerInv /\ [Next]_vars => DebuggerInv'
  BY DebuggerStep
<1>3. DraftInv => DraftKept
  BY DEF DraftInv
<1> QED
  BY InitDebugger, InitDraft, <1>1, <1>2, <1>3, PTL DEF Spec

----------------------------------------------------------------------------
(* The side panel *)

PanelModes == {"", "login", "signup", "find", "withdraw"}
Typed == Names \cup {""}
JobFields == DOMAIN Job
SideFields == DOMAIN NewSide
FormFields == DOMAIN BlankForm
CallFields == DOMAIN Call

(* A token is the number of a login; the stored session is one of them.    *)
SessionOk(s) ==
  /\ s \in [token : Nat, stored : Nat, owners : Seq(Typed), mode : PanelModes]
  /\ s.token <= Len(s.owners) /\ s.stored <= Len(s.owners)

(* A handler that belongs to no request has no number, so that the end of  *)
(* a reading cannot be taken for the end of a request.                     *)
JobsOk(js) ==
  \A j \in js : /\ DOMAIN j = JobFields
                /\ j.kind = "hydrate" => j.n = 0
                /\ j.kind = "uuid" => j.n # 0
                /\ j.kind \in {"call", "uuid"} => j.of \in {"submit", "edit"}

(* The three places agree on a request that is there.                      *)
RequestWaits(w, js) ==
  /\ w.loading = w.inFlight /\ w.inFlight = (w.active # 0)
  /\ w.active # 0 => \E j \in js : j.n = w.active /\ j.kind # "uuid"

ChatInv == made \in Nat /\ JobsOk(jobs) /\ RequestWaits(waits, jobs)

(* The fields of the account part; only the check of a name is about a     *)
(* field, and no button waits for the reading of a login.                  *)
CallOk(c) ==
  /\ DOMAIN c = CallFields /\ c.here \in BOOLEAN /\ c.names \in [Fields -> Typed]
  /\ c.field # "" => c.kind = "check"
  /\ c.kind = "hydrate" => ~c.here
SideShape(s) ==
  /\ DOMAIN s = SideFields /\ DOMAIN s.form = FormFields
  /\ s.form.value \in [Fields -> Typed] /\ DOMAIN s.form.checked = Fields
  /\ \A c \in s.calls : CallOk(c)

FormWaits(s) ==
  /\ s.form.submitting => \E c \in s.calls : c.here /\ c.kind \in Forms \ {"check"}
  /\ s.form.checking # "" => \E c \in s.calls : c.here /\ c.field = s.form.checking

(* What a field is marked free for was found free, and what a signup sends *)
(* as well.                                                                *)
FormTold(s) ==
  /\ \A f \in Fields : s.form.checked[f] # "" => <<f, s.form.checked[f]>> \in s.told
  /\ \A c \in s.calls : c.kind = "signup" => \A f \in Fields : <<f, c.names[f]>> \in s.told

(* The usage is read with the token of the session only.                   *)
UsageOk(s, t) ==
  /\ \A c \in s.calls : c.kind = "usage" => c.token = t
  /\ s.usage = "loading" => \E c \in s.calls : c.kind = "usage"
  /\ s.usage = "ready" => s.of = t

ListsWait(s) ==
  /\ s.saved = "loading" => \E c \in s.calls : c.kind \in {"hydrate", "refresh"}
  /\ \A p \in s.pending : \E c \in s.calls : c.here /\ c.kind \in ListKinds /\ c.value = p

SideOk(s, t) == SideShape(s) /\ FormWaits(s) /\ FormTold(s) /\ UsageOk(s, t) /\ ListsWait(s)

(* A list said to be the server's is what the account shelf holds, even    *)
(* while further answers are awaited: each of them, if it finds or makes a *)
(* difference, says so.                                                    *)
ListOk(s, t, kept) == t # 0 /\ s.saved = "server" /\ ~s.loose => s.shown = kept
Kept == shelf[session.owners[session.token]]

LEMMA JobAdded ==
  ASSUME NEW js, NEW w, JobsOk(js), RequestWaits(w, js), NEW j, JobsOk({j})
  PROVE  JobsOk(js \cup {j}) /\ RequestWaits(w, js \cup {j})
BY DEF JobsOk, RequestWaits

LEMMA JobBegun ==
  ASSUME NEW js, JobsOk(js), NEW j, JobsOk({j}), j.n # 0, j.kind # "uuid"
  PROVE  /\ JobsOk(js \cup {j})
         /\ RequestWaits([loading |-> TRUE, inFlight |-> TRUE, active |-> j.n], js \cup {j})
BY DEF JobsOk, RequestWaits

LEMMA JobOver ==
  ASSUME NEW js, NEW w, JobsOk(js), RequestWaits(w, js), NEW j,
         NEW v, v = IF w.active = j.n THEN NotWaiting ELSE w
  PROVE  JobsOk(js \ {j}) /\ RequestWaits(v, js \ {j})
BY DEF JobsOk, RequestWaits, NotWaiting

LEMMA JobGoes ==
  ASSUME NEW js, NEW w, JobsOk(js), RequestWaits(w, js), NEW j \in js,
         NEW k, JobsOk({k}), k.n = j.n, k.kind # "uuid"
  PROVE  JobsOk((js \ {j}) \cup {k}) /\ RequestWaits(w, (js \ {j}) \cup {k})
BY DEF JobsOk, RequestWaits

(* The cleanup of the effect that reads the list for a session.            *)
LEMMA JobsRun ==
  ASSUME NEW js, NEW w, JobsOk(js), RequestWaits(w, js)
  PROVE  /\ JobsOk(Running(js)) /\ RequestWaits(w, Running(js))
         /\ \A t : JobsOk({Hydrating(t)})
<1>1. JobsOk(Running(js)) /\ RequestWaits(w, Running(js))
  BY DEF JobsOk, RequestWaits, Running
<1>2. \A t : JobsOk({Hydrating(t)})
  BY DEF JobsOk, Hydrating, Job, JobFields
<1> QED
  BY <1>1, <1>2

LEMMA SubmissionJob ==
  ASSUME NEW p, NEW text, NEW resolves
  PROVE  LET j == Submission(p, text, resolves).job
         IN  DOMAIN j = JobFields /\ j.kind = "call" /\ j.of = "submit" /\ j.n = made + 1
BY DEF Submission, Job, JobFields

(* A prompt is sent or, by a guest not known yet, put off.                 *)
LEMMA SubmitKeepsChat ==
  ASSUME ChatInv, NEW p, NEW text, NEW resolves, SubmitOn(p, text, resolves)
  PROVE  ChatInv'
<1> DEFINE j == Submission(p, text, resolves).job
           u == [j EXCEPT !.kind = "uuid"]
<1>1. DOMAIN j = JobFields /\ j.kind = "call" /\ j.of = "submit" /\ j.n = made + 1
  BY SubmissionJob
<1>2. /\ made' = made + 1
      /\ \/ jobs' = jobs \cup {u} /\ UNCHANGED waits
         \/ jobs' = jobs \cup {j} /\ Begin(j)
  BY DEF SubmitOn
<1> HIDE DEF j
<1>3. made + 1 # 0
  BY DEF ChatInv
<1>4. JobsOk({j})
  BY <1>1 DEF JobsOk
<1>5. JobsOk({u})
  BY <1>1, <1>3 DEF JobsOk, Job, JobFields
<1> HIDE DEF u
<1>6. CASE jobs' = jobs \cup {u} /\ UNCHANGED waits
  BY <1>2, <1>5, <1>6, JobAdded DEF ChatInv
<1>7. CASE jobs' = jobs \cup {j} /\ Begin(j)
  BY <1>1, <1>2, <1>3, <1>4, <1>7, JobBegun DEF ChatInv, Begin
<1> QED
  BY <1>2, <1>6, <1>7

LEMMA EditKeepsChat ==
  ASSUME ChatInv, NEW p, NEW id, NEW text, NEW resolves, EditOn(p, id, text, resolves)
  PROVE  ChatInv'
<1> DEFINE i == IndexOf(p.messages, id)
           rid == IF LoggedIn THEN EditId(p, id, text) ELSE 0
           cut == Append(SubSeq(p.messages, 1, i - 1), [p.messages[i] EXCEPT !.text = text])
           base == IF LoggedIn THEN <<>> ELSE cut
           j == [Job EXCEPT !.kind = "call", !.of = "edit", !.n = made + 1, !.text = text, !.key = id[1],
                   !.target = id, !.rid = rid, !.token = session.token, !.resolves = resolves,
                   !.to = p.open, !.base = base]
           u == [j EXCEPT !.kind = "uuid"]
<1>1. \/ UNCHANGED <<waits, jobs, made>>
      \/ /\ made' = made + 1
         /\ \/ jobs' = jobs \cup {u} /\ UNCHANGED waits
            \/ jobs' = jobs \cup {j} /\ Begin(j)
  BY Zenon DEF EditOn
<1> HIDE DEF base, rid
<1>2. DOMAIN j = JobFields /\ j.kind = "call" /\ j.of = "edit" /\ j.n = made + 1
  BY DEF Job, JobFields
<1> HIDE DEF j
<1>3. made + 1 # 0
  BY DEF ChatInv
<1>4. JobsOk({j})
  BY <1>2 DEF JobsOk
<1>5. JobsOk({u})
  BY <1>2, <1>3 DEF JobsOk, Job, JobFields
<1> HIDE DEF u
<1>6. CASE jobs' = jobs \cup {u} /\ UNCHANGED waits /\ made' = made + 1
  BY <1>5, <1>6, JobAdded DEF ChatInv
<1>7. CASE jobs' = jobs \cup {j} /\ Begin(j) /\ made' = made + 1
  BY <1>2, <1>3, <1>4, <1>7, JobBegun DEF ChatInv, Begin
<1>8. CASE UNCHANGED <<waits, jobs, made>>
  BY <1>8 DEF ChatInv
<1> QED
  BY <1>1, <1>6, <1>7, <1>8

(* A handler that ends, or goes on to read the conversation back.          *)
GoesOrEnds(j) ==
  \/ Ends(j)
  \/ \E kind \in {"thread", "list"} : \E then : Goes(j, kind, then)
  \/ \E id, then : ReadBack(j, id, then)

LEMMA AnswerKeepsChat ==
  ASSUME ChatInv, NEW j \in jobs, GoesOrEnds(j), UNCHANGED made
  PROVE  ChatInv'
<1>1. CASE Ends(j)
  <2>1. jobs' = jobs \ {j} /\ waits' = IF waits.active = j.n THEN NotWaiting ELSE waits
    BY <1>1 DEF Ends, Finish
  <2> QED
    BY <2>1, JobOver DEF ChatInv
<1>2. ASSUME NEW k, DOMAIN k = JobFields, k.n = j.n, k.kind \in {"thread", "list"},
             UNCHANGED waits, jobs' = (jobs \ {j}) \cup {k}
      PROVE  ChatInv'
  <2>1. JobsOk({k})
    BY <1>2 DEF JobsOk
  <2> QED
    BY <1>2, <2>1, JobGoes DEF ChatInv
<1>3. DOMAIN j = JobFields
  BY DEF ChatInv, JobsOk
<1>4. ASSUME NEW kind \in {"thread", "list"}, NEW then, Goes(j, kind, then) PROVE ChatInv'
  <2> DEFINE k == [j EXCEPT !.kind = kind, !.then = then]
  <2>1. DOMAIN k = JobFields /\ k.n = j.n /\ k.kind = kind
    BY <1>3 DEF Job, JobFields
  <2>2. UNCHANGED waits /\ jobs' = (jobs \ {j}) \cup {k}
    BY <1>4 DEF Goes
  <2> HIDE DEF k
  <2> QED
    BY <1>2, <2>1, <2>2
<1>5. ASSUME NEW id, NEW then, ReadBack(j, id, then) PROVE ChatInv'
  <2> DEFINE k == [j EXCEPT !.to = id, !.kind = IF id # None THEN "thread" ELSE "list", !.then = then,
                            !.again = then = "conflict" /\ id \in panel.met]
  <2>1. DOMAIN k = JobFields /\ k.n = j.n /\ k.kind \in {"thread", "list"}
    BY <1>3 DEF Job, JobFields
  <2>2. UNCHANGED waits /\ jobs' = (jobs \ {j}) \cup {k}
    BY <1>5 DEF ReadBack
  <2> HIDE DEF k
  <2> QED
    BY <1>2, <2>1, <2>2
<1> QED
  BY <1>1, <1>4, <1>5 DEF GoesOrEnds

(* What an answer to the chat may do to the session.                       *)
SessionLeft == session' \in {session, SignedOut, Expired, [session EXCEPT !.mode = "login"]}

LEMMA FailureGoes ==
  ASSUME NEW j, NEW why, Fails(j, why)
  PROVE  GoesOrEnds(j) /\ SessionLeft
<1>1. GoesOrEnds(j)
  BY Zenon DEF Fails, GoesOrEnds
<1>2. SessionLeft
  BY Zenon DEF Fails, SignsOut, SessionLeft
<1> QED
  BY <1>1, <1>2

LEMMA ReadFailureGoes ==
  ASSUME NEW j, NEW why, ReadFails(j, why)
  PROVE  GoesOrEnds(j) /\ SessionLeft
<1>1. CASE Fails(j, why)
  BY <1>1, FailureGoes
<1>2. CASE ~Fails(j, why)
  <2>1. Ends(j) /\ session' \in {session, Expired}
    BY <1>2, Zenon DEF ReadFails, SignsOut
  <2> QED
    BY <2>1, Zenon DEF GoesOrEnds, SessionLeft
<1> QED
  BY <1>1, <1>2

LEMMA AnsweredGoes ==
  ASSUME NEW j, j.of \in {"submit", "edit"}, Answered(j)
  PROVE  GoesOrEnds(j) /\ SessionLeft
<1>1. \/ \E id : ReadBack(j, id, "show")
      \/ Ends(j)
  BY Zenon DEF Answered
<1>2. UNCHANGED session
  BY Zenon DEF Answered
<1> QED
  BY <1>1, <1>2, Zenon DEF GoesOrEnds, SessionLeft

LEMMA AnswersGo ==
  ASSUME NEW j \in jobs, ChatInv,
         \/ Dropped(j)
         \/ \E how \in {"ok", "lost", "limit", "auth", "conflict"} : ImproveAnswer(j, how)
         \/ \E how \in {"ok", "lost", "auth"} :
              ThreadAnswer(j, how) \/ ListAnswer(j, how) \/ DeleteAnswer(j, how)
  PROVE  ChatInv' /\ SessionLeft
<1>1. CASE Dropped(j)
  <2>1. Ends(j) /\ session' = session /\ made' = made
    BY <1>1 DEF Dropped
  <2>2. GoesOrEnds(j) /\ SessionLeft
    BY <2>1, Zenon DEF GoesOrEnds, SessionLeft
  <2> QED
    BY <2>1, <2>2, AnswerKeepsChat
<1>2. ASSUME NEW how, ImproveAnswer(j, how)
      PROVE  GoesOrEnds(j) /\ SessionLeft /\ UNCHANGED made
  <2>1. j.of \in {"submit", "edit"}
    BY <1>2 DEF ImproveAnswer, ChatInv, JobsOk
  <2>2. (Answered(j) \/ \E why : Fails(j, why)) /\ UNCHANGED made
    BY <1>2, Zenon DEF ImproveAnswer
  <2> QED
    BY <2>1, <2>2, AnsweredGoes, FailureGoes
<1>3. ASSUME NEW how, ThreadAnswer(j, how)
      PROVE  GoesOrEnds(j) /\ SessionLeft /\ UNCHANGED made
  <2>1. /\ UNCHANGED made
        /\ \/ ReadFails(j, how)
           \/ Goes(j, "list", j.then) /\ UNCHANGED session
           \/ Ends(j) /\ UNCHANGED session
    BY <1>3, Zenon DEF ThreadAnswer
  <2> QED
    BY <2>1, ReadFailureGoes, Zenon DEF GoesOrEnds, SessionLeft
<1>4. ASSUME NEW how, ListAnswer(j, how)
      PROVE  GoesOrEnds(j) /\ SessionLeft /\ UNCHANGED made
  <2>1. /\ UNCHANGED made
        /\ \/ ReadFails(j, how)
           \/ Ends(j) /\ UNCHANGED session
    BY <1>4, Zenon DEF ListAnswer
  <2> QED
    BY <2>1, ReadFailureGoes, Zenon DEF GoesOrEnds, SessionLeft
<1>5. ASSUME NEW how \in {"ok", "lost", "auth"}, DeleteAnswer(j, how)
      PROVE  GoesOrEnds(j) /\ SessionLeft /\ UNCHANGED made
  <2>1. /\ UNCHANGED made
        /\ \/ (\E then : Goes(j, "list", then)) /\ UNCHANGED session
           \/ Ends(j) /\ session' \in {session, Expired}
    BY <1>5, Zenon DEF DeleteAnswer, SignsOut
  <2> QED
    BY <2>1, Zenon DEF GoesOrEnds, SessionLeft
<1>6. CASE \E how \in {"ok", "lost", "limit", "auth", "conflict"} : ImproveAnswer(j, how)
  BY <1>2, <1>6, AnswerKeepsChat
<1>7. CASE \E how \in {"ok", "lost", "auth"} :
              ThreadAnswer(j, how) \/ ListAnswer(j, how) \/ DeleteAnswer(j, how)
  BY <1>3, <1>4, <1>5, <1>7, AnswerKeepsChat
<1> QED
  BY <1>1, <1>6, <1>7

LEMMA UserKeepsChat ==
  ASSUME ChatInv, UserInChat
  PROVE  ChatInv'
<1>1. CASE \E text \in Texts : Submit(text)
  BY <1>1, SubmitKeepsChat DEF Submit
<1>2. CASE \E text \in Texts : SubmitEdited(text)
  BY <1>2, EditKeepsChat DEF SubmitEdited
<1>3. ASSUME NEW i, Retry(i) PROVE ChatInv'
  <2>1. \/ UNCHANGED <<waits, jobs, made>>
        \/ \E p, id, text : EditOn(p, id, text, TRUE)
        \/ \E p, text : SubmitOn(p, text, TRUE)
    BY <1>3, Zenon DEF Retry
  <2>2. CASE UNCHANGED <<waits, jobs, made>>
    BY <2>2 DEF ChatInv
  <2> QED
    BY <2>1, <2>2, SubmitKeepsChat, EditKeepsChat
<1>4. ASSUME NEW i, RefreshConflict(i) PROVE ChatInv'
  <2> DEFINE m == panel.messages[i]
             k == [Job EXCEPT !.kind = IF panel.open # None THEN "thread" ELSE "list", !.then = "refresh",
                     !.of = "refresh", !.text = m.text, !.rid = m.rid, !.key = m.key, !.target = m.target,
                     !.to = panel.open, !.token = session.token, !.again = m.again, !.resolves = TRUE]
  <2>1. jobs' = jobs \cup {k} /\ UNCHANGED <<waits, made>>
    BY <1>4 DEF RefreshConflict
  <2> HIDE DEF m
  <2>2. DOMAIN k = JobFields /\ k.kind \in {"thread", "list"}
    BY DEF Job, JobFields
  <2> HIDE DEF k
  <2>3. JobsOk({k})
    BY <2>2 DEF JobsOk
  <2> QED
    BY <2>1, <2>3, JobAdded DEF ChatInv
<1>5. ASSUME NEW i, DeleteRecent(i) PROVE ChatInv'
  <2> DEFINE k == [Job EXCEPT !.kind = "delete", !.of = "delete", !.to = RecentThreads[i].id,
                              !.token = session.token]
  <2>1. UNCHANGED <<waits, made>> /\ (UNCHANGED jobs \/ jobs' = jobs \cup {k})
    BY <1>5, Zenon DEF DeleteRecent
  <2>2. DOMAIN k = JobFields /\ k.kind = "delete"
    BY DEF Job, JobFields
  <2> HIDE DEF k
  <2>3. JobsOk({k})
    BY <2>2 DEF JobsOk
  <2> QED
    BY <2>1, <2>3, JobAdded DEF ChatInv
<1>6. CASE Cancel
  <2>1. waits' = NotWaiting /\ UNCHANGED <<jobs, made>>
    BY <1>6 DEF Cancel
  <2> QED
    BY <2>1 DEF ChatInv, RequestWaits, NotWaiting
<1>7. CASE LogOut
  BY <1>7, JobsRun DEF LogOut, ChatInv
<1>8. CASE UNCHANGED <<waits, jobs, made>>
  BY <1>8 DEF ChatInv
<1>9. \/ \E text \in Texts : Submit(text) \/ SubmitEdited(text)
      \/ \E i : Retry(i) \/ RefreshConflict(i) \/ DeleteRecent(i)
      \/ Cancel \/ LogOut \/ UNCHANGED <<waits, jobs, made>>
  BY DEF UserInChat, StartEdit, ContinueInNewChat, OpenPrompt, OpenRecent, NewChat
<1> QED
  BY <1>1, <1>2, <1>3, <1>4, <1>5, <1>6, <1>7, <1>8, <1>9

(* The uuid is known, the stored session is read, a list is answered.      *)
LEMMA ReadingsKeepChat ==
  ASSUME ChatInv
  PROVE  /\ \A j \in jobs : UuidKnown(j) => ChatInv'
         /\ RestoreSession => ChatInv'
         /\ \A j \in jobs : \A how : HydrateAnswer(j, how) => ChatInv'
<1>1. ASSUME NEW j \in jobs, UuidKnown(j) PROVE ChatInv'
  <2> DEFINE k == [j EXCEPT !.kind = "call"]
  <2>1. /\ jobs' = (jobs \ {j}) \cup {k} /\ UNCHANGED made
        /\ waits' = [loading |-> TRUE, inFlight |-> TRUE, active |-> j.n]
    BY <1>1 DEF UuidKnown, Begin
  <2>2. DOMAIN j = JobFields /\ j.n # 0 /\ j.of \in {"submit", "edit"}
    BY <1>1 DEF UuidKnown, ChatInv, JobsOk
  <2>3. DOMAIN k = JobFields /\ k.kind = "call" /\ k.n = j.n /\ k.of = j.of
    BY <2>2 DEF Job, JobFields
  <2> HIDE DEF k
  <2>4. JobsOk({k}) /\ JobsOk(jobs \ {j})
    BY <2>2, <2>3 DEF JobsOk, ChatInv
  <2> QED
    BY <2>1, <2>2, <2>3, <2>4, JobBegun DEF ChatInv
<1>2. ASSUME RestoreSession PROVE ChatInv'
  BY <1>2, JobsRun, JobAdded DEF RestoreSession, ChatInv
<1>3. ASSUME NEW j \in jobs, NEW how, HydrateAnswer(j, how) PROVE ChatInv'
  <2>1. j.n = 0 /\ jobs' = jobs \ {j} /\ UNCHANGED <<waits, made>>
    BY <1>3 DEF HydrateAnswer, ChatInv, JobsOk
  <2> QED
    BY <2>1 DEF ChatInv, JobsOk, RequestWaits
<1> QED
  BY <1>1, <1>2, <1>3

(* The account part of the panel: what Asking, FormGone, Entered and the   *)
(* end of a call do to it, whatever it is at the time.                     *)
SameCall(c, k) ==
  /\ CallOk(k) /\ k.kind = c.kind /\ k.token = c.token /\ k.field = c.field
  /\ k.value = c.value /\ k.names = c.names /\ k.here = c.here

LEMMA SideAsking ==
  ASSUME NEW s, SideShape(s), NEW c, CallOk(c)
  PROVE  \E k : /\ SameCall(c, k)
                /\ Asking(s, c) = [s EXCEPT !.calls = @ \cup {k}]
<1> DEFINE k == [c EXCEPT !.n = Free(s)]
<1>1. /\ k.kind = c.kind /\ k.token = c.token /\ k.field = c.field
      /\ k.value = c.value /\ k.names = c.names /\ k.here = c.here /\ DOMAIN k = CallFields
  BY DEF CallOk, Call, CallFields
<1>2. Asking(s, c) = [s EXCEPT !.calls = @ \cup {k}]
  BY DEF Asking
<1> HIDE DEF k
<1> QED
  BY <1>1, <1>2 DEF CallOk, SameCall

(* Two states of the account part that differ in the calls only.           *)
Calls(s, r, cs) ==
  /\ DOMAIN r = SideFields /\ r.calls = cs
  /\ r.form = s.form /\ r.told = s.told /\ r.usage = s.usage /\ r.of = s.of /\ r.saved = s.saved
  /\ r.shown = s.shown /\ r.pending = s.pending /\ r.confirm = s.confirm /\ r.loose = s.loose

LEMMA SideCalls ==
  ASSUME NEW s, SideShape(s), NEW cs
  PROVE  Calls(s, [s EXCEPT !.calls = cs], cs)
BY DEF SideShape, SideFields, NewSide, Calls

LEMMA AskingCalls ==
  ASSUME NEW s, SideShape(s), NEW c, CallOk(c)
  PROVE  \E k : /\ SameCall(c, k)
                /\ Calls(s, Asking(s, c), s.calls \cup {k})
<1>1. PICK k : /\ SameCall(c, k)
               /\ Asking(s, c) = [s EXCEPT !.calls = @ \cup {k}]
  BY SideAsking
<1>2. Calls(s, [s EXCEPT !.calls = s.calls \cup {k}], s.calls \cup {k})
  BY SideCalls
<1> QED
  BY <1>1, <1>2

(* The calls the account part makes.                                       *)
LEMMA BlankNames == Blank \in [Fields -> Typed]
BY DEF Blank, Typed

UsageCall(t) == [Call EXCEPT !.kind = "usage", !.token = t]
LEMMA UsageCalls ==
  ASSUME NEW t
  PROVE  CallOk(UsageCall(t)) /\ UsageCall(t).kind = "usage" /\ UsageCall(t).token = t
         /\ UsageCall(t).field = ""
BY BlankNames DEF UsageCall, CallOk, Call, CallFields

ListCall(kind, t, post, here) ==
  [Call EXCEPT !.kind = kind, !.token = t, !.value = post, !.here = here]
LEMMA OpeningCalls ==
  ASSUME NEW t
  PROVE  LET c == ListCall("hydrate", t, "", FALSE)
         IN  CallOk(c) /\ c.kind = "hydrate" /\ c.field = ""
BY BlankNames DEF ListCall, CallOk, Call, CallFields

CheckCall(f, v) == [Call EXCEPT !.kind = "check", !.field = f, !.value = v]
LEMMA CheckCalls ==
  ASSUME NEW f, NEW v
  PROVE  LET c == CheckCall(f, v)
         IN  CallOk(c) /\ c.kind = "check" /\ c.field = f /\ c.value = v /\ c.here
BY BlankNames DEF CheckCall, CallOk, Call, CallFields

FormCall(kind, t, names) == [Call EXCEPT !.kind = kind, !.token = t, !.names = names]
FormSends(c, kind, names) ==
  CallOk(c) /\ c.kind = kind /\ c.names = names /\ c.here /\ c.field = ""
LEMMA FormCalls ==
  ASSUME NEW kind, NEW t, NEW names \in [Fields -> Typed], kind # "hydrate"
  PROVE  FormSends(FormCall(kind, t, names), kind, names)
BY DEF FormSends, FormCall, CallOk, Call, CallFields

(* A session begins, or ends: the two readings of the old one are dropped, *)
(* and those of the new one begin.                                         *)
LEMMA EnteredKeeps ==
  ASSUME NEW s, SideOk(s, session.token)
  PROVE  /\ SideOk(Entered(s), session'.token)
         /\ session'.token = session.token => Entered(s) = s
         /\ session'.token # session.token => Entered(s).saved \in {"local", "loading"}
<1> DEFINE t == session'.token
           old == {c \in s.calls : c.kind \notin {"usage", "hydrate"}}
           left1 == [s EXCEPT !.calls = old]
<1>1. CASE t = session.token
  BY <1>1 DEF Entered
<1>2. CASE t # session.token /\ t = 0
  <2> DEFINE r == [left1 EXCEPT !.usage = "idle", !.of = 0, !.saved = "local", !.shown = {}]
  <2>1. Entered(s) = r
    BY <1>2 DEF Entered
  <2>2. SideShape(s) /\ FormWaits(s) /\ FormTold(s) /\ UsageOk(s, session.token) /\ ListsWait(s)
    BY DEF SideOk
  <2>3. /\ r.calls = old /\ r.form = s.form /\ r.told = s.told /\ r.usage = "idle" /\ r.saved = "local"
        /\ r.pending = s.pending /\ DOMAIN r = SideFields
    BY <2>2 DEF SideShape, SideFields, NewSide
  <2> HIDE DEF r
  <2>4. SideShape(r)
    BY <2>2, <2>3 DEF SideShape
  <2>5. FormWaits(r)
    BY <2>2, <2>3 DEF FormWaits, SideShape, CallOk, Forms
  <2>6. FormTold(r)
    BY <2>2, <2>3 DEF FormTold
  <2>7. UsageOk(r, t)
    BY <2>3 DEF UsageOk
  <2>8. ListsWait(r)
    <3>1. r.saved # "loading"
      BY <2>3
    <3>2. ASSUME NEW p \in s.pending PROVE \E c \in old : c.here /\ c.kind \in ListKinds /\ c.value = p
      BY <2>2 DEF ListsWait, SideShape, CallOk, ListKinds
    <3> QED
      BY <2>3, <3>1, <3>2 DEF ListsWait
  <2> QED
    BY <1>2, <2>1, <2>3, <2>4, <2>5, <2>6, <2>7, <2>8 DEF SideOk
<1>3. CASE t # session.token /\ t # 0
  <2> DEFINE s1 == [left1 EXCEPT !.usage = "loading"]
             s2 == Asking(s1, ListCall("hydrate", t, "", FALSE))
             s3 == [s2 EXCEPT !.saved = "loading"]
             r == Asking(s3, UsageCall(t))
  <2>1. Entered(s) = r
    BY <1>3 DEF Entered, ReadUsage, ReadSaved, ListCall, UsageCall
  <2>2. SideShape(s) /\ FormWaits(s) /\ FormTold(s) /\ UsageOk(s, session.token) /\ ListsWait(s)
    BY DEF SideOk
  <2>3. /\ s1.calls = old /\ s1.form = s.form /\ s1.told = s.told /\ s1.usage = "loading"
        /\ s1.pending = s.pending /\ DOMAIN s1 = SideFields
    BY <2>2 DEF SideShape, SideFields, NewSide
  <2> HIDE DEF s1
  <2>4. SideShape(s1)
    BY <2>2, <2>3 DEF SideShape
  <2>5. PICK k : /\ CallOk(k) /\ k.kind = "hydrate" /\ k.field = ""
                 /\ Calls(s1, s2, s1.calls \cup {k})
    <3> DEFINE c == ListCall("hydrate", t, "", FALSE)
    <3>1. CallOk(c) /\ c.kind = "hydrate" /\ c.field = ""
      BY OpeningCalls
    <3> HIDE DEF c
    <3>2. \E k : /\ CallOk(k) /\ k.kind = "hydrate" /\ k.field = ""
                 /\ Calls(s1, Asking(s1, c), s1.calls \cup {k})
      BY <2>4, <3>1, AskingCalls DEF SameCall
    <3> QED
      BY <3>2, Zenon DEF c, s2
  <2> HIDE DEF s2
  <2>6. /\ s3.calls = s1.calls \cup {k} /\ s3.form = s.form /\ s3.told = s.told /\ s3.usage = "loading"
        /\ s3.pending = s.pending /\ DOMAIN s3 = SideFields /\ s3.saved = "loading"
    BY <2>3, <2>5 DEF Calls, SideFields, NewSide
  <2> HIDE DEF s3
  <2>7. SideShape(s3)
    BY <2>2, <2>3, <2>5, <2>6 DEF SideShape
  <2>8. PICK u : /\ CallOk(u) /\ u.kind = "usage" /\ u.token = t /\ u.field = ""
                 /\ Calls(s3, r, s3.calls \cup {u})
    BY <2>7, UsageCalls, AskingCalls DEF SameCall
  <2> HIDE DEF r
  <2>9. /\ r.calls = old \cup {k, u} /\ r.form = s.form /\ r.told = s.told /\ r.usage = "loading"
        /\ r.saved = "loading" /\ r.pending = s.pending /\ DOMAIN r = SideFields
    BY <2>3, <2>6, <2>8 DEF Calls
  <2>10. SideShape(r)
    BY <2>2, <2>5, <2>8, <2>9 DEF SideShape
  <2>11. FormWaits(r)
    BY <2>2, <2>9 DEF FormWaits, SideShape, CallOk, Forms
  <2>12. FormTold(r)
    BY <2>2, <2>5, <2>8, <2>9 DEF FormTold
  <2>13. UsageOk(r, t)
    BY <2>5, <2>8, <2>9 DEF UsageOk
  <2>14. ListsWait(r)
    <3>1. ASSUME NEW p \in s.pending PROVE \E c \in old : c.here /\ c.kind \in ListKinds /\ c.value = p
      BY <2>2 DEF ListsWait, SideShape, CallOk, ListKinds
    <3>2. \E c \in r.calls : c.kind \in {"hydrate", "refresh"}
      BY <2>5, <2>9
    <3>3. old \subseteq r.calls
      BY <2>9
    <3> HIDE DEF old
    <3> QED
      BY <2>9, <3>1, <3>2, <3>3 DEF ListsWait
  <2> QED
    BY <1>3, <2>1, <2>9, <2>10, <2>11, <2>12, <2>13, <2>14 DEF SideOk
<1> QED
  BY <1>1, <1>2, <1>3

LEMMA FormBlank ==
  /\ DOMAIN BlankForm = FormFields /\ BlankForm.value = Blank /\ BlankForm.checked = Blank
  /\ BlankForm.checking = "" /\ BlankForm.submitting = FALSE
<1>1. DOMAIN BlankForm = FormFields
  BY Zenon DEF FormFields
<1>2. BlankForm.value = Blank /\ BlankForm.checked = Blank
      /\ BlankForm.checking = "" /\ BlankForm.submitting = FALSE
  <2> HIDE DEF Blank
  <2> QED
    BY DEF BlankForm
<1> QED
  BY <1>1, <1>2

(* A call after the form it was sent from is gone.                         *)
LEMMA CallLeft ==
  ASSUME NEW c, CallOk(c)
  PROVE  LET g == [c EXCEPT !.here = @ /\ c.kind \notin Forms]
         IN  /\ CallOk(g) /\ g.kind = c.kind /\ g.token = c.token /\ g.names = c.names
             /\ g.value = c.value /\ (c.here /\ c.kind \notin Forms => g.here)
<1> DEFINE h == c.here /\ c.kind \notin Forms
           g == [c EXCEPT !.here = h]
<1>1. /\ DOMAIN g = CallFields /\ g.kind = c.kind /\ g.token = c.token /\ g.names = c.names
      /\ g.value = c.value /\ g.field = c.field /\ g.here = h
  <2> HIDE DEF h
  <2> QED
    BY DEF CallOk, CallFields, Call
<1> HIDE DEF g
<1>2. h \in BOOLEAN /\ (c.kind = "hydrate" => ~h)
  BY DEF CallOk
<1>3. CallOk(g) /\ (c.here /\ c.kind \notin Forms => g.here)
  BY <1>1, <1>2 DEF CallOk
<1> QED
  BY <1>1, <1>3 DEF g

(* A form that closes: nothing waits for its calls any more.               *)
LEMMA FormGoneKeeps ==
  ASSUME NEW s, NEW t, SideShape(s), FormTold(s), UsageOk(s, t), ListsWait(s)
  PROVE  /\ SideOk(FormGone(s), t) /\ FormGone(s).saved = s.saved /\ FormGone(s).shown = s.shown
         /\ FormGone(s).loose = s.loose
<1> DEFINE h(c) == c.here /\ c.kind \notin Forms
           g(c) == [c EXCEPT !.here = @ /\ c.kind \notin Forms]
           cs == {g(c) : c \in s.calls}
           r == FormGone(s)
<1>1. /\ r.calls = cs /\ r.form = BlankForm /\ r.told = s.told /\ r.usage = s.usage /\ r.of = s.of
      /\ r.saved = s.saved /\ r.shown = s.shown /\ r.loose = s.loose /\ r.pending = s.pending
      /\ DOMAIN r = SideFields
  BY DEF FormGone, SideShape, SideFields, NewSide
<1>2. ASSUME NEW c \in s.calls
      PROVE  /\ CallOk(g(c)) /\ g(c).kind = c.kind /\ g(c).token = c.token /\ g(c).names = c.names
             /\ g(c).value = c.value /\ (c.here /\ c.kind \notin Forms => g(c).here)
  BY CallLeft DEF SideShape
<1> HIDE DEF r, g
<1>3. SideShape(r)
  <2>1. DOMAIN Blank = Fields
    BY DEF Blank
  <2> QED
    BY <1>1, <1>2, <2>1, BlankNames, FormBlank DEF SideShape
<1>4. FormWaits(r)
  BY <1>1, FormBlank DEF FormWaits
<1>5. FormTold(r)
  <2>1. \A f \in Fields : BlankForm.checked[f] = ""
    <3>1. \A f \in Fields : Blank[f] = ""
      BY DEF Blank
    <3> QED
      BY <3>1, FormBlank
  <2>2. ASSUME NEW d \in cs, d.kind = "signup", NEW f \in Fields PROVE <<f, d.names[f]>> \in s.told
    <3>1. PICK c \in s.calls : d = g(c)
      OBVIOUS
    <3> QED
      BY <1>2, <2>2, <3>1 DEF FormTold
  <2> QED
    BY <1>1, <2>1, <2>2 DEF FormTold
<1>6. UsageOk(r, t)
  <2>1. r.usage = "loading" => \E c \in cs : c.kind = "usage"
    BY <1>1, <1>2 DEF UsageOk
  <2> QED
    BY <1>1, <1>2, <2>1 DEF UsageOk
<1>7. ListsWait(r)
  <2>1. r.saved = "loading" => \E c \in cs : c.kind \in {"hydrate", "refresh"}
    BY <1>1, <1>2 DEF ListsWait
  <2>2. ASSUME NEW p \in r.pending PROVE \E c \in cs : c.here /\ c.kind \in ListKinds /\ c.value = p
    <3>1. PICK c \in s.calls : c.here /\ c.kind \in ListKinds /\ c.value = p
      BY <1>1, <2>2 DEF ListsWait
    <3>2. c.kind \notin Forms
      BY <3>1 DEF ListKinds, Forms
    <3> QED
      BY <1>2, <3>1, <3>2
  <2> QED
    BY <1>1, <2>1, <2>2 DEF ListsWait
<1> QED
  BY <1>1, <1>3, <1>4, <1>5, <1>6, <1>7 DEF SideOk, r

(* The end of a call: who else waits for it is freed in the same step.     *)
LEMMA OverKeeps ==
  ASSUME NEW t, SideOk(side, t), NEW c \in side.calls
  PROVE  /\ Calls(side, Over(c), side.calls \ {c})
         /\ SideShape(Over(c)) /\ FormTold(Over(c)) /\ CallOk(c)
         /\ c.kind \notin Forms => FormWaits(Over(c))
         /\ c.kind # "usage" => UsageOk(Over(c), t)
         /\ c.kind \notin ListKinds => ListsWait(Over(c))
<1> DEFINE r == Over(c)
<1>1. Calls(side, r, side.calls \ {c})
  BY SideCalls DEF Over, SideOk
<1> HIDE DEF r
<1>2. SideShape(side) /\ FormWaits(side) /\ FormTold(side) /\ UsageOk(side, t) /\ ListsWait(side)
  BY DEF SideOk
<1>3. SideShape(r) /\ CallOk(c)
  BY <1>1, <1>2 DEF SideShape, Calls
<1>4. FormTold(r)
  BY <1>1, <1>2 DEF FormTold, Calls
<1>5. c.kind \notin Forms => FormWaits(r)
  <2> SUFFICES ASSUME c.kind \notin Forms PROVE FormWaits(r)
    OBVIOUS
  <2>1. c.field = ""
    BY <1>3 DEF CallOk, Forms
  <2> QED
    BY <1>1, <1>2, <2>1 DEF FormWaits, Calls
<1>6. c.kind # "usage" => UsageOk(r, t)
  BY <1>1, <1>2 DEF UsageOk, Calls
<1>7. c.kind \notin ListKinds => ListsWait(r)
  BY <1>1, <1>2 DEF ListsWait, Calls, ListKinds
<1> QED
  BY <1>1, <1>3, <1>4, <1>5, <1>6, <1>7 DEF r

AccountInv ==
  SessionOk(session) /\ SideOk(side, session.token) /\ ListOk(side, session.token, Kept)

LEMMA SameList ==
  ASSUME NEW s, NEW r, NEW t, NEW k, ListOk(s, t, k), r.saved = s.saved, r.shown = s.shown,
         s.loose => r.loose
  PROVE  ListOk(r, t, k)
BY DEF ListOk

(* A step within one session and without the server's lists.               *)
SideStays(s, e, t) ==
  SideOk(e, t) /\ e.saved = s.saved /\ e.shown = s.shown /\ (s.loose => e.loose)

LEMMA StaysInAccount ==
  ASSUME AccountInv, UNCHANGED <<session, shelf>>, SideStays(side, side', session.token)
  PROVE  AccountInv'
<1>1. ListOk(side', session.token, Kept)
  BY SameList DEF AccountInv, SideStays
<1> QED
  BY <1>1 DEF AccountInv, Kept, SideStays

(* Another session, or none, with what is shown of it.                     *)
LEMMA EntersAccount ==
  ASSUME AccountInv, NEW s, SideOk(s, session.token), side' = Entered(s), SessionOk(session'),
         session'.token = session.token => ListOk(s, session.token, Kept')
  PROVE  AccountInv'
<1>1. CASE session'.token = session.token
  BY <1>1, EnteredKeeps DEF AccountInv
<1>2. CASE session'.token # session.token
  <2>1. SideOk(side', session'.token) /\ side'.saved # "server"
    BY <1>2, EnteredKeeps
  <2> QED
    BY <2>1 DEF AccountInv, ListOk
<1> QED
  BY <1>1, <1>2

(* Two states of the account part that differ in the form only.            *)
Form(s, r, value, checked, checking, submitting) ==
  /\ DOMAIN r = SideFields /\ DOMAIN r.form = FormFields
  /\ r.form.value = value /\ r.form.checked = checked
  /\ r.form.checking = checking /\ r.form.submitting = submitting
  /\ r.calls = s.calls /\ r.told = s.told /\ r.usage = s.usage /\ r.of = s.of /\ r.saved = s.saved
  /\ r.shown = s.shown /\ r.pending = s.pending /\ r.confirm = s.confirm /\ r.loose = s.loose

LEMMA FieldChanges ==
  ASSUME NEW s, SideShape(s), NEW f, NEW v, NEW r,
         r = [s EXCEPT !.form.value[f] = v, !.form.checked[f] = ""]
  PROVE  Form(s, r, [s.form.value EXCEPT ![f] = v], [s.form.checked EXCEPT ![f] = ""],
              s.form.checking, s.form.submitting)
BY DEF SideShape, SideFields, NewSide, FormFields, BlankForm, Form

LEMMA CheckedChanges ==
  ASSUME NEW s, SideShape(s), NEW f, NEW v, NEW r, r = [s EXCEPT !.form.checked[f] = v]
  PROVE  Form(s, r, s.form.value, [s.form.checked EXCEPT ![f] = v],
              s.form.checking, s.form.submitting)
BY DEF SideShape, SideFields, NewSide, FormFields, BlankForm, Form

LEMMA CheckingChanges ==
  ASSUME NEW s, SideShape(s), NEW v, NEW r, r = [s EXCEPT !.form.checking = v]
  PROVE  Form(s, r, s.form.value, s.form.checked, v, s.form.submitting)
BY DEF SideShape, SideFields, NewSide, FormFields, BlankForm, Form

LEMMA SubmittingChanges ==
  ASSUME NEW s, SideShape(s), NEW v \in BOOLEAN, NEW r, r = [s EXCEPT !.form.submitting = v]
  PROVE  Form(s, r, s.form.value, s.form.checked, s.form.checking, v)
BY DEF SideShape, SideFields, NewSide, FormFields, BlankForm, Form

(* A form that is sent.                                                    *)
AllFree(form) == \A f \in Fields : form.value[f] # "" /\ form.checked[f] = form.value[f]

LEMMA FormSent ==
  ASSUME NEW s, NEW t, SideOk(s, t), NEW m \in Forms \ {"check"},
         m = "signup" => AllFree(s.form),
         NEW e, e = [Asking(s, FormCall(m, t, s.form.value)) EXCEPT !.form.submitting = TRUE]
  PROVE  SideStays(s, e, t)
<1>0. SideShape(s) /\ FormWaits(s) /\ FormTold(s) /\ UsageOk(s, t) /\ ListsWait(s)
  BY DEF SideOk
<1>1. PICK names : names = s.form.value
  OBVIOUS
<1>2. PICK c : c = FormCall(m, t, names)
  OBVIOUS
<1>3. PICK r : r = Asking(s, c)
  OBVIOUS
<1>4. e = [r EXCEPT !.form.submitting = TRUE]
  BY <1>1, <1>2, <1>3
<1>5. names \in [Fields -> Typed] /\ m # "hydrate"
  BY <1>0, <1>1 DEF Forms, SideShape
<1>6. CallOk(c) /\ c.kind = m /\ c.field = "" /\ c.here /\ c.names = names
  <2>1. FormSends(c, m, names)
    BY <1>2, <1>5, FormCalls
  <2> QED
    BY <2>1 DEF FormSends
<1>7. m = "signup" => \A f \in Fields : <<f, names[f]>> \in s.told
  BY <1>0, <1>1 DEF FormTold, AllFree
<1>8. PICK k : SameCall(c, k) /\ Calls(s, r, s.calls \cup {k})
  BY <1>0, <1>3, <1>6, AskingCalls
<1>9. SideShape(r)
  BY <1>0, <1>8 DEF SideShape, Calls, SameCall
<1>10. Form(r, e, r.form.value, r.form.checked, r.form.checking, TRUE)
  BY <1>4, <1>9, SubmittingChanges
<1>11. FormWaits(e)
  BY <1>0, <1>6, <1>8, <1>10 DEF FormWaits, Form, Calls, SameCall
<1>12. SideShape(e)
  BY <1>9, <1>10 DEF SideShape, Form
<1>13. FormTold(e)
  <2>1. e.calls = s.calls \cup {k} /\ e.told = s.told /\ e.form.checked = s.form.checked
    BY <1>8, <1>10 DEF Form, Calls
  <2>2. k.names = names /\ k.kind = m
    BY <1>6, <1>8 DEF SameCall
  <2> QED
    BY <1>0, <1>7, <2>1, <2>2 DEF FormTold
<1>14. UsageOk(e, t) /\ ListsWait(e)
  <2>1. /\ e.calls = s.calls \cup {k} /\ e.usage = s.usage /\ e.of = s.of /\ e.saved = s.saved
        /\ e.pending = s.pending
    BY <1>8, <1>10 DEF Form, Calls
  <2>2. k.kind # "usage"
    BY <1>6, <1>8 DEF SameCall, Forms
  <2> QED
    BY <1>0, <2>1, <2>2 DEF UsageOk, ListsWait
<1> QED
  BY <1>8, <1>10, <1>11, <1>12, <1>13, <1>14 DEF SideOk, Form, Calls, SideStays

(* What the user does with the form.                                       *)
LEMMA FormKeepsAccount ==
  ASSUME AccountInv,
         \/ \E m : OpenForm(m) \/ MoveMode(m)
         \/ \E m \in Forms \ {"check"} : SubmitForm(m)
         \/ CloseForm
         \/ \E f \in Fields : CheckName(f) \/ \E v \in Names : TypeName(f, v)
  PROVE  AccountInv'
<1>0. SideOk(side, session.token) /\ SideShape(side) /\ FormWaits(side) /\ FormTold(side)
      /\ UsageOk(side, session.token) /\ ListsWait(side) /\ SessionOk(session)
      /\ ListOk(side, session.token, Kept)
  BY DEF AccountInv, SideOk
<1>1. ASSUME NEW m, OpenForm(m) \/ MoveMode(m) PROVE AccountInv'
  <2>1. session' = [session EXCEPT !.mode = m] /\ UNCHANGED accountVars /\ m \in PanelModes
    BY <1>1, Zenon DEF OpenForm, MoveMode, Mode, PanelModes
  <2>2. SessionOk(session') /\ session'.token = session.token /\ session'.owners = session.owners
    BY <1>0, <2>1 DEF SessionOk
  <2> QED
    BY <1>0, <2>1, <2>2 DEF AccountInv, accountVars, Kept
<1>2. CASE CloseForm
  <2>1. session' = [session EXCEPT !.mode = ""] /\ side' = FormGone(side) /\ UNCHANGED shelf
    BY <1>2 DEF CloseForm, Mode
  <2>2. SessionOk(session') /\ session'.token = session.token /\ session'.owners = session.owners
    BY <1>0, <2>1 DEF SessionOk, PanelModes
  <2>3. SideOk(side', session.token) /\ ListOk(side', session.token, Kept)
    BY <1>0, <2>1, FormGoneKeeps, SameList
  <2> QED
    BY <2>1, <2>2, <2>3 DEF AccountInv, Kept
<1>3. ASSUME NEW f \in Fields, NEW v \in Names, TypeName(f, v) PROVE AccountInv'
  <2>1. side' = [side EXCEPT !.form.value[f] = v, !.form.checked[f] = ""] /\ UNCHANGED <<session, shelf>>
    BY <1>3 DEF TypeName
  <2>2. Form(side, side', [side.form.value EXCEPT ![f] = v], [side.form.checked EXCEPT ![f] = ""],
             side.form.checking, side.form.submitting)
    BY <1>0, <2>1, FieldChanges
  <2>3. SideShape(side')
    BY <1>0, <2>2 DEF SideShape, Form, Typed
  <2>4. FormWaits(side') /\ FormTold(side')
    BY <1>0, <2>2 DEF FormWaits, FormTold, SideShape, Form
  <2>5. SideOk(side', session.token)
    BY <1>0, <2>2, <2>3, <2>4 DEF SideOk, UsageOk, ListsWait, Form
  <2> QED
    BY <2>1, <2>2, <2>5, StaysInAccount DEF Form, SideStays
<1>4. ASSUME NEW f \in Fields, CheckName(f) PROVE AccountInv'
  <2> DEFINE c == CheckCall(f, side.form.value[f])
             r == Asking(side, c)
  <2>1. side' = [r EXCEPT !.form.checking = f] /\ UNCHANGED <<session, shelf>>
    BY <1>4 DEF CheckName, CheckCall
  <2>2. CallOk(c) /\ c.kind = "check" /\ c.field = f /\ c.here
    BY CheckCalls
  <2> HIDE DEF c
  <2>3. PICK k : SameCall(c, k) /\ Calls(side, r, side.calls \cup {k})
    BY <1>0, <2>2, AskingCalls
  <2> HIDE DEF r
  <2>4. SideShape(r)
    BY <1>0, <2>3 DEF SideShape, Calls, SameCall
  <2>5. Form(r, side', r.form.value, r.form.checked, f, r.form.submitting)
    BY <2>1, <2>4, CheckingChanges
  <2>6. FormWaits(side')
    BY <1>0, <2>2, <2>3, <2>5 DEF FormWaits, Form, Calls, SameCall
  <2>7. FormTold(side') /\ SideShape(side')
    BY <1>0, <2>2, <2>3, <2>4, <2>5 DEF FormTold, SideShape, Form, Calls, SameCall
  <2>8. UsageOk(r, session.token) /\ ListsWait(r)
    BY <1>0, <2>2, <2>3 DEF UsageOk, ListsWait, Calls, SameCall
  <2>9. SideOk(side', session.token)
    BY <2>5, <2>6, <2>7, <2>8 DEF SideOk, UsageOk, ListsWait, Form
  <2> QED
    BY <2>1, <2>3, <2>5, <2>9, StaysInAccount DEF Form, Calls, SideStays
<1>5. ASSUME NEW m \in Forms \ {"check"}, SubmitForm(m) PROVE AccountInv'
  <2>1. /\ side' = [Asking(side, FormCall(m, session.token, side.form.value)) EXCEPT !.form.submitting = TRUE]
        /\ UNCHANGED <<session, shelf>>
    BY <1>5 DEF SubmitForm, FormCall
  <2>2. m = "signup" => AllFree(side.form)
    BY <1>5 DEF SubmitForm, Filled, AllFree
  <2>3. SideStays(side, side', session.token)
    BY <1>0, <2>1, <2>2, FormSent
  <2> QED
    BY <2>1, <2>3, StaysInAccount
<1> QED
  BY <1>1, <1>2, <1>3, <1>4, <1>5

(* Two states of the account part that differ in what was found free only. *)
ToldMore(s, r, told) ==
  /\ DOMAIN r = SideFields /\ r.told = told
  /\ r.form = s.form /\ r.calls = s.calls /\ r.usage = s.usage /\ r.of = s.of /\ r.saved = s.saved
  /\ r.shown = s.shown /\ r.pending = s.pending /\ r.confirm = s.confirm /\ r.loose = s.loose

LEMMA ToldChanges ==
  ASSUME NEW s, SideShape(s), NEW told, NEW r, r = [s EXCEPT !.told = told]
  PROVE  ToldMore(s, r, told)
BY DEF SideShape, SideFields, NewSide, ToldMore

(* The answer to a check is in; nothing but the place that waits for the   *)
(* check is still to be freed.                                             *)
Heard(s, c, told, t, h) ==
  /\ SideShape(h) /\ FormTold(h) /\ UsageOk(h, t) /\ ListsWait(h)
  /\ h.form = s.form /\ h.calls = s.calls \ {c} /\ h.told = told
  /\ h.saved = s.saved /\ h.shown = s.shown /\ h.loose = s.loose

LEMMA CheckHeard ==
  ASSUME NEW t, SideOk(side, t), NEW c \in side.calls, c.kind = "check",
         NEW told, side.told \subseteq told, NEW h, h = [Over(c) EXCEPT !.told = told]
  PROVE  Heard(side, c, told, t, h)
<1>1. PICK o : o = Over(c)
  OBVIOUS
<1>2. /\ Calls(side, o, side.calls \ {c}) /\ SideShape(o) /\ FormTold(o)
      /\ UsageOk(o, t) /\ ListsWait(o)
  BY <1>1, OverKeeps DEF ListKinds
<1>3. ToldMore(o, h, told)
  BY <1>1, <1>2, ToldChanges
<1>4. SideShape(h) /\ UsageOk(h, t) /\ ListsWait(h)
  BY <1>2, <1>3 DEF SideShape, UsageOk, ListsWait, ToldMore
<1>5. FormTold(h)
  BY <1>2, <1>3 DEF FormTold, ToldMore, Calls
<1> QED
  BY <1>2, <1>3, <1>4, <1>5 DEF Heard, ToldMore, Calls

CheckSays(c, h, v, e) ==
  \/ ~c.here /\ e = h
  \/ e = [h EXCEPT !.form.checking = ""]
  \/ e = [[h EXCEPT !.form.checked[c.field] = v] EXCEPT !.form.checking = ""]

LEMMA CheckFreed ==
  ASSUME NEW s, NEW c \in s.calls, c.kind = "check", NEW t, SideOk(s, t), NEW told, NEW h,
         Heard(s, c, told, t, h), NEW v, v = "" \/ <<c.field, v>> \in told,
         NEW e, CheckSays(c, h, v, e)
  PROVE  SideStays(s, e, t)
<1>0. SideShape(s) /\ FormWaits(s) /\ SideShape(h) /\ FormTold(h) /\ UsageOk(h, t) /\ ListsWait(h)
  BY DEF SideOk, Heard
<1>1. CASE ~c.here /\ e = h
  <2>1. FormWaits(h)
    BY <1>0, <1>1 DEF FormWaits, Heard
  <2> QED
    BY <1>0, <1>1, <2>1 DEF SideStays, SideOk, Heard
<1>2. ASSUME NEW k, Form(h, e, h.form.value, k, "", h.form.submitting), DOMAIN k = Fields,
             \A f \in Fields : k[f] # "" => <<f, k[f]>> \in h.told
      PROVE  SideStays(s, e, t)
  <2>1. SideShape(e)
    BY <1>0, <1>2 DEF SideShape, Form
  <2>2. FormTold(e)
    BY <1>0, <1>2 DEF FormTold, Form
  <2>3. FormWaits(e)
    BY <1>0, <1>2 DEF FormWaits, Form, Heard
  <2>4. UsageOk(e, t) /\ ListsWait(e)
    BY <1>0, <1>2 DEF UsageOk, ListsWait, Form
  <2> QED
    BY <1>2, <2>1, <2>2, <2>3, <2>4 DEF SideStays, SideOk, Form, Heard
<1>3. CASE e = [h EXCEPT !.form.checking = ""]
  <2>1. Form(h, e, h.form.value, h.form.checked, "", h.form.submitting)
    BY <1>0, <1>3, CheckingChanges
  <2> QED
    BY <1>0, <1>2, <2>1 DEF SideShape, FormTold
<1>4. CASE e = [[h EXCEPT !.form.checked[c.field] = v] EXCEPT !.form.checking = ""]
  <2>1. PICK g : g = [h EXCEPT !.form.checked[c.field] = v]
    OBVIOUS
  <2>2. PICK k : k = [h.form.checked EXCEPT ![c.field] = v]
    OBVIOUS
  <2>3. Form(h, g, h.form.value, k, h.form.checking, h.form.submitting)
    BY <1>0, <2>1, <2>2, CheckedChanges
  <2>4. DOMAIN k = Fields
    BY <1>0, <2>2 DEF SideShape
  <2>5. SideShape(g)
    BY <1>0, <2>3, <2>4 DEF SideShape, Form
  <2>6. Form(g, e, g.form.value, g.form.checked, "", g.form.submitting)
    BY <1>4, <2>1, <2>5, CheckingChanges
  <2>7. Form(h, e, h.form.value, k, "", h.form.submitting)
    BY <2>3, <2>6 DEF Form
  <2>8. \A f \in Fields : k[f] # "" => <<f, k[f]>> \in h.told
    BY <1>0, <2>2 DEF FormTold, SideShape, Heard
  <2> QED
    BY <1>2, <2>4, <2>7, <2>8
<1> QED
  BY <1>1, <1>3, <1>4, Zenon DEF CheckSays

LEMMA CheckKeepsAccount ==
  ASSUME AccountInv, NEW c, NEW how, CheckAnswer(c, how)
  PROVE  AccountInv'
<1> DEFINE free == how = "ok" /\ ~Taken(c.field, c.value)
           told == IF free THEN side.told \cup {<<c.field, c.value>>} ELSE side.told
<1>1. PICK k : k = told
  OBVIOUS
<1>2. PICK h : h = [Over(c) EXCEPT !.told = k]
  OBVIOUS
<1>3. side.told \subseteq k /\ (free => <<c.field, c.value>> \in k)
  BY <1>1
<1>4. h = [Over(c) EXCEPT !.told = IF free THEN @ \cup {<<c.field, c.value>>} ELSE @]
  <2>1. Over(c).told = side.told
    <3>1. Calls(side, Over(c), side.calls \ {c})
      BY SideCalls DEF Over, AccountInv, SideOk
    <3> QED
      BY <3>1 DEF Calls
  <2>2. "told" \in DOMAIN Over(c)
    <3>1. Calls(side, Over(c), side.calls \ {c})
      BY SideCalls DEF Over, AccountInv, SideOk
    <3> QED
      BY <3>1 DEF Calls, SideFields, NewSide
  <2> QED
    BY <1>1, <1>2, <2>1, <2>2
<1>5. c \in side.calls /\ c.kind = "check" /\ UNCHANGED <<session, shelf>>
  BY DEF CheckAnswer
<1>6. \/ ~c.here /\ side' = h
      \/ side' = [h EXCEPT !.form.checking = ""]
      \/ free /\ side' = [[h EXCEPT !.form.checked[c.field] = c.value] EXCEPT !.form.checking = ""]
      \/ side' = [[h EXCEPT !.form.checked[c.field] = ""] EXCEPT !.form.checking = ""]
  BY <1>4, Zenon DEF CheckAnswer, FoundFree
<1>7. SideOk(side, session.token)
  BY DEF AccountInv
<1>8. Heard(side, c, k, session.token, h)
  BY <1>2, <1>3, <1>5, <1>7, CheckHeard
<1>9. PICK v : /\ v = "" \/ <<c.field, v>> \in k
               /\ \/ ~c.here /\ side' = h
                  \/ side' = [h EXCEPT !.form.checking = ""]
                  \/ side' = [[h EXCEPT !.form.checked[c.field] = v] EXCEPT !.form.checking = ""]
  <2> HIDE DEF free
  <2> QED
    BY <1>3, <1>6, Zenon
<1>10. PICK e : e = side'
  OBVIOUS
<1>11. CheckSays(c, h, v, e)
  BY <1>9, <1>10, Zenon DEF CheckSays
<1>12. SideStays(side, e, session.token)
  <2>1. v = "" \/ <<c.field, v>> \in k
    BY <1>9
  <2> QED
    BY <1>3, <1>5, <1>7, <1>8, <1>11, <2>1, CheckFreed
<1> QED
  BY <1>5, <1>10, <1>12, StaysInAccount

(* The answers to the form: it can be sent again, or closes and another    *)
(* session begins.                                                         *)
LEMMA UnsentKeeps ==
  ASSUME NEW t, SideOk(side, t), NEW c \in side.calls, c.kind \in Forms \ {"check"}
  PROVE  SideStays(side, Unsent(c), t)
<1>0. SideShape(side) /\ FormWaits(side)
  BY DEF SideOk
<1>1. PICK o : o = Over(c)
  OBVIOUS
<1>2. PICK u : u = Unsent(c)
  OBVIOUS
<1>3. /\ Calls(side, o, side.calls \ {c}) /\ SideShape(o) /\ FormTold(o)
      /\ UsageOk(o, t) /\ ListsWait(o) /\ c.field = ""
  BY <1>1, OverKeeps DEF Forms, ListKinds, CallOk
<1>4. CASE c.here
  <2>1. u = [o EXCEPT !.form.submitting = FALSE]
    BY <1>1, <1>2, <1>4, Zenon DEF Unsent
  <2>2. Form(o, u, o.form.value, o.form.checked, o.form.checking, FALSE)
    BY <1>3, <2>1, SubmittingChanges
  <2>3. FormWaits(u)
    BY <1>0, <1>3, <2>2 DEF FormWaits, Form, Calls
  <2>4. SideShape(u) /\ FormTold(u)
    BY <1>3, <2>2 DEF SideShape, FormTold, Form
  <2>5. UsageOk(u, t) /\ ListsWait(u)
    BY <1>3, <2>2 DEF UsageOk, ListsWait, Form
  <2> QED
    BY <1>2, <1>3, <2>2, <2>3, <2>4, <2>5 DEF SideStays, SideOk, Form, Calls
<1>5. CASE ~c.here
  <2>1. u = o
    BY <1>1, <1>2, <1>5, Zenon DEF Unsent
  <2>2. FormWaits(o)
    BY <1>0, <1>3, <1>5 DEF FormWaits, Calls
  <2> QED
    BY <1>2, <1>3, <2>1, <2>2 DEF SideStays, SideOk, Calls
<1> QED
  BY <1>4, <1>5

LEMMA ClosedKeeps ==
  ASSUME NEW t, SideOk(side, t), NEW c \in side.calls, c.kind \in Forms
  PROVE  SideStays(side, FormGone(Over(c)), t)
<1>1. PICK o : o = Over(c)
  OBVIOUS
<1>2. /\ Calls(side, o, side.calls \ {c}) /\ SideShape(o) /\ FormTold(o)
      /\ UsageOk(o, t) /\ ListsWait(o)
  BY <1>1, OverKeeps DEF Forms, ListKinds
<1>3. SideOk(FormGone(o), t) /\ FormGone(o).saved = o.saved /\ FormGone(o).shown = o.shown
      /\ FormGone(o).loose = o.loose
  BY <1>2, FormGoneKeeps
<1> QED
  BY <1>1, <1>2, <1>3 DEF SideStays, Calls

LEMMA LogsIn ==
  ASSUME NEW t \in Nat, NEW u \in Nat, NEW w \in Seq(Typed), t <= Len(w), u <= Len(w)
  PROVE  SessionOk([token |-> t, stored |-> u, owners |-> w, mode |-> ""])
BY DEF SessionOk, PanelModes

LEMMA LogsOut ==
  ASSUME NEW s, SessionOk(s), NEW r, r = [s EXCEPT !.token = 0, !.stored = 0]
  PROVE  SessionOk(r) /\ r.token = 0
<1>1. s.owners \in Seq(Typed) /\ s.mode \in PanelModes
  BY DEF SessionOk
<1>2. 0 <= Len(s.owners)
  BY <1>1
<1>3. r = [token |-> 0, stored |-> 0, owners |-> s.owners, mode |-> s.mode]
  BY DEF SessionOk
<1> QED
  BY <1>1, <1>2, <1>3 DEF SessionOk

LEMMA SignsInKeeps ==
  ASSUME AccountInv, NEW c \in side.calls, c.kind \in Forms, NEW a \in Typed, SignsIn(a, c)
  PROVE  AccountInv'
<1>0. SessionOk(session) /\ SideOk(side, session.token)
  BY DEF AccountInv
<1>1. /\ session' = [token |-> Len(session.owners) + 1, stored |-> Len(session.owners) + 1,
                     owners |-> Append(session.owners, a), mode |-> ""]
      /\ side' = Entered(FormGone(Over(c)))
  BY DEF SignsIn
<1>2. SessionOk(session') /\ session'.token # session.token
  <2>1. PICK w : w = session.owners
    OBVIOUS
  <2>2. w \in Seq(Typed) /\ session.token \in Nat /\ session.token <= Len(w)
    BY <1>0, <2>1 DEF SessionOk
  <2>3. Append(w, a) \in Seq(Typed) /\ Len(Append(w, a)) = Len(w) + 1 /\ Len(w) \in Nat
    BY <2>2
  <2>4. PICK t : t = Len(w) + 1
    OBVIOUS
  <2>5. PICK v : v = Append(w, a)
    OBVIOUS
  <2>6. session' = [token |-> t, stored |-> t, owners |-> v, mode |-> ""]
    BY <1>1, <2>1, <2>4, <2>5
  <2>7. v \in Seq(Typed) /\ t \in Nat /\ t <= Len(v) /\ t # session.token
    BY <2>2, <2>3, <2>4, <2>5
  <2> HIDE <2>4, <2>5
  <2>8. SessionOk([token |-> t, stored |-> t, owners |-> v, mode |-> ""])
    BY <2>7, LogsIn
  <2>9. session'.token = t
    BY <2>6
  <2> QED
    BY <2>6, <2>7, <2>8, <2>9
<1>3. PICK s : s = FormGone(Over(c))
  OBVIOUS
<1>4. SideOk(s, session.token)
  BY <1>0, <1>3, ClosedKeeps DEF SideStays
<1> QED
  BY <1>1, <1>2, <1>3, <1>4, EntersAccount

LEMMA SignedOutOk ==
  ASSUME SessionOk(session), NEW s \in {SignedOut, Expired, [SignedOut EXCEPT !.mode = ""]}
  PROVE  SessionOk(s) /\ s.token = 0
<1>1. SessionOk(SignedOut) /\ SignedOut.token = 0
  BY LogsOut DEF SignedOut
<1>2. PICK o : o = SignedOut
  OBVIOUS
<1>3. \A m \in PanelModes : SessionOk([o EXCEPT !.mode = m]) /\ [o EXCEPT !.mode = m].token = 0
  BY <1>1, <1>2 DEF SessionOk
<1> QED
  BY <1>1, <1>2, <1>3 DEF Expired, PanelModes

(* A session ends, with its list.                                          *)
LEMMA SignsOutKeeps ==
  ASSUME AccountInv, NEW s, SideOk(s, session.token), side' = Entered(s),
         session' \in {SignedOut, Expired, [SignedOut EXCEPT !.mode = ""]}
  PROVE  AccountInv'
<1>1. SessionOk(session') /\ session'.token = 0
  BY SignedOutOk DEF AccountInv
<1>2. session.token = 0 => ListOk(s, session.token, Kept')
  BY DEF ListOk
<1> QED
  BY <1>1, <1>2, EntersAccount

LEMMA FormAnswersKeepAccount ==
  ASSUME AccountInv, NEW c,
         \/ \E how : LoginAnswer(c, how) \/ SignupAnswer(c, how) \/ WithdrawAnswer(c, how)
         \/ FindAnswer(c)
  PROVE  AccountInv'
<1>0. SideOk(side, session.token) /\ SideShape(side)
  BY DEF AccountInv, SideOk
<1>1. c \in side.calls /\ c.kind \in Forms \ {"check"} /\ UNCHANGED shelf
  BY Zenon DEF LoginAnswer, SignupAnswer, WithdrawAnswer, FindAnswer, Forms
<1>2. c.names["userId"] \in Typed
  BY <1>0, <1>1 DEF SideShape, CallOk, Fields
<1>3. \/ side' = Unsent(c) /\ UNCHANGED session
      \/ SignsIn(c.names["userId"], c)
      \/ /\ session' = [SignedOut EXCEPT !.mode = ""]
         /\ side' = Entered(FormGone(Over(c)))
  BY Zenon DEF LoginAnswer, SignupAnswer, WithdrawAnswer, FindAnswer
<1>4. CASE side' = Unsent(c) /\ UNCHANGED session
  <2>1. SideStays(side, Unsent(c), session.token)
    BY <1>0, <1>1, UnsentKeeps
  <2> QED
    BY <1>1, <1>4, <2>1, StaysInAccount
<1>5. CASE SignsIn(c.names["userId"], c)
  BY <1>1, <1>2, <1>5, SignsInKeeps
<1>6. CASE session' = [SignedOut EXCEPT !.mode = ""] /\ side' = Entered(FormGone(Over(c)))
  <2>1. PICK s : s = FormGone(Over(c))
    OBVIOUS
  <2>2. SideOk(s, session.token)
    BY <1>0, <1>1, <2>1, ClosedKeeps DEF SideStays
  <2>3. session' \in {SignedOut, Expired, [SignedOut EXCEPT !.mode = ""]}
    BY <1>6, Zenon
  <2> QED
    BY <1>6, <2>1, <2>2, <2>3, SignsOutKeeps
<1> QED
  BY <1>3, <1>4, <1>5, <1>6, Zenon

(* Two states of the account part that differ in the usage only.           *)
Usage(s, r, usage, of) ==
  /\ DOMAIN r = SideFields /\ r.usage = usage /\ r.of = of
  /\ r.form = s.form /\ r.calls = s.calls /\ r.told = s.told /\ r.saved = s.saved
  /\ r.shown = s.shown /\ r.pending = s.pending /\ r.confirm = s.confirm /\ r.loose = s.loose

LEMMA UsageChanges ==
  ASSUME NEW s, SideShape(s), NEW usage, NEW of, NEW r,
         \/ r = [s EXCEPT !.usage = usage, !.of = of]
         \/ r = [s EXCEPT !.usage = usage] /\ of = s.of
  PROVE  Usage(s, r, usage, of)
BY DEF SideShape, SideFields, NewSide, Usage

(* Two states of the account part that differ in the saved prompts only.   *)
Listed(s, r, saved, shown, pending, loose) ==
  /\ DOMAIN r = SideFields /\ r.saved = saved /\ r.shown = shown /\ r.pending = pending /\ r.loose = loose
  /\ r.form = s.form /\ r.calls = s.calls /\ r.told = s.told /\ r.usage = s.usage /\ r.of = s.of

LEMMA SavedChanges ==
  ASSUME NEW s, SideShape(s), NEW saved, NEW shown, NEW r,
         \/ r = [s EXCEPT !.saved = saved, !.shown = shown]
         \/ r = [s EXCEPT !.saved = saved] /\ shown = s.shown
  PROVE  Listed(s, r, saved, shown, s.pending, s.loose)
BY DEF SideShape, SideFields, NewSide, Listed

LEMMA PendingChanges ==
  ASSUME NEW s, SideShape(s), NEW pending, NEW r, r = [s EXCEPT !.pending = pending]
  PROVE  Listed(s, r, s.saved, s.shown, pending, s.loose)
BY DEF SideShape, SideFields, NewSide, Listed

LEMMA ConfirmChanges ==
  ASSUME NEW s, SideShape(s), NEW confirm, NEW r, r = [s EXCEPT !.confirm = confirm]
  PROVE  Listed(s, r, s.saved, s.shown, s.pending, s.loose)
BY DEF SideShape, SideFields, NewSide, Listed

LEMMA LooseChanges ==
  ASSUME NEW s, SideShape(s), NEW loose, NEW r, r = [s EXCEPT !.loose = loose]
  PROVE  Listed(s, r, s.saved, s.shown, s.pending, loose)
BY DEF SideShape, SideFields, NewSide, Listed

LEMMA ListedKeeps ==
  ASSUME NEW s, NEW r, NEW saved, NEW shown, NEW pending, NEW loose, NEW t,
         Listed(s, r, saved, shown, pending, loose)
  PROVE  /\ SideShape(s) => SideShape(r)
         /\ FormWaits(s) => FormWaits(r)
         /\ FormTold(s) => FormTold(r)
         /\ UsageOk(s, t) => UsageOk(r, t)
BY DEF Listed, SideShape, FormWaits, FormTold, UsageOk

(* A call about the list is added.                                         *)
ListSays(c, kind, p, here) ==
  CallOk(c) /\ c.kind = kind /\ c.value = p /\ c.here = here /\ c.field = ""

LEMMA ListCallSays ==
  ASSUME NEW kind, kind # "hydrate", NEW t, NEW post, NEW here \in BOOLEAN
  PROVE  ListSays(ListCall(kind, t, post, here), kind, post, here)
BY BlankNames DEF ListSays, ListCall, CallOk, Call, CallFields

ListSent(s, r, t, k) ==
  /\ SideShape(r) /\ FormWaits(r) /\ FormTold(r) /\ UsageOk(r, t) /\ CallOk(k)
  /\ Calls(s, r, s.calls \cup {k})

ListAdded(s, r, t, kind, p, here) ==
  \E k : ListSent(s, r, t, k) /\ k.kind = kind /\ k.value = p /\ k.here = here

LEMMA ListSends ==
  ASSUME NEW s, NEW t, SideShape(s), FormWaits(s), FormTold(s), UsageOk(s, t),
         NEW kind \in {"refresh", "unsave"}, NEW u, NEW p, NEW here \in BOOLEAN,
         NEW r, r = Asking(s, ListCall(kind, u, p, here))
  PROVE  ListAdded(s, r, t, kind, p, here)
<1>1. PICK c : c = ListCall(kind, u, p, here)
  OBVIOUS
<1>2. ListSays(c, kind, p, here)
  BY <1>1, ListCallSays
<1>3. r = Asking(s, c)
  BY <1>1
<1>4. PICK k : SameCall(c, k) /\ Calls(s, r, s.calls \cup {k})
  <2>1. CallOk(c)
    BY <1>2 DEF ListSays
  <2> QED
    BY <1>3, <2>1, AskingCalls
<1>5. CallOk(k) /\ k.kind = kind /\ k.value = p /\ k.here = here
  BY <1>2, <1>4 DEF SameCall, ListSays
<1>6. SideShape(r)
  BY <1>4, <1>5 DEF SideShape, Calls
<1>7. FormWaits(r)
  BY <1>4, <1>5 DEF FormWaits, Calls
<1>8. FormTold(r)
  BY <1>4, <1>5 DEF FormTold, Calls
<1>9. UsageOk(r, t)
  BY <1>4, <1>5 DEF UsageOk, Calls
<1> QED
  BY <1>4, <1>5, <1>6, <1>7, <1>8, <1>9 DEF ListSent, ListAdded

(* An answer about the list is in, and its button is free; only a reading  *)
(* still has to say what was read.                                         *)
ListHeard(s, c, t, loose, h) ==
  /\ SideShape(h) /\ FormWaits(h) /\ FormTold(h) /\ UsageOk(h, t)
  /\ h.calls = s.calls \ {c} /\ h.saved = s.saved /\ h.shown = s.shown /\ h.loose = loose
  /\ \A p \in h.pending : \E d \in h.calls : d.here /\ d.kind \in ListKinds /\ d.value = p

LEMMA OverLists ==
  ASSUME NEW t, SideOk(side, t), NEW c \in side.calls, c.kind \in ListKinds
  PROVE  /\ Calls(side, Over(c), side.calls \ {c}) /\ SideShape(Over(c)) /\ FormTold(Over(c))
         /\ CallOk(c) /\ FormWaits(Over(c)) /\ UsageOk(Over(c), t)
<1>1. c.kind \notin Forms /\ c.kind # "usage"
  BY DEF Forms, ListKinds
<1> QED
  BY <1>1, OverKeeps

LEMMA ListAnswered ==
  ASSUME NEW t, SideOk(side, t), NEW c \in side.calls, c.kind \in ListKinds,
         NEW loose, NEW h, h = [Freed(Over(c), c) EXCEPT !.loose = loose]
  PROVE  ListHeard(side, c, t, loose, h)
<1>1. PICK o : o = Over(c)
  OBVIOUS
<1>2. /\ Calls(side, o, side.calls \ {c}) /\ SideShape(o) /\ FormTold(o) /\ CallOk(c)
      /\ FormWaits(o) /\ UsageOk(o, t)
  BY <1>1, OverLists
<1>3. PICK f : f = Freed(o, c)
  OBVIOUS
<1>4. PICK pending : pending = IF c.here THEN side.pending \ {c.value} ELSE side.pending
  OBVIOUS
<1>5. Listed(o, f, side.saved, side.shown, pending, side.loose)
  <2>1. /\ o.saved = side.saved /\ o.shown = side.shown /\ o.pending = side.pending
        /\ o.loose = side.loose /\ DOMAIN o = SideFields
    BY <1>2 DEF Calls
  <2>2. CASE c.here
    <3>1. f = [o EXCEPT !.pending = pending]
      BY <1>3, <1>4, <2>1, <2>2 DEF Freed
    <3>2. Listed(o, f, o.saved, o.shown, pending, o.loose)
      BY <1>2, <3>1, PendingChanges
    <3> QED
      BY <2>1, <3>2
  <2>3. CASE ~c.here
    <3>1. f = o /\ pending = side.pending
      BY <1>3, <1>4, <2>3, Zenon DEF Freed
    <3> QED
      BY <2>1, <3>1 DEF Listed
  <2> QED
    BY <2>2, <2>3
<1>6. SideShape(f) /\ FormWaits(f) /\ FormTold(f) /\ UsageOk(f, t)
  BY <1>2, <1>5, ListedKeeps
<1>7. Listed(f, h, f.saved, f.shown, f.pending, loose)
  BY <1>1, <1>3, <1>6, LooseChanges
<1>8. SideShape(h) /\ FormWaits(h) /\ FormTold(h) /\ UsageOk(h, t)
  BY <1>6, <1>7, ListedKeeps
<1>9. /\ h.calls = side.calls \ {c} /\ h.saved = side.saved /\ h.shown = side.shown
      /\ h.loose = loose /\ h.pending = pending
  BY <1>2, <1>5, <1>7 DEF Listed, Calls
<1>10. \A p \in pending : \E d \in side.calls \ {c} : d.here /\ d.kind \in ListKinds /\ d.value = p
  <2>1. \A p \in side.pending : \E d \in side.calls : d.here /\ d.kind \in ListKinds /\ d.value = p
    BY DEF SideOk, ListsWait
  <2> QED
    BY <1>4, <2>1
<1> QED
  BY <1>8, <1>9, <1>10 DEF ListHeard

(* What the user asks of the usage and of the list.                        *)
LEMMA RefreshKeepsAccount ==
  ASSUME AccountInv, NEW silent, RefreshUsage(silent)
  PROVE  AccountInv'
<1>0. SideOk(side, session.token) /\ SideShape(side) /\ FormWaits(side) /\ FormTold(side)
      /\ UsageOk(side, session.token) /\ ListsWait(side)
  BY DEF AccountInv, SideOk
<1>1. PICK t : t = session.token
  OBVIOUS
<1>2. PICK c : c = UsageCall(t)
  OBVIOUS
<1>3. CallOk(c) /\ c.kind = "usage" /\ c.token = t /\ c.field = ""
  BY <1>2, UsageCalls
<1>4. PICK r : r = Asking(side, c)
  OBVIOUS
<1>5. PICK k : SameCall(c, k) /\ Calls(side, r, side.calls \cup {k})
  BY <1>0, <1>3, <1>4, AskingCalls
<1>6. CallOk(k) /\ k.kind = "usage" /\ k.token = t /\ k.field = ""
  BY <1>3, <1>5 DEF SameCall
<1>7. SideShape(r)
  BY <1>0, <1>5, <1>6 DEF SideShape, Calls
<1>8. PICK usage : /\ side' = [r EXCEPT !.usage = usage] /\ usage \in {r.usage, "loading"}
                   /\ UNCHANGED <<session, shelf>>
  BY <1>1, <1>2, <1>4 DEF RefreshUsage, ReadUsage, UsageCall
<1>9. Usage(r, side', usage, r.of)
  BY <1>7, <1>8, UsageChanges
<1>10. SideShape(side') /\ FormWaits(side') /\ FormTold(side') /\ ListsWait(side')
  <2>1. FormWaits(r) /\ FormTold(r) /\ ListsWait(r)
    BY <1>0, <1>5, <1>6 DEF FormWaits, FormTold, ListsWait, Calls
  <2> QED
    BY <1>7, <1>9, <2>1 DEF SideShape, FormWaits, FormTold, ListsWait, Usage
<1>11. UsageOk(side', t)
  BY <1>0, <1>1, <1>5, <1>6, <1>8, <1>9 DEF UsageOk, Usage, Calls
<1>12. SideStays(side, side', session.token)
  BY <1>1, <1>5, <1>9, <1>10, <1>11 DEF SideStays, SideOk, Usage, Calls
<1> QED
  BY <1>8, <1>12, StaysInAccount

LEMMA UsageKeepsAccount ==
  ASSUME AccountInv, NEW c, NEW how \in {"ok", "lost", "auth"}, UsageAnswer(c, how)
  PROVE  AccountInv'
<1>0. SideOk(side, session.token) /\ UsageOk(side, session.token) /\ SessionOk(session)
      /\ ListOk(side, session.token, Kept)
  BY DEF AccountInv, SideOk
<1>1. PICK t : t = session.token
  OBVIOUS
<1>2. c \in side.calls /\ c.kind = "usage" /\ c.token = t /\ UNCHANGED shelf
  BY <1>0, <1>1 DEF UsageAnswer, UsageOk
<1>3. PICK o : o = Over(c)
  OBVIOUS
<1>4. /\ Calls(side, o, side.calls \ {c}) /\ SideShape(o) /\ FormTold(o)
      /\ FormWaits(o) /\ ListsWait(o)
  BY <1>0, <1>2, <1>3, OverKeeps DEF Forms, ListKinds
<1>5. PICK r : /\ side' = Entered(r)
               /\ \/ how = "ok" /\ r = [o EXCEPT !.usage = "ready", !.of = c.token]
                  \/ how = "auth" /\ r = [o EXCEPT !.usage = "idle", !.of = 0]
                  \/ how = "lost" /\ r = [o EXCEPT !.usage = "error"]
  BY <1>3, Zenon DEF UsageAnswer
<1>6. \/ Usage(o, r, "ready", t)
      \/ Usage(o, r, "idle", 0)
      \/ Usage(o, r, "error", o.of)
  BY <1>2, <1>4, <1>5, UsageChanges
<1>7. SideShape(r) /\ FormWaits(r) /\ FormTold(r) /\ ListsWait(r)
  BY <1>4, <1>6 DEF SideShape, FormWaits, FormTold, ListsWait, Usage
<1>8. UsageOk(r, t)
  BY <1>0, <1>1, <1>4, <1>6 DEF UsageOk, Usage, Calls
<1>9. SideOk(r, session.token)
  BY <1>1, <1>7, <1>8 DEF SideOk
<1>10. r.saved = side.saved /\ r.shown = side.shown /\ r.loose = side.loose
  BY <1>4, <1>6 DEF Usage, Calls
<1>11. session' = Expired \/ session' = session
  BY Zenon DEF UsageAnswer
<1>12. CASE session' = Expired
  BY <1>5, <1>9, <1>12, SignsOutKeeps
<1>13. CASE session' = session
  <2>1. ListOk(r, session.token, Kept)
    BY <1>0, <1>10, SameList
  <2> QED
    BY <1>0, <1>2, <1>5, <1>9, <1>13, <2>1, EntersAccount DEF Kept
<1> QED
  BY <1>11, <1>12, <1>13

LEMMA ListStepsKeepAccount ==
  ASSUME AccountInv,
         \/ RetrySaved
         \/ \E p : Unsave(p) \/ AskDelete(p)
         \/ \E sure \in BOOLEAN : CloseConfirm(sure)
  PROVE  AccountInv'
<1>0. SideOk(side, session.token) /\ SideShape(side) /\ FormWaits(side) /\ FormTold(side)
      /\ UsageOk(side, session.token) /\ ListsWait(side)
  BY DEF AccountInv, SideOk
<1>1. PICK t : t = session.token
  OBVIOUS
<1>2. CASE RetrySaved
  <2>1. PICK r : r = Asking(side, ListCall("refresh", t, "", FALSE))
    OBVIOUS
  <2>2. side' = [r EXCEPT !.saved = "loading"] /\ UNCHANGED <<session, shelf>>
    BY <1>1, <1>2, <2>1 DEF RetrySaved, ReadSaved, ListCall
  <2>3. PICK k : ListSent(side, r, t, k) /\ k.kind = "refresh"
    <3>1. ListAdded(side, r, t, "refresh", "", FALSE)
      BY <1>0, <1>1, <2>1, ListSends
    <3> QED
      BY <3>1 DEF ListAdded
  <2>4. Listed(r, side', "loading", r.shown, r.pending, r.loose)
    BY <2>2, <2>3, SavedChanges DEF ListSent
  <2>5. SideShape(side') /\ FormWaits(side') /\ FormTold(side') /\ UsageOk(side', t)
    BY <2>3, <2>4, ListedKeeps DEF ListSent
  <2>6. ListsWait(side')
    BY <1>0, <2>3, <2>4 DEF ListsWait, Listed, ListSent, Calls
  <2>7. side'.saved = "loading"
    BY <2>4 DEF Listed
  <2> QED
    BY <1>1, <2>2, <2>5, <2>6, <2>7 DEF AccountInv, SideOk, ListOk
<1>3. ASSUME NEW p, Unsave(p) PROVE AccountInv'
  <2>1. PICK r : r = Asking(side, ListCall("unsave", t, p, TRUE))
    OBVIOUS
  <2>2. PICK k : ListSent(side, r, t, k) /\ k.kind = "unsave" /\ k.value = p /\ k.here
    <3>1. ListAdded(side, r, t, "unsave", p, TRUE)
      BY <1>0, <1>1, <2>1, ListSends
    <3> QED
      BY <3>1 DEF ListAdded
  <2>3. PICK pending : pending = r.pending \cup {p}
    OBVIOUS
  <2>4. side' = [r EXCEPT !.pending = pending] /\ UNCHANGED <<session, shelf>>
    BY <1>1, <1>3, <2>1, <2>3 DEF Unsave, Unsaving, ListCall
  <2>5. Listed(r, side', r.saved, r.shown, pending, r.loose)
    BY <2>2, <2>4, PendingChanges DEF ListSent
  <2>6. SideShape(side') /\ FormWaits(side') /\ FormTold(side') /\ UsageOk(side', t)
    BY <2>2, <2>5, ListedKeeps DEF ListSent
  <2>7. ListsWait(side')
    BY <1>0, <2>2, <2>3, <2>5 DEF ListsWait, Listed, ListSent, Calls, ListKinds
  <2>8. SideStays(side, side', session.token)
    BY <1>1, <2>2, <2>5, <2>6, <2>7 DEF SideStays, SideOk, Listed, ListSent, Calls
  <2> QED
    BY <2>4, <2>8, StaysInAccount
<1>4. ASSUME NEW confirm, NEW e, e = [side EXCEPT !.confirm = confirm]
      PROVE  /\ SideStays(side, e, session.token) /\ SideShape(e) /\ FormWaits(e) /\ FormTold(e)
             /\ UsageOk(e, t) /\ ListsWait(e)
  <2>1. Listed(side, e, side.saved, side.shown, side.pending, side.loose)
    BY <1>0, <1>4, ConfirmChanges
  <2>2. SideShape(e) /\ FormWaits(e) /\ FormTold(e) /\ UsageOk(e, t)
    BY <1>0, <1>1, <2>1, ListedKeeps
  <2>3. ListsWait(e)
    BY <1>0, <2>1 DEF ListsWait, Listed
  <2> QED
    BY <1>1, <2>1, <2>2, <2>3 DEF SideStays, SideOk, Listed
<1>5. ASSUME NEW p, AskDelete(p) PROVE AccountInv'
  <2>1. PICK e : e = [side EXCEPT !.confirm = [post |-> p, token |-> session.token]]
    OBVIOUS
  <2>2. side' = e /\ UNCHANGED <<session, shelf>>
    BY <1>5, <2>1 DEF AskDelete
  <2> QED
    BY <1>4, <2>1, <2>2, StaysInAccount
<1>6. ASSUME NEW sure \in BOOLEAN, CloseConfirm(sure) PROVE AccountInv'
  <2>1. PICK e : e = [side EXCEPT !.confirm = NoConfirm]
    OBVIOUS
  <2>2. /\ SideStays(side, e, session.token) /\ SideShape(e) /\ FormWaits(e) /\ FormTold(e)
        /\ UsageOk(e, t) /\ ListsWait(e)
    BY <1>4, <2>1
  <2>3. PICK r : r = Asking(e, ListCall("unsave", side.confirm.token, side.confirm.post, FALSE))
    OBVIOUS
  <2>4. (side' = e \/ side' = r) /\ UNCHANGED <<session, shelf>>
    BY <1>6, <2>1, <2>3 DEF CloseConfirm, Unsaving, ListCall
  <2>5. PICK k : ListSent(e, r, t, k) /\ k.kind = "unsave"
    <3>1. ListAdded(e, r, t, "unsave", side.confirm.post, FALSE)
      BY <2>2, <2>3, ListSends
    <3> QED
      BY <3>1 DEF ListAdded
  <2>6. ListsWait(r)
    BY <2>2, <2>5 DEF ListsWait, ListSent, Calls
  <2>7. SideStays(side, r, session.token)
    BY <1>1, <2>2, <2>5, <2>6 DEF SideStays, SideOk, ListSent, Calls
  <2> QED
    BY <2>2, <2>4, <2>7, StaysInAccount
<1> QED
  BY <1>2, <1>3, <1>5, <1>6

(* The answers about the list.                                             *)
LEMMA ListStays ==
  ASSUME NEW s, NEW c, NEW t, NEW loose, NEW h, ListHeard(s, c, t, loose, h), ListsWait(h)
  PROVE  SideOk(h, t)
BY DEF ListHeard, SideOk

SavedIs(e, t, saved, shown, loose) ==
  SideOk(e, t) /\ e.saved = saved /\ e.shown = shown /\ e.loose = loose

LEMMA SavedHeard ==
  ASSUME NEW s, NEW c, NEW t, NEW loose, NEW h, ListHeard(s, c, t, loose, h),
         NEW saved, saved # "loading", NEW shown, NEW e,
         \/ e = [h EXCEPT !.saved = saved, !.shown = shown]
         \/ e = [h EXCEPT !.saved = saved] /\ shown = h.shown
  PROVE  SavedIs(e, t, saved, shown, loose)
<1>1. Listed(h, e, saved, shown, h.pending, h.loose)
  BY SavedChanges DEF ListHeard
<1>2. SideShape(e) /\ FormWaits(e) /\ FormTold(e) /\ UsageOk(e, t)
  BY <1>1, ListedKeeps DEF ListHeard
<1>3. ListsWait(e)
  BY <1>1 DEF ListsWait, Listed, ListHeard
<1> QED
  BY <1>1, <1>2, <1>3 DEF SavedIs, SideOk, Listed, ListHeard

LEMMA SavedKeepsAccount ==
  ASSUME AccountInv, NEW c, NEW how \in {"ok", "lost", "auth"}, SavedAnswer(c, how)
  PROVE  AccountInv'
<1>0. SideOk(side, session.token) /\ SessionOk(session)
  BY DEF AccountInv
<1>1. c \in side.calls /\ c.kind \in ListKinds /\ UNCHANGED shelf
  BY DEF SavedAnswer, ListKinds
<1>2. PICK f : f = Freed(Over(c), c)
  OBVIOUS
<1>3. PICK loose : loose = (f.loose \/ Crosses(c))
  OBVIOUS
<1>4. PICK h : h = [f EXCEPT !.loose = loose]
  OBVIOUS
<1>5. h = [Freed(Over(c), c) EXCEPT !.loose = @ \/ Crosses(c)]
  BY <1>2, <1>3, <1>4
<1>6. ListHeard(side, c, session.token, loose, h)
  BY <1>0, <1>1, <1>2, <1>4, ListAnswered
<1>7. PICK shown : shown = shelf[session.owners[c.token]]
  OBVIOUS
<1>8. \/ side' = [h EXCEPT !.saved = "server", !.shown = shown] /\ UNCHANGED session
      \/ side' = [h EXCEPT !.saved = "error"] /\ UNCHANGED session
      \/ session' = Expired /\ side' = Entered([h EXCEPT !.saved = "error"])
  BY <1>5, <1>7, Zenon DEF SavedAnswer
<1>9. PICK e : e = [h EXCEPT !.saved = "error"]
  OBVIOUS
<1>10. SideOk(e, session.token) /\ e.saved = "error"
  <2>1. SavedIs(e, session.token, "error", h.shown, loose)
    BY <1>6, <1>9, SavedHeard
  <2> QED
    BY <2>1 DEF SavedIs
<1>11. CASE side' = [h EXCEPT !.saved = "server", !.shown = shown] /\ UNCHANGED session
  <2>1. PICK g : g = [h EXCEPT !.saved = "server", !.shown = shown]
    OBVIOUS
  <2>2. SideOk(g, session.token) /\ g.shown = shown /\ g.loose = loose
    <3>1. SavedIs(g, session.token, "server", shown, loose)
      BY <1>6, <2>1, SavedHeard
    <3> QED
      BY <3>1 DEF SavedIs
  <2>3. ~loose => c.token = session.token
    BY <1>3 DEF Crosses
  <2>4. ListOk(g, session.token, Kept)
    BY <1>7, <2>2, <2>3 DEF ListOk, Kept
  <2> QED
    BY <1>0, <1>1, <1>11, <2>1, <2>2, <2>4 DEF AccountInv, Kept
<1>12. CASE side' = [h EXCEPT !.saved = "error"] /\ UNCHANGED session
  <2>1. ListOk(e, session.token, Kept)
    BY <1>10 DEF ListOk
  <2> QED
    BY <1>0, <1>1, <1>9, <1>10, <1>12, <2>1 DEF AccountInv, Kept
<1>13. CASE session' = Expired /\ side' = Entered([h EXCEPT !.saved = "error"])
  BY <1>9, <1>10, <1>13, SignsOutKeeps
<1> QED
  BY <1>8, <1>11, <1>12, <1>13, Zenon

LEMMA UnsaveKeepsAccount ==
  ASSUME AccountInv, NEW c, NEW how \in {"ok", "lost", "auth"}, UnsaveAnswer(c, how)
  PROVE  AccountInv'
<1>0. SideOk(side, session.token) /\ SessionOk(session) /\ ListsWait(side)
      /\ ListOk(side, session.token, Kept)
  BY DEF AccountInv, SideOk
<1>1. c \in side.calls /\ c.kind = "unsave" /\ c.kind \in ListKinds
  BY DEF UnsaveAnswer, ListKinds
<1>2. PICK t : t = session.token
  OBVIOUS
<1>3. CASE how = "ok"
  <2>1. PICK o : o = Over(c)
    OBVIOUS
  <2>2. PICK loose : loose = (o.loose \/ Crosses(c))
    OBVIOUS
  <2>3. PICK s : s = [o EXCEPT !.loose = loose]
    OBVIOUS
  <2>4. PICK r : r = Asking(s, ListCall("refresh", c.token, c.value, c.here))
    OBVIOUS
  <2>5. side' = [r EXCEPT !.saved = "loading"] /\ UNCHANGED session
    <3>1. s = [Over(c) EXCEPT !.loose = @ \/ Crosses(c)]
      BY <2>1, <2>2, <2>3
    <3>2. side' = ReadAgain(s, c) /\ UNCHANGED session
      BY <1>3, <3>1, Zenon DEF UnsaveAnswer
    <3> QED
      BY <2>4, <3>2, Zenon DEF ReadAgain, ReadSaved, ListCall
  <2>6. /\ Calls(side, o, side.calls \ {c}) /\ SideShape(o) /\ FormTold(o) /\ CallOk(c)
        /\ FormWaits(o) /\ UsageOk(o, t)
    BY <1>0, <1>1, <1>2, <2>1, OverLists
  <2>7. Listed(o, s, o.saved, o.shown, o.pending, loose)
    BY <2>3, <2>6, LooseChanges
  <2>8. SideShape(s) /\ FormWaits(s) /\ FormTold(s) /\ UsageOk(s, t)
    BY <2>6, <2>7, ListedKeeps
  <2>9. PICK k : ListSent(s, r, t, k) /\ k.kind = "refresh" /\ k.value = c.value /\ k.here = c.here
    <3>1. c.here \in BOOLEAN
      BY <2>6 DEF CallOk
    <3>2. ListAdded(s, r, t, "refresh", c.value, c.here)
      BY <2>4, <2>8, <3>1, ListSends
    <3> QED
      BY <3>2 DEF ListAdded
  <2>10. Listed(r, side', "loading", r.shown, r.pending, r.loose)
    BY <2>5, <2>9, SavedChanges DEF ListSent
  <2>11. SideShape(side') /\ FormWaits(side') /\ FormTold(side') /\ UsageOk(side', t)
    BY <2>9, <2>10, ListedKeeps DEF ListSent
  <2>12. side'.calls = (side.calls \ {c}) \cup {k} /\ side'.pending = side.pending
    BY <2>6, <2>7, <2>9, <2>10 DEF Listed, ListSent, Calls
  <2>13. ListsWait(side')
    BY <1>0, <1>1, <2>9, <2>10, <2>12 DEF ListsWait, ListKinds
  <2>14. side'.saved = "loading"
    BY <2>10 DEF Listed
  <2> QED
    BY <1>0, <1>2, <2>5, <2>11, <2>13, <2>14 DEF AccountInv, SideOk, ListOk
<1>4. ASSUME NEW loose, NEW h, h = [Freed(Over(c), c) EXCEPT !.loose = loose]
      PROVE  SideOk(h, t) /\ h.saved = side.saved /\ h.shown = side.shown /\ h.loose = loose
  <2>1. ListHeard(side, c, t, loose, h)
    BY <1>0, <1>1, <1>2, <1>4, ListAnswered
  <2>2. ListsWait(h)
    BY <1>0, <1>1, <2>1 DEF ListsWait, ListHeard
  <2> QED
    BY <2>1, <2>2, ListStays DEF ListHeard
<1>5. PICK f : f = Freed(Over(c), c)
  OBVIOUS
<1>6. f.loose = side.loose
  <2>1. PICK o : o = Over(c)
    OBVIOUS
  <2>2. Calls(side, o, side.calls \ {c}) /\ SideShape(o)
    BY <1>0, <1>1, <2>1, OverLists
  <2>3. CASE c.here
    <3>1. f = [o EXCEPT !.pending = o.pending \ {c.value}]
      BY <1>5, <2>1, <2>3 DEF Freed
    <3>2. Listed(o, f, o.saved, o.shown, o.pending \ {c.value}, o.loose)
      BY <2>2, <3>1, PendingChanges
    <3> QED
      BY <2>2, <3>2 DEF Listed, Calls
  <2>4. CASE ~c.here
    BY <1>5, <2>1, <2>2, <2>4 DEF Freed, Calls
  <2> QED
    BY <2>3, <2>4
<1>7. CASE how = "lost"
  <2>1. PICK loose : loose = (f.loose \/ Crosses(c) \/ shelf' # shelf)
    OBVIOUS
  <2>2. PICK h : h = [f EXCEPT !.loose = loose]
    OBVIOUS
  <2>3. side' = h /\ UNCHANGED session
    <3>1. h = [Freed(Over(c), c) EXCEPT !.loose = @ \/ Crosses(c) \/ shelf' # shelf]
      BY <1>5, <2>1, <2>2
    <3>2. /\ side' = [Freed(Over(c), c) EXCEPT !.loose = @ \/ Crosses(c) \/ shelf' # shelf]
          /\ UNCHANGED session
      BY <1>7 DEF UnsaveAnswer
    <3> QED
      BY <3>1, <3>2
  <2>4. SideOk(h, t) /\ h.saved = side.saved /\ h.shown = side.shown /\ h.loose = loose
    BY <1>4, <1>5, <2>2
  <2>5. CASE shelf' = shelf
    <3>1. side.loose => loose
      BY <1>6, <2>1
    <3>2. ListOk(h, session.token, Kept)
      BY <1>0, <2>4, <3>1, SameList
    <3> QED
      BY <1>0, <1>2, <2>3, <2>4, <2>5, <3>2 DEF AccountInv, Kept
  <2>6. CASE shelf' # shelf
    BY <1>0, <1>2, <2>1, <2>3, <2>4, <2>6 DEF AccountInv, ListOk
  <2> QED
    BY <2>5, <2>6
<1>8. CASE how = "auth"
  <2>1. PICK loose : loose = (f.loose \/ Crosses(c))
    OBVIOUS
  <2>2. PICK h : h = [f EXCEPT !.loose = loose]
    OBVIOUS
  <2>3. side' = Entered(h) /\ session' = Expired
    <3>1. h = [Freed(Over(c), c) EXCEPT !.loose = @ \/ Crosses(c)]
      BY <1>5, <2>1, <2>2
    <3> QED
      BY <1>8, <3>1, Zenon DEF UnsaveAnswer, Refused
  <2>4. SideOk(h, session.token)
    BY <1>2, <1>4, <1>5, <2>2
  <2> QED
    BY <2>3, <2>4, SignsOutKeeps
<1> QED
  BY <1>3, <1>7, <1>8

(* The conversation when somebody signs in or out elsewhere on the panel.  *)
LEMMA FollowsKeepsChat ==
  ASSUME ChatInv, ChatFollows
  PROVE  ChatInv'
<1>1. CASE UNCHANGED <<waits, jobs, made>>
  BY <1>1 DEF ChatInv
<1>2. CASE UNCHANGED <<waits, made>> /\ jobs' = Running(jobs)
  BY <1>2, JobsRun DEF ChatInv
<1>3. ASSUME NEW t, UNCHANGED <<waits, made>>, jobs' = Running(jobs) \cup {Hydrating(t)} PROVE ChatInv'
  BY <1>3, JobsRun, JobAdded DEF ChatInv
<1>4. \/ UNCHANGED <<waits, jobs, made>>
      \/ UNCHANGED <<waits, made>> /\ jobs' = Running(jobs) \cup {}
      \/ UNCHANGED <<waits, made>> /\ jobs' = Running(jobs) \cup {Hydrating(session'.token)}
  BY Zenon DEF ChatFollows
<1> QED
  BY <1>1, <1>2, <1>3, <1>4

(* What the conversation may do to the account part.                       *)
LEMMA SessionMoves ==
  ASSUME AccountInv, side' = Entered(side), UNCHANGED shelf,
         \/ SessionLeft
         \/ session' = [session EXCEPT !.token = session.stored]
  PROVE  AccountInv'
<1>0. SideOk(side, session.token) /\ SessionOk(session) /\ ListOk(side, session.token, Kept)
  BY DEF AccountInv
<1>1. CASE session' \in {SignedOut, Expired}
  <2>1. session' \in {SignedOut, Expired, [SignedOut EXCEPT !.mode = ""]}
    BY <1>1, Zenon
  <2> QED
    BY <1>0, <2>1, SignsOutKeeps
<1>2. CASE session' = session \/ session' = [session EXCEPT !.mode = "login"]
           \/ session' = [session EXCEPT !.token = session.stored]
  <2>1. SessionOk(session') /\ session'.owners = session.owners
    BY <1>0, <1>2 DEF SessionOk, PanelModes
  <2>2. session'.token = session.token => ListOk(side, session.token, Kept')
    BY <1>0, <2>1 DEF Kept
  <2> QED
    BY <1>0, <2>1, <2>2, EntersAccount
<1> QED
  BY <1>1, <1>2, Zenon DEF SessionLeft

LEMMA ChatStepKeeps ==
  ASSUME AccountInv, ChatInv, UserInChat \/ Answers
  PROVE  AccountInv' /\ ChatInv'
<1>1. side' = Entered(side) /\ UNCHANGED shelf
  BY Zenon DEF UserInChat, Answers, InPanel, AccountFollows
<1>2. CASE UserInChat
  <2>1. session' = session \/ session' = SignedOut
    BY <1>2, Zenon DEF UserInChat, Submit, StartEdit, SubmitEdited, Retry, RefreshConflict, ContinueInNewChat,
       Cancel, OpenPrompt, OpenRecent, DeleteRecent, NewChat, LogOut
  <2>2. SessionLeft
    BY <2>1, Zenon DEF SessionLeft
  <2> QED
    BY <1>1, <1>2, <2>2, UserKeepsChat, SessionMoves
<1>3. CASE Answers
  <2>1. CASE LoadUuid
    <3>1. UNCHANGED <<session, waits, jobs, made>>
      BY <2>1 DEF LoadUuid
    <3>2. SessionLeft
      BY <3>1, Zenon DEF SessionLeft
    <3> QED
      BY <1>1, <3>1, <3>2, SessionMoves DEF ChatInv
  <2>2. CASE RestoreSession
    <3>1. session' = [session EXCEPT !.token = session.stored]
      BY <2>2 DEF RestoreSession
    <3> QED
      BY <1>1, <2>2, <3>1, ReadingsKeepChat, SessionMoves
  <2>3. ASSUME NEW j \in jobs, UuidKnown(j) PROVE AccountInv' /\ ChatInv'
    <3>1. SessionLeft
      BY <2>3, Zenon DEF UuidKnown, SessionLeft
    <3> QED
      BY <1>1, <2>3, <3>1, ReadingsKeepChat, SessionMoves
  <2>4. ASSUME NEW j \in jobs, NEW how \in {"ok", "lost", "auth"}, HydrateAnswer(j, how)
        PROVE  AccountInv' /\ ChatInv'
    <3>1. session' = session \/ session' = Expired
      BY <2>4, Zenon DEF HydrateAnswer, SignsOut
    <3>2. SessionLeft
      BY <3>1, Zenon DEF SessionLeft
    <3> QED
      BY <1>1, <2>4, <3>2, ReadingsKeepChat, SessionMoves
  <2>5. ASSUME NEW j \in jobs,
               \/ Dropped(j)
               \/ \E how \in {"ok", "lost", "limit", "auth", "conflict"} : ImproveAnswer(j, how)
               \/ \E how \in {"ok", "lost", "auth"} :
                    ThreadAnswer(j, how) \/ ListAnswer(j, how) \/ DeleteAnswer(j, how)
        PROVE  AccountInv' /\ ChatInv'
    BY <1>1, <2>5, AnswersGo, SessionMoves
  <2> QED
    BY <1>3, <2>1, <2>2, <2>3, <2>4, <2>5 DEF Answers
<1> QED
  BY <1>2, <1>3

LEMMA AccountStepKeeps ==
  ASSUME AccountInv, ChatInv, UserInAccount \/ AccountAnswers
  PROVE  AccountInv' /\ ChatInv'
<1>1. ChatInv'
  BY FollowsKeepsChat, Zenon DEF UserInAccount, AccountAnswers, InAccount
<1>2. CASE UserInAccount
  <2>1. \/ \E m : OpenForm(m) \/ MoveMode(m)
        \/ \E m \in Forms \ {"check"} : SubmitForm(m)
        \/ CloseForm
        \/ \E f \in Fields : CheckName(f) \/ \E v \in Names : TypeName(f, v)
        \/ \E silent : RefreshUsage(silent)
        \/ RetrySaved
        \/ \E p : Unsave(p) \/ AskDelete(p)
        \/ \E sure \in BOOLEAN : CloseConfirm(sure)
    BY <1>2 DEF UserInAccount, Forms
  <2> QED
    BY <1>1, <2>1, FormKeepsAccount, RefreshKeepsAccount, ListStepsKeepAccount
<1>3. CASE AccountAnswers
  <2>1. \/ \E c, how : CheckAnswer(c, how)
        \/ \E c : (\E how : LoginAnswer(c, how) \/ SignupAnswer(c, how) \/ WithdrawAnswer(c, how))
                  \/ FindAnswer(c)
        \/ \E c : \E how \in {"ok", "lost", "auth"} :
             UsageAnswer(c, how) \/ UnsaveAnswer(c, how) \/ SavedAnswer(c, how)
    BY <1>3, Zenon DEF AccountAnswers
  <2> QED
    BY <1>1, <2>1, CheckKeepsAccount, FormAnswersKeepAccount, UsageKeepsAccount, UnsaveKeepsAccount,
       SavedKeepsAccount
<1> QED
  BY <1>2, <1>3

LEMMA NewSideOk == \A t : SideOk(NewSide, t) /\ NewSide.saved = "local"
<1>1. /\ DOMAIN NewSide = SideFields /\ NewSide.form = BlankForm /\ NewSide.calls = {}
      /\ NewSide.usage = "idle" /\ NewSide.saved = "local" /\ NewSide.pending = {}
  <2> HIDE DEF BlankForm
  <2>1. DOMAIN NewSide = SideFields
    BY Zenon DEF SideFields
  <2> QED
    BY <2>1 DEF NewSide
<1>2. DOMAIN Blank = Fields /\ \A f \in Fields : Blank[f] = ""
  BY DEF Blank
<1>3. SideShape(NewSide)
  BY <1>1, <1>2, FormBlank, BlankNames DEF SideShape
<1>4. FormWaits(NewSide) /\ FormTold(NewSide)
  BY <1>1, <1>2, FormBlank DEF FormWaits, FormTold
<1>5. \A t : UsageOk(NewSide, t)
  BY <1>1 DEF UsageOk
<1>6. ListsWait(NewSide)
  BY <1>1 DEF ListsWait
<1> QED
  BY <1>1, <1>3, <1>4, <1>5, <1>6 DEF SideOk

LEMMA ReopenKeeps ==
  ASSUME AccountInv, ChatInv, Reopen, AccountReopens
  PROVE  AccountInv' /\ ChatInv'
<1>1. /\ waits' = NotWaiting /\ jobs' = {} /\ UNCHANGED made /\ side' = NewSide
      /\ session' = [session EXCEPT !.token = 0, !.mode = ""]
  BY DEF Reopen, AccountReopens
<1>2. ChatInv'
  BY <1>1 DEF ChatInv, JobsOk, RequestWaits, NotWaiting
<1>3. SessionOk(session')
  <2>1. session.owners \in Seq(Typed) /\ 0 <= Len(session.owners)
    BY DEF AccountInv, SessionOk
  <2> QED
    BY <1>1, <2>1 DEF AccountInv, SessionOk, PanelModes
<1>4. SideOk(side', session'.token) /\ ListOk(side', session'.token, Kept')
  BY <1>1, NewSideOk DEF ListOk
<1> QED
  BY <1>2, <1>3, <1>4 DEF AccountInv

LEMMA PanelBegins ==
  ASSUME Init
  PROVE  AccountInv /\ ChatInv
<1>1. waits = NotWaiting /\ jobs = {} /\ made = 0 /\ side = NewSide
  BY DEF Init, PanelInit, AccountInit
<1>2. ChatInv
  BY <1>1 DEF ChatInv, JobsOk, RequestWaits, NotWaiting
<1>3. SessionOk(session)
  <2>1. CASE session = [token |-> 0, stored |-> 0, owners |-> <<>>, mode |-> ""]
    <3>1. <<>> \in Seq(Typed) /\ 0 <= Len(<<>>)
      OBVIOUS
    <3>2. SessionOk([token |-> 0, stored |-> 0, owners |-> <<>>, mode |-> ""])
      BY <3>1, LogsIn
    <3> QED
      BY <2>1, <3>2
  <2>2. ASSUME NEW a \in Accounts,
               session = [token |-> 0, stored |-> 1, owners |-> <<a>>, mode |-> ""]
        PROVE  SessionOk(session)
    <3>1. a \in Typed
      BY AccountAssumption DEF Typed
    <3>2. <<a>> \in Seq(Typed) /\ 0 <= Len(<<a>>) /\ 1 <= Len(<<a>>)
      BY <3>1
    <3>3. SessionOk([token |-> 0, stored |-> 1, owners |-> <<a>>, mode |-> ""])
      BY <3>2, LogsIn
    <3> QED
      BY <2>2, <3>3
  <2> QED
    BY <2>1, <2>2 DEF Init, PanelInit
<1>4. SideOk(side, session.token) /\ ListOk(side, session.token, Kept)
  BY <1>1, NewSideOk DEF ListOk
<1> QED
  BY <1>2, <1>3, <1>4 DEF AccountInv

LEMMA PanelStays ==
  ASSUME AccountInv, ChatInv, [Next]_vars
  PROVE  AccountInv' /\ ChatInv'
<1>1. CASE UserOnPage \/ Worker
  <2>1. UNCHANGED <<panelVars, accountVars>>
    BY <1>1, Zenon DEF UserOnPage, Worker, OnPage
  <2> QED
    BY <2>1 DEF AccountInv, ChatInv, Kept, panelVars, accountVars
<1>2. CASE Panel
  BY <1>2, ChatStepKeeps, AccountStepKeeps, ReopenKeeps DEF Panel
<1>3. CASE UNCHANGED vars
  BY <1>3 DEF vars, AccountInv, ChatInv, Kept, panelVars, accountVars
<1> QED
  BY <1>1, <1>2, <1>3 DEF Next

PanelInv == AccountInv /\ ChatInv

LEMMA PanelHolds == Spec => []PanelInv
<1>1. Init => PanelInv
  BY PanelBegins DEF PanelInv
<1>2. PanelInv /\ [Next]_vars => PanelInv'
  BY PanelStays DEF PanelInv
<1> QED
  BY <1>1, <1>2, PTL DEF Spec

(* Whatever the panel says it is waiting for is under way, in any number   *)
(* of accounts, logins, prompts and saved posts: the three places that     *)
(* speak of a request, the form, the usage, the list and its buttons.      *)
THEOREM SpinnersEnd == Spec => []SpinnerHasRequest
<1>1. PanelInv => SpinnerHasRequest
  <2> SUFFICES ASSUME PanelInv PROVE SpinnerHasRequest
    OBVIOUS
  <2>1. RequestWaits(waits, jobs) /\ FormWaits(side) /\ UsageOk(side, session.token) /\ ListsWait(side)
    BY DEF PanelInv, AccountInv, ChatInv, SideOk
  <2>2. side.saved = "loading" => Among(side, {"hydrate", "refresh"}) # {}
    BY <2>1 DEF ListsWait, Among
  <2> QED
    BY <2>1, <2>2 DEF SpinnerHasRequest, RequestWaits, FormWaits, UsageOk, ListsWait
<1> QED
  BY <1>1, PanelHolds, PTL

(* What the panel says of the account was said by the server, of this      *)
(* account: the names a signup sends were found free, the usage is this    *)
(* session's, and the saved prompts are those the server keeps.            *)
THEOREM PanelSaysTrue == Spec => []PanelAgrees
<1>1. PanelInv => PanelAgrees
  BY DEF PanelInv, AccountInv, SideOk, FormTold, UsageOk, ListOk, Kept, LoggedIn, PanelAgrees
<1> QED
  BY <1>1, PanelHolds, PTL

----------------------------------------------------------------------------
(* Lists *)

(* A set of numbers has a smallest one.                                    *)
LEMMA FirstIsFirst ==
  ASSUME NEW S \in SUBSET Nat, S # {}
  PROVE  First(S) \in S /\ \A j \in S : First(S) <= j
<1> DEFINE Less == OpToRel(<, Nat)
<1>1. IsWellFoundedOn(Less, Nat)
  BY NatLessThanWellFounded, Zenon
<1>2. ASSUME NEW x \in Nat, NEW y \in Nat, x < y PROVE <<x, y>> \in Less
  BY <1>2 DEF OpToRel
<1> HIDE DEF Less
<1>3. PICK m \in S : \A t \in S : ~(<<t, m>> \in Less)
  BY <1>1, WFMin, Zenon
<1>4. ASSUME NEW t \in S PROVE m <= t
  <2>1. t \in Nat /\ m \in Nat /\ ~(<<t, m>> \in Less)
    BY <1>3
  <2>2. ~(t < m)
    BY <1>2, <2>1
  <2> QED
    BY <2>1, <2>2
<1>5. \E i \in S : \A j \in S : i <= j
  BY <1>4
<1> QED
  BY <1>5, Zenon DEF First

(* Among n positions, the one that k of those in S have reached is in S.   *)
LEMMA NthIsIn ==
  ASSUME NEW n \in Nat, NEW S \in SUBSET (1..n), NEW k \in 1..Cardinality(S)
  PROVE  Nth(S, k) \in S
<1> DEFINE Upto(i) == {j \in S : j <= i}
           A == {i \in Nat : Cardinality(Upto(i)) >= k}
<1>0. IsFiniteSet(1..n)
  BY FS_Interval
<1>1. IsFiniteSet(S) /\ \A i \in Nat : Upto(i) \subseteq S
  BY <1>0, FS_Subset
<1>2. \A i \in Nat : IsFiniteSet(Upto(i)) /\ Cardinality(Upto(i)) \in Nat
  <2> TAKE i \in Nat
  <2>1. IsFiniteSet(Upto(i))
    BY <1>1, FS_Subset
  <2> QED
    BY <2>1, FS_CardinalityType
<1>3. k \in Nat /\ k >= 1 /\ Cardinality(S) \in Nat /\ k <= Cardinality(S)
  BY <1>1, FS_CardinalityType
<1>bounds. \A j \in S : j \in Nat /\ 1 <= j /\ j <= n
  OBVIOUS
<1>4. n \in A
  <2>1. Upto(n) = S
    BY <1>bounds, Zenon
  <2> QED
    BY <1>3, <2>1
<1>5. First(A) \in A /\ \A j \in A : First(A) <= j
  BY <1>4, FirstIsFirst
<1> DEFINE i == First(A)
<1> HIDE DEF i
<1>6. i \in Nat /\ Cardinality(Upto(i)) >= k /\ \A j \in Nat : Cardinality(Upto(j)) >= k => i <= j
  BY <1>5 DEF i
<1>7. i # 0
  <2>1. \A j \in S : ~(j <= 0)
    BY <1>bounds
  <2>2. Upto(0) = {}
    BY <2>1, Zenon
  <2>3. Cardinality({}) = 0
    BY FS_EmptySet
  <2>4. 0 \in Nat /\ (i = 0 => Cardinality(Upto(0)) >= k)
    BY <1>6
  <2> HIDE DEF Upto
  <2> QED
    BY <1>3, <2>2, <2>3, <2>4
<1>8. i - 1 \in Nat /\ Cardinality(Upto(i - 1)) < k
  <2>1. i - 1 \in Nat
    BY <1>6, <1>7
  <2>2. Cardinality(Upto(i - 1)) \in Nat /\ ~(Cardinality(Upto(i - 1)) >= k)
    <3> HIDE DEF Upto
    <3>1. Cardinality(Upto(i - 1)) \in Nat
      BY <1>2, <2>1
    <3>2. Cardinality(Upto(i - 1)) >= k => i <= i - 1
      BY <1>6, <2>1
    <3> QED
      BY <1>6, <3>1, <3>2
  <2> HIDE DEF Upto
  <2> QED
    BY <1>3, <2>1, <2>2
<1>9. i \in S
  <2>1. ASSUME i \notin S PROVE Upto(i) = Upto(i - 1)
    <3>1. \A j \in S : j <= i <=> j <= i - 1
      BY <1>6, <1>bounds, <2>1
    <3> QED
      BY <3>1, Zenon
  <2>2. Cardinality(Upto(i)) # Cardinality(Upto(i - 1))
    <3> HIDE DEF Upto
    <3> QED
      BY <1>2, <1>3, <1>6, <1>8
  <2> HIDE DEF Upto
  <2> QED
    BY <2>1, <2>2
<1>10. Cardinality(Upto(i)) = Cardinality(Upto(i - 1)) + 1
  <2>1. Upto(i) = Upto(i - 1) \cup {i} /\ i \notin Upto(i - 1)
    <3>1. \A j \in S : j <= i <=> j = i \/ j <= i - 1
      BY <1>6, <1>bounds
    <3>2. ~(i <= i - 1)
      BY <1>6
    <3> QED
      BY <1>9, <3>1, <3>2, Zenon
  <2>2. IsFiniteSet(Upto(i - 1))
    BY <1>2, <1>8
  <2> HIDE DEF Upto
  <2> QED
    BY <2>1, <2>2, FS_AddElement
<1>11. Cardinality(Upto(i)) = k
  <2> HIDE DEF Upto
  <2>1. Cardinality(Upto(i - 1)) \in Nat
    BY <1>2, <1>8
  <2> QED
    BY <1>3, <1>6, <1>8, <1>10, <2>1
<1>12. \E x \in S : Cardinality({j \in S : j <= x}) = k
  BY <1>9, <1>11
<1> QED
  BY <1>12, Zenon DEF Nth

(* What is kept of a list are elements of it, and nothing is kept only of  *)
(* no positions.                                                           *)
LEMMA KeepFacts ==
  ASSUME NEW E, NEW n \in Nat, NEW s, NEW S \in SUBSET (1..n), \A i \in S : s[i] \in E
  PROVE  Keep(s, S) \in Seq(E) /\ (Keep(s, S) # <<>> => Keep(s, S)[1] \in E)
<1>1. IsFiniteSet(1..n)
  BY FS_Interval
<1>2. IsFiniteSet(S)
  BY <1>1, FS_Subset
<1>3. Cardinality(S) \in Nat
  BY <1>2, FS_CardinalityType
<1>4. \A k \in 1..Cardinality(S) : Nth(S, k) \in S
  BY NthIsIn
<1>5. Keep(s, S) = [k \in 1..Cardinality(S) |-> s[Nth(S, k)]]
  BY DEF Keep
<1>6. Keep(s, S) \in [1..Cardinality(S) -> E]
  BY <1>4, <1>5, Zenon
<1>7. Keep(s, S) \in Seq(E)
  BY <1>3, <1>6
<1> QED
  BY <1>7

(* Pairs, for leaves that would not take them apart themselves.            *)
LEMMA Pairs ==
  ASSUME NEW A, NEW B
  PROVE  /\ \A e \in A \X B : e[1] \in A /\ e[2] \in B /\ e = <<e[1], e[2]>>
         /\ \A x \in A, y \in B : <<x, y>> \in A \X B
         /\ \A x, y : <<x, y>> \in A \X B => x \in A /\ y \in B
         /\ \A x, y : <<x, y>>[1] = x /\ <<x, y>>[2] = y
<1>1. \A e \in A \X B : e[1] \in A /\ e[2] \in B /\ e = <<e[1], e[2]>>
  OBVIOUS
<1>2. \A x \in A, y \in B : <<x, y>> \in A \X B
  OBVIOUS
<1>3. \A x, y : <<x, y>> \in A \X B => x \in A /\ y \in B
  OBVIOUS
<1>4. \A x, y : <<x, y>>[1] = x /\ <<x, y>>[2] = y
  OBVIOUS
<1> QED
  BY <1>1, <1>2, <1>3, <1>4

LEMMA FirstOf ==
  ASSUME NEW E, NEW s \in Seq(E), NEW S \in SUBSET (DOMAIN s), S # {}
  PROVE  First(S) \in S /\ First(S) \in DOMAIN s /\ s[First(S)] \in E
<1>1. S \subseteq Nat
  OBVIOUS
<1>2. First(S) \in S
  BY <1>1, FirstIsFirst
<1> QED
  BY <1>2

LEMMA KeptOf ==
  ASSUME NEW E, NEW s \in Seq(E), NEW S \in SUBSET (DOMAIN s)
  PROVE  Keep(s, S) \in Seq(E) /\ (Keep(s, S) # <<>> => Keep(s, S)[1] \in E)
<1>1. Len(s) \in Nat /\ DOMAIN s = 1..Len(s) /\ \A i \in S : s[i] \in E
  OBVIOUS
<1> QED
  BY <1>1, KeepFacts

----------------------------------------------------------------------------
(* The requests of the conversation *)

Phrases == Texts \cup {NoText}
Places == {"none", "local", "server"} \X Int
Ids == Int \X BOOLEAN
Sayers == {"user", "reply", "stop", "error", "conflict", "stale", "limit"}

(* Whatever bears a request id bears the prompt sent under it, or the id   *)
(* is one of those set apart.                                              *)
Vouched(rid, text, S) == rid # 0 => <<rid, text>> \in S \/ <<rid, NoText>> \in S

Message ==
  [by : Sayers, key : Int, text : Phrases, rid : Nat, saved : BOOLEAN, target : Ids, again : BOOLEAN]
Messages(S) == {m \in Message : Vouched(m.rid, m.text, S)}
Talks(M) == [id : Places, messages : Seq(M)]
Recents(S) == [local : Seq(Talks(Messages(S))), server : Seq(Talks(Messages(S)))]
Holds(M) == [owner : Typed, live : BOOLEAN, first : Nat, messages : Seq(M)]

(* A message has one edit that is remembered.                              *)
Retries(S) == {r \in [key : Int, text : Phrases, rid : Nat, thread : Places] : Vouched(r.rid, r.text, S)}
Edits(S) == {e \in Ids \X Phrases \X Nat : Vouched(e[3], e[2], S)}
OneEach(E) == \A d, e \in E : d[1] = e[1] => d = e
Panels(S) ==
  [open : Places, messages : Seq(Messages(S)), composer : Phrases, editing : Ids, retry : Retries(S),
   met : SUBSET Places, edits : {E \in SUBSET Edits(S) : OneEach(E)}, uuid : BOOLEAN]

HandlerOk(j, S, k) ==
  /\ DOMAIN j = JobFields
  /\ j.n \in Nat /\ j.text \in Phrases /\ j.rid \in Nat /\ j.key \in Int /\ j.target \in Ids
  /\ j.base \in Seq(Messages(S)) /\ j.to \in Places /\ j.token \in 0..k /\ j.again \in BOOLEAN
  /\ Vouched(j.rid, j.text, S)

SentOk(S, n) ==
  /\ S \subseteq (0..n) \X Phrases
  /\ \A d, e \in S : d[1] = e[1] /\ <<d[1], NoText>> \notin S => d[2] = e[2]

PanelOk == panel \in Panels(sent)
RecentsOk == recents \in Recents(sent)
ThreadsOk == threads \in Seq(Holds(Messages(sent)))
HandlersOk == \A j \in jobs : HandlerOk(j, sent, Len(session.owners))
IdInv == SentOk(sent, made) /\ PanelOk /\ RecentsOk /\ ThreadsOk /\ HandlersOk

LEMMA LastIsIn ==
  ASSUME NEW n \in Nat, NEW S \in SUBSET (1..n), S # {}
  PROVE  \E i \in S : \A k \in S : k <= i
<1> DEFINE Below == {n - i : i \in S}
<1>0. \A i \in S : i \in Nat /\ n - i \in Nat
  OBVIOUS
<1>1. Below \in SUBSET Nat /\ Below # {}
  BY <1>0, Zenon
<1>2. First(Below) \in Below /\ \A x \in Below : First(Below) <= x
  BY <1>1, FirstIsFirst
<1>3. PICK i \in S : First(Below) = n - i
  BY <1>2
<1>4. ASSUME NEW k \in S PROVE k <= i
  <2>1. n - k \in Below
    OBVIOUS
  <2>2. n - i <= n - k
    BY <1>2, <1>3, <2>1
  <2> QED
    BY <2>2
<1> QED
  BY <1>4

LEMMA WithoutOf ==
  ASSUME NEW E, NEW s \in Seq(E), NEW S
  PROVE  Without(s, S) \in Seq(E)
<1>1. DOMAIN s \ S \in SUBSET (DOMAIN s)
  OBVIOUS
<1> QED
  BY <1>1, KeptOf DEF Without

LEMMA UpsertOf ==
  ASSUME NEW E, NEW s \in Seq(E)
  PROVE  /\ \A id : WithoutId(s, id) \in Seq(E)
         /\ \A e \in E : Upsert(s, e) \in Seq(E)
<1>1. \A id : WithoutId(s, id) \in Seq(E)
  BY WithoutOf DEF WithoutId
<1>2. ASSUME NEW e \in E PROVE Upsert(s, e) \in Seq(E)
  <2>1. WithoutId(s, e.id) \in Seq(E) /\ <<e>> \in Seq(E)
    BY <1>1
  <2> QED
    BY <2>1 DEF Upsert
<1> QED
  BY <1>1, <1>2

----------------------------------------------------------------------------
(* What was sent only grows                                                *)

LEMMA WiderMessages ==
  ASSUME NEW S, NEW T, S \subseteq T
  PROVE  /\ \A rid, text : Vouched(rid, text, S) => Vouched(rid, text, T)
         /\ Messages(S) \subseteq Messages(T)
         /\ \A ms \in Seq(Messages(S)) : ms \in Seq(Messages(T))
<1>1. \A rid, text : Vouched(rid, text, S) => Vouched(rid, text, T)
  BY DEF Vouched
<1>2. Messages(S) \subseteq Messages(T)
  BY <1>1 DEF Messages
<1>3. ASSUME NEW ms \in Seq(Messages(S)) PROVE ms \in Seq(Messages(T))
  BY <1>2
<1> QED
  BY <1>1, <1>2, <1>3

LEMMA WiderTalks ==
  ASSUME NEW S, NEW T, S \subseteq T
  PROVE  /\ \A x \in Seq(Talks(Messages(S))) : x \in Seq(Talks(Messages(T)))
         /\ \A x \in Seq(Holds(Messages(S))) : x \in Seq(Holds(Messages(T)))
<1>1. Talks(Messages(S)) \subseteq Talks(Messages(T)) /\ Holds(Messages(S)) \subseteq Holds(Messages(T))
  BY WiderMessages DEF Talks, Holds
<1> QED
  BY <1>1

LEMMA WiderPanels ==
  ASSUME NEW S, NEW T, S \subseteq T
  PROVE  Panels(S) \subseteq Panels(T)
<1>0. \A rid, text : Vouched(rid, text, S) => Vouched(rid, text, T)
  BY WiderMessages
<1>1. Retries(S) \subseteq Retries(T) /\ Edits(S) \subseteq Edits(T)
  BY <1>0, Zenon DEF Retries, Edits
<1>2. \A x \in SUBSET Edits(S) : x \in SUBSET Edits(T)
  BY <1>1
<1> QED
  BY <1>1, <1>2, WiderMessages DEF Panels

LEMMA HandlerStays ==
  ASSUME NEW S, NEW T, S \subseteq T, NEW k \in Nat, NEW k2 \in Nat, k <= k2, NEW j, HandlerOk(j, S, k)
  PROVE  HandlerOk(j, T, k2)
<1>1. j.token \in 0..k2
  BY DEF HandlerOk
<1> QED
  BY <1>1, WiderMessages DEF HandlerOk

(* Another step of the conversation starts from what it leaves alone.      *)
Grows == sent \subseteq sent' /\ Len(session.owners) \in Nat /\ Len(session'.owners) \in Nat
         /\ Len(session.owners) <= Len(session'.owners)

LEMMA GrowingKeeps ==
  ASSUME IdInv, Grows
  PROVE  /\ panel \in Panels(sent')
         /\ recents \in Recents(sent')
         /\ threads \in Seq(Holds(Messages(sent')))
         /\ \A j \in jobs : HandlerOk(j, sent', Len(session'.owners))
<1>1. panel \in Panels(sent')
  BY WiderPanels DEF IdInv, PanelOk, Grows
<1>2. recents \in Recents(sent')
  BY WiderTalks DEF IdInv, RecentsOk, Grows, Recents
<1>3. threads \in Seq(Holds(Messages(sent')))
  BY WiderTalks DEF IdInv, ThreadsOk, Grows
<1>4. \A j \in jobs : HandlerOk(j, sent', Len(session'.owners))
  BY HandlerStays DEF IdInv, HandlersOk, Grows
<1> QED
  BY <1>1, <1>2, <1>3, <1>4

----------------------------------------------------------------------------
(* Messages                                                                *)

LEMMA IdsAreIds == NoId \in Ids /\ \A key \in Int, saved \in BOOLEAN : <<key, saved>> \in Ids
<1>1. 0 \in Int
  OBVIOUS
<1> QED
  BY <1>1, Pairs, Zenon DEF NoId, Ids

LEMMA SaidMessage ==
  ASSUME NEW S, NEW by \in Sayers, NEW key \in Int, NEW text \in Phrases, NEW rid \in Nat,
         Vouched(rid, text, S)
  PROVE  /\ Say(by, key, text, rid) \in Messages(S)
         /\ \A target \in Ids, again \in BOOLEAN :
              [Say(by, key, text, rid) EXCEPT !.target = target, !.again = again] \in Messages(S)
<1> DEFINE m == Say(by, key, text, rid)
<1>1. NoId \in Ids
  BY IdsAreIds
<1>2. m \in Message /\ m.rid = rid /\ m.text = text
  BY <1>1 DEF Say, Message
<1> HIDE DEF m
<1>3. ASSUME NEW target \in Ids, NEW again \in BOOLEAN
      PROVE  [m EXCEPT !.target = target, !.again = again] \in Messages(S)
  BY <1>2, <1>3 DEF Message, Messages
<1>4. m \in Messages(S)
  BY <1>2 DEF Messages
<1> QED
  BY <1>3, <1>4 DEF m

LEMMA MessageFacts ==
  ASSUME NEW S, NEW m \in Messages(S)
  PROVE  /\ m.key \in Int /\ m.text \in Phrases /\ m.rid \in Nat /\ m.target \in Ids /\ m.again \in BOOLEAN
         /\ m.saved \in BOOLEAN /\ Vouched(m.rid, m.text, S) /\ Id(m) \in Ids
         /\ [m EXCEPT !.saved = TRUE] \in Messages(S)
         /\ \A key \in Int, target \in Ids : [m EXCEPT !.key = key, !.target = target] \in Messages(S)
<1>1. m \in Message /\ Vouched(m.rid, m.text, S)
  BY DEF Messages
<1>2. [m EXCEPT !.saved = TRUE] \in Messages(S)
  BY <1>1 DEF Messages, Message
<1>3. ASSUME NEW key \in Int, NEW target \in Ids
      PROVE  [m EXCEPT !.key = key, !.target = target] \in Messages(S)
  BY <1>1 DEF Messages, Message
<1>4. /\ m.key \in Int /\ m.text \in Phrases /\ m.rid \in Nat /\ m.target \in Ids /\ m.again \in BOOLEAN
      /\ m.saved \in BOOLEAN
  BY <1>1 DEF Message
<1>5. Id(m) \in Ids
  BY <1>4, IdsAreIds, Zenon DEF Id
<1> QED
  BY <1>1, <1>2, <1>3, <1>4, <1>5

LEMMA UnnumberedMessage ==
  ASSUME NEW S, NEW by \in Sayers, NEW key \in Int, NEW text \in Phrases
  PROVE  Say(by, key, text, 0) \in Messages(S)
<1>1. Vouched(0, text, S)
  BY DEF Vouched
<1> QED
  BY <1>1, SaidMessage

(* What a handler says of its request.                                     *)
LEMMA HandlerSays ==
  ASSUME NEW S, NEW k, NEW j, HandlerOk(j, S, k)
  PROVE  /\ \A by \in {"error", "conflict", "stale", "limit"} : Error(j, by) \in Messages(S)
         /\ Say("reply", j.key, j.text, 0) \in Messages(S)
         /\ Say("stop", -2 * j.n - 1, j.text, 0) \in Messages(S)
         /\ Say("user", j.key, j.text, j.rid) \in Messages(S)
<1>1. /\ j.n \in Nat /\ j.text \in Phrases /\ j.rid \in Nat /\ j.key \in Int /\ j.target \in Ids
      /\ j.again \in BOOLEAN /\ Vouched(j.rid, j.text, S)
  BY DEF HandlerOk
<1>2. -2 * j.n \in Int /\ -2 * j.n - 1 \in Int
  BY <1>1
<1>3. ASSUME NEW by \in {"error", "conflict", "stale", "limit"} PROVE Error(j, by) \in Messages(S)
  <2> DEFINE target == IF j.of = "edit" /\ by \in {"conflict", "stale"} THEN j.target ELSE NoId
  <2>1. NoId \in Ids
    BY IdsAreIds
  <2>2. target \in Ids
    BY <1>1, <2>1
  <2>3. by \in Sayers
    BY DEF Sayers
  <2>4. Error(j, by) = [Say(by, -2 * j.n, j.text, j.rid) EXCEPT !.target = target, !.again = j.again]
    BY DEF Error
  <2> HIDE DEF target
  <2> QED
    <3>1. \A t \in Ids, a \in BOOLEAN :
            [Say(by, -2 * j.n, j.text, j.rid) EXCEPT !.target = t, !.again = a] \in Messages(S)
      BY <1>1, <1>2, <2>3, SaidMessage
    <3> QED
      BY <1>1, <2>2, <2>4, <3>1, Zenon
<1>4. "reply" \in Sayers /\ "stop" \in Sayers /\ "user" \in Sayers
  BY DEF Sayers
<1> QED
  BY <1>1, <1>2, <1>3, <1>4, SaidMessage, UnnumberedMessage

----------------------------------------------------------------------------
(* The panel                                                               *)

LEMMA PanelFacts ==
  ASSUME NEW S, NEW p \in Panels(S)
  PROVE  /\ p.open \in Places /\ p.messages \in Seq(Messages(S)) /\ p.composer \in Phrases /\ p.editing \in Ids
         /\ p.retry \in Retries(S) /\ p.met \subseteq Places /\ p.edits \subseteq Edits(S) /\ OneEach(p.edits)
         /\ p.uuid \in BOOLEAN /\ \A i \in DOMAIN p.messages : p.messages[i] \in Messages(S)
<1>1. /\ p.open \in Places /\ p.messages \in Seq(Messages(S)) /\ p.composer \in Phrases /\ p.editing \in Ids
      /\ p.retry \in Retries(S) /\ p.met \subseteq Places /\ p.edits \subseteq Edits(S) /\ OneEach(p.edits)
      /\ p.uuid \in BOOLEAN
  BY DEF Panels
<1> QED
  BY <1>1

LEMMA PanelEdits ==
  ASSUME NEW S, NEW p \in Panels(S)
  PROVE  /\ \A x \in Seq(Messages(S)) : [p EXCEPT !.messages = x] \in Panels(S)
         /\ \A x \in Places : [p EXCEPT !.open = x] \in Panels(S)
         /\ \A x \in Phrases : [p EXCEPT !.composer = x] \in Panels(S)
         /\ \A x \in Ids : [p EXCEPT !.editing = x] \in Panels(S)
         /\ \A x \in Retries(S) : [p EXCEPT !.retry = x] \in Panels(S)
         /\ \A x \in SUBSET Places : [p EXCEPT !.met = x] \in Panels(S)
         /\ \A x \in SUBSET Edits(S) : OneEach(x) => [p EXCEPT !.edits = x] \in Panels(S)
         /\ [p EXCEPT !.uuid = TRUE] \in Panels(S)
<1>1. \A x \in Seq(Messages(S)) : [p EXCEPT !.messages = x] \in Panels(S)
  BY DEF Panels
<1>2. \A x \in Retries(S) : [p EXCEPT !.retry = x] \in Panels(S)
  BY DEF Panels
<1>3. \A x \in SUBSET Places : [p EXCEPT !.met = x] \in Panels(S)
  BY DEF Panels
<1>4. \A x \in SUBSET Edits(S) : OneEach(x) => [p EXCEPT !.edits = x] \in Panels(S)
  BY DEF Panels
<1>5. /\ \A x \in Places : [p EXCEPT !.open = x] \in Panels(S)
      /\ \A x \in Phrases : [p EXCEPT !.composer = x] \in Panels(S)
      /\ \A x \in Ids : [p EXCEPT !.editing = x] \in Panels(S)
      /\ [p EXCEPT !.uuid = TRUE] \in Panels(S)
  BY DEF Panels
<1> QED
  BY <1>1, <1>2, <1>3, <1>4, <1>5

LEMMA Blanks ==
  ASSUME NEW S
  PROVE  /\ None \in Places /\ NoId \in Ids /\ NoText \in Phrases /\ NoRetry \in Retries(S)
         /\ BlankPanel \in Panels(S) /\ \A n \in Int : Local(n) \in Places /\ Server(n) \in Places
<1>1. None \in Places /\ NoId \in Ids /\ NoText \in Phrases
  BY IdsAreIds DEF None, Places, Phrases
<1>2. \A n \in Int : Local(n) \in Places /\ Server(n) \in Places
  BY DEF Local, Server, Places
<1>3. NoRetry \in Retries(S)
  <2>1. Vouched(0, NoText, S)
    BY DEF Vouched
  <2>2. \A none \in Places, text \in Phrases :
          [key |-> 0, text |-> text, rid |-> 0, thread |-> none] \in
            [key : Int, text : Phrases, rid : Nat, thread : Places]
    OBVIOUS
  <2>3. NoRetry \in [key : Int, text : Phrases, rid : Nat, thread : Places]
    BY <1>1, <2>2, Zenon DEF NoRetry
  <2>4. NoRetry.rid = 0 /\ NoRetry.text = NoText
    BY DEF NoRetry
  <2> QED
    BY <2>1, <2>3, <2>4 DEF Retries
<1>4. BlankPanel \in Panels(S)
  <2>1. \A none \in Places, nil \in Seq(Messages(S)), text \in Phrases, id \in Ids, retry \in Retries(S),
           met \in SUBSET Places, edits \in SUBSET Edits(S) :
          OneEach(edits) =>
            [open |-> none, messages |-> nil, composer |-> text, editing |-> id, retry |-> retry, met |-> met,
             edits |-> edits, uuid |-> FALSE] \in Panels(S)
    BY DEF Panels
  <2>2. <<>> \in Seq(Messages(S)) /\ {} \in SUBSET Places /\ {} \in SUBSET Edits(S) /\ OneEach({})
    BY DEF OneEach
  <2> QED
    BY <1>1, <1>3, <2>1, <2>2, Zenon DEF BlankPanel
<1> QED
  BY <1>1, <1>2, <1>3, <1>4

LEMMA WithPanel ==
  ASSUME NEW S, NEW p \in Panels(S), NEW m \in Messages(S)
  PROVE  With(p, m) \in Panels(S)
<1>1. Append(p.messages, m) \in Seq(Messages(S))
  BY PanelFacts
<1>2. With(p, m) = [p EXCEPT !.messages = Append(p.messages, m)]
  BY DEF With
<1> QED
  BY <1>1, <1>2, PanelEdits

LEMMA LeftPanel ==
  ASSUME NEW S, NEW p \in Panels(S)
  PROVE  /\ \A id : Left(p, id) \in Panels(S)
         /\ \A text \in Phrases : NewChatOn(p, text) \in Panels(S)
<1>1. <<>> \in Seq(Messages(S)) /\ {} \in SUBSET Places
  OBVIOUS
<1>2. ASSUME NEW id PROVE Left(p, id) \in Panels(S)
  <2>1. [p EXCEPT !.open = None, !.messages = <<>>] \in Panels(S)
    BY <1>1, Blanks DEF Panels
  <2> QED
    BY <2>1 DEF Left
<1>3. ASSUME NEW text \in Phrases PROVE NewChatOn(p, text) \in Panels(S)
  <2>1. \A none \in Places, nil \in Seq(Messages(S)), id \in Ids, retry \in Retries(S), met \in SUBSET Places :
          [p EXCEPT !.open = none, !.messages = nil, !.composer = text, !.editing = id, !.retry = retry,
                    !.met = met] \in Panels(S)
    BY DEF Panels
  <2> QED
    BY <1>1, <2>1, Blanks, Zenon DEF NewChatOn
<1> QED
  BY <1>2, <1>3

(* What waited for the conversation goes on.                               *)
LEMMA GoneOnPanel ==
  ASSUME NEW S, NEW k, NEW j, HandlerOk(j, S, k), NEW p \in Panels(S), NEW found
  PROVE  GoesOn(j, p, found) \in Panels(S)
<1> DEFINE note == Error(j, IF found THEN "conflict" ELSE "stale")
           old == {i \in DOMAIN p.messages : p.messages[i].key = j.key}
           again == [note EXCEPT !.key = j.key, !.target = j.target]
           put == [i \in DOMAIN p.messages |-> IF i \in old THEN again ELSE p.messages[i]]
           ms == IF old = {} THEN Append(p.messages, again) ELSE put
<1>1. note \in Messages(S) /\ Error(j, "error") \in Messages(S)
  BY HandlerSays
<1>2. j.key \in Int /\ j.target \in Ids /\ j.text \in Phrases
  BY DEF HandlerOk
<1> HIDE DEF note
<1>3. again \in Messages(S)
  BY <1>1, <1>2, MessageFacts
<1> HIDE DEF again, old
<1>4. p.messages \in Seq(Messages(S))
  BY PanelFacts
<1>5. put \in Seq(Messages(S))
  BY <1>3, <1>4
<1>6. Append(p.messages, again) \in Seq(Messages(S))
  BY <1>3, <1>4
<1> HIDE DEF put
<1>7. ms \in Seq(Messages(S))
  BY <1>5, <1>6
<1> HIDE DEF ms
<1>8. With(p, note) \in Panels(S) /\ [With(p, note) EXCEPT !.composer = j.text] \in Panels(S)
  BY <1>1, <1>2, WithPanel, PanelEdits
<1>9. [p EXCEPT !.retry = NoRetry] \in Panels(S)
  BY Blanks, PanelEdits
<1>10. Told(j, p) \in Panels(S)
  BY <1>1, WithPanel DEF Told
<1>11. [p EXCEPT !.composer = j.text, !.messages = ms] \in Panels(S)
  BY <1>2, <1>7 DEF Panels
<1>12. GoesOn(j, p, found) \in
         {With(p, note), [With(p, note) EXCEPT !.composer = j.text], [p EXCEPT !.retry = NoRetry], Told(j, p),
          [p EXCEPT !.composer = j.text, !.messages = ms], p}
  BY Zenon DEF GoesOn, note, old, again, put, ms
<1> QED
  BY <1>8, <1>9, <1>10, <1>11, <1>12

----------------------------------------------------------------------------
(* The server's conversations                                              *)

LEMMA ThreadFacts ==
  ASSUME NEW M, NEW ths \in Seq(Holds(M))
  PROVE  /\ \A n \in DOMAIN ths : ths[n] \in Holds(M) /\ ths[n].messages \in Seq(M) /\ n \in Nat
         /\ \A n \in DOMAIN ths, ms \in Seq(M) : [ths EXCEPT ![n].messages = ms] \in Seq(Holds(M))
         /\ \A n \in DOMAIN ths : [ths EXCEPT ![n].live = FALSE] \in Seq(Holds(M))
<1>1. \A n \in DOMAIN ths : ths[n] \in Holds(M) /\ ths[n].messages \in Seq(M) /\ n \in Nat
  <2>1. \A x \in Holds(M) : x.messages \in Seq(M)
    BY DEF Holds
  <2> QED
    BY <2>1
<1>2. ASSUME NEW n \in DOMAIN ths, NEW ms \in Seq(M)
      PROVE  [ths EXCEPT ![n].messages = ms] \in Seq(Holds(M))
  <2> DEFINE e == [ths[n] EXCEPT !.messages = ms]
  <2>1. e \in Holds(M)
    BY <1>1 DEF Holds
  <2> HIDE DEF e
  <2>2. [ths EXCEPT ![n] = e] \in Seq(Holds(M))
    BY <2>1
  <2> QED
    BY <2>2 DEF e
<1>3. ASSUME NEW n \in DOMAIN ths
      PROVE  [ths EXCEPT ![n].live = FALSE] \in Seq(Holds(M))
  <2> DEFINE e == [ths[n] EXCEPT !.live = FALSE]
  <2>1. e \in Holds(M)
    BY <1>1 DEF Holds
  <2> HIDE DEF e
  <2>2. [ths EXCEPT ![n] = e] \in Seq(Holds(M))
    BY <2>1
  <2> QED
    BY <2>2 DEF e
<1> QED
  BY <1>1, <1>2, <1>3

LEMMA ReadTalk ==
  ASSUME ThreadsOk, NEW token, NEW id \in Places, Owned(token, id)
  PROVE  Read(id) \in Talks(Messages(sent)) /\ Read(id).messages \in Seq(Messages(sent))
<1>1. id[2] \in DOMAIN threads
  BY DEF Owned
<1>2. threads[id[2]].messages \in Seq(Messages(sent))
  BY <1>1, ThreadFacts DEF ThreadsOk
<1> QED
  BY <1>2 DEF Read, Talks

LEMMA ReadAllTalks ==
  ASSUME ThreadsOk, NEW token
  PROVE  /\ ReadAll(token) \in Seq(Talks(Messages(sent)))
         /\ \A i \in DOMAIN ReadAll(token) : Owned(token, ReadAll(token)[i].id)
<1> DEFINE n == Cardinality(Mine(token))
           T == Talks(Messages(sent))
<1>1. Len(threads) \in Nat /\ DOMAIN threads = 1..Len(threads)
  BY DEF ThreadsOk
<1>2. Mine(token) \in SUBSET (1..Len(threads))
  BY <1>1 DEF Mine
<1>3. n \in Nat
  <2>1. IsFiniteSet(1..Len(threads))
    BY <1>1, FS_Interval
  <2> QED
    BY <1>2, <2>1, FS_Subset, FS_CardinalityType
<1> HIDE DEF n
<1>4. ASSUME NEW i \in 1..n
      PROVE  LET e == Read(Server(Nth(Mine(token), n + 1 - i))) IN e \in T /\ Owned(token, e.id)
  <2> DEFINE m == Nth(Mine(token), n + 1 - i)
  <2>1. n + 1 - i \in 1..n
    BY <1>3
  <2>2. m \in Mine(token)
    BY <1>1, <1>2, <2>1, NthIsIn DEF n
  <2> HIDE DEF m
  <2>3. m \in Int /\ Owned(token, Server(m))
    BY <1>1, <1>2, <2>2 DEF Mine
  <2>4. Read(Server(m)) \in T /\ Read(Server(m)).id = Server(m)
    BY <2>3, Blanks, ReadTalk DEF Read
  <2> QED
    BY <2>3, <2>4 DEF m
<1>5. ReadAll(token) = [i \in 1..n |-> Read(Server(Nth(Mine(token), n + 1 - i)))]
  BY DEF ReadAll, n
<1> HIDE DEF T
<1>6. ReadAll(token) \in [1..n -> T]
  BY <1>4, <1>5, Zenon
<1>7. ReadAll(token) \in Seq(T)
  BY <1>3, <1>6
<1>8. \A i \in DOMAIN ReadAll(token) : Owned(token, ReadAll(token)[i].id)
  BY <1>4, <1>5, Zenon
<1> QED
  BY <1>7, <1>8 DEF T

LEMMA ImprovedOk ==
  ASSUME SessionOk(session), IdInv, NEW j \in jobs
  PROVE  Improved(j).after \in Seq(Holds(Messages(sent))) /\ Improved(j).id \in Places
<1> DEFINE M == Messages(sent)
           same == {n \in Mine(j.token) : threads[n].first = j.rid}
           n == IF j.to # None THEN j.to[2] ELSE IF same = {} THEN 0 ELSE CHOOSE m \in same : TRUE
           saved(m) == [m EXCEPT !.saved = TRUE]
           pair == <<saved(Say("user", j.key, j.text, j.rid)), saved(Say("reply", j.key, j.text, 0))>>
           ms == threads[n].messages
           at == {i \in DOMAIN ms : ms[i].by = "user" /\ Id(ms[i]) = j.target}
           put(new) == [why |-> "ok", id |-> Server(n), after |-> [threads EXCEPT ![n].messages = new]]
           gone == [why |-> "gone", id |-> None, after |-> threads]
           first == [owner |-> session.owners[j.token], live |-> TRUE, first |-> j.rid, messages |-> pair]
           Fine(r) == r.after \in Seq(Holds(M)) /\ r.id \in Places
<1>1. HandlerOk(j, sent, Len(session.owners)) /\ threads \in Seq(Holds(M))
  BY DEF IdInv, HandlersOk, ThreadsOk
<1>2. pair \in Seq(M)
  <2>1. Say("user", j.key, j.text, j.rid) \in M /\ Say("reply", j.key, j.text, 0) \in M
    BY <1>1, HandlerSays
  <2>2. saved(Say("user", j.key, j.text, j.rid)) \in M /\ saved(Say("reply", j.key, j.text, 0)) \in M
    BY <2>1, MessageFacts
  <2> HIDE DEF saved, M
  <2> QED
    BY <2>2
<1>3. Fine(gone) /\ Fine([gone EXCEPT !.why = "ok"]) /\ Fine([gone EXCEPT !.why = "reused"])
  <2>1. None \in Places
    BY Blanks
  <2> HIDE DEF M
  <2> QED
    BY <1>1, <2>1
<1>4. ASSUME NEW new \in Seq(M), Owned(j.token, Server(n)) PROVE Fine(put(new))
  <2>1. n \in DOMAIN threads
    BY <1>4 DEF Owned, Server
  <2>2. [threads EXCEPT ![n].messages = new] \in Seq(Holds(M)) /\ n \in Nat
    BY <1>1, <2>1, ThreadFacts
  <2>3. Server(n) \in Places
    BY <2>2, Blanks
  <2> HIDE DEF n, M
  <2> QED
    BY <2>2, <2>3
<1>5. ASSUME j.token # 0
      PROVE  Fine([why |-> "ok", id |-> Server(Len(threads) + 1), after |-> Append(threads, first)])
  <2>1. j.rid \in Nat /\ j.token \in 1..Len(session.owners) /\ session.owners \in Seq(Typed)
    BY <1>1, <1>5 DEF HandlerOk, SessionOk
  <2>2. session.owners[j.token] \in Typed
    BY <2>1
  <2> HIDE DEF pair, M
  <2>3. first \in Holds(M)
    BY <1>2, <2>1, <2>2 DEF Holds
  <2> HIDE DEF first
  <2>4. Append(threads, first) \in Seq(Holds(M)) /\ Len(threads) + 1 \in Int
    BY <1>1, <2>3
  <2>5. Server(Len(threads) + 1) \in Places
    BY <2>4, Blanks
  <2> QED
    BY <2>4, <2>5
<1>6. ASSUME Owned(j.token, Server(n))
      PROVE  ms \in Seq(M) /\ ms \o pair \in Seq(M)
             /\ (at # {} => SubSeq(ms, 1, First(at) - 1) \o pair \in Seq(M))
  <2>0. n \in DOMAIN threads
    BY <1>6 DEF Owned, Server
  <2>1. ms \in Seq(M)
    BY <1>1, <2>0, ThreadFacts
  <2>2. at \in SUBSET (DOMAIN ms)
    OBVIOUS
  <2> HIDE DEF at, ms, pair, M
  <2>4. at # {} => First(at) \in DOMAIN ms
    BY <2>1, <2>2, FirstOf
  <2>3. at # {} => SubSeq(ms, 1, First(at) - 1) \in Seq(M)
    BY <2>1, <2>4
  <2> QED
    BY <1>2, <2>1, <2>3
<1> HIDE DEF M
<1>7. CASE j.token = 0
  <2>1. Improved(j) = [gone EXCEPT !.why = "ok"]
    BY <1>7, Zenon DEF Improved
  <2> QED
    BY <1>3, <2>1 DEF M
<1> HIDE DEF Fine
<1>8. CASE j.token # 0 /\ n = 0
  <2>1. Improved(j) = [why |-> "ok", id |-> Server(Len(threads) + 1), after |-> Append(threads, first)]
    BY <1>8, Zenon DEF Improved
  <2> QED
    BY <1>5, <1>8, <2>1 DEF M, Fine
<1>9. CASE j.token # 0 /\ n # 0 /\ ~Owned(j.token, Server(n))
  <2>1. Improved(j) = gone
    BY <1>9, Zenon DEF Improved
  <2> QED
    BY <1>3, <2>1 DEF M, Fine
<1>10. CASE j.token # 0 /\ n # 0 /\ Owned(j.token, Server(n))
  <2>1. \/ Improved(j) = gone \/ Improved(j) = [gone EXCEPT !.why = "reused"]
        \/ Improved(j) = put(ms) \/ Improved(j) = put(ms \o pair)
        \/ at # {} /\ Improved(j) = put(SubSeq(ms, 1, First(at) - 1) \o pair)
    BY <1>10, Zenon DEF Improved
  <2>2. Fine(Improved(j))
    BY <1>3, <1>4, <1>6, <1>10, <2>1, Zenon
  <2> QED
    BY <2>2 DEF M, Fine
<1> QED
  BY <1>7, <1>8, <1>9, <1>10

----------------------------------------------------------------------------
(* Handlers                                                                *)

Handled(js) == \A i \in js : HandlerOk(i, sent, Len(session.owners))

LEMMA HandlersGo ==
  ASSUME SessionOk(session), HandlersOk, NEW j \in jobs
  PROVE  /\ Ends(j) => Handled(jobs')
         /\ \A kind, then : Goes(j, kind, then) => Handled(jobs')
         /\ \A id \in Places : \A then : ReadBack(j, id, then) => Handled(jobs')
         /\ HandlerOk([j EXCEPT !.kind = "call"], sent, Len(session.owners))
         /\ Handled(jobs) /\ Handled(jobs \ {j})
<1>1. HandlerOk(j, sent, Len(session.owners)) /\ Handled(jobs) /\ Handled(jobs \ {j})
  BY DEF HandlersOk, Handled
<1>2. Ends(j) => Handled(jobs')
  BY <1>1 DEF Ends
<1>3. ASSUME NEW kind, NEW then, Goes(j, kind, then) PROVE Handled(jobs')
  <2> DEFINE i == [j EXCEPT !.kind = kind, !.then = then]
  <2>1. HandlerOk(i, sent, Len(session.owners))
    BY <1>1 DEF HandlerOk, JobFields, Job
  <2>2. jobs' = (jobs \ {j}) \cup {i}
    BY <1>3 DEF Goes
  <2> HIDE DEF i
  <2> QED
    BY <1>1, <2>1, <2>2 DEF Handled
<1>4. ASSUME NEW id \in Places, NEW then, ReadBack(j, id, then) PROVE Handled(jobs')
  <2> DEFINE kind == IF id # None THEN "thread" ELSE "list"
             again == then = "conflict" /\ id \in panel.met
             i == [j EXCEPT !.to = id, !.kind = kind, !.then = then, !.again = again]
  <2>1. again \in BOOLEAN
    BY Zenon
  <2>2. jobs' = (jobs \ {j}) \cup {i}
    BY <1>4, Zenon DEF ReadBack
  <2> HIDE DEF again, kind
  <2>3. HandlerOk(i, sent, Len(session.owners))
    BY <1>1, <2>1 DEF HandlerOk, JobFields, Job
  <2> HIDE DEF i
  <2> QED
    BY <1>1, <2>2, <2>3 DEF Handled
<1>5. HandlerOk([j EXCEPT !.kind = "call"], sent, Len(session.owners))
  BY <1>1 DEF HandlerOk, JobFields, Job
<1> QED
  BY <1>1, <1>2, <1>3, <1>4, <1>5

(* A step that sends nothing keeps what was sent apart.                    *)
Quiet == UNCHANGED <<sent, made>> /\ session'.owners = session.owners
Shown == panel' \in Panels(sent) /\ recents' \in Recents(sent) /\ Handled(jobs')

LEMMA QuietKeeps ==
  ASSUME IdInv, Quiet, Shown, threads' \in Seq(Holds(Messages(sent)))
  PROVE  IdInv'
  BY DEF IdInv, Quiet, Shown, Handled, PanelOk, RecentsOk, ThreadsOk, HandlersOk

LEMMA RecentEdits ==
  ASSUME NEW S, NEW r \in Recents(S)
  PROVE  /\ [r EXCEPT !.server = <<>>] \in Recents(S)
         /\ \A x \in Seq(Talks(Messages(S))) : /\ [r EXCEPT !.server = x] \in Recents(S)
                                               /\ [r EXCEPT !.local = x] \in Recents(S)
         /\ r.local \in Seq(Talks(Messages(S))) /\ r.server \in Seq(Talks(Messages(S)))
<1> DEFINE T == Talks(Messages(S))
<1>1. <<>> \in Seq(T)
  OBVIOUS
<1>2. r \in [local : Seq(T), server : Seq(T)]
  BY DEF Recents
<1> HIDE DEF T
<1>3. \A x \in Seq(T) : /\ [r EXCEPT !.server = x] \in [local : Seq(T), server : Seq(T)]
                         /\ [r EXCEPT !.local = x] \in [local : Seq(T), server : Seq(T)]
  BY <1>2
<1> QED
  BY <1>1, <1>2, <1>3 DEF Recents, T

(* What an answer may do to the session leaves its tokens alone.           *)
LEMMA OwnersStay ==
  ASSUME SessionOk(session), SessionLeft
  PROVE  session'.owners = session.owners
  BY DEF SessionOk, SessionLeft, SignedOut, Expired

LEMMA FailsOk ==
  ASSUME SessionOk(session), IdInv, NEW j \in jobs, NEW why, Fails(j, why)
  PROVE  Shown
<1>1. panel \in Panels(sent) /\ recents \in Recents(sent) /\ HandlersOk /\ HandlerOk(j, sent, Len(session.owners))
  BY DEF IdInv, PanelOk, RecentsOk, HandlersOk
<1>2. /\ panel.open \in Places /\ panel.messages \in Seq(Messages(sent)) /\ panel.met \subseteq Places
      /\ panel.edits \subseteq Edits(sent) /\ OneEach(panel.edits) /\ panel.retry \in Retries(sent)
      /\ NoRetry \in Retries(sent) /\ j.to \in Places /\ None \in Places
  BY <1>1, PanelFacts, Blanks DEF HandlerOk
<1> DEFINE retry == IF j.of = "submit" THEN NoRetry ELSE panel.retry
           edits == {e \in panel.edits : j.of = "submit" \/ e[1] # j.target}
           by == IF why = "limit" THEN "limit" ELSE "error"
           met == [panel EXCEPT !.met = @ \cup {j.to}, !.retry = retry]
           cut == [panel EXCEPT !.retry = retry, !.edits = edits]
<1>3. recents' \in {recents, [recents EXCEPT !.server = <<>>]}
  BY Zenon DEF Fails, SignsOut
<1>4. recents' \in Recents(sent)
  BY <1>1, <1>3, RecentEdits
<1>5. panel' \in {panel, met, cut, With(panel, Error(j, by))}
  BY Zenon DEF Fails
<1>6. Ends(j) \/ (\E then : ReadBack(j, j.to, then) \/ ReadBack(j, panel.open, then))
      \/ Goes(j, "list", "missing")
  BY Zenon DEF Fails
<1>7. Handled(jobs')
  BY <1>1, <1>2, <1>6, HandlersGo
<1>8. retry \in Retries(sent) /\ edits \subseteq Edits(sent) /\ OneEach(edits)
  BY <1>2 DEF OneEach
<1> HIDE DEF retry, edits
<1>9. met \in Panels(sent) /\ cut \in Panels(sent)
  <2>1. panel.met \cup {j.to} \in SUBSET Places
    BY <1>2
  <2>2. met = [[panel EXCEPT !.met = panel.met \cup {j.to}] EXCEPT !.retry = retry]
    BY <1>1 DEF Panels
  <2>3. cut = [[panel EXCEPT !.retry = retry] EXCEPT !.edits = edits]
    BY <1>1 DEF Panels
  <2>4. [panel EXCEPT !.met = panel.met \cup {j.to}] \in Panels(sent) /\ [panel EXCEPT !.retry = retry] \in Panels(sent)
    BY <1>1, <1>8, <2>1, PanelEdits
  <2> HIDE DEF met, cut
  <2> QED
    BY <1>8, <2>2, <2>3, <2>4, PanelEdits
<1>10. With(panel, Error(j, by)) \in Panels(sent)
  <2>1. by \in {"error", "conflict", "stale", "limit"}
    OBVIOUS
  <2> QED
    BY <1>1, <2>1, HandlerSays, WithPanel
<1> QED
  BY <1>1, <1>4, <1>5, <1>7, <1>9, <1>10 DEF Shown

LEMMA ReadFailsOk ==
  ASSUME SessionOk(session), IdInv, NEW j \in jobs, NEW why, ReadFails(j, why)
  PROVE  Shown
<1>1. CASE Fails(j, why)
  BY <1>1, FailsOk
<1>2. CASE ~Fails(j, why)
  <2>1. /\ Ends(j) /\ panel' \in {panel, GoesOn(j, panel, FALSE)}
        /\ recents' \in {recents, [recents EXCEPT !.server = <<>>]}
    BY <1>2, Zenon DEF ReadFails, SignsOut
  <2>2. panel \in Panels(sent) /\ recents \in Recents(sent) /\ HandlersOk
        /\ HandlerOk(j, sent, Len(session.owners))
    BY DEF IdInv, PanelOk, RecentsOk, HandlersOk
  <2>3. Handled(jobs')
    BY <2>1, <2>2, HandlersGo
  <2>4. GoesOn(j, panel, FALSE) \in Panels(sent)
    BY <2>2, GoneOnPanel
  <2> QED
    BY <2>1, <2>2, <2>3, <2>4, RecentEdits DEF Shown
<1> QED
  BY <1>1, <1>2

LEMMA AnsweredOk ==
  ASSUME SessionOk(session), IdInv, NEW j \in jobs, j.of \in {"submit", "edit"}, Answered(j)
  PROVE  Shown
<1> DEFINE id == Improved(j).id
           reply == Say("reply", j.key, j.text, 0)
           retry == IF j.of = "submit" THEN NoRetry ELSE panel.retry
           heard == [panel EXCEPT !.retry = IF j.of = "submit" THEN NoRetry ELSE @]
           open == IF panel.open = None THEN Local(j.n) ELSE panel.open
           kept == Append(j.base, reply)
           edits == {e \in panel.edits : e[1] # j.target}
           M == Messages(sent)
<1>1. panel \in Panels(sent) /\ recents \in Recents(sent) /\ HandlersOk /\ HandlerOk(j, sent, Len(session.owners))
  BY DEF IdInv, PanelOk, RecentsOk, HandlersOk
<1>2. /\ panel.open \in Places /\ panel.messages \in Seq(M) /\ panel.met \subseteq Places
      /\ panel.edits \subseteq Edits(sent) /\ OneEach(panel.edits) /\ panel.retry \in Retries(sent)
      /\ NoRetry \in Retries(sent) /\ j.to \in Places /\ id \in Places /\ reply \in M /\ j.base \in Seq(M)
      /\ j.n \in Int
  <2>1. /\ panel.open \in Places /\ panel.messages \in Seq(M) /\ panel.met \subseteq Places
        /\ panel.edits \subseteq Edits(sent) /\ OneEach(panel.edits) /\ panel.retry \in Retries(sent)
    BY <1>1, PanelFacts
  <2>2. NoRetry \in Retries(sent) /\ id \in Places /\ reply \in M
    BY <1>1, Blanks, HandlerSays, ImprovedOk
  <2>3. j.to \in Places /\ j.base \in Seq(M) /\ j.n \in Int
    BY <1>1 DEF HandlerOk
  <2> HIDE DEF M, id, reply
  <2> QED
    BY <2>1, <2>2, <2>3
<1>3. heard \in Panels(sent) /\ retry \in Retries(sent)
  <2>1. retry \in Retries(sent) /\ heard = [panel EXCEPT !.retry = retry]
    BY <1>2
  <2> HIDE DEF retry
  <2> QED
    BY <1>1, <2>1, PanelEdits
<1>4. open \in Places
  BY <1>2, Blanks
<1> HIDE DEF id, reply, M
<1>5. kept \in Seq(M)
  BY <1>2
<1>6. heard.met = panel.met /\ heard.edits = panel.edits /\ heard.messages = panel.messages
  BY <1>1 DEF Panels
<1> HIDE DEF heard, open, kept
<1>7. CASE j.token # 0 /\ j.of = "submit"
  <2> DEFINE p == With(heard, reply)
             q == [p EXCEPT !.open = id, !.met = p.met \ {id}]
  <2>1. p \in Panels(sent)
    BY <1>2, <1>3, WithPanel DEF M
  <2>2. panel' = q /\ ReadBack(j, id, "show") /\ UNCHANGED recents
    BY <1>7, Zenon DEF Answered, heard, reply, id
  <2> HIDE DEF p
  <2>3. p.met \ {id} \in SUBSET Places
    BY <2>1, PanelFacts
  <2>4. q \in Panels(sent)
    BY <1>2, <2>1, <2>3 DEF Panels
  <2> QED
    BY <1>1, <1>2, <2>2, <2>4, HandlersGo DEF Shown
<1>8. CASE j.token # 0 /\ j.of = "edit"
  <2> DEFINE q == [heard EXCEPT !.met = heard.met \ {j.to}, !.edits = {e \in heard.edits : e[1] # j.target}]
  <2>1. panel' = q /\ ReadBack(j, j.to, "show") /\ UNCHANGED recents
    BY <1>8, Zenon DEF Answered, heard
  <2>2. heard.met \ {j.to} \in SUBSET Places /\ edits \in SUBSET Edits(sent) /\ OneEach(edits)
    BY <1>2, <1>6 DEF OneEach
  <2>3. q = [[heard EXCEPT !.met = heard.met \ {j.to}] EXCEPT !.edits = edits]
    BY <1>3, <1>6 DEF Panels
  <2> HIDE DEF edits, q
  <2>4. q \in Panels(sent)
    BY <1>3, <2>2, <2>3, PanelEdits
  <2> QED
    BY <1>1, <1>2, <2>1, <2>4, HandlersGo DEF Shown
<1>9. CASE j.token = 0
  <2> DEFINE ms == IF j.of = "submit" THEN Append(heard.messages, reply) ELSE kept
             met == IF j.of = "submit" THEN {} ELSE heard.met
             q == [heard EXCEPT !.open = open, !.messages = ms, !.met = met]
             e == [id |-> open, messages |-> kept]
  <2>1. panel' = q /\ recents' = [recents EXCEPT !.local = Upsert(recents.local, e)] /\ Ends(j)
    BY <1>9, Zenon DEF Answered, heard, reply, open, kept
  <2>2. ms \in Seq(M) /\ met \in SUBSET Places
    BY <1>2, <1>5, <1>6
  <2> HIDE DEF ms, met
  <2>3. q \in Panels(sent)
    BY <1>3, <1>4, <2>2 DEF Panels, M
  <2>4. e \in Talks(M)
    BY <1>4, <1>5 DEF Talks
  <2> HIDE DEF e, q
  <2>5. Upsert(recents.local, e) \in Seq(Talks(M))
    BY <1>1, <2>4, RecentEdits, UpsertOf DEF M
  <2>6. recents' \in Recents(sent)
    BY <1>1, <2>1, <2>5, RecentEdits DEF M
  <2> QED
    BY <1>1, <2>1, <2>3, <2>6, HandlersGo DEF Shown
<1> QED
  BY <1>7, <1>8, <1>9

----------------------------------------------------------------------------
(* Sending                                                                 *)

(* An id is given to one prompt; it may be sent again with it.             *)
LEMMA OneMoreSent ==
  ASSUME NEW S, NEW n \in Nat, SentOk(S, n), NEW text \in Phrases, NEW rid \in Nat,
         rid = n + 1 \/ (rid # 0 /\ Vouched(rid, text, S))
  PROVE  SentOk(S \cup {<<rid, text>>}, n + 1) /\ Vouched(rid, text, S \cup {<<rid, text>>})
<1> DEFINE x == <<rid, text>>
           T == S \cup {x}
<1>1. \A e \in S : e[1] \in 0..n /\ e[2] \in Phrases /\ e = <<e[1], e[2]>>
  <2>1. S \subseteq (0..n) \X Phrases
    BY DEF SentOk
  <2> QED
    BY <2>1, Pairs
<1>2. x[1] = rid /\ x[2] = text
  OBVIOUS
<1>3. rid \in 0..n + 1
  <2>1. CASE rid = n + 1
    BY <2>1
  <2>2. CASE rid # 0 /\ Vouched(rid, text, S)
    <3>1. \E t : <<rid, t>> \in S
      BY <2>2, Zenon DEF Vouched
    <3>2. rid \in 0..n
      BY <1>1, <3>1
    <3> QED
      BY <3>2
  <2> QED
    BY <2>1, <2>2
<1>4. T \subseteq (0..n + 1) \X Phrases
  <2>1. 0..n \subseteq 0..n + 1
    OBVIOUS
  <2>2. \A e \in S : e \in (0..n + 1) \X Phrases
    <3>1. \A e \in S : <<e[1], e[2]>> \in (0..n + 1) \X Phrases
      BY <1>1, <2>1, Pairs
    <3> QED
      BY <1>1, <3>1, Zenon
  <2>3. x \in (0..n + 1) \X Phrases
    BY <1>3
  <2> QED
    BY <2>2, <2>3
<1>5. ASSUME NEW e \in S, e[1] = rid, <<rid, NoText>> \notin T PROVE e[2] = text
  <2>1. rid # n + 1
    BY <1>1, <1>5
  <2>2. <<rid, text>> \in S /\ <<rid, NoText>> \notin S
    BY <1>5, <2>1 DEF Vouched
  <2>3. x \in S /\ e[1] = x[1] /\ <<e[1], NoText>> \notin S
    BY <1>2, <1>5, <2>2
  <2> QED
    BY <1>2, <2>3 DEF SentOk
<1>6. ASSUME NEW d \in T, NEW e \in T, d[1] = e[1], <<d[1], NoText>> \notin T PROVE d[2] = e[2]
  <2>1. CASE d \in S /\ e \in S
    BY <1>6, <2>1 DEF SentOk
  <2>2. CASE d = x /\ e \in S
    BY <1>2, <1>5, <1>6, <2>2
  <2>3. CASE d \in S /\ e = x
    BY <1>2, <1>5, <1>6, <2>3
  <2> QED
    BY <1>6, <2>1, <2>2, <2>3
<1> HIDE DEF x
<1>7. SentOk(T, n + 1)
  BY <1>4, <1>6 DEF SentOk
<1> QED
  BY <1>7 DEF Vouched, x

(* An id is set apart.                                                     *)
LEMMA OneMoreApart ==
  ASSUME NEW S, NEW n \in Nat, SentOk(S, n)
  PROVE  /\ SentOk(S, n + 1)
         /\ \A rid \in 0..n : SentOk(S \cup {<<rid, NoText>>}, n + 1)
         /\ \A rid \in Nat : \A text : Vouched(rid, text, S) => rid \in 0..n
<1>1. \A e \in S : e[1] \in 0..n /\ e[2] \in Phrases /\ e = <<e[1], e[2]>>
  <2>1. S \subseteq (0..n) \X Phrases
    BY DEF SentOk
  <2> QED
    BY <2>1, Pairs
<1>2. 0..n \subseteq 0..n + 1
  OBVIOUS
<1>3. S \subseteq (0..n + 1) \X Phrases
  <2>1. \A e \in S : <<e[1], e[2]>> \in (0..n + 1) \X Phrases
    BY <1>1, <1>2, Pairs
  <2> QED
    BY <1>1, <2>1, Zenon
<1>4. ASSUME NEW rid \in 0..n PROVE SentOk(S \cup {<<rid, NoText>>}, n + 1)
  <2> DEFINE x == <<rid, NoText>>
             T == S \cup {x}
  <2>1. x[1] = rid /\ x[2] = NoText
    OBVIOUS
  <2>2. x \in (0..n + 1) \X Phrases
    BY <1>2, Pairs, Zenon DEF Phrases
  <2>3. T \subseteq (0..n + 1) \X Phrases
    BY <1>3, <2>2, Zenon
  <2>4. ASSUME NEW d \in T, NEW e \in T, d[1] = e[1], <<d[1], NoText>> \notin T PROVE d[2] = e[2]
    <3>1. d[1] # rid
      BY <2>4, Zenon
    <3>2. d \in S /\ e \in S
      BY <2>1, <2>4, <3>1, Zenon
    <3> QED
      BY <2>4, <3>2, Zenon DEF SentOk
  <2> HIDE DEF T
  <2>5. SentOk(T, n + 1)
    BY <2>3, <2>4, Zenon DEF SentOk
  <2> QED
    BY <2>5 DEF T
<1>5. ASSUME NEW rid \in Nat, NEW text, Vouched(rid, text, S) PROVE rid \in 0..n
  <2>1. CASE rid = 0
    BY <2>1
  <2>2. CASE rid # 0
    <3>1. \E t : <<rid, t>> \in S
      BY <1>5, <2>2, Zenon DEF Vouched
    <3> QED
      BY <1>1, <3>1
  <2> QED
    BY <2>1, <2>2
<1>6. SentOk(S, n + 1)
  BY <1>3, Zenon DEF SentOk
<1> QED
  BY <1>4, <1>5, <1>6

(* What starts waiting is one handler more.                                *)
LEMMA StartedKeeps ==
  ASSUME SessionOk(session), IdInv, UNCHANGED <<session, recents, threads>>, sent \subseteq sent',
         SentOk(sent', made'), panel' \in Panels(sent'),
         NEW j, HandlerOk(j, sent', Len(session.owners)), jobs' = jobs \cup {j}
  PROVE  IdInv'
<1>1. Len(session.owners) \in Nat
  BY DEF SessionOk
<1>2. Grows
  BY <1>1 DEF Grows
<1>3. recents \in Recents(sent') /\ threads \in Seq(Holds(Messages(sent')))
      /\ \A i \in jobs : HandlerOk(i, sent', Len(session'.owners))
  BY <1>2, GrowingKeeps
<1> QED
  BY <1>3 DEF IdInv, PanelOk, RecentsOk, ThreadsOk, HandlersOk

(* Putting off keeps what is sent.                                         *)
LEMMA PutOff ==
  ASSUME NEW j, NEW S, NEW k, HandlerOk(j, S, k)
  PROVE  HandlerOk([j EXCEPT !.kind = "uuid"], S, k)
  BY DEF HandlerOk, JobFields, Job

LEMMA SubmissionOk ==
  ASSUME SessionOk(session), IdInv, made \in Nat, NEW p \in Panels(sent), NEW text \in Phrases,
         NEW resolves
  PROVE  LET s == Submission(p, text, resolves)
             S == IF LoggedIn THEN sent \cup {<<s.job.rid, text>>} ELSE sent
         IN  /\ SentOk(S, made + 1) /\ s.messages \in Seq(Messages(S))
             /\ HandlerOk(s.job, S, Len(session.owners))
<1> DEFINE again == /\ p.retry # NoRetry /\ LoggedIn /\ OnServer(p.open)
                    /\ p.retry.text = text /\ p.retry.thread = p.open
           rid == IF ~LoggedIn THEN 0 ELSE IF again /\ p.retry.rid # 0 THEN p.retry.rid ELSE made + 1
           base == IF again THEN Without(p.messages, {i \in DOMAIN p.messages : p.messages[i].key = p.retry.key})
                   ELSE p.messages
           there == {i \in DOMAIN base : again /\ base[i].by = "user" /\ base[i].rid = rid}
           last == CHOOSE i \in there : \A k \in there : k <= i
           key == IF there = {} THEN made + 1 ELSE base[last].key
           said == Say("user", key, text, rid)
           S == IF LoggedIn THEN sent \cup {<<rid, text>>} ELSE sent
           M == Messages(S)
           to == IF LoggedIn /\ OnServer(p.open) THEN p.open ELSE None
           kept == IF LoggedIn THEN <<>> ELSE Append(base, said)
           job == [Job EXCEPT !.kind = "call", !.of = "submit", !.n = made + 1, !.text = text,
                     !.rid = rid, !.key = key, !.token = session.token, !.resolves = resolves,
                     !.to = to, !.base = kept]
           ms == IF again THEN base ELSE Append(base, said)
<1>1. Submission(p, text, resolves) = [job |-> job, messages |-> ms]
  BY Zenon DEF Submission
<1>2. rid \in Nat /\ SentOk(S, made + 1) /\ Vouched(rid, text, S)
  <2>1. p.retry.rid \in Nat /\ Vouched(p.retry.rid, p.retry.text, sent)
    BY PanelFacts DEF Retries
  <2>2. CASE ~LoggedIn
    <3>1. rid = 0 /\ S = sent
      BY <2>2
    <3>2. Vouched(0, text, sent)
      BY DEF Vouched
    <3> QED
      BY <3>1, <3>2, OneMoreApart DEF IdInv
  <2>3. CASE LoggedIn
    <3>1. rid \in Nat /\ (rid = made + 1 \/ (rid # 0 /\ Vouched(rid, text, sent)))
      BY <2>1, <2>3
    <3>2. S = sent \cup {<<rid, text>>}
      BY <2>3, Zenon
    <3> HIDE DEF rid, S
    <3> QED
      BY <3>1, <3>2, OneMoreSent DEF IdInv
  <2> QED
    BY <2>2, <2>3
<1>3. sent \subseteq S
  OBVIOUS
<1> HIDE DEF rid, S
<1>4. base \in Seq(M)
  <2>1. p.messages \in Seq(M)
    BY <1>3, PanelFacts, WiderMessages
  <2>2. \A X : Without(p.messages, X) \in Seq(M)
    BY <2>1, WithoutOf
  <2> QED
    BY <2>1, <2>2, Zenon
<1> HIDE DEF base
<1>5. key \in Int
  <2>1. CASE there = {}
    BY <2>1
  <2>2. CASE there # {}
    <3>1. Len(base) \in Nat /\ there \in SUBSET (1..Len(base))
      BY <1>4
    <3>2. \E i \in there : \A k \in there : k <= i
      BY <2>2, <3>1, LastIsIn
    <3>3. last \in there
      BY <3>2, Zenon
    <3>4. base[last] \in M
      BY <1>4, <3>1, <3>3
    <3> QED
      BY <2>2, <3>4, MessageFacts
  <2> QED
    BY <2>1, <2>2
<1> HIDE DEF key
<1>6. said \in M
  BY <1>2, <1>5, SaidMessage DEF Sayers
<1> HIDE DEF said, M
<1>7. Append(base, said) \in Seq(M) /\ <<>> \in Seq(M)
  BY <1>4, <1>6
<1>8. ms \in Seq(M) /\ kept \in Seq(M)
  BY <1>4, <1>7
<1> HIDE DEF ms, kept
<1>9. to \in Places /\ NoId \in Ids /\ None \in Places
  BY Blanks, PanelFacts
<1> HIDE DEF to
<1>10. session.token \in 0..Len(session.owners)
  BY DEF SessionOk
<1>11. HandlerOk(job, S, Len(session.owners))
  <2>1. DOMAIN job = JobFields
    BY DEF Job, JobFields
  <2>2. /\ job.n = made + 1 /\ job.text = text /\ job.rid = rid /\ job.key = key /\ job.target = NoId
        /\ job.base = kept /\ job.to = to /\ job.token = session.token /\ job.again = FALSE
    BY DEF Job
  <2>3. text \in Phrases /\ made + 1 \in Nat
    OBVIOUS
  <2> HIDE DEF job
  <2>5. job.again \in BOOLEAN
    BY <2>2, Zenon
  <2>4. Vouched(job.rid, job.text, S)
    BY <1>2, <2>2
  <2> QED
    BY <1>2, <1>5, <1>8, <1>9, <1>10, <2>1, <2>2, <2>3, <2>4, <2>5 DEF HandlerOk, M
<1>12. job.rid = rid
  BY DEF Job
<1> HIDE DEF job
<1>13. (IF LoggedIn THEN sent \cup {<<job.rid, text>>} ELSE sent) = S
  BY <1>12 DEF S
<1>14. /\ Submission(p, text, resolves).job = job
       /\ Submission(p, text, resolves).messages = ms
  BY <1>1
<1> QED
  BY <1>2, <1>8, <1>11, <1>13, <1>14, Zenon DEF M

LEMMA SubmitOk ==
  ASSUME SessionOk(session), IdInv, made \in Nat, NEW p \in Panels(sent), NEW text \in Phrases,
         NEW resolves, SubmitOn(p, text, resolves), UNCHANGED <<session, recents, threads>>
  PROVE  IdInv'
<1> DEFINE s == Submission(p, text, resolves)
           u == [s.job EXCEPT !.kind = "uuid"]
<1>1. /\ made' = made + 1
      /\ sent' = IF LoggedIn THEN sent \cup {<<s.job.rid, text>>} ELSE sent
      /\ \/ panel' = [p EXCEPT !.composer = text] /\ jobs' = jobs \cup {u}
         \/ panel' = [p EXCEPT !.messages = s.messages, !.composer = NoText] /\ jobs' = jobs \cup {s.job}
  BY Zenon DEF SubmitOn
<1>2. SentOk(sent', made') /\ s.messages \in Seq(Messages(sent')) /\ HandlerOk(s.job, sent', Len(session.owners))
  BY <1>1, SubmissionOk, Zenon
<1> HIDE DEF s
<1>3. sent \subseteq sent'
  BY <1>1
<1>4. p \in Panels(sent') /\ NoText \in Phrases
  BY <1>3, WiderPanels, Blanks
<1>5. [p EXCEPT !.composer = text] \in Panels(sent')
  BY <1>4, PanelEdits
<1>6. [p EXCEPT !.messages = s.messages, !.composer = NoText] \in Panels(sent')
  BY <1>2, <1>4 DEF Panels
<1>7. HandlerOk(u, sent', Len(session.owners))
  BY <1>2, PutOff
<1> HIDE DEF u
<1> QED
  BY <1>1, <1>2, <1>3, <1>5, <1>6, <1>7, StartedKeeps

LEMMA IndexFacts ==
  ASSUME NEW ms, NEW id, IndexOf(ms, id) # 0
  PROVE  IndexOf(ms, id) \in DOMAIN ms
<1> DEFINE at == {i \in DOMAIN ms : ms[i].by = "user" /\ Id(ms[i]) = id}
<1>1. at # {} /\ IndexOf(ms, id) = CHOOSE i \in at : TRUE
  BY Zenon DEF IndexOf
<1>2. IndexOf(ms, id) \in at
  BY <1>1, Zenon
<1> QED
  BY <1>2

(* An edit goes out under the id of its last try only with its prompt.     *)
LEMMA EditIdFacts ==
  ASSUME NEW S, NEW p \in Panels(S), NEW id \in Ids, NEW text
  PROVE  EditId(p, id, text) = made + 1 \/ (EditId(p, id, text) \in Nat \ {0} /\ Vouched(EditId(p, id, text), text, S))
<1> DEFINE last == {e \in p.edits : e[1] = id}
           i == IndexOf(p.messages, id)
           own == <<id, p.messages[i].text, p.messages[i].rid>>
           tries == IF last # {} THEN last ELSE IF i = 0 THEN {} ELSE {own}
           try == CHOOSE e \in tries : TRUE
<1>1. EditId(p, id, text) = IF \E e \in tries : e[2] = text /\ e[3] # 0 THEN try[3] ELSE made + 1
  BY Zenon DEF EditId
<1>2. ASSUME NEW e \in last PROVE e[3] \in Nat /\ Vouched(e[3], e[2], S)
  BY PanelFacts DEF Edits
<1>3. \A d, e \in last : d = e
  BY PanelFacts DEF OneEach
<1>4. ASSUME i # 0 PROVE own[3] \in Nat /\ Vouched(own[3], own[2], S)
  <2>1. p.messages[i] \in Messages(S)
    BY <1>4, IndexFacts, PanelFacts
  <2>2. own[2] = p.messages[i].text /\ own[3] = p.messages[i].rid
    OBVIOUS
  <2> QED
    BY <2>1, <2>2, MessageFacts
<1> HIDE DEF last, i, own
<1>5. \A e \in tries : e[3] \in Nat /\ Vouched(e[3], e[2], S)
  BY <1>2, <1>4, Zenon
<1>6. \A d, e \in tries : d = e
  BY <1>3, Zenon
<1> HIDE DEF tries
<1>7. ASSUME NEW e \in tries, e[2] = text, e[3] # 0 PROVE try = e
  <2>1. try \in tries
    BY <1>7, Zenon
  <2> QED
    BY <1>6, <2>1, Zenon
<1> HIDE DEF try
<1>8. CASE \E e \in tries : e[2] = text /\ e[3] # 0
  <2>1. PICK e \in tries : e[2] = text /\ e[3] # 0
    BY <1>8
  <2>2. EditId(p, id, text) = e[3]
    BY <1>1, <1>7, <1>8, <2>1
  <2> QED
    BY <1>5, <2>1, <2>2
<1>9. CASE ~\E e \in tries : e[2] = text /\ e[3] # 0
  BY <1>1, <1>9
<1> QED
  BY <1>8, <1>9

(* A guest's message is replaced; its id, if it has one, is set apart.     *)
LEMMA CutOk ==
  ASSUME made \in Nat, SentOk(sent, made), NEW p \in Panels(sent), NEW i \in DOMAIN p.messages, NEW text \in Phrases,
         NEW T, T = sent \cup (IF p.messages[i].text = text THEN {} ELSE {<<p.messages[i].rid, NoText>>})
  PROVE  /\ SentOk(T, made + 1)
         /\ Append(SubSeq(p.messages, 1, i - 1), [p.messages[i] EXCEPT !.text = text]) \in Seq(Messages(T))
<1> DEFINE m == p.messages[i]
           n == [m EXCEPT !.text = text]
<1>1. m \in Message /\ Vouched(m.rid, m.text, sent) /\ m.rid \in Nat
  BY PanelFacts DEF Messages, Message
<1>2. sent \subseteq T /\ (m.text # text => <<m.rid, NoText>> \in T)
  OBVIOUS
<1>3. p.messages \in Seq(Messages(T)) /\ i - 1 \in Nat /\ i - 1 <= Len(p.messages)
  <2>1. p.messages \in Seq(Messages(T))
    BY <1>2, PanelFacts, WiderMessages
  <2>2. Len(p.messages) \in Nat /\ DOMAIN p.messages = 1..Len(p.messages)
    BY <2>1
  <2>3. i \in 1..Len(p.messages)
    BY <2>2, Zenon
  <2>4. i - 1 \in Nat /\ i - 1 <= Len(p.messages)
    BY <2>2, <2>3
  <2> QED
    BY <2>1, <2>4, Zenon
<1>4. Vouched(m.rid, m.text, T)
  <2>1. \A rid, t : Vouched(rid, t, sent) => Vouched(rid, t, T)
    BY <1>2, WiderMessages, Zenon
  <2> HIDE DEF m
  <2> QED
    BY <1>1, <2>1, Zenon
<1>5. SentOk(T, made + 1)
  <2>1. m.rid \in 0..made
    BY <1>1, OneMoreApart
  <2>2. T = sent \/ T = sent \cup {<<m.rid, NoText>>}
    BY Zenon
  <2> HIDE DEF m
  <2> QED
    BY <2>1, <2>2, OneMoreApart
<1> HIDE DEF m
<1>6. n \in Message /\ n.rid = m.rid /\ n.text = text
  BY <1>1 DEF Message
<1> HIDE DEF n
<1>7. Vouched(m.rid, text, T)
  BY <1>2, <1>4 DEF Vouched
<1>8. n \in Messages(T)
  BY <1>6, <1>7 DEF Messages
<1>9. SubSeq(p.messages, 1, i - 1) \in Seq(Messages(T))
  BY <1>3
<1>10. Append(SubSeq(p.messages, 1, i - 1), n) \in Seq(Messages(T))
  <2>1. \A s \in Seq(Messages(T)) : Append(s, n) \in Seq(Messages(T))
    BY <1>8
  <2> QED
    BY <1>9, <2>1, Zenon
<1> QED
  BY <1>5, <1>10 DEF n, m

LEMMA EditOk ==
  ASSUME SessionOk(session), IdInv, made \in Nat, NEW p \in Panels(sent), NEW id \in Ids, NEW text \in Phrases,
         NEW resolves, EditOn(p, id, text, resolves), UNCHANGED <<session, recents, threads>>
  PROVE  IdInv'
<1> DEFINE i == IndexOf(p.messages, id)
           rid == IF LoggedIn THEN EditId(p, id, text) ELSE 0
           cut == Append(SubSeq(p.messages, 1, i - 1), [p.messages[i] EXCEPT !.text = text])
           base == IF LoggedIn THEN <<>> ELSE cut
           j == [Job EXCEPT !.kind = "call", !.of = "edit", !.n = made + 1, !.text = text, !.key = id[1],
                   !.target = id, !.rid = rid, !.token = session.token, !.resolves = resolves,
                   !.to = p.open, !.base = base]
           u == [j EXCEPT !.kind = "uuid"]
           ms == IF LoggedIn THEN p.messages ELSE cut
           edits == IF LoggedIn THEN {e \in p.edits : e[1] # id} \cup {<<id, text, rid>>} ELSE p.edits
           q == [p EXCEPT !.editing = NoId, !.messages = ms, !.edits = edits]
           noted == IF LoggedIn THEN {<<rid, text>>}
                    ELSE IF p.messages[i].text = text THEN {} ELSE {<<p.messages[i].rid, NoText>>}
           T == sent \cup noted
<1>1. \/ panel' = p /\ UNCHANGED <<jobs, made, sent>>
      \/ /\ LoggedIn \/ i # 0
         /\ made' = made + 1 /\ sent' = T
         /\ \/ panel' = p /\ jobs' = jobs \cup {u}
            \/ panel' = q /\ jobs' = jobs \cup {j}
  BY Zenon DEF EditOn
<1>2. CASE panel' = p /\ UNCHANGED <<jobs, made, sent>>
  BY <1>2 DEF IdInv, PanelOk, RecentsOk, ThreadsOk, HandlersOk
<1>3. CASE LoggedIn \/ i # 0
  <2>1. /\ SentOk(T, made + 1) /\ sent \subseteq T /\ rid \in Nat /\ Vouched(rid, text, T)
        /\ ms \in Seq(Messages(T)) /\ base \in Seq(Messages(T))
    <3>1. CASE LoggedIn
      <4>1. rid \in Nat /\ (rid = made + 1 \/ (rid # 0 /\ Vouched(rid, text, sent)))
        BY <3>1, EditIdFacts
      <4>2. T = sent \cup {<<rid, text>>} /\ ms = p.messages /\ base = <<>>
        BY <3>1, Zenon
      <4> HIDE DEF rid, T, ms, base
      <4>3. SentOk(T, made + 1) /\ Vouched(rid, text, T) /\ sent \subseteq T
        BY <4>1, <4>2, OneMoreSent DEF IdInv
      <4>4. p.messages \in Seq(Messages(T)) /\ <<>> \in Seq(Messages(T))
        BY <4>3, PanelFacts, WiderMessages
      <4> QED
        BY <4>1, <4>2, <4>3, <4>4
    <3>2. CASE ~LoggedIn
      <4>1. i \in DOMAIN p.messages
        BY <1>3, <3>2, IndexFacts
      <4>2. T = sent \cup (IF p.messages[i].text = text THEN {} ELSE {<<p.messages[i].rid, NoText>>})
            /\ ms = cut /\ base = cut /\ rid = 0
        BY <3>2, Zenon
      <4> HIDE DEF T, ms, base, rid, i
      <4>3. SentOk(T, made + 1) /\ cut \in Seq(Messages(T)) /\ sent \subseteq T
        BY <4>1, <4>2, CutOk DEF IdInv
      <4>4. Vouched(0, text, T)
        BY DEF Vouched
      <4> HIDE DEF cut
      <4> QED
        BY <4>2, <4>3, <4>4
    <3> QED
      BY <3>1, <3>2
  <2>2. edits \in SUBSET Edits(T) /\ OneEach(edits)
    <3> DEFINE x == <<id, text, rid>>
    <3> HIDE DEF T, rid
    <3>1. p.edits \subseteq Edits(T) /\ OneEach(p.edits)
      BY <2>1, PanelFacts, WiderPanels
    <3>2. x \in Ids \X Phrases \X Nat /\ x[1] = id /\ x[2] = text /\ x[3] = rid
      BY <2>1
    <3> HIDE DEF x
    <3>3. x \in Edits(T)
      BY <2>1, <3>2 DEF Edits
    <3>4. OneEach({e \in p.edits : e[1] # id} \cup {x})
      BY <3>1, <3>2 DEF OneEach
    <3> QED
      BY <3>1, <3>3, <3>4 DEF x
  <2>3. p \in Panels(T)
    BY <2>1, WiderPanels
  <2> HIDE DEF T, ms, edits, base, rid
  <2>4. q \in Panels(T)
    <3>1. NoId \in Ids
      BY Blanks
    <3>2. [p EXCEPT !.editing = NoId, !.messages = ms] \in Panels(T)
      BY <2>1, <2>3, <3>1 DEF Panels
    <3>3. q = [[p EXCEPT !.editing = NoId, !.messages = ms] EXCEPT !.edits = edits]
      BY <2>3 DEF Panels
    <3> QED
      BY <2>2, <3>2, <3>3, PanelEdits
  <2>5. HandlerOk(j, T, Len(session.owners))
    <3>1. DOMAIN j = JobFields
      BY DEF Job, JobFields
    <3>2. /\ j.n = made + 1 /\ j.text = text /\ j.rid = rid /\ j.key = id[1] /\ j.target = id
          /\ j.base = base /\ j.to = p.open /\ j.token = session.token /\ j.again = FALSE
      BY DEF Job
    <3> HIDE DEF j
    <3>3. j.again \in BOOLEAN
      BY <3>2, Zenon
    <3>4. Vouched(j.rid, j.text, T) /\ id[1] \in Int /\ p.open \in Places /\ made + 1 \in Nat
          /\ session.token \in 0..Len(session.owners)
      BY <2>1, <3>2, PanelFacts DEF Ids, SessionOk
    <3> QED
      BY <2>1, <3>1, <3>2, <3>3, <3>4 DEF HandlerOk
  <2>6. HandlerOk(u, T, Len(session.owners))
    BY <2>5, PutOff
  <2> HIDE DEF j, u, q
  <2> QED
    BY <1>1, <1>2, <2>1, <2>3, <2>4, <2>5, <2>6, StartedKeeps
<1>4. CASE ~(LoggedIn \/ i # 0)
  BY <1>1, <1>2, <1>4
<1> QED
  BY <1>3, <1>4

----------------------------------------------------------------------------
(* The steps of the user                                                   *)

LEMMA UserKeepsIds ==
  ASSUME SessionOk(session), ChatInv, IdInv, UserInChat
  PROVE  IdInv'
<1>0. /\ panel \in Panels(sent) /\ recents \in Recents(sent) /\ threads \in Seq(Holds(Messages(sent)))
      /\ HandlersOk /\ Handled(jobs) /\ made \in Nat
  BY DEF IdInv, PanelOk, RecentsOk, ThreadsOk, HandlersOk, Handled, ChatInv
<1>1. ASSUME NEW text \in Texts, Submit(text) PROVE IdInv'
  BY <1>0, <1>1, SubmitOk DEF Submit, Phrases
<1>2. ASSUME NEW text \in Texts, SubmitEdited(text) PROVE IdInv'
  BY <1>0, <1>2, EditOk, PanelFacts DEF SubmitEdited, Phrases
<1>3. ASSUME NEW i \in DOMAIN panel.messages, Retry(i) PROVE IdInv'
  <2> DEFINE m == panel.messages[i]
             r == [key |-> m.key, text |-> m.text, rid |-> m.rid, thread |-> panel.open]
             p == [panel EXCEPT !.composer = m.text, !.retry = r]
  <2>1. /\ UNCHANGED <<session, recents, threads>>
        /\ \/ panel' = p /\ UNCHANGED <<jobs, made, sent>>
           \/ EditOn(p, m.target, m.text, TRUE)
           \/ SubmitOn(p, m.text, TRUE)
    BY <1>3, Zenon DEF Retry
  <2>2. m \in Messages(sent) /\ panel.open \in Places
    BY <1>0, PanelFacts
  <2> HIDE DEF m
  <2>3. /\ m.key \in Int /\ m.text \in Phrases /\ m.rid \in Nat /\ m.target \in Ids
        /\ Vouched(m.rid, m.text, sent)
    BY <2>2, MessageFacts
  <2>4. r \in Retries(sent)
    BY <2>2, <2>3 DEF Retries
  <2> HIDE DEF r
  <2>5. p \in Panels(sent)
    BY <1>0, <2>3, <2>4 DEF Panels
  <2> HIDE DEF p
  <2>6. CASE panel' = p /\ UNCHANGED <<jobs, made, sent>>
    BY <2>1, <2>5, <2>6 DEF IdInv, PanelOk, RecentsOk, ThreadsOk, HandlersOk
  <2> QED
    BY <1>0, <2>1, <2>3, <2>5, <2>6, EditOk, SubmitOk
<1>4. ASSUME NEW i \in DOMAIN panel.messages, RefreshConflict(i) PROVE IdInv'
  <2> DEFINE m == panel.messages[i]
             kind == IF panel.open # None THEN "thread" ELSE "list"
             j == [Job EXCEPT !.kind = kind, !.then = "refresh",
                     !.of = "refresh", !.text = m.text, !.rid = m.rid, !.key = m.key, !.target = m.target,
                     !.to = panel.open, !.token = session.token, !.again = m.again, !.resolves = TRUE]
  <2>1. jobs' = jobs \cup {j} /\ UNCHANGED <<session, panel, recents, threads, made, sent>>
    BY <1>4, Zenon DEF RefreshConflict
  <2>2. m \in Messages(sent) /\ panel.open \in Places /\ <<>> \in Seq(Messages(sent))
        /\ session.token \in 0..Len(session.owners)
    BY <1>0, PanelFacts DEF SessionOk
  <2> HIDE DEF m, kind
  <2>3. /\ m.key \in Int /\ m.text \in Phrases /\ m.rid \in Nat /\ m.target \in Ids /\ m.again \in BOOLEAN
        /\ Vouched(m.rid, m.text, sent)
    BY <2>2, MessageFacts
  <2>4. DOMAIN j = JobFields
    BY DEF Job, JobFields
  <2>5. /\ j.n = 0 /\ j.text = m.text /\ j.rid = m.rid /\ j.key = m.key /\ j.target = m.target
        /\ j.base = <<>> /\ j.to = panel.open /\ j.token = session.token /\ j.again = m.again
    BY DEF Job
  <2> HIDE DEF j
  <2>6. HandlerOk(j, sent, Len(session.owners))
    BY <2>2, <2>3, <2>4, <2>5 DEF HandlerOk
  <2>7. Handled(jobs')
    BY <1>0, <2>1, <2>6 DEF Handled
  <2> QED
    BY <1>0, <2>1, <2>7, QuietKeeps DEF Quiet, Shown
<1>5. ASSUME NEW i \in DOMAIN RecentThreads, DeleteRecent(i) PROVE IdInv'
  <2> DEFINE id == RecentThreads[i].id
             j == [Job EXCEPT !.kind = "delete", !.of = "delete", !.to = id, !.token = session.token]
  <2>1. /\ UNCHANGED <<session, threads, made, sent>>
        /\ \/ jobs' = jobs \cup {j} /\ UNCHANGED <<panel, recents>>
           \/ /\ recents' = [recents EXCEPT !.local = WithoutId(recents.local, id)]
              /\ panel' = Left(panel, id) /\ UNCHANGED jobs
    BY <1>5, Zenon DEF DeleteRecent, Moves
  <2>2. RecentThreads \in Seq(Talks(Messages(sent)))
    BY <1>0, RecentEdits DEF RecentThreads
  <2>3. id \in Places
    <3>1. RecentThreads[i] \in Talks(Messages(sent))
      BY <2>2
    <3> QED
      BY <3>1 DEF Talks
  <2> HIDE DEF id
  <2>4. DOMAIN j = JobFields
    BY DEF Job, JobFields
  <2>5. /\ j.n = 0 /\ j.text = NoText /\ j.rid = 0 /\ j.key = 0 /\ j.target = NoId
        /\ j.base = <<>> /\ j.to = id /\ j.token = session.token /\ j.again = FALSE
    BY DEF Job
  <2> HIDE DEF j
  <2>6. j.again \in BOOLEAN
    BY <2>5, Zenon
  <2>7. NoText \in Phrases /\ NoId \in Ids /\ <<>> \in Seq(Messages(sent)) /\ Vouched(0, NoText, sent)
        /\ session.token \in 0..Len(session.owners)
    BY Blanks DEF Vouched, SessionOk
  <2>8. HandlerOk(j, sent, Len(session.owners))
    BY <2>3, <2>4, <2>5, <2>6, <2>7 DEF HandlerOk
  <2>9. CASE jobs' = jobs \cup {j} /\ UNCHANGED <<panel, recents>>
    <3>1. Handled(jobs')
      BY <1>0, <2>8, <2>9 DEF Handled
    <3> QED
      BY <1>0, <2>1, <2>9, <3>1, QuietKeeps DEF Quiet, Shown
  <2>10. CASE /\ recents' = [recents EXCEPT !.local = WithoutId(recents.local, id)]
              /\ panel' = Left(panel, id) /\ UNCHANGED jobs
    <3>1. WithoutId(recents.local, id) \in Seq(Talks(Messages(sent)))
      BY <1>0, RecentEdits, UpsertOf
    <3>2. recents' \in Recents(sent) /\ panel' \in Panels(sent)
      BY <1>0, <2>10, <3>1, RecentEdits, LeftPanel
    <3> QED
      BY <1>0, <2>1, <2>10, <3>2, QuietKeeps DEF Quiet, Shown
  <2> QED
    BY <2>1, <2>9, <2>10
<1>6. ASSUME panel' \in Panels(sent), UNCHANGED <<session, jobs, recents, threads, made, sent>> PROVE IdInv'
  BY <1>0, <1>6, QuietKeeps DEF Quiet, Shown
<1>7. ASSUME Cancel PROVE IdInv'
  <2>1. PICK j \in jobs : panel' = [With(panel, Say("stop", -2 * j.n - 1, j.text, 0)) EXCEPT !.composer = j.text]
    BY <1>7 DEF Cancel
  <2>2. HandlerOk(j, sent, Len(session.owners)) /\ j.text \in Phrases
    BY <1>0 DEF HandlersOk, HandlerOk
  <2>3. panel' \in Panels(sent)
    BY <1>0, <2>1, <2>2, HandlerSays, WithPanel, PanelEdits
  <2> QED
    BY <1>6, <1>7, <2>3 DEF Cancel
<1>8. ASSUME LogOut PROVE IdInv'
  <2>1. session'.owners = session.owners
    BY <1>8 DEF LogOut, SignedOut, SessionOk
  <2>2. Handled(jobs')
    BY <1>0, <1>8 DEF LogOut, Running, Handled
  <2> QED
    BY <1>0, <1>8, <2>1, <2>2, RecentEdits, QuietKeeps DEF Quiet, Shown, LogOut, Moves
<1>9. ASSUME NEW i \in DOMAIN panel.messages, StartEdit(i) \/ ContinueInNewChat(i) PROVE IdInv'
  <2>1. Id(panel.messages[i]) \in Ids /\ panel.messages[i].text \in Phrases
    BY <1>0, PanelFacts, MessageFacts
  <2>2. panel' \in Panels(sent)
    <3>1. \/ panel' = [panel EXCEPT !.editing = Id(panel.messages[i])]
          \/ panel' = NewChatOn(panel, panel.messages[i].text)
      BY <1>9 DEF StartEdit, ContinueInNewChat
    <3>2. CASE panel' = [panel EXCEPT !.editing = Id(panel.messages[i])]
      BY <1>0, <2>1, <3>2, PanelEdits
    <3>3. CASE panel' = NewChatOn(panel, panel.messages[i].text)
      BY <1>0, <2>1, <3>3, LeftPanel
    <3> QED
      BY <3>1, <3>2, <3>3
  <2> QED
    BY <1>6, <1>9, <2>2 DEF StartEdit, ContinueInNewChat, Moves
<1>10. ASSUME NEW text \in Texts, OpenPrompt(text) PROVE IdInv'
  <2>1. <<>> \in Seq(Messages(sent)) /\ None \in Places /\ text \in Phrases
    BY Blanks DEF Phrases
  <2>2. panel' = [panel EXCEPT !.open = None, !.composer = text, !.messages = <<>>]
    BY <1>10 DEF OpenPrompt
  <2>3. panel' \in Panels(sent)
    BY <1>0, <2>1, <2>2 DEF Panels
  <2> QED
    BY <1>6, <1>10, <2>3 DEF OpenPrompt, Moves
<1>11. ASSUME NEW i \in DOMAIN RecentThreads, OpenRecent(i) PROVE IdInv'
  <2>1. RecentThreads \in Seq(Talks(Messages(sent)))
    BY <1>0, RecentEdits DEF RecentThreads
  <2>2. RecentThreads[i].id \in Places /\ RecentThreads[i].messages \in Seq(Messages(sent))
    <3>1. RecentThreads[i] \in Talks(Messages(sent))
      BY <2>1
    <3> QED
      BY <3>1 DEF Talks
  <2>3. panel' \in Panels(sent)
    BY <1>0, <1>11, <2>2 DEF OpenRecent, Panels
  <2> QED
    BY <1>6, <1>11, <2>3 DEF OpenRecent, Moves
<1>12. ASSUME NewChat PROVE IdInv'
  <2>1. panel' \in Panels(sent)
    BY <1>0, <1>12, Blanks, LeftPanel DEF NewChat
  <2> QED
    BY <1>6, <1>12, <2>1 DEF NewChat, Moves
<1> QED
  BY <1>1, <1>2, <1>3, <1>4, <1>5, <1>7, <1>8, <1>9, <1>10, <1>11, <1>12, Zenon DEF UserInChat

----------------------------------------------------------------------------
(* The answers                                                             *)

LEMMA HydratingOk ==
  ASSUME NEW S, NEW k \in Nat, NEW t \in 0..k
  PROVE  HandlerOk(Hydrating(t), S, k)
<1> DEFINE j == Hydrating(t)
<1>1. DOMAIN j = JobFields
  BY DEF Hydrating, Job, JobFields
<1>2. /\ j.n = 0 /\ j.text = NoText /\ j.rid = 0 /\ j.key = 0 /\ j.target = NoId
      /\ j.base = <<>> /\ j.to = None /\ j.token = t /\ j.again = FALSE
  BY DEF Hydrating, Job
<1> HIDE DEF j
<1>3. j.again \in BOOLEAN
  BY <1>2, Zenon
<1>4. NoText \in Phrases /\ NoId \in Ids /\ None \in Places /\ <<>> \in Seq(Messages(S)) /\ Vouched(0, NoText, S)
  BY Blanks DEF Vouched
<1>5. HandlerOk(j, S, k)
  BY <1>1, <1>2, <1>3, <1>4 DEF HandlerOk
<1> QED
  BY <1>5 DEF j

LEMMA SameOwners ==
  ASSUME SessionOk(session)
  PROVE  /\ Expired.owners = session.owners
         /\ [SignedOut EXCEPT !.mode = ""].owners = session.owners
         /\ \A m : [session EXCEPT !.mode = m].owners = session.owners
<1>1. DOMAIN session = {"token", "stored", "owners", "mode"}
  BY DEF SessionOk
<1>2. PICK o : o = SignedOut
  OBVIOUS
<1>3. DOMAIN o = {"token", "stored", "owners", "mode"} /\ o.owners = session.owners
  BY <1>1, <1>2 DEF SignedOut
<1>4. /\ \A m : [o EXCEPT !.mode = m].owners = session.owners
      /\ \A m : [session EXCEPT !.mode = m].owners = session.owners
  BY <1>1, <1>3
<1> QED
  BY <1>2, <1>4, Zenon DEF Expired

LEMMA ReadingsKeepIds ==
  ASSUME SessionOk(session), ChatInv, IdInv
  PROVE  /\ LoadUuid => IdInv'
         /\ RestoreSession => IdInv'
         /\ \A j \in jobs : UuidKnown(j) => IdInv'
         /\ \A j \in jobs : \A how \in {"ok", "lost", "auth"} : HydrateAnswer(j, how) => IdInv'
<1>0. /\ panel \in Panels(sent) /\ recents \in Recents(sent) /\ threads \in Seq(Holds(Messages(sent)))
      /\ HandlersOk /\ Handled(jobs) /\ ThreadsOk
  BY DEF IdInv, PanelOk, RecentsOk, ThreadsOk, HandlersOk, Handled
<1>1. ASSUME LoadUuid PROVE IdInv'
  <2>1. panel' \in Panels(sent)
    BY <1>0, <1>1, PanelEdits DEF LoadUuid
  <2> QED
    BY <1>0, <1>1, <2>1, QuietKeeps DEF LoadUuid, Quiet, Shown
<1>2. ASSUME RestoreSession PROVE IdInv'
  <2>1. session'.owners = session.owners /\ Len(session.owners) \in Nat /\ session.stored \in 0..Len(session.owners)
    BY <1>2 DEF RestoreSession, SessionOk
  <2>2. Handled(jobs')
    BY <1>0, <1>2, <2>1, HydratingOk DEF RestoreSession, Running, Handled
  <2> QED
    BY <1>0, <1>2, <2>1, <2>2, QuietKeeps DEF RestoreSession, Quiet, Shown, Moves
<1>3. ASSUME NEW j \in jobs, UuidKnown(j) PROVE IdInv'
  <2> DEFINE composer == IF j.of = "edit" THEN panel.composer ELSE NoText
             editing == IF j.of = "edit" THEN NoId ELSE panel.editing
             p == [panel EXCEPT !.uuid = TRUE, !.messages = j.base, !.composer = composer, !.editing = editing]
  <2>1. panel' = p /\ jobs' = (jobs \ {j}) \cup {[j EXCEPT !.kind = "call"]}
        /\ UNCHANGED <<session, recents, threads, made, sent>>
    BY <1>3 DEF UuidKnown
  <2>2. composer \in Phrases /\ editing \in Ids /\ j.base \in Seq(Messages(sent))
    BY <1>0, Blanks, PanelFacts DEF HandlersOk, HandlerOk
  <2> HIDE DEF composer, editing
  <2>3. p \in Panels(sent)
    BY <1>0, <2>2 DEF Panels
  <2>4. HandlerOk([j EXCEPT !.kind = "call"], sent, Len(session.owners)) /\ Handled(jobs \ {j})
    BY <1>0, HandlersGo
  <2>5. Handled(jobs')
    BY <2>1, <2>4 DEF Handled
  <2> QED
    BY <1>0, <2>1, <2>3, <2>5, QuietKeeps DEF Quiet, Shown
<1>4. ASSUME NEW j \in jobs, NEW how \in {"ok", "lost", "auth"}, HydrateAnswer(j, how) PROVE IdInv'
  <2>1. /\ UNCHANGED <<panel, threads, made, sent>> /\ jobs' = jobs \ {j}
        /\ session' = session \/ session' = Expired
        /\ recents' \in {recents, [recents EXCEPT !.server = <<>>], [recents EXCEPT !.server = ReadAll(j.token)]}
    BY <1>4, Zenon DEF HydrateAnswer, SignsOut, MovesIfSignedOut
  <2>2. session'.owners = session.owners
    BY <2>1, SameOwners, Zenon
  <2>3. recents' \in Recents(sent)
    <3>1. /\ [recents EXCEPT !.server = <<>>] \in Recents(sent)
          /\ \A x \in Seq(Talks(Messages(sent))) : [recents EXCEPT !.server = x] \in Recents(sent)
      BY <1>0, RecentEdits, Zenon
    <3>2. ReadAll(j.token) \in Seq(Talks(Messages(sent)))
      BY <1>0, ReadAllTalks, Zenon
    <3> QED
      BY <1>0, <2>1, <3>1, <3>2, Zenon
  <2> QED
    BY <1>0, <2>1, <2>2, <2>3, HandlersGo, QuietKeeps DEF Quiet, Shown
<1> QED
  BY <1>1, <1>2, <1>3, <1>4

LEMMA AnswersKeepIds ==
  ASSUME SessionOk(session), ChatInv, IdInv, NEW j \in jobs,
         \/ Dropped(j)
         \/ \E how \in {"ok", "lost", "limit", "auth", "conflict"} : ImproveAnswer(j, how)
         \/ \E how \in {"ok", "lost", "auth"} :
              ThreadAnswer(j, how) \/ ListAnswer(j, how) \/ DeleteAnswer(j, how)
  PROVE  IdInv'
<1>0. /\ panel \in Panels(sent) /\ recents \in Recents(sent) /\ threads \in Seq(Holds(Messages(sent)))
      /\ HandlersOk /\ Handled(jobs) /\ ThreadsOk /\ HandlerOk(j, sent, Len(session.owners)) /\ j.to \in Places
      /\ Improved(j).after \in Seq(Holds(Messages(sent)))
  BY ImprovedOk DEF IdInv, PanelOk, RecentsOk, ThreadsOk, HandlersOk, Handled, HandlerOk
<1>1. session'.owners = session.owners
  BY AnswersGo, OwnersStay
<1>2. ASSUME Shown, UNCHANGED <<sent, made>>, threads' \in Seq(Holds(Messages(sent))) PROVE IdInv'
  BY <1>1, <1>2, QuietKeeps DEF Quiet
<1>3. CASE Dropped(j)
  <2>1. threads' \in {threads, Improved(j).after} /\ UNCHANGED <<sent, made, panel, recents>> /\ Ends(j)
    BY <1>3 DEF Dropped
  <2> QED
    BY <1>0, <1>2, <2>1, HandlersGo DEF Shown
<1>4. ASSUME NEW how, ImproveAnswer(j, how) PROVE IdInv'
  <2>1. /\ UNCHANGED <<sent, made>>
        /\ \/ Answered(j) /\ threads' = Improved(j).after
           \/ (\E why : Fails(j, why)) /\ threads' \in {threads, Improved(j).after}
    BY <1>4, Zenon DEF ImproveAnswer, Answered, MovesIfSignedOut
  <2>2. j.of \in {"submit", "edit"}
    BY <1>4 DEF ImproveAnswer, ChatInv, JobsOk
  <2>3. Shown
    BY <2>1, <2>2, AnsweredOk, FailsOk
  <2>4. threads' \in Seq(Holds(Messages(sent)))
    BY <1>0, <2>1
  <2> QED
    BY <1>2, <2>1, <2>3, <2>4
<1>5. ASSUME NEW how, ThreadAnswer(j, how) PROVE IdInv'
  <2> DEFINE p == [panel EXCEPT !.open = j.to, !.messages = Read(j.to).messages]
  <2>1. /\ UNCHANGED <<threads, sent, made>>
        /\ \/ ReadFails(j, how)
           \/ Goes(j, "list", j.then) /\ UNCHANGED <<panel, recents>>
           \/ /\ Owned(j.token, j.to) /\ panel' = GoesOn(j, p, TRUE) /\ Ends(j)
              /\ recents' = [recents EXCEPT !.server = Upsert(recents.server, Read(j.to))]
    BY <1>5, Zenon DEF ThreadAnswer, MovesIfSignedOut
  <2>2. CASE ReadFails(j, how)
    BY <1>0, <1>2, <2>1, <2>2, ReadFailsOk
  <2>3. CASE Goes(j, "list", j.then) /\ UNCHANGED <<panel, recents>>
    BY <1>0, <1>2, <2>1, <2>3, HandlersGo DEF Shown
  <2>4. CASE /\ Owned(j.token, j.to) /\ panel' = GoesOn(j, p, TRUE) /\ Ends(j)
             /\ recents' = [recents EXCEPT !.server = Upsert(recents.server, Read(j.to))]
    <3>1. Read(j.to) \in Talks(Messages(sent)) /\ Read(j.to).messages \in Seq(Messages(sent))
      BY <1>0, <2>4, ReadTalk
    <3>2. p \in Panels(sent)
      BY <1>0, <3>1 DEF Panels
    <3> HIDE DEF p
    <3>3. GoesOn(j, p, TRUE) \in Panels(sent)
      BY <1>0, <3>2, GoneOnPanel
    <3>4. Upsert(recents.server, Read(j.to)) \in Seq(Talks(Messages(sent)))
      BY <1>0, <3>1, RecentEdits, UpsertOf
    <3>5. Shown
      BY <1>0, <2>4, <3>3, <3>4, RecentEdits, HandlersGo DEF Shown
    <3> QED
      BY <1>0, <1>2, <2>1, <3>5
  <2> QED
    BY <2>1, <2>2, <2>3, <2>4
<1>6. ASSUME NEW how, ListAnswer(j, how) PROVE IdInv'
  <2> DEFINE all == IF j.token = 0 THEN <<>> ELSE ReadAll(j.token)
             at == {i \in DOMAIN all : all[i].id = j.to /\ j.then \notin {"missing", "deleted"}}
             p == IF at = {} THEN panel
                  ELSE [panel EXCEPT !.open = j.to, !.messages = Read(j.to).messages]
  <2>1. /\ UNCHANGED <<threads, sent, made>>
        /\ \/ ReadFails(j, how)
           \/ /\ panel' = GoesOn(j, p, at # {}) /\ Ends(j)
              /\ recents' \in {recents, [recents EXCEPT !.server = all]}
    BY <1>6, Zenon DEF ListAnswer, MovesIfSignedOut
  <2>2. CASE ReadFails(j, how)
    BY <1>0, <1>2, <2>1, <2>2, ReadFailsOk
  <2>3. CASE /\ panel' = GoesOn(j, p, at # {}) /\ Ends(j)
             /\ recents' \in {recents, [recents EXCEPT !.server = all]}
    <3>1. all \in Seq(Talks(Messages(sent))) /\ \A i \in DOMAIN all : Owned(j.token, all[i].id)
      <4>1. CASE j.token = 0
        <5>1. all = <<>>
          BY <4>1
        <5>2. \A S : <<>> \in Seq(S) /\ DOMAIN <<>> = {}
          OBVIOUS
        <5> QED
          BY <5>1, <5>2, Zenon
      <4>2. CASE j.token # 0
        BY <1>0, <4>2, ReadAllTalks
      <4> QED
        BY <4>1, <4>2
    <3> HIDE DEF all
    <3>2. ASSUME at # {} PROVE Owned(j.token, j.to)
      BY <3>1, <3>2
    <3> HIDE DEF at
    <3>3. p \in Panels(sent)
      <4>1. CASE at = {}
        BY <1>0, <4>1
      <4>2. CASE at # {}
        <5>1. Read(j.to).messages \in Seq(Messages(sent))
          BY <1>0, <3>2, <4>2, ReadTalk
        <5>2. [panel EXCEPT !.open = j.to, !.messages = Read(j.to).messages] \in Panels(sent)
          BY <1>0, <5>1 DEF Panels
        <5> QED
          BY <4>2, <5>2
      <4> QED
        BY <4>1, <4>2
    <3> HIDE DEF p
    <3>4. GoesOn(j, p, at # {}) \in Panels(sent)
      BY <1>0, <3>3, GoneOnPanel
    <3>5. recents' \in Recents(sent)
      BY <1>0, <2>3, <3>1, RecentEdits, Zenon
    <3>6. Handled(jobs')
      BY <1>0, <2>3, HandlersGo, Zenon
    <3>7. Shown
      BY <2>3, <3>4, <3>5, <3>6, Zenon DEF Shown
    <3> QED
      BY <1>0, <1>2, <2>1, <3>7
  <2> QED
    BY <2>1, <2>2, <2>3
<1>7. ASSUME NEW how \in {"ok", "lost", "auth"}, DeleteAnswer(j, how) PROVE IdInv'
  <2> DEFINE gone == [threads EXCEPT ![j.to[2]].live = FALSE]
  <2>1. /\ UNCHANGED <<sent, made>>
        /\ threads' = threads \/ (Owned(j.token, j.to) /\ threads' = gone)
        /\ \/ /\ recents' = [recents EXCEPT !.server = WithoutId(recents.server, j.to)]
              /\ panel' = Left(panel, j.to) /\ \E then : Goes(j, "list", then)
           \/ recents' = [recents EXCEPT !.server = <<>>] /\ Ends(j) /\ UNCHANGED panel
           \/ Ends(j) /\ UNCHANGED <<panel, recents>>
    BY <1>7, Zenon DEF DeleteAnswer, SignsOut
  <2>2. threads' \in Seq(Holds(Messages(sent)))
    <3>1. Owned(j.token, j.to) => gone \in Seq(Holds(Messages(sent)))
      BY <1>0, ThreadFacts DEF Owned
    <3> QED
      BY <1>0, <2>1, <3>1
  <2>3. WithoutId(recents.server, j.to) \in Seq(Talks(Messages(sent)))
    BY <1>0, RecentEdits, UpsertOf
  <2>4. Shown
    <3>1. recents' \in Recents(sent)
      <4>1. recents' \in {recents, [recents EXCEPT !.server = <<>>],
                            [recents EXCEPT !.server = WithoutId(recents.server, j.to)]}
        BY <2>1
      <4>2. /\ [recents EXCEPT !.server = <<>>] \in Recents(sent)
            /\ \A x \in Seq(Talks(Messages(sent))) : [recents EXCEPT !.server = x] \in Recents(sent)
        BY <1>0, RecentEdits, Zenon
      <4> QED
        BY <1>0, <2>3, <4>1, <4>2, Zenon
    <3>2. Handled(jobs')
      BY <1>0, <2>1, HandlersGo, Zenon
    <3>3. panel' \in Panels(sent)
      <4>1. panel' \in {panel, Left(panel, j.to)}
        BY <2>1
      <4>2. Left(panel, j.to) \in Panels(sent)
        BY <1>0, LeftPanel, Zenon
      <4> QED
        BY <1>0, <4>1, <4>2, Zenon
    <3> QED
      BY <3>1, <3>2, <3>3 DEF Shown
  <2> QED
    BY <1>2, <2>1, <2>2, <2>4
<1> QED
  BY <1>3, <1>4, <1>5, <1>6, <1>7

----------------------------------------------------------------------------
(* The session, and the theorem                                            *)

(* Nobody's login is forgotten.                                            *)
LEMMA AccountOwners ==
  ASSUME SessionOk(session), UserInAccount \/ AccountAnswers
  PROVE  session'.owners = session.owners \/ \E a : session'.owners = Append(session.owners, a)
<1>1. \/ session' \in {session, Expired, [SignedOut EXCEPT !.mode = ""]}
      \/ \E m : session' = [session EXCEPT !.mode = m]
      \/ \E a, t, m : session' = [token |-> t, stored |-> t, owners |-> Append(session.owners, a), mode |-> m]
  <2>1. CASE UserInAccount
    <3>1. UNCHANGED session \/ \E m : Mode(m)
      BY <2>1, Zenon DEF UserInAccount, OpenForm, MoveMode, CloseForm, TypeName, CheckName, SubmitForm, RefreshUsage,
         RetrySaved, Unsave, AskDelete, CloseConfirm
    <3> QED
      BY <3>1, Zenon DEF Mode
  <2>2. CASE AccountAnswers
    <3>1. \/ \E c, a : SignsIn(a, c)
          \/ session' \in {session, Expired, [SignedOut EXCEPT !.mode = ""]}
      BY <2>2, Zenon DEF AccountAnswers, CheckAnswer, LoginAnswer, SignupAnswer, FindAnswer, WithdrawAnswer,
         UsageAnswer, UnsaveAnswer, SavedAnswer, Refused
    <3>2. (\E c, a : SignsIn(a, c)) =>
            \E a, t, m : session' = [token |-> t, stored |-> t, owners |-> Append(session.owners, a), mode |-> m]
      BY Zenon DEF SignsIn
    <3> QED
      BY <3>1, <3>2, Zenon
  <2> QED
    BY <2>1, <2>2
<1>2. CASE session' \in {session, Expired, [SignedOut EXCEPT !.mode = ""]}
  BY <1>2, SameOwners, Zenon
<1>3. CASE \E m : session' = [session EXCEPT !.mode = m]
  BY <1>3, SameOwners, Zenon
<1>4. CASE \E a, t, m : session' = [token |-> t, stored |-> t, owners |-> Append(session.owners, a), mode |-> m]
  <2>1. \A t, o, m : [token |-> t, stored |-> t, owners |-> o, mode |-> m].owners = o
    OBVIOUS
  <2>2. PICK a, t, m : session' = [token |-> t, stored |-> t, owners |-> Append(session.owners, a), mode |-> m]
    BY <1>4
  <2>3. session'.owners = Append(session.owners, a)
    BY <2>2
  <2> QED
    BY <2>3
<1> QED
  BY <1>1, <1>2, <1>3, <1>4, Zenon

LEMMA FollowingKeepsIds ==
  ASSUME SessionOk(session), SessionOk(session)', IdInv, UserInAccount \/ AccountAnswers
  PROVE  IdInv'
<1>1. ChatFollows
  BY Zenon DEF UserInAccount, AccountAnswers, InAccount
<1>2. UNCHANGED <<panel, threads, made, sent>>
      /\ recents' \in {recents, [recents EXCEPT !.server = <<>>]}
      /\ \/ jobs' = jobs
         \/ jobs' = Running(jobs) \cup {}
         \/ jobs' = Running(jobs) \cup {Hydrating(session'.token)}
  BY <1>1, Zenon DEF ChatFollows, Moves
<1>3. Grows
  <2>1. session.owners \in Seq(Typed) /\ Len(session.owners) \in Nat /\ Len(session'.owners) \in Nat
    BY DEF SessionOk
  <2>2. \A a : Len(Append(session.owners, a)) = Len(session.owners) + 1
    BY <2>1
  <2>3. Len(session.owners) <= Len(session'.owners)
    BY <2>1, <2>2, AccountOwners
  <2> QED
    BY <1>2, <2>1, <2>3 DEF Grows
<1>4. HandlerOk(Hydrating(session'.token), sent, Len(session'.owners))
  <2>1. session'.token \in 0..Len(session'.owners) /\ Len(session'.owners) \in Nat
    BY DEF SessionOk
  <2> QED
    BY <2>1, HydratingOk
<1>5. \A j \in jobs : HandlerOk(j, sent, Len(session'.owners))
  BY <1>2, <1>3, GrowingKeeps
<1>6. \A j \in jobs' : HandlerOk(j, sent, Len(session'.owners))
  BY <1>2, <1>4, <1>5 DEF Running
<1>7. recents' \in Recents(sent)
  BY <1>2, RecentEdits DEF IdInv, RecentsOk
<1> QED
  BY <1>2, <1>6, <1>7 DEF IdInv, PanelOk, RecentsOk, ThreadsOk, HandlersOk

LEMMA ReopenKeepsIds ==
  ASSUME SessionOk(session), IdInv, Reopen
  PROVE  IdInv'
<1>1. /\ panel' = BlankPanel /\ jobs' = {} /\ UNCHANGED <<made, sent>>
      /\ session' = [session EXCEPT !.token = 0, !.mode = ""]
      /\ recents' = [recents EXCEPT !.server = <<>>]
      /\ threads' = threads \/ \E j \in jobs : threads' = Improved(j).after
  BY Zenon DEF Reopen, Moves
<1>2. session'.owners = session.owners
  BY <1>1 DEF SessionOk
<1>3. threads' \in Seq(Holds(Messages(sent)))
  BY <1>1, ImprovedOk DEF IdInv, ThreadsOk
<1>4. Shown
  BY <1>1, Blanks, RecentEdits DEF Shown, Handled, IdInv, RecentsOk
<1> QED
  BY <1>1, <1>2, <1>3, <1>4, QuietKeeps DEF Quiet

LEMMA IdsBegin ==
  ASSUME Init
  PROVE  IdInv
<1>1. /\ panel = BlankPanel /\ jobs = {} /\ recents = [local |-> <<>>, server |-> <<>>]
      /\ threads = <<>> /\ made = 0 /\ sent = {}
  BY DEF Init, PanelInit
<1>2. SentOk({}, 0)
  BY DEF SentOk
<1>3. [local |-> <<>>, server |-> <<>>] \in Recents({})
  <2>1. \A S : <<>> \in Seq(S)
    OBVIOUS
  <2>2. <<>> \in Seq(Talks(Messages({})))
    BY <2>1, Zenon
  <2> QED
    BY <2>2 DEF Recents
<1>4. <<>> \in Seq(Holds(Messages({})))
  OBVIOUS
<1>5. PanelOk
  BY <1>1, Blanks DEF PanelOk
<1> QED
  BY <1>1, <1>2, <1>3, <1>4, <1>5 DEF IdInv, RecentsOk, ThreadsOk, HandlersOk

LEMMA IdsStay ==
  ASSUME PanelInv, PanelInv', IdInv, [Next]_vars
  PROVE  IdInv'
<1>0. SessionOk(session) /\ SessionOk(session)' /\ ChatInv
  BY DEF PanelInv, AccountInv
<1>1. CASE UserOnPage \/ Worker \/ UNCHANGED vars
  <2>1. UNCHANGED panelVars
    BY <1>1, Zenon DEF UserOnPage, Worker, OnPage, vars
  <2> QED
    BY <2>1 DEF panelVars, IdInv, PanelOk, RecentsOk, ThreadsOk, HandlersOk
<1>2. CASE UserInChat
  BY <1>0, <1>2, UserKeepsIds
<1>3. CASE Answers
  <2>1. \/ LoadUuid \/ RestoreSession
        \/ \E j \in jobs : UuidKnown(j)
        \/ \E j \in jobs : \E how \in {"ok", "lost", "auth"} : HydrateAnswer(j, how)
        \/ \E j \in jobs :
             \/ Dropped(j)
             \/ \E how \in {"ok", "lost", "limit", "auth", "conflict"} : ImproveAnswer(j, how)
             \/ \E how \in {"ok", "lost", "auth"} :
                  ThreadAnswer(j, how) \/ ListAnswer(j, how) \/ DeleteAnswer(j, how)
    BY <1>3, Zenon DEF Answers
  <2> QED
    BY <1>0, <2>1, ReadingsKeepIds, AnswersKeepIds
<1>4. CASE UserInAccount \/ AccountAnswers
  BY <1>0, <1>4, FollowingKeepsIds
<1>5. CASE Reopen
  BY <1>0, <1>5, ReopenKeepsIds
<1> QED
  BY <1>1, <1>2, <1>3, <1>4, <1>5 DEF Next, Panel

(* A request id the server has stored with a prompt never travels with     *)
(* another one, in any number of messages, conversations, retries, edits,  *)
(* logins and late answers: the server never earns a REQUEST_ID_REUSED.    *)
(* The id of a message a guest has edited is set apart.                    *)
THEOREM IdsKeepTheirPrompt == Spec => []IdKeepsPrompt
<1>1. IdInv => IdKeepsPrompt
  <2> SUFFICES ASSUME IdInv, NEW j \in jobs, NEW n \in DOMAIN threads, j.rid # 0, <<j.rid, NoText>> \notin sent,
                      NEW i \in DOMAIN threads[n].messages, threads[n].messages[i].rid = j.rid
               PROVE  threads[n].messages[i].text = j.text
    BY DEF IdKeepsPrompt
  <2> DEFINE m == threads[n].messages[i]
  <2>1. threads[n].messages \in Seq(Messages(sent))
    BY ThreadFacts DEF IdInv, ThreadsOk
  <2>2. m \in Messages(sent)
    BY <2>1
  <2> HIDE DEF m
  <2>3. Vouched(m.rid, m.text, sent) /\ m.rid = j.rid
    BY <2>2, MessageFacts DEF m
  <2>4. <<j.rid, m.text>> \in sent /\ <<j.rid, j.text>> \in sent
    BY <2>3 DEF IdInv, HandlersOk, HandlerOk, Vouched
  <2>5. \A d, e \in sent : d[1] = e[1] /\ <<d[1], NoText>> \notin sent => d[2] = e[2]
    BY DEF IdInv, SentOk
  <2>6. \A x, y : <<x, y>>[1] = x /\ <<x, y>>[2] = y
    OBVIOUS
  <2>7. m.text = j.text
    BY <2>4, <2>5, <2>6, Zenon
  <2> QED
    BY <2>7 DEF m
<1>2. PanelInv /\ PanelInv' /\ IdInv /\ [Next]_vars => IdInv'
  BY IdsStay
<1>3. Init => IdInv
  BY IdsBegin
<1> QED
  BY <1>1, <1>2, <1>3, PanelHolds, PTL DEF Spec

=============================================================================
