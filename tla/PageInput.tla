------------------------------ MODULE PageInput ------------------------------
(***************************************************************************)
(* The prompt input of an AI page (ChatGPT, Gemini, Claude) and the parts  *)
(* of the extension that write into it: the service worker, which executes *)
(* a prompt of the side panel (EXECUTE_PROMPT of public/background.js),    *)
(* and the content script with its inline improvement                      *)
(* (public/inline-improve.js).                                             *)
(*                                                                         *)
(* The user types, sends, edits and navigates while either is under way.   *)
(* Every call of the browser the worker awaits is a step of its own and    *)
(* meets the page as it is then.  Texts are compared up to white space, as *)
(* includesPrompt does, so flattening a prompt for Gemini leaves it as it  *)
(* is; what stands in the input is the sequence of texts put there.        *)
(***************************************************************************)
EXTENDS Integers, Sequences

CONSTANTS
  Prompts,      \* prompts, typed or improved
  MaxRuns,      \* bound on the prompts executed
  MaxFields     \* bound on the inputs the page renders, one after another

ASSUME PageAssumption == MaxRuns \in Nat /\ MaxFields \in Nat

VARIABLES
  site,      \* kind of page in the tab ("gone" when it is closed)
  field,     \* the input rendered now, 0 for none
  input,     \* what stands in it
  fields,    \* inputs rendered so far
  attached,  \* the extension's debugger is attached to the tab
  run,       \* the handlers of EXECUTE_PROMPT
  inline,    \* the content script
  draft      \* history: what the user last typed and still wants there

workerVars == <<attached, run>>
pageVars == <<site, field, input, fields, attached, run, inline, draft>>

Runs == 1..MaxRuns
Part == "part"       \* what an editor took of a text it was given
Sites == {"chatgpt", "gemini", "claude", "other"}
AiSites == {"chatgpt", "gemini", "claude"}     \* host_permissions, isSupportedAiPage

NoRun == [at |-> "idle", text |-> "", kind |-> "other"]
NoSnapshot == [source |-> 0, original |-> <<>>, improved |-> "", applied |-> FALSE, open |-> FALSE]
Script == [on |-> FALSE, known |-> 0, asks |-> 0, of |-> <<>>, snapshot |-> NoSnapshot]

PageInit ==
  /\ site \in Sites
  /\ field \in {0, 1} /\ field <= MaxFields /\ fields = field
  /\ input = <<>>
  /\ attached = FALSE
  /\ run = [r \in Runs |-> NoRun]
  /\ inline \in {Script, [Script EXCEPT !.on = TRUE]}
  /\ draft = <<>>

HoldsPrompt(text) == \E i \in DOMAIN input : input[i] = text   \* includesPrompt

----------------------------------------------------------------------------
(* The user on the page *)

(* The page empties its input, or shows another one, or none.              *)
Render(new) ==
  /\ field' = new
  /\ fields' = IF new > fields THEN new ELSE fields
  /\ input' = <<>> /\ draft' = <<>>
Rendered == {0} \cup (IF fields < MaxFields THEN {fields + 1} ELSE {})

TypeInPage(text) ==
  /\ site \in AiSites /\ field # 0
  /\ input' = <<text>> /\ draft' = input'
  /\ UNCHANGED <<site, field, fields, workerVars, inline>>

SendByHand ==
  /\ input # <<>>
  /\ input' = <<>> /\ draft' = <<>>
  /\ UNCHANGED <<site, field, fields, workerVars, inline>>

Rerender(new) ==
  /\ site \in AiSites /\ new \in Rendered
  /\ Render(new)
  /\ UNCHANGED <<site, workerVars, inline>>

(* Another page in the tab: a new document and a new content script, which *)
(* reads the setting again; the debugger stays attached to the tab.        *)
Navigate(to, new) ==
  /\ site # "gone" /\ new \in Rendered
  /\ site' = to
  /\ Render(new)
  /\ inline' = [Script EXCEPT !.on = inline.on]
  /\ UNCHANGED workerVars

CloseTab ==
  /\ site # "gone"
  /\ site' = "gone"
  /\ Render(0)
  /\ inline' = [Script EXCEPT !.on = inline.on]
  /\ attached' = FALSE
  /\ UNCHANGED run

(* The browser shows that a debugger is attached and lets the user stop it. *)
StopDebugger ==
  /\ attached
  /\ attached' = FALSE
  /\ UNCHANGED <<site, field, input, fields, run, inline, draft>>

----------------------------------------------------------------------------
(* EXECUTE_PROMPT *)

To(r, at) == run' = [run EXCEPT ![r].at = at]
Awaits(r, at) == r \in Runs /\ run[r].at = at

ExecutePrompt(r, text) ==
  /\ Awaits(r, "idle") /\ \A s \in 1..(r-1) : run[s].at # "idle"
  /\ run' = [run EXCEPT ![r] = [at |-> "find", text |-> text, kind |-> "other"]]
  /\ UNCHANGED <<site, field, input, fields, attached, inline, draft>>

(* findTargetTab("auto") and the checks before the first write; the kind   *)
(* of page is read once and used to the end.                               *)
FindTab(r) ==
  /\ Awaits(r, "find")
  /\ run' = [run EXCEPT ![r].kind = site,
                        ![r].at = IF site \in {"chatgpt", "gemini"} THEN "write" ELSE "failed"]
  /\ UNCHANGED <<site, field, input, fields, attached, inline, draft>>

(* A script runs in the tab only while an AI page is in it.                *)
Scripted == site \in AiSites

(* writePromptIntoPage: the input is replaced; an editor may refuse the    *)
(* text, keeping its own or losing it, or take a part of it.               *)
WritePrompt(r, ok) ==
  /\ Awaits(r, "write") /\ Scripted
  /\ ok => field # 0
  /\ input' \in IF ok THEN {<<run[r].text>>} ELSE {input, <<>>, <<Part>>}
  /\ draft' = IF input' = input THEN draft ELSE <<>>
  /\ To(r, IF ok THEN "submit" ELSE "focus")
  /\ UNCHANGED <<site, field, fields, attached, inline>>

(* A tab that cannot be updated, or a page no script may enter.            *)
ScriptFails(r) ==
  /\ \E at \in {"write", "focus", "verify"} : Awaits(r, at)
  /\ ~Scripted
  /\ To(r, "failed")
  /\ UNCHANGED <<site, field, input, fields, attached, inline, draft>>

FocusInput(r) ==
  /\ Awaits(r, "focus") /\ Scripted
  /\ To(r, IF field # 0 THEN "attach" ELSE "failed")
  /\ UNCHANGED <<site, field, input, fields, attached, inline, draft>>

(* insertTextWithDebugger: attach fails when a debugger is attached, and a *)
(* failed attach is not followed by a detach.                              *)
AttachDebugger(r) ==
  /\ Awaits(r, "attach")
  /\ \/ /\ run[r].kind \in {"chatgpt", "gemini"} /\ ~attached /\ site # "gone"
        /\ attached' = TRUE
        /\ To(r, "insert")
     \/ UNCHANGED attached /\ To(r, "failed")
  /\ UNCHANGED <<site, field, input, fields, inline, draft>>

(* Input.insertText types where the focus is, if the debugger is still     *)
(* attached, whoever attached it; the command may also fail.               *)
InsertText(r) ==
  /\ Awaits(r, "insert")
  /\ \/ /\ attached
        /\ input' \in {input} \cup (IF field = 0 THEN {} ELSE {Append(input, run[r].text)})
        /\ draft' = IF input' = input THEN draft ELSE <<>>
        /\ To(r, "detach")
     \/ UNCHANGED <<input, draft>> /\ To(r, "detach failed")
  /\ UNCHANGED <<site, field, fields, attached, inline>>

(* Faulty: the detach follows the command instead of standing in a finally. *)
DetachOnSuccess(r) ==
  /\ \E at \in {"detach", "detach failed"} : Awaits(r, at)
  /\ attached' = IF run[r].at = "detach" THEN FALSE ELSE attached
  /\ To(r, IF run[r].at = "detach" THEN "verify" ELSE "failed")
  /\ UNCHANGED <<site, field, input, fields, inline, draft>>

(* The finally block. *)
DetachDebugger(r) ==
  /\ \E at \in {"detach", "detach failed"} : Awaits(r, at)
  /\ attached' = FALSE
  /\ To(r, IF run[r].at = "detach" THEN "verify" ELSE "failed")
  /\ UNCHANGED <<site, field, input, fields, inline, draft>>

VerifyText(r) ==       \* pageHasPromptText
  /\ Awaits(r, "verify") /\ Scripted
  /\ To(r, IF field # 0 /\ HoldsPrompt(run[r].text) THEN "submit" ELSE "failed")
  /\ UNCHANGED <<site, field, input, fields, attached, inline, draft>>

(* submitPromptInPage: the page sends what its input holds, or nothing;    *)
(* nothing that goes wrong here is reported.                               *)
SubmitInPage(r) ==
  /\ Awaits(r, "submit")
  /\ \/ Scripted /\ input' = <<>> /\ draft' = <<>>
     \/ UNCHANGED <<input, draft>>
  /\ To(r, "ok")
  /\ UNCHANGED <<site, field, fields, attached, inline>>

----------------------------------------------------------------------------
(* Inline improvement *)

Dismissed(s) == [s EXCEPT !.snapshot = NoSnapshot]

(* toggle, on a change of the setting *)
ToggleInline ==
  /\ inline' = [Dismissed(inline) EXCEPT !.on = ~inline.on, !.known = IF inline.on THEN 0 ELSE @]
  /\ draft' = input
  /\ UNCHANGED <<site, field, input, fields, workerVars>>

(* refresh, at the animation frame after the page changed: another input   *)
(* puts the preview away.                                                  *)
RefreshInput ==
  /\ site \in AiSites /\ inline.on /\ inline.known # field
  /\ inline' = [Dismissed(inline) EXCEPT !.known = field]
  /\ UNCHANGED <<site, field, input, fields, workerVars, draft>>

(* The trigger; an empty input is not sent.  (In the frame before refresh  *)
(* it may read an input already gone: its reply is then dropped.)          *)
Trigger ==
  /\ site \in AiSites /\ inline.on /\ inline.asks = 0
  /\ inline.known # 0 /\ inline.known = field
  /\ inline' = IF input = <<>> THEN Dismissed(inline)
               ELSE [Dismissed(inline) EXCEPT !.asks = field, !.of = input]
  /\ draft' = input
  /\ UNCHANGED <<site, field, input, fields, workerVars>>

(* The worker's reply, "" for an error, a question or no change.           *)
InlineReply(improved) ==
  /\ inline.asks # 0
  /\ <<improved>> # inline.of
  /\ LET answered == [inline EXCEPT !.asks = 0, !.of = <<>>]
     IN  inline' = IF ~inline.on \/ inline.asks # field \/ inline.asks # inline.known
                   THEN answered
                   ELSE [answered EXCEPT !.snapshot =
                           [source |-> inline.asks, original |-> inline.of, improved |-> improved,
                            applied |-> FALSE, open |-> improved # "" /\ input = inline.of]]
  /\ UNCHANGED <<site, field, input, fields, workerVars, draft>>

(* writeValue reports whether the input then reads as the text: an input   *)
(* that is gone is left alone, an editor may lay the text out otherwise.   *)
WriteValue(text, ok) ==
  LET here == inline.snapshot.source = field
  IN  /\ ok => here
      /\ input' = IF here THEN <<text>> ELSE input

(* Faulty: the input is not read again before it is replaced. *)
ApplyUnread(ok) ==
  LET s == inline.snapshot
  IN  /\ s.source # 0 /\ ~s.applied /\ s.open
      /\ WriteValue(s.improved, ok)
      /\ inline' = [inline EXCEPT !.snapshot.applied = ok]
      /\ UNCHANGED <<site, field, fields, workerVars, draft>>

(* The apply button of the preview. *)
ApplyImproved(ok) ==
  LET s == inline.snapshot
  IN  /\ s.source # 0 /\ ~s.applied /\ s.open
      /\ IF input # s.original
         THEN inline' = [inline EXCEPT !.snapshot.open = FALSE] /\ UNCHANGED input
         ELSE /\ WriteValue(s.improved, ok)
              /\ inline' = [inline EXCEPT !.snapshot.applied = ok]
      /\ UNCHANGED <<site, field, fields, workerVars, draft>>

(* The restore button. *)
RestoreOriginal(ok) ==
  LET s == inline.snapshot
  IN  /\ s.source # 0 /\ s.applied
      /\ input = <<s.improved>>
      /\ s.source = field \/ ~ok
      /\ input' = IF s.source = field THEN s.original ELSE input
      /\ inline' = IF ok THEN [inline EXCEPT !.snapshot.applied = FALSE] ELSE inline
      /\ UNCHANGED <<site, field, fields, workerVars, draft>>

ClosePreview ==
  /\ inline.snapshot # NoSnapshot
  /\ inline' = Dismissed(inline)
  /\ draft' = input
  /\ UNCHANGED <<site, field, input, fields, workerVars>>

----------------------------------------------------------------------------

Steps == {"idle", "find", "write", "focus", "attach", "insert", "detach", "detach failed",
          "verify", "submit", "ok", "failed"}
Kinds == Sites \cup {"gone"}

Words == Prompts \cup {"", Part}
Snapshots == [source : Nat, original : Seq(Words), improved : Words, applied : BOOLEAN, open : BOOLEAN]

(* Where a handler of EXECUTE_PROMPT stands, and in what tab. *)
RunTypeOK ==
  /\ attached \in BOOLEAN
  /\ run \in [Runs -> [at : Steps, text : Words, kind : Kinds]]
  /\ site \in Kinds

(* The debugger is attached to the user's tab only between the attach of   *)
(* insertTextWithDebugger and its finally, however many prompts are        *)
(* executed at once and wherever one of them fails.                        *)
DebuggerReleased ==
  attached => \E r \in Runs : run[r].at \in {"insert", "detach", "detach failed"}

(* What the user typed and has not sent, replaced or dismissed is in the   *)
(* input, or the preview still holds it: a late reply, an apply or a       *)
(* restore never destroys what was typed in between.                       *)
DraftKept ==
  draft # <<>> => draft \in {input, inline.snapshot.original, <<inline.snapshot.improved>>}
=============================================================================
