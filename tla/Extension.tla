------------------------------ MODULE Extension ------------------------------
(***************************************************************************)
(* The browser extension: its side panel (PanelAccount) next to the AI page *)
(* with the service worker and the content script that write into it       *)
(* (PageInput).  The panel reaches the page when the user executes a reply *)
(* (performExecuteMessage) and when the user switches the inline           *)
(* improvement, whose setting the content script watches.                  *)
(***************************************************************************)
EXTENDS PageInput, PanelAccount

CONSTANT Budgets    \* bounds on what the user does in each part

ASSUME ExtensionAssumption ==
  /\ Texts \subseteq Prompts
  /\ Budgets \subseteq [{"page", "chat", "session", "form", "list"} -> Nat]

VARIABLE left       \* user actions still to come, by part

vars == <<pageVars, panelVars, accountVars, left>>

Init == PageInit /\ PanelInit /\ AccountInit /\ left \in Budgets

Gesture(s) == left[s] > 0 /\ left' = [left EXCEPT ![s] = @ - 1]
OnPage == UNCHANGED <<panelVars, accountVars>>
InPanel == UNCHANGED pageVars /\ AccountFollows
InAccount == ChatFollows /\ UNCHANGED pageVars
ByItself == UNCHANGED left

(* The execute button of a reply; its worker answers with a notice only.   *)
Execute(r, text) ==
  /\ \E i \in DOMAIN panel.messages :
       panel.messages[i].by = "reply" /\ panel.messages[i].text = text
  /\ ExecutePrompt(r, text)

UserOnPage ==
  \/ \E text \in Prompts : TypeInPage(text) /\ OnPage /\ Gesture("page")
  \/ SendByHand /\ OnPage /\ Gesture("page")
  \/ \E new \in Rendered : Rerender(new) /\ OnPage /\ Gesture("page")
  \/ \E to \in Sites, new \in Rendered : Navigate(to, new) /\ OnPage /\ Gesture("page")
  \/ CloseTab /\ OnPage /\ Gesture("page")
  \/ StopDebugger /\ OnPage /\ Gesture("page")
  \/ ToggleInline /\ OnPage /\ Gesture("page")
  \/ Trigger /\ OnPage /\ Gesture("page")
  \/ \E ok \in BOOLEAN : ApplyImproved(ok) /\ OnPage /\ ByItself
  \/ \E ok \in BOOLEAN : RestoreOriginal(ok) /\ OnPage /\ Gesture("page")
  \/ ClosePreview /\ OnPage /\ ByItself
  \/ \E r \in Runs, text \in Texts : Execute(r, text) /\ OnPage /\ Gesture("page")

Worker ==
  \/ \E r \in Runs : FindTab(r) /\ OnPage /\ ByItself
  \/ \E r \in Runs, ok \in BOOLEAN : WritePrompt(r, ok) /\ OnPage /\ ByItself
  \/ \E r \in Runs : ScriptFails(r) /\ OnPage /\ ByItself
  \/ \E r \in Runs : FocusInput(r) /\ OnPage /\ ByItself
  \/ \E r \in Runs : AttachDebugger(r) /\ OnPage /\ ByItself
  \/ \E r \in Runs : InsertText(r) /\ OnPage /\ ByItself
  \/ \E r \in Runs : DetachDebugger(r) /\ OnPage /\ ByItself
  \/ \E r \in Runs : VerifyText(r) /\ OnPage /\ ByItself
  \/ \E r \in Runs : SubmitInPage(r) /\ OnPage /\ ByItself
  \/ \E text \in Prompts \cup {""} : InlineReply(text) /\ OnPage /\ ByItself
  \/ RefreshInput /\ OnPage /\ ByItself

Answers ==
  \/ LoadUuid /\ InPanel /\ ByItself
  \/ RestoreSession /\ InPanel /\ ByItself
  \/ \E j \in jobs : UuidKnown(j) /\ InPanel /\ ByItself
  \/ \E j \in jobs : Dropped(j) /\ InPanel /\ ByItself
  \/ \E j \in jobs, how \in {"ok", "lost", "limit", "auth", "conflict"} :
       ImproveAnswer(j, how) /\ InPanel /\ ByItself
  \/ \E j \in jobs, how \in {"ok", "lost", "auth"} : ThreadAnswer(j, how) /\ InPanel /\ ByItself
  \/ \E j \in jobs, how \in {"ok", "lost", "auth"} : ListAnswer(j, how) /\ InPanel /\ ByItself
  \/ \E j \in jobs, how \in {"ok", "lost", "auth"} : DeleteAnswer(j, how) /\ InPanel /\ ByItself
  \/ \E j \in jobs, how \in {"ok", "lost", "auth"} : HydrateAnswer(j, how) /\ InPanel /\ ByItself

UserInChat ==
  \/ \E text \in Texts : Submit(text) /\ InPanel /\ Uncovered /\ Gesture("chat")
  \/ \E i \in DOMAIN panel.messages : StartEdit(i) /\ InPanel /\ Uncovered /\ ByItself
  \/ \E text \in Texts : SubmitEdited(text) /\ InPanel /\ Uncovered /\ Gesture("chat")
  \/ \E i \in DOMAIN panel.messages : Retry(i) /\ InPanel /\ Uncovered /\ Gesture("chat")
  \/ \E i \in DOMAIN panel.messages : RefreshConflict(i) /\ InPanel /\ Uncovered /\ Gesture("chat")
  \/ \E i \in DOMAIN panel.messages : ContinueInNewChat(i) /\ InPanel /\ Uncovered /\ ByItself
  \/ Cancel /\ InPanel /\ Uncovered /\ Gesture("chat")
  \/ \E text \in Texts : OpenPrompt(text) /\ InPanel /\ Uncovered /\ Gesture("chat")
  \/ \E i \in DOMAIN RecentThreads : OpenRecent(i) /\ InPanel /\ Uncovered /\ Gesture("chat")
  \/ \E i \in DOMAIN RecentThreads : DeleteRecent(i) /\ InPanel /\ Uncovered /\ Gesture("chat")
  \/ NewChat /\ InPanel /\ Uncovered /\ Gesture("chat")
  \/ LogOut /\ InPanel /\ Uncovered /\ Gesture("session")

UserInAccount ==
  \/ \E m \in {"login", "withdraw"} : OpenForm(m) /\ InAccount /\ ByItself /\ left["form"] + left["session"] > 0
  \/ \E m \in {"login", "signup", "find", "withdraw"} : MoveMode(m) /\ InAccount /\ ByItself /\ left["form"] > 0
  \/ CloseForm /\ InAccount /\ ByItself
  \/ \E f \in Fields, v \in Names : TypeName(f, v) /\ InAccount /\ ByItself /\ left["form"] + left["session"] > 0
  \/ \E f \in Fields : CheckName(f) /\ InAccount /\ Gesture("form")
  \/ SubmitForm("login") /\ InAccount /\ Gesture("session")
  \/ \E m \in {"signup", "find", "withdraw"} : SubmitForm(m) /\ InAccount /\ Gesture("form")
  \/ \E silent \in BOOLEAN : RefreshUsage(silent) /\ InAccount /\ Gesture("list")
  \/ RetrySaved /\ InAccount /\ Gesture("list")
  \/ \E p \in Posts : Unsave(p) /\ InAccount /\ Gesture("list")
  \/ \E p \in Posts : AskDelete(p) /\ InAccount /\ Gesture("list")
  \/ \E sure \in BOOLEAN : CloseConfirm(sure) /\ InAccount /\ ByItself

AccountAnswers ==
  \/ \E c \in side.calls, how \in {"ok", "lost"} : CheckAnswer(c, how) /\ InAccount /\ ByItself
  \/ \E c \in side.calls, how \in {"ok", "lost"} : LoginAnswer(c, how) /\ InAccount /\ ByItself
  \/ \E c \in side.calls, how \in {"ok", "lost"} : SignupAnswer(c, how) /\ InAccount /\ ByItself
  \/ \E c \in side.calls : FindAnswer(c) /\ InAccount /\ ByItself
  \/ \E c \in side.calls, how \in {"ok", "lost"} : WithdrawAnswer(c, how) /\ InAccount /\ ByItself
  \/ \E c \in side.calls, how \in {"ok", "lost", "auth"} : UsageAnswer(c, how) /\ InAccount /\ ByItself
  \/ \E c \in side.calls, how \in {"ok", "lost", "auth"} : UnsaveAnswer(c, how) /\ InAccount /\ ByItself
  \/ \E c \in side.calls, how \in {"ok", "lost", "auth"} : SavedAnswer(c, how) /\ InAccount /\ ByItself

Panel ==
  \/ UserInChat
  \/ Answers
  \/ UserInAccount
  \/ AccountAnswers
  \/ Reopen /\ AccountReopens /\ UNCHANGED pageVars /\ Gesture("session")

Next == UserOnPage \/ Worker \/ Panel

Spec == Init /\ [][Next]_vars
=============================================================================
