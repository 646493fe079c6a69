------------------------------- MODULE WebPage -------------------------------
(***************************************************************************)
(* The web page: the session, the billing screen, the Make screen, the     *)
(* home list and my page, each handling its own answers, with the things   *)
(* that reach across them: a login or logout touches every screen, a call  *)
(* that one screen finds unauthorised closes the session of the others     *)
(* (handleBackendAccessError is shared), and going to my page asks for the *)
(* usage summary.                                                          *)
(***************************************************************************)
EXTENDS WebBilling, WebFolders, WebAdmin, WebTalk

vars == <<sessionVars, billingVars, chatVars, folderVars, homeVars, libraryVars, adminVars, talkVars>>

Init == SessionInit /\ BillingInit /\ ChatInit /\ FoldersInit /\ HomeInit /\ LibraryInit /\ AdminInit /\ TalkInit

(* What the other screens make of a step of this one. *)
ListsStay == UNCHANGED <<homeVars, libraryVars, adminVars, talkVars>>
ListsAndBillingStay == UNCHANGED billingVars /\ ListsStay
ListsFollow == IF token' = token THEN ListsStay ELSE LibrarySignOut /\ AdminSignOut /\ TalkSignOut
AdminFollows == IF token' = token THEN UNCHANGED <<adminVars, talkVars>> ELSE AdminSignOut /\ TalkSignOut
LibraryFollows == IF token' = token THEN UNCHANGED <<homeVars, libraryVars, talkVars>>
                  ELSE LibrarySignOut /\ TalkSignOut
ChatFollows == IF token' = token THEN UNCHANGED <<chatVars, folderVars>> ELSE ChatExpired /\ FoldersSignOut
FoldersFollow(heard) == IF token' = token THEN FoldersHear(heard) ELSE FoldersSignOut
BillingFollows == IF token' = token THEN UNCHANGED billingVars ELSE BillingSignOut
BillingAlone == UNCHANGED <<chatVars, folderVars>> /\ ListsStay
ChatAlone == FoldersHear({}) /\ ListsAndBillingStay
FoldersAlone == UNCHANGED chatVars /\ ListsAndBillingStay
HomeAlone == UNCHANGED <<billingVars, chatVars, folderVars, libraryVars, adminVars>>
AtHomeAlone == ~console.mode /\ HomeAlone
LibraryAlone == UNCHANGED <<billingVars, chatVars, folderVars, adminVars>>
AdminAlone == UNCHANGED <<billingVars, chatVars, folderVars, homeVars, libraryVars, talkVars>>
TalkAlone == UNCHANGED <<billingVars, chatVars, folderVars, homeVars, shelf, adminVars>>

Login(a) ==
  /\ Gesture(IF a \in Staff THEN "admin" ELSE "session") /\ ~LoggedIn
  /\ SignIn(a) /\ BillingSignIn /\ ChatSignIn /\ FoldersHear({}) /\ LibrarySignIn(a) /\ AdminSignIn(a)
  /\ UNCHANGED talkVars

Logout ==
  /\ Gesture("session") /\ LoggedIn
  /\ SignOut /\ BillingSignOut /\ ChatSignOut /\ FoldersSignOut /\ LibrarySignOut /\ AdminSignOut /\ TalkSignOut

LoadAgain ==
  /\ Gesture("session")
  /\ SessionStays /\ BillingUnload /\ ChatUnload /\ FoldersUnload /\ HomeUnload /\ LibraryUnload /\ AdminUnload /\ TalkUnload

VisitLibrary ==
  /\ Visit
  /\ IF MaySummarize(TRUE) THEN Summarize ELSE UNCHANGED billingVars
  /\ UNCHANGED <<chatVars, folderVars, adminVars, talkVars>>

(* The buttons of a prompt: each can be edited and sent again as it is; one *)
(* that met a conflict is sent again, or carried into a new conversation.  *)
MessageButtons(i) ==
  \/ \E text \in Texts : Resend(page.messages[i].key, text)
  \/ RetryConcurrent(i)
  \/ NewChatFromConflict(i)

(* The side panel of the Make screen. *)
SidePanel ==
  \/ /\ FoldersAlone
     /\ \/ \E f \in drawer.folders : FolderButtons(f)
        \/ \E f \in {None, All} : OpenFolder(f)
        \/ \E name \in Names : CreateFolder(name, None)
        \/ \E id \in DOMAIN drawer.filed : InSight(id) /\ ThreadMenu(id)
  \/ /\ \/ NewChat
        \/ \E i \in DOMAIN page.recent : InSight(page.recent[i].id) /\ (OpenThread(i) \/ DeleteThread(i))
     /\ ChatAlone

(* The conversation; a prompt that is waiting for its answer can be taken  *)
(* back.                                                                   *)
Feed ==
  \/ \E i \in DOMAIN page.messages : page.messages[i].by = "user" /\ MessageButtons(i)
  \/ \E t \in tasks : Cancel(t)

(* The events delegated to the Make screen (createDelegatedMakeHandlers).  *)
MakeEvents ==
  \/ SidePanel
  \/ (Feed \/ \E text \in Texts : Submit(text)) /\ ChatAlone

BillingEvents ==
  /\ \/ \E plan \in Plans \cup {0} : Open(plan) \/ StartPro(plan)
     \/ Close
     \/ Reload
     \/ \E m \in Methods : Mutate(m)
     \/ ConfirmUpgrade
     \/ Register
  /\ BillingAlone

(* What the home page offers over its list. *)
HomePage ==
  \/ \E f \in Finds : CommitSearch(f)
  \/ \E s \in Sorts : ChangeSort(s)
  \/ \E p \in 1..MaxPage : ChangePage(p)
  \/ RetryHome

HomeEvents ==
  \/ (HomePage \/ HideReported) /\ AtHomeAlone /\ UNCHANGED talkVars
  \/ /\ (\E f \in Finds : ChangeScope(f)) \/ GoHome
     /\ AtHomeAlone /\ TalkHides
  \/ /\ \E mine \in BOOLEAN : TimerFires(mine) \/ TabIsSeen(mine) \/ NetworkChanges(mine)
     /\ HomeAlone /\ UNCHANGED talkVars

(* What a prompt's card offers, its author more than the others; with a    *)
(* prompt that is deleted its dialog closes.                               *)
PromptCard(p) ==
  \/ (ToggleSaved(p) \/ ToggleLiked(p) \/ Publish(p) \/ Unshare(p)) /\ UNCHANGED talkVars
  \/ DeletePrompt(p) /\ IF p = Topic THEN TalkHides ELSE UNCHANGED talkVars

(* My page: its tabs, and another try when it could not be read. *)
MyPage == (\E t \in {"library", "mine"} : ChangeTab(t)) \/ RetryLibrary

LibraryEvents ==
  \/ VisitLibrary
  \/ MyPage /\ LibraryAlone /\ UNCHANGED talkVars
  \/ (\E p \in Prompts : PromptCard(p)) /\ LibraryAlone
  \/ (Leave \/ \E f \in Finds : SearchFromLibrary(f)) /\ LibraryAlone /\ TalkHides

(* The dialog of a prompt: what each comment offers, to its author and to  *)
(* the others.                                                             *)
CommentButtons(c) ==
  \/ ToggleCommentLike(c) \/ OpenReport(c) \/ RemoveComment(c)
  \/ \E text \in Texts : AddReply(c, text) \/ EditComment(c, text)

PromptDetail ==
  \/ CloseTop
  \/ \E text \in Texts : AddComment(text)
  \/ \E c \in talk.list : CommentButtons(c)

TalkEvents ==
  \/ /\ \/ OpenTalk \/ PromptDetail
        \/ \E a \in Accounts, text \in Texts : SaidElsewhere(a, text)
        \/ \E a \in Accounts, n \in DOMAIN board.rows : RemovedElsewhere(a, n)
     /\ TalkAlone /\ UNCHANGED library
  \/ TalkAlone /\ SubmitReport

AdminEvents == (ToggleAdminView \/ AdminPage) /\ AdminAlone

BillingAnswers ==
  \/ /\ \/ \E force \in BOOLEAN : HydrateSummary(force)
        \/ \E c \in calls : WriteDone(c) \/ RegisterFails(c)
     /\ BillingAlone
  \/ /\ \/ \E c \in calls : \E ok \in Arrivals(c), auth \in BOOLEAN, latest \in BOOLEAN :
             RefreshAnswer(c, ok, auth, latest)
        \/ \E c \in calls, ok \in SUBSET {"usage", "billing"}, auth \in BOOLEAN, latest \in BOOLEAN :
             SummaryAnswer(c, ok, auth, latest)
        \/ \E c \in calls, ok \in BOOLEAN : QuoteAnswer(c, ok)
        \/ \E c \in calls, why \in Faults : WriteFails(c, why)
     /\ ChatFollows /\ ListsFollow
  \/ \E c \in calls, result \in {"success", "fail", "signed out"} :
       Redirected(c, result) /\ ChatUnload /\ FoldersUnload
       /\ HomeUnload /\ LibraryUnload /\ AdminUnload /\ TalkUnload

MakeAnswers ==
  \/ Hydrate /\ ChatAlone
  \/ \E t \in tasks, how \in {"ok", "lost", "refused", "conflict", "auth", "limit"} :
       ImproveAnswer(t, how) /\ FoldersFollow({}) /\ BillingFollows /\ ListsFollow
  \/ \E t \in tasks, ok \in BOOLEAN :
       (ThreadAnswer(t, ok) \/ ListAnswer(t, ok)) /\ FoldersHear(Brought(t, ok)) /\ ListsAndBillingStay
  \/ \E t \in tasks, how \in {"ok", "lost", "auth"} :
       /\ \/ RecentAnswer(t, how) /\ FoldersFollow(Brought(t, how = "ok"))
          \/ DeleteAnswer(t, how) /\ FoldersFollow({})
       /\ BillingFollows /\ ListsFollow
  \/ \E t \in tasks, how \in {"ok", "lost", "auth"}, got \in BOOLEAN :
       /\ HydrateAnswer(t, how) /\ BillingFollows /\ ListsFollow
       /\ IF token' = token THEN FoldersHydrated(t, how = "ok", got) ELSE ~got /\ FoldersSignOut
  \/ \E c \in chores : ChoreDone(c) /\ ListsAndBillingStay
  \/ \E c \in chores, why \in Faults : ChoreFails(c, why) /\ BillingFollows /\ ListsFollow

ListAnswers ==
  \/ \E l \in loads, ok \in BOOLEAN, total \in 1..MaxPage : HomeAnswer(l, ok, total) /\ HomeAlone /\ UNCHANGED talkVars
  \/ \E w \in library.works : WorkDone(w) /\ LibraryAlone /\ UNCHANGED talkVars
  \/ /\ \/ \E p \in library.pulls, got \in SUBSET Reads, late \in BOOLEAN, auth \in BOOLEAN :
             PullAnswer(p, got, late, auth)
        \/ \E w \in library.works, why \in Faults : WorkFails(w, why)
     /\ BillingFollows /\ ChatFollows /\ AdminFollows

TalkAnswers ==
  \/ \E c \in talk.calls : TalkAlone /\ TalkDone(c)
  \/ \E c \in talk.calls, ok \in BOOLEAN, late \in BOOLEAN : TalkRead(c, ok, late) /\ TalkAlone /\ UNCHANGED library
  \/ \E c \in talk.calls, why \in Faults :
       /\ SessionAfter(why) /\ TalkFails(c, why) /\ BillingFollows /\ ChatFollows
       /\ IF token' = token THEN UNCHANGED <<homeVars, libraryVars, adminVars>> ELSE LibrarySignOut /\ AdminSignOut

AdminAnswers ==
  \/ /\ \/ \E x \in Subjects, to \in Verdicts : Elsewhere(x, to)
        \/ \E j \in console.jobs, got \in Heard, late \in BOOLEAN : ReadAnswer(j, got, late)
        \/ \E j \in console.jobs : DecideDone(j)
     /\ AdminAlone
  \/ /\ \/ \E j \in console.jobs, why \in Faults : DecideFails(j, why)
        \/ \E j \in console.jobs, how \in {"ok", "lost", "auth"} : SmallAnswer(j, how)
     /\ BillingFollows /\ ChatFollows /\ LibraryFollows

Next ==
  \/ \E a \in Accounts \cup Staff : Login(a)
  \/ Logout
  \/ LoadAgain
  \/ MakeEvents
  \/ BillingEvents
  \/ HomeEvents
  \/ LibraryEvents
  \/ AdminEvents
  \/ TalkEvents
  \/ BillingAnswers
  \/ MakeAnswers
  \/ ListAnswers
  \/ AdminAnswers
  \/ TalkAnswers

Spec == Init /\ [][Next]_vars

----------------------------------------------------------------------------

(* Whoever is signed in, the screens show nobody else's account: what the  *)
(* billing screen received was received for this account, and, as long as  *)
(* every answer found the session it was sent in, so were the numbered     *)
(* conversations of the list.                                              *)
BillingIsMine ==
  IsCurrent(screen) =>
    \A p \in Parts : screen.shown[p].of \in {"nobody", Owner(token)}
ListIsMine ==
  ~strayed =>
    \A i \in DOMAIN page.recent :
      LET s == page.recent[i].server
      IN  s # None => LoggedIn /\ threads[s[2]].owner = Owner(token)
PageIsMine == BillingIsMine /\ ListIsMine

(* A disabled screen is waiting for something: a billing screen that is    *)
(* busy has a call under way that will free it, and a composer that takes  *)
(* no prompt has the handler whose end opens it again.                     *)
BillingWaits ==
  screen.busy /\ IsCurrent(screen) =>
    \E c \in calls :
      \/ c.kind \in Writes \cup {"sdk"}
      \/ c.rev = screen.revision /\ c.token = token
ComposerWaits == Busy => request.controller # 0 /\ \E t \in tasks : t.n = request.controller
LibraryWaits == library.status = "checking" => \E p \in library.pulls : p.token = token
BusyEnds == BillingWaits /\ ComposerWaits /\ LibraryWaits

(* A reply stands under the prompt it answers, on the page and in every    *)
(* conversation of the list, whatever was edited, retried, read back or    *)
(* recovered in between; answers that met a page that had moved on are     *)
(* left out.                                                               *)
Paired(ms) ==
  \A i \in DOMAIN ms : ms[i].by = "ai" =>
    i > 1 /\ ms[i-1].by = "user" /\ ms[i-1].key = ms[i].key /\ ms[i-1].text = ms[i].text
AnswerFollowsQuestion ==
  ~strayed =>
    /\ Paired(page.messages)
    /\ \A i \in DOMAIN page.recent : Paired(page.recent[i].messages)

(* A request id never travels with two prompts, however often a message    *)
(* was retried, edited and read back: REQUEST_ID_REUSED is never earned.   *)
(* Left out are ids whose message a guest has edited, or that a folder's   *)
(* move has stored while its edit was not answered.                        *)
OneIdOnePrompt == \A a, b \in sent : a[1] = b[1] => a[2] = b[2] \/ <<a[1], NoText>> \in sent

(* Once every load has been answered, the list shown is the answer to what *)
(* the screen asks for, however searches, pages, orders and retries        *)
(* overlapped, or the home is known to be away; left out are the steps     *)
(* that change the question without asking, and the first load when it is  *)
(* answered so late that it puts its own list in the place of a newer one  *)
(* (both are moved).                                                       *)
HomeIsAsked ==
  loads = {} =>
    \/ home.moved \/ home.status = "fallback"
    \/ home.status = "connected" /\ home.list = {Asked(home)}

(* A home that is away comes back by itself: while the tab is seen and the *)
(* browser on line, the recovery timer runs or a check is under way.       *)
RecoveryArmed ==
  home.status = "fallback" /\ home.visible /\ home.online => home.timer \/ home.checking

(* Once my page has been read and nothing is under way, the marks on the   *)
(* cards are the server's: saved, liked and shared, whatever was saved on  *)
(* one screen and taken back on another, put off, or refused.  Left out    *)
(* (loose): changes that crossed one another or a reading of my page, ones *)
(* whose outcome was lost, ones made while the home list was away, and a   *)
(* second account on this browser.                                         *)
LibraryAgrees ==
  LoggedIn /\ ~Staffed /\ ~library.loose /\ library.synced /\ library.works = {} /\ library.pulls = {} =>
    /\ \A p \in shelf.alive \ library.pending :
         /\ IsSaved(library, p) <=> p \in shelf.saved[Owner(token)]
         /\ p \in Likes(library) <=> p \in shelf.liked[Owner(token)]
    /\ \A i \in DOMAIN library.rows :
         LET r == library.rows[i]
         IN  r.id \in shelf.alive /\ (r.mine => (r.shared <=> r.id \in shelf.shared))

(* Once nothing is under way, the side panel shows the folders of the      *)
(* server, and every conversation in the folder it is in there, whatever   *)
(* was created, renamed, deleted and moved at once, refused or read back.  *)
(* Left out (loose): answers that got lost, a change that failed while     *)
(* another was under way (a failed deletion restores the panel of its      *)
(* beginning), folders used before their number is known, objects replaced *)
(* under a handler, a conversation that is in the list twice, as a guest's *)
(* and as the server's, and one begun in a folder, which the server is not *)
(* told. Left out too (strayed): a late answer to one account that brings  *)
(* its conversations to the next.                                          *)
FoldersAgree ==
  LoggedIn /\ drawer.read /\ ~drawer.loose /\ ~strayed /\ chores = {} =>
    /\ {<<f.server, f.name>> : f \in drawer.folders}
         = {<<Server(k), cabinet.folders[k].name>> : k \in Drawers(token)}
    /\ \A i \in DOMAIN page.recent :
         LET e == page.recent[i]
             f == drawer.filed[e.id]
             there == Placed(e.server[2])
         IN  e.server # None =>
               IF there = None THEN f = None ELSE \E x \in drawer.folders : x.id = f /\ x.server = there

(* Once nothing is under way, the console shows what is decided: every     *)
(* tag, report, prompt, author's request and member it was told of, and    *)
(* the audit log to its end, however decisions, readings and refusals      *)
(* overlapped; left out is what changed elsewhere, or in an unknown way,   *)
(* since it was told (loose).                                              *)
AdminAgrees ==
  console.mode /\ console.jobs = {} =>
    /\ \A x \in (Subjects \cap console.told) \ console.loose : console.view[x] = desk[x]
    /\ "log" \in console.told \ console.loose => console.log = desk.log

(* While a prompt is open, and once nothing is under way, its comments,    *)
(* their texts, likes and number are the server's, and so are the member's *)
(* own likes and reports, whatever was written, changed and taken back     *)
(* before the server had it, refused or lost.  Left out (stale): what      *)
(* changed, or was read, behind the last reading's back; (loose) likes     *)
(* that fail or cross, and reports kept on this page only.                 *)
TalkAgrees ==
  talk.open /\ talk.calls = {} /\ ~talk.stale /\ ~talk.loose =>
    /\ talk.list = Thread(board) /\ talk.count = Counted(talk.list)
    /\ LoggedIn => \A c \in talk.list : ~c.gone =>
         /\ c.id \in talk.liked[Keeper] <=> Owner(token) \in board.rows[c.id].likers
         /\ c.id \in talk.reported[Keeper] <=> <<Owner(token), c.id>> \in board.reports

(* Between two copies of the same account the billing screen never goes    *)
(* back to an older one, although refreshes overlap and answer in any      *)
(* order.                                                                  *)
NewestWins ==
  [][IsCurrent(screen) /\ IsCurrent(screen)' =>
       \A p \in Parts :
         screen.shown[p] # NoData /\ screen.shown'[p] # NoData /\ screen.shown[p].of = screen.shown'[p].of
           => screen.shown[p].sub.ver <= screen.shown'[p].sub.ver]_vars

(* A prompt whose call is over without a reply is still on the page, in    *)
(* the conversation or in the composer, for the user to send again; except *)
(* that a guest's conversation waiting for its transfer takes the place of *)
(* another one when the session ends.                                      *)
PromptIsKept ==
  [][\A t \in tasks :
       /\ t.of \in {"submit", "local"} /\ t.then # "show"
       /\ ~\E u \in tasks' : u.n = t.n /\ u.of = t.of
       => \/ strayed'
          \/ page.transfer \notin {None, t.id}
          \/ page'.draft = t.text
          \/ \E i \in DOMAIN page'.messages : page'.messages[i].text = t.text]_vars
=============================================================================
