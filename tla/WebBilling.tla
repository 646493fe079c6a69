------------------------------ MODULE WebBilling ------------------------------
(***************************************************************************)
(* The billing screen of the web page: createBillingController of          *)
(* billing/billing-controller.mjs.  Its closure variables are the record   *)
(* `screen`; a call of the API that has not been answered is a member of   *)
(* `calls` and carries the local variables its continuation uses.          *)
(*                                                                         *)
(* The server's account is one record: a version that grows with every     *)
(* change, the level of the plan and the state of the subscription.  What  *)
(* the page received is a copy of it.  Messages and focus are left out.    *)
(***************************************************************************)
EXTENDS WebSession

CONSTANT Plans   \* levels of the paid plans; 0 is FREE, or no plan selected

ASSUME PlansAssumption == Plans \subseteq Nat \ {0}

VARIABLES
  screen,   \* the closure of the controller and state.billingOpen
  calls,    \* API calls under way
  subs      \* the server's account of every member

billingVars == <<screen, calls, subs>>

Parts == {"setup", "billing", "usage", "charges"}
Methods == {"cancel", "retry", "reconcile", "refund"}

NewSub == [ver |-> 0, level |-> 0, status |-> "new"]
PaidSub == [ver |-> 0, level |-> 1, status |-> "active"]
NoData == [of |-> "nobody"]
NoQuote == [of |-> "nobody", plan |-> 0]

BlankScreen ==
  [open |-> FALSE, busy |-> FALSE, error |-> FALSE,
   shown |-> [p \in Parts |-> NoData], quote |-> NoQuote, plan |-> 0,
   active |-> 0,        \* activeToken
   summaryToken |-> 0, summary |-> FALSE,   \* summaryPromise is set
   revision |-> 0,      \* requestRevision
   wanted |-> -1]       \* pendingBillingPlan; -1: no pendingBillingOpen

(* A run that leaves this screen alone finds free accounts; administrators *)
(* have one of their own, unpaid.                                          *)
BillingInit ==
  /\ screen = BlankScreen
  /\ calls = {}
  /\ subs \in [Accounts \cup Staff -> IF left["billing"] = 0 THEN {NewSub} ELSE {NewSub, PaidSub}]
  /\ \A a \in Staff : subs[a] = NewSub

IsCurrent(s) == LoggedIn /\ s.active = token

Nothing == [p \in Parts |-> NoData]
Has(s, p) == s.shown[p] # NoData
Status(s) == IF Has(s, "billing") THEN s.shown["billing"].sub.status ELSE "unknown"

(***************************************************************************)
(* refresh(): a new revision, three parallel reads and the history; then,  *)
(* when a higher plan was selected, the quote.  `late` marks a refresh     *)
(* that recoverPaymentTimeout waits for.                                   *)
(***************************************************************************)
Refreshing(s, t) ==
  [s EXCEPT !.revision = @ + 1, !.summary = FALSE, !.active = t,
            !.busy = TRUE, !.error = FALSE]

(* A read sent from screen s under token t, when the account is `now`. *)
Read(kind, s, t, now) ==
  [kind |-> kind, token |-> t, rev |-> s.revision, plan |-> s.plan,
   seen |-> now, bad |-> "none", late |-> FALSE]

Refresh(s) ==
  /\ screen' = Refreshing(s, token)
  /\ calls' = calls \cup {Read("refresh", screen', token, subs[Owner(token)])}

(* Faulty: an older refresh may answer last. *)
AnyRevision(c, s) == IsCurrent(s)

IsLatest(c, s) == IsCurrent(s) /\ c.rev = s.revision

(* handleAccessError with a 401: the shared handler closes the session.    *)
Expire(s) ==
  /\ SignOut
  /\ screen' = [s EXCEPT !.open = FALSE, !.wanted = -1]

(* The rest of refresh() once the quote is known, and its finally block.   *)
EndRefresh(c, s) ==
  IF c.bad = "auth"
  THEN Expire(s)
  ELSE
    LET told == [s EXCEPT !.error = @ \/ c.bad = "some"]
        idle == IF IsLatest(c, told)
                THEN [told EXCEPT !.summaryToken = c.token, !.busy = FALSE]
                ELSE told
    IN  /\ SessionStays
        /\ screen' = IF c.late /\ Has(idle, "billing") /\ IsCurrent(idle)
                     THEN [idle EXCEPT !.error = @ \/ Status(s) \in {"new", "failed"}]
                     ELSE idle

Received(c, ok, now) ==
  [p \in Parts |-> IF p \in ok THEN [of |-> Owner(c.token), sub |-> now] ELSE NoData]

WantsQuote(c, s) ==
  /\ s.plan # 0 /\ Has(s, "usage") /\ Has(s, "billing")
  /\ s.shown["usage"].sub.level \in 1..(s.plan - 1)
  /\ Status(s) # "new"                                    \* cardRegistered

(* Sets of reads that succeed: each is caught on its own.  Of an answer that *)
(* is dropped they do not matter.                                           *)
Arrivals(c) == IF IsLatest(c, screen) THEN SUBSET Parts ELSE {Parts}

(* What a read finds: the account when it was sent, or when it is answered. *)
Found(c, latest) == IF latest THEN subs[Owner(c.token)] ELSE c.seen

RefreshAnswer(c, ok, auth, latest) ==
  /\ c.kind = "refresh" /\ c \in calls
  /\ auth => ok # Parts
  /\ UNCHANGED <<subs, left>>
  /\ IF IsLatest(c, screen)
     THEN LET s == [screen EXCEPT !.shown = Received(c, ok, Found(c, latest)), !.quote = NoQuote]
              bad == IF auth THEN "auth" ELSE IF ok = Parts THEN "none" ELSE "some"
              d == [c EXCEPT !.kind = "quote", !.bad = bad, !.plan = s.plan]
          IN  IF WantsQuote(c, s)
              THEN SessionStays /\ screen' = s /\ calls' = (calls \ {c}) \cup {d}
              ELSE calls' = calls \ {c} /\ EndRefresh(d, s)
     ELSE SessionStays /\ screen' = screen /\ calls' = calls \ {c}

(* The quote is stored whoever asks by now; only its failure is checked.   *)
QuoteAnswer(c, ok) ==
  /\ c.kind = "quote" /\ c \in calls
  /\ calls' = calls \ {c}
  /\ UNCHANGED <<subs, left>>
  /\ IF ok
     THEN EndRefresh(c, [screen EXCEPT !.quote = [of |-> Owner(c.token), plan |-> c.plan]])
     ELSE IF IsLatest(c, screen)
          THEN EndRefresh(c, [screen EXCEPT !.error = TRUE])
          ELSE SessionStays /\ screen' = screen

(* hydrateSummary: the plan shown in the header of pricing and my page.    *)
MaySummarize(force) ==
  /\ LoggedIn
  /\ screen.active = token => ~screen.summary /\ ~screen.busy
  /\ force \/ screen.summaryToken # token
Summarize ==
  /\ LET s == [screen EXCEPT !.revision = @ + 1, !.active = token, !.summaryToken = token,
                             !.shown = Nothing, !.busy = TRUE, !.error = FALSE,
                             !.summary = TRUE]
     IN  screen' = s /\ calls' = calls \cup {Read("summary", s, token, subs[Owner(token)])}
  /\ UNCHANGED subs
HydrateSummary(force) == Gesture("billing") /\ MaySummarize(force) /\ Summarize /\ SessionStays

SummaryAnswer(c, ok, auth, latest) ==
  /\ c.kind = "summary" /\ c \in calls
  /\ ok \subseteq {"usage", "billing"} /\ (auth => ok # {"usage", "billing"})
  /\ calls' = calls \ {c}
  /\ UNCHANGED <<subs, left>>
  /\ LET s == [screen EXCEPT !.shown = [p \in Parts |-> IF p \in {"usage", "billing"}
                                           THEN Received(c, ok, Found(c, latest))[p] ELSE @[p]],
                             !.error = @ \/ ok # {"usage", "billing"}]
         quiet(r) == [r EXCEPT !.summary = FALSE, !.busy = FALSE]   \* finally
     IN  IF ~IsLatest(c, screen)
         THEN /\ SessionStays
              /\ screen' = IF c.rev = screen.revision THEN quiet(screen) ELSE screen
         ELSE IF auth THEN Expire(quiet(s)) ELSE SessionStays /\ screen' = quiet(s)

ScreenOpened(s, plan) ==
  [s EXCEPT !.open = TRUE, !.plan = plan, !.quote = NoQuote, !.shown = Nothing]

Open(plan) ==
  /\ Gesture("billing") /\ LoggedIn
  /\ Refresh(ScreenOpened(screen, plan))
  /\ SessionStays /\ UNCHANGED subs

Close ==
  /\ Gesture("billing") /\ screen.open
  /\ screen' = [screen EXCEPT !.open = FALSE]
  /\ SessionStays /\ UNCHANGED <<calls, subs>>

(* "Load again" is offered when idle; "check again" while a payment pends. *)
Reload ==
  /\ Gesture("billing") /\ LoggedIn /\ screen.open /\ ~screen.busy
  /\ Refresh(screen)
  /\ SessionStays /\ UNCHANGED subs

(* data-start-pro: a guest picks a plan and is sent to the login form.     *)
StartPro(plan) ==
  /\ Gesture("billing") /\ ~LoggedIn
  /\ screen' = [screen EXCEPT !.wanted = plan]
  /\ SessionStays /\ UNCHANGED <<calls, subs>>

(***************************************************************************)
(* The calls that change the account.  What the server makes of them is    *)
(* BillingService's business (module Billing); here it takes them, refuses *)
(* them, or takes them while the answer is lost on the way.                *)
(***************************************************************************)
Offered(m, s) ==
  CASE m = "cancel"    -> Status(s) = "active"
    [] m = "retry"     -> Status(s) \in {"stopped", "failed"}
    [] m = "reconcile" -> Status(s) = "pending"
    [] m = "refund"    -> Has(s, "charges") /\ s.shown["charges"].sub.level > 0

Taken(c, now) ==
  LET next == [now EXCEPT !.ver = @ + 1]
      can == [new |-> {"complete"}, active |-> {"cancel", "refund", "upgrade"},
              stopped |-> {"retry", "refund"}, failed |-> {"retry"},
              pending |-> {"reconcile", "refund"}]
  IN  IF c.kind \notin can[now.status] THEN {}
      ELSE CASE c.kind = "complete"  -> {[next EXCEPT !.status = "active", !.level = 1]}
             [] c.kind = "upgrade"   -> {[next EXCEPT !.status = "active", !.level = c.plan],
                                         [next EXCEPT !.status = "pending"]}
             [] c.kind = "reconcile" -> {[next EXCEPT !.status = "active"]}
             [] c.kind = "retry"     -> {[next EXCEPT !.status = "active"],
                                         [next EXCEPT !.status = "failed"]}
             [] OTHER                -> {[next EXCEPT !.status = "stopped"]}

Busied(s) == [s EXCEPT !.busy = TRUE, !.error = FALSE]
Write(kind, plan) ==
  [kind |-> kind, token |-> token, rev |-> 0, plan |-> plan, seen |-> NewSub,
   bad |-> "none", late |-> FALSE]

MayAct(s) == s.open /\ IsCurrent(s) /\ ~s.busy

Mutate(m) ==
  /\ Gesture("billing") /\ MayAct(screen) /\ Offered(m, screen)
  /\ screen' = Busied(screen)
  /\ calls' = calls \cup {Write(m, 0)}
  /\ SessionStays /\ UNCHANGED subs

ConfirmUpgrade ==
  /\ Gesture("billing") /\ MayAct(screen)
  /\ screen.quote # NoQuote /\ Status(screen) # "pending"
  /\ screen' = Busied(screen)
  /\ calls' = calls \cup {Write("upgrade", screen.quote.plan)}
  /\ SessionStays /\ UNCHANGED subs

Writes == Methods \cup {"upgrade", "complete"}

(* The server took c: refresh, under whichever token is current by then.   *)
WriteDone(c) ==
  /\ c.kind \in Writes /\ c \in calls
  /\ \E next \in Taken(c, subs[Owner(c.token)]) : subs' = [subs EXCEPT ![Owner(c.token)] = next]
  /\ SessionStays /\ UNCHANGED left
  /\ IF IsCurrent(screen)
     THEN LET s == IF c.kind = "upgrade" THEN [screen EXCEPT !.plan = 0] ELSE screen
          IN  /\ screen' = Refreshing(s, token)
              /\ calls' = (calls \ {c}) \cup
                          {Read("refresh", screen', token, subs'[Owner(token)])}
     ELSE screen' = screen /\ calls' = calls \ {c}

(* Faulty: a failed call leaves the buttons disabled. *)
StaysBusy(s) == [s EXCEPT !.error = TRUE]

Complain(s) == [s EXCEPT !.error = TRUE, !.busy = FALSE]

(* Refused, or lost: a lost answer to a payment is looked up again.        *)
WriteFails(c, why) ==
  /\ c.kind \in Writes /\ c \in calls
  /\ why \in {"refused", "lost", "auth"}
  /\ UNCHANGED left
  /\ IF why = "lost"
     THEN \E next \in Taken(c, subs[Owner(c.token)]) : subs' = [subs EXCEPT ![Owner(c.token)] = next]
     ELSE UNCHANGED subs
  /\ IF ~IsCurrent(screen)
     THEN SessionStays /\ screen' = screen /\ calls' = calls \ {c}
     ELSE IF why = "auth"
     THEN Expire(screen) /\ calls' = calls \ {c}
     ELSE /\ SessionStays
          /\ IF why = "lost" /\ c.kind \in {"retry", "complete"}
             THEN /\ screen' = Refreshing(screen, token)
                  /\ calls' = (calls \ {c}) \cup
                              {[Read("refresh", screen', token, subs'[Owner(token)])
                                  EXCEPT !.late = TRUE]}
             ELSE screen' = Complain(screen) /\ calls' = calls \ {c}

(***************************************************************************)
(* register(): the payment page of the provider replaces this one and      *)
(* comes back with a callback, which handleRedirect reads.                 *)
(***************************************************************************)
Register ==
  /\ Gesture("billing") /\ MayAct(screen)
  /\ Has(screen, "setup") /\ screen.shown["setup"].sub.status = "new"
  /\ Status(screen) \in {"new", "unknown"}
  /\ screen' = Busied(screen)
  /\ calls' = calls \cup {Write("sdk", screen.plan)}
  /\ SessionStays /\ UNCHANGED subs

RegisterFails(c) ==
  /\ c.kind = "sdk" /\ c \in calls
  /\ screen' = Complain(screen)
  /\ calls' = calls \ {c}
  /\ SessionStays /\ UNCHANGED <<subs, left>>

(* The page is left and loaded again with the provider's result.           *)
Redirected(c, result) ==
  /\ c.kind = "sdk" /\ c \in calls /\ IsCurrent(screen)
  /\ UNCHANGED <<subs, left>>
  /\ LET s == [BlankScreen EXCEPT !.open = TRUE]
     IN  CASE result = "success" ->
                /\ SessionStays
                /\ screen' = [s EXCEPT !.busy = TRUE, !.active = token]
                /\ calls' = {Write("complete", c.plan)}
           [] result = "fail" ->
                SessionStays /\ screen' = [s EXCEPT !.error = TRUE] /\ calls' = {}
           [] result = "signed out" ->          \* in another tab, meanwhile
                SignOut /\ screen' = BlankScreen /\ calls' = {}

Picked(s) == s.wanted # -1   \* pendingBillingOpen

(* A login goes on with the plan a guest picked (resumePendingBillingOpen). *)
BillingSignIn ==
  /\ IF ~Picked(screen)
     THEN UNCHANGED <<screen, calls>>
     ELSE /\ screen' = Refreshing(ScreenOpened([screen EXCEPT !.wanted = -1], screen.wanted), token')
          /\ calls' = calls \cup
                      {Read("refresh", screen', token', subs[owners'[token']])}
  /\ UNCHANGED subs

(* The session's end, as this screen sees it. *)
BillingSignOut == screen' = [screen EXCEPT !.open = FALSE, !.wanted = -1]
                  /\ UNCHANGED <<calls, subs>>

BillingUnload == screen' = BlankScreen /\ calls' = {} /\ UNCHANGED subs
=============================================================================
