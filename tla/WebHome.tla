------------------------------- MODULE WebHome -------------------------------
(***************************************************************************)
(* The home screen of the web page: what is searched for, the list that is *)
(* shown, the state of the connection (state.backendStatus), and the       *)
(* monitor that tries the server again by itself (home-controller.mjs,     *)
(* backend-status.mjs, the two home effects of backend-effects.mjs).       *)
(* Requests overlap and are answered in any order.                         *)
(***************************************************************************)
EXTENDS WebSession, FiniteSetsExt

CONSTANTS
  Finds,      \* what can be searched: text and scope; "" is the plain home
  Sorts,      \* orders of the list
  MaxPage     \* bound on the pages the server says there are

ASSUME HomeAssumption == "" \in Finds /\ MaxPage \in Nat \ {0}

VARIABLES
  home,    \* the screen and the recovery monitor
  loads    \* the list requests under way

homeVars == <<home, loads>>

(* The signature of a request: what the screen asks for. *)
Asked(h) == [find |-> h.find, sort |-> h.sort, page |-> h.page]

(* schedule() of the monitor, run by every render: the timer runs while    *)
(* the server is away, the tab is seen and the browser is on line.         *)
Armed(h) == [h EXCEPT !.timer = (h.status = "fallback" /\ h.visible /\ h.online)]

Booting(sort) ==
  [status |-> "checking", find |-> "", sort |-> sort, page |-> 1,
   list |-> {}, total |-> 1,      \* list: {} or the signature it answers
   retry |-> 0,                   \* the request of the retry under way
   timer |-> FALSE, checking |-> FALSE, visible |-> TRUE, online |-> TRUE,
   route |-> "home",              \* or "saved", my page
   moved |-> FALSE]               \* history: the screen went on without asking

FreeNo == CHOOSE n \in 1..Cardinality(loads) + 1 : \A l \in loads : l.n # n
Load(kind, h) == [n |-> FreeNo, kind |-> kind, asks |-> Asked(h)]

(* bootstrap, on the home screen or on my page.  A run that leaves this    *)
(* screen alone finds it loaded.                                           *)
HomeLoaded(sort) ==
  LET h == Booting(sort)
  IN  [h EXCEPT !.status = "connected", !.list = {Asked(h)}]
HomeInit ==
  IF left["home"] = 0
  THEN /\ \E r \in {"home"} \cup IF left["library"] = 0 \/ ~LoggedIn THEN {} ELSE {"saved"} :
            home = [HomeLoaded(CHOOSE s \in Sorts : TRUE) EXCEPT !.route = r]
       /\ loads = {}
  ELSE \E sort \in Sorts :
         /\ home = Booting(sort)
         /\ loads = {[n |-> 1, kind |-> "boot", asks |-> Asked(Booting(sort))]}

HomeUnload ==
  IF left["home"] = 0
  THEN home' = [HomeLoaded(home.sort) EXCEPT !.route = home.route] /\ loads' = {}
  ELSE /\ home' = [Booting(home.sort) EXCEPT !.route = home.route]
       /\ loads' = {[n |-> 1, kind |-> "boot", asks |-> Asked(Booting(home.sort))]}

(* Signed out: my page gives way to the home screen. *)
AwayFrom(h) == [h EXCEPT !.route = "home"]

(* refreshBackendHomePrompts, followed by render. *)
Refetch(h) == loads' = loads \cup {Load("refresh", h)} /\ home' = Armed(h)

(* resetHomeView: asks only when connected. *)
ResetHome(g) ==
  LET h == [g EXCEPT !.find = "", !.page = 1]
  IN  IF g.status = "connected" THEN Refetch(h)
      ELSE /\ home' = Armed([h EXCEPT !.moved = @ \/ (g.status = "checking" /\ Asked(h) # Asked(g))])
           /\ UNCHANGED loads

----------------------------------------------------------------------------
(* What the user does on the screen. *)

AtHome == Gesture("home") /\ home.route = "home"

(* The text typed is committed by Enter, or once typing has stopped. *)
CommitSearch(f) ==
  /\ AtHome /\ f # home.find
  /\ Refetch([home EXCEPT !.find = f, !.page = 1]) /\ SessionStays

(* A scope, a tag or an author is chosen. *)
ChangeScope(f) ==
  /\ AtHome
  /\ Refetch([home EXCEPT !.find = f, !.page = 1]) /\ SessionStays

ChangeSort(s) ==
  /\ AtHome /\ s # home.sort
  /\ Refetch([home EXCEPT !.sort = s, !.page = 1]) /\ SessionStays

(* Pages are offered only over a list the server sent. *)
ChangePage(p) ==
  /\ AtHome /\ home.status = "connected" /\ home.total > 1 /\ p \in 1..home.total
  /\ Refetch([home EXCEPT !.page = p]) /\ SessionStays

GoHome == AtHome /\ ResetHome(home) /\ SessionStays

(* toggleReportedVisibilityState: back to the first page, without asking. *)
HideReported ==
  /\ Gesture("home") /\ LoggedIn
  /\ home' = Armed([home EXCEPT !.page = 1, !.moved = @ \/ home.page # 1])
  /\ UNCHANGED loads /\ SessionStays

(* retryHomeLoad: one at a time; a second caller waits for the first. *)
RetryLoad(h) ==
  IF h.retry # 0 THEN home' = h /\ UNCHANGED loads
  ELSE Refetch([h EXCEPT !.status = "checking", !.retry = FreeNo])

RetryHome ==
  /\ AtHome /\ home.status = "fallback"
  /\ RetryLoad(home) /\ SessionStays

----------------------------------------------------------------------------
(* The monitor.  Another tab may hold the lease: then this one waits.      *)

(* Faulty: a check that another tab's lease put off is not planned again.  *)
CheckOnce(h, mine) ==
  IF h.status # "fallback" \/ h.checking \/ ~h.visible \/ ~h.online \/ ~mine
  THEN home' = [h EXCEPT !.timer = FALSE] /\ UNCHANGED loads
  ELSE RetryLoad([h EXCEPT !.timer = FALSE, !.checking = TRUE])

CheckServer(h, mine) ==
  IF h.status # "fallback" \/ h.checking \/ ~h.visible \/ ~h.online
  THEN home' = [h EXCEPT !.timer = FALSE] /\ UNCHANGED loads
  ELSE IF mine THEN RetryLoad([h EXCEPT !.timer = FALSE, !.checking = TRUE])
  ELSE home' = Armed(h) /\ UNCHANGED loads

TimerFires(mine) ==
  /\ Gesture("home") /\ home.timer
  /\ CheckServer(home, mine) /\ SessionStays

TabIsSeen(mine) ==
  /\ Gesture("home") /\ SessionStays
  /\ IF home.visible
     THEN home' = [home EXCEPT !.visible = FALSE, !.timer = FALSE] /\ UNCHANGED loads
     ELSE CheckServer([home EXCEPT !.visible = TRUE], mine)

NetworkChanges(mine) ==
  /\ Gesture("home") /\ SessionStays
  /\ IF home.online
     THEN home' = [home EXCEPT !.online = FALSE, !.timer = FALSE] /\ UNCHANGED loads
     ELSE CheckServer([home EXCEPT !.online = TRUE], mine)

----------------------------------------------------------------------------
(* The answers. *)

(* The list of the server takes the place of the one shown, and its page   *)
(* count may put the screen on an earlier page.                            *)
ListShown(h, l, total) ==
  LET p == Min({IF l.kind = "boot" THEN l.asks.page ELSE h.page, total})
      list == [l.asks EXCEPT !.page = p]
      next == [h EXCEPT !.status = "connected", !.list = {list}, !.page = p, !.total = total]
  IN  [next EXCEPT !.moved = (l.kind = "boot" /\ list # Asked(next))]

(* Faulty: whatever answers last is shown. *)
LastReceived(h, l, ok, total) ==
  IF ok THEN ListShown(h, l, total) ELSE [h EXCEPT !.status = "fallback"]

(* What the effect makes of the answer: the first load takes whatever      *)
(* comes, a refresh only the answer to what the screen still asks; every   *)
(* failure counts.                                                         *)
HomeReceived(h, l, ok, total) ==
  IF ~ok THEN [h EXCEPT !.status = "fallback"]
  ELSE IF l.kind = "boot" \/ l.asks = Asked(h) THEN ListShown(h, l, total)
  ELSE h

HomeAnswer(l, ok, total) ==
  LET h == HomeReceived(home, l, ok, total)
      retried == home.retry = l.n
      done == [h EXCEPT !.retry = IF retried THEN 0 ELSE @,
                        !.checking = @ /\ ~retried]
      rendered == ~ok \/ l.kind = "boot" \/ l.asks = Asked(home) \/ (retried /\ home.checking)
  IN  /\ home' = IF rendered THEN Armed(done) ELSE done
      /\ loads' = loads \ {l}
      /\ SessionStays /\ UNCHANGED left
=============================================================================
