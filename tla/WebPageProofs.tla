---------------------------- MODULE WebPageProofs ----------------------------
(***************************************************************************)
(* What the web page keeps up whatever its user does and in whatever order *)
(* its calls are answered, for any number of accounts, logins and calls.   *)
(* Each screen has an invariant of its own, and a lemma that says what the *)
(* steps of all the others may do to it.                                   *)
(***************************************************************************)
EXTENDS WebPage, TLAPS

----------------------------------------------------------------------------
(* The home list *)

HomeFields ==
  {"status", "find", "sort", "page", "list", "total", "retry", "timer", "checking",
   "visible", "online", "route", "moved"}
IsHome(h) == DOMAIN h = HomeFields /\ h.status \in {"checking", "connected", "fallback"}

(* The timer runs, or a check is under way, whenever the home is away.     *)
Watched(h) == h.status = "fallback" /\ h.visible /\ h.online => h.timer \/ h.checking

(* What the screen asks for is shown, or one of the loads is to answer it. *)
Answering(h, L) ==
  \/ h.moved \/ h.status = "fallback"
  \/ h.status = "connected" /\ h.list = {Asked(h)}
  \/ \E l \in L : l.asks = Asked(h)

HomeGood(h, L) == IsHome(h) /\ Watched(h) /\ Answering(h, L)
HomeInv == HomeGood(home, loads)

(* The steps that touch the home, by what they do to it: the screen is     *)
(* left or entered; it asks; it turns to another page or order unasked; or *)
(* something is answered.                                                  *)
Routed == \E r : home' = [home EXCEPT !.route = r] /\ UNCHANGED loads
Asking == \E h : IsHome(h) /\ Refetch(h)
Turned ==
  \E h : /\ IsHome(h) /\ h.status = home.status /\ h.list = home.list /\ (home.moved => h.moved)
         /\ h.moved \/ h.status = "fallback" \/ Asked(h) = Asked(home)
         /\ home' = Armed(h) /\ UNCHANGED loads
Checked == \E mine \in BOOLEAN : TimerFires(mine) \/ TabIsSeen(mine) \/ NetworkChanges(mine)
HomeAnswered == \E l \in loads, ok \in BOOLEAN, total \in 1..MaxPage : HomeAnswer(l, ok, total)

HomeStep == UNCHANGED homeVars \/ Routed \/ Asking \/ Turned \/ RetryHome \/ Checked
              \/ HomeAnswered \/ HomeUnload

LEMMA ArmedHome ==
  ASSUME NEW h, IsHome(h)
  PROVE  /\ IsHome(Armed(h)) /\ Watched(Armed(h)) /\ Asked(Armed(h)) = Asked(h)
         /\ \A f \in HomeFields \ {"timer"} : Armed(h)[f] = h[f]
  BY DEF Armed, Watched, Asked, HomeFields, IsHome

(* A list that is asked for will be answered.                              *)
LEMMA RefetchHome ==
  ASSUME NEW h, IsHome(h), Refetch(h)
  PROVE  HomeInv'
<1>1. home' = Armed(h) /\ Load("refresh", h) \in loads' /\ Load("refresh", h).asks = Asked(h)
  BY DEF Refetch, Load
<1> QED
  BY <1>1, ArmedHome DEF HomeInv, HomeGood, Answering

LEMMA TurnedHome == HomeInv /\ Turned => HomeInv'
<1> SUFFICES ASSUME HomeInv, NEW h, IsHome(h), h.status = home.status, h.list = home.list,
                    home.moved => h.moved,
                    h.moved \/ h.status = "fallback" \/ Asked(h) = Asked(home),
                    home' = Armed(h), UNCHANGED loads
             PROVE  HomeInv'
  BY DEF Turned
<1>1. Armed(h).moved = h.moved /\ Armed(h).status = h.status /\ Armed(h).list = h.list
  BY ArmedHome DEF HomeFields
<1>2. IsHome(home') /\ Watched(home') /\ Asked(home') = Asked(h)
  BY ArmedHome
<1>3. Answering(home', loads')
  BY <1>1, <1>2 DEF HomeInv, HomeGood, Answering
<1> QED
  BY <1>2, <1>3 DEF HomeInv, HomeGood

(* A check of the server leaves what is asked for alone, or asks again.    *)
LEMMA CheckedHome ==
  ASSUME NEW h, NEW mine \in BOOLEAN, IsHome(h), Answering(h, loads), CheckServer(h, mine)
  PROVE  HomeInv'
<1> DEFINE still == [h EXCEPT !.timer = FALSE]
           busy == [still EXCEPT !.checking = TRUE]
           retried == [busy EXCEPT !.status = "checking", !.retry = FreeNo]
<1>1. IsHome(still) /\ IsHome(busy) /\ IsHome(retried)
  BY DEF IsHome, HomeFields
<1>2. Answering(still, loads) /\ Answering(busy, loads)
  BY DEF Answering, Asked, IsHome, HomeFields
<1>3. CASE h.status # "fallback" \/ h.checking \/ ~h.visible \/ ~h.online
  <2>1. home' = still /\ UNCHANGED loads
    BY <1>3 DEF CheckServer
  <2>2. Watched(still)
    BY <1>3 DEF Watched, IsHome, HomeFields
  <2> QED
    BY <1>1, <1>2, <2>1, <2>2 DEF HomeInv, HomeGood
<1>4. CASE ~(h.status # "fallback" \/ h.checking \/ ~h.visible \/ ~h.online) /\ mine
  <2>1. RetryLoad(busy)
    BY <1>4 DEF CheckServer, IsHome, HomeFields
  <2>2. CASE busy.retry # 0
    <3>1. home' = busy /\ UNCHANGED loads /\ Watched(busy)
      BY <2>1, <2>2 DEF RetryLoad, Watched, IsHome, HomeFields
    <3> QED
      BY <1>1, <1>2, <3>1 DEF HomeInv, HomeGood
  <2>3. CASE busy.retry = 0
    <3>1. Refetch(retried)
      BY <2>1, <2>3 DEF RetryLoad
    <3> QED
      BY <1>1, <3>1, RefetchHome
  <2> QED
    BY <2>2, <2>3
<1>5. CASE ~(h.status # "fallback" \/ h.checking \/ ~h.visible \/ ~h.online) /\ ~mine
  <2>1. home' = Armed(h) /\ UNCHANGED loads
    BY <1>5 DEF CheckServer
  <2>2. Armed(h).moved = h.moved /\ Armed(h).status = h.status /\ Armed(h).list = h.list
    BY ArmedHome DEF HomeFields
  <2> QED
    BY <2>1, <2>2, ArmedHome DEF HomeInv, HomeGood, Answering
<1> QED
  BY <1>3, <1>4, <1>5

LEMMA ChecksKeepHome == HomeInv /\ Checked => HomeInv'
<1> SUFFICES ASSUME HomeInv, NEW mine \in BOOLEAN,
                    TimerFires(mine) \/ TabIsSeen(mine) \/ NetworkChanges(mine)
             PROVE  HomeInv'
  BY DEF Checked
<1> DEFINE seen == [home EXCEPT !.visible = TRUE]
           online == [home EXCEPT !.online = TRUE]
           hidden == [home EXCEPT !.visible = FALSE, !.timer = FALSE]
           offline == [home EXCEPT !.online = FALSE, !.timer = FALSE]
<1>1. /\ IsHome(home) /\ IsHome(seen) /\ IsHome(online) /\ IsHome(hidden) /\ IsHome(offline)
      /\ Watched(hidden) /\ Watched(offline)
  BY DEF HomeInv, HomeGood, IsHome, HomeFields, Watched
<1>2. /\ Answering(home, loads) /\ Answering(seen, loads) /\ Answering(online, loads)
      /\ Answering(hidden, loads) /\ Answering(offline, loads)
  BY <1>1 DEF HomeInv, HomeGood, Answering, Asked, IsHome, HomeFields
<1>3. CASE CheckServer(home, mine) \/ CheckServer(seen, mine) \/ CheckServer(online, mine)
  BY <1>1, <1>2, <1>3, CheckedHome
<1>4. CASE (home' = hidden \/ home' = offline) /\ UNCHANGED loads
  BY <1>1, <1>2, <1>4 DEF HomeInv, HomeGood
<1> QED
  BY <1>3, <1>4 DEF TimerFires, TabIsSeen, NetworkChanges

(* The server's list is what the screen asks for, unless it is the first   *)
(* one and the screen has gone on.                                         *)
LEMMA ListShownHome ==
  ASSUME NEW h, NEW l, NEW total, IsHome(h), l.kind = "boot" \/ l.asks = Asked(h)
  PROVE  /\ IsHome(ListShown(h, l, total)) /\ ListShown(h, l, total).status = "connected"
         /\ \A L : Answering(ListShown(h, l, total), L)
<1> DEFINE p == Min({IF l.kind = "boot" THEN l.asks.page ELSE h.page, total})
           list == [l.asks EXCEPT !.page = p]
           next == [h EXCEPT !.status = "connected", !.list = {list}, !.page = p, !.total = total]
           shown == [next EXCEPT !.moved = (l.kind = "boot" /\ list # Asked(next))]
<1>1. IsHome(next) /\ next.status = "connected" /\ next.list = {list}
  BY DEF IsHome, HomeFields
<1>2. l.asks = Asked(h) => list = Asked(next)
  BY DEF IsHome, HomeFields, Asked
<1>3. IsHome(shown) /\ shown.status = "connected" /\ shown.list = {list} /\ Asked(shown) = Asked(next)
  BY <1>1 DEF IsHome, HomeFields, Asked
<1>4. shown.moved \/ list = Asked(next)
  BY <1>1, <1>2 DEF IsHome, HomeFields
<1>5. ListShown(h, l, total) = shown
  BY DEF ListShown
<1> HIDE DEF p, list, next, shown
<1> QED
  BY <1>3, <1>4, <1>5 DEF Answering

LEMMA AnswersKeepHome == HomeInv /\ HomeAnswered => HomeInv'
<1> SUFFICES ASSUME HomeInv, NEW l \in loads, NEW ok \in BOOLEAN, NEW total \in 1..MaxPage,
                    HomeAnswer(l, ok, total)
             PROVE  HomeInv'
  BY DEF HomeAnswered
<1> DEFINE h == HomeReceived(home, l, ok, total)
           retried == home.retry = l.n
           done == [h EXCEPT !.retry = IF retried THEN 0 ELSE @, !.checking = @ /\ ~retried]
           rendered == ~ok \/ l.kind = "boot" \/ l.asks = Asked(home) \/ (retried /\ home.checking)
<1>0. IsHome(home) /\ Watched(home) /\ Answering(home, loads)
  BY DEF HomeInv, HomeGood
<1>1. home' = (IF rendered THEN Armed(done) ELSE done) /\ loads' = loads \ {l}
  BY DEF HomeAnswer
<1>2. IsHome(h) /\ Answering(h, loads')
  <2>1. CASE ~ok
    BY <1>0, <2>1 DEF HomeReceived, IsHome, HomeFields, Answering
  <2>2. CASE ok /\ (l.kind = "boot" \/ l.asks = Asked(home))
    <3>1. h = ListShown(home, l, total)
      BY <2>2 DEF HomeReceived
    <3> QED
      BY <1>0, <2>2, <3>1, ListShownHome
  <2>3. CASE ok /\ ~(l.kind = "boot" \/ l.asks = Asked(home))
    <3>1. h = home
      BY <2>3 DEF HomeReceived
    <3> QED
      BY <1>0, <1>1, <2>3, <3>1 DEF Answering
  <2> QED
    BY <2>1, <2>2, <2>3
<1>3. ~rendered => h = home
  BY DEF HomeReceived
<1> HIDE DEF h
<1>4. IsHome(done) /\ done.status = h.status /\ Asked(done) = Asked(h)
      /\ done.moved = h.moved /\ done.list = h.list
  BY <1>2 DEF IsHome, HomeFields, Asked
<1>5. Answering(done, loads')
  BY <1>2, <1>4 DEF Answering
<1>6. ~rendered => Watched(done)
  BY <1>0, <1>2, <1>3 DEF Watched, IsHome, HomeFields
<1> HIDE DEF done, rendered
<1>7. IsHome(home') /\ Watched(home')
  BY <1>1, <1>4, <1>6, ArmedHome
<1>8. Answering(home', loads')
  <2>1. /\ Armed(done).moved = done.moved /\ Armed(done).status = done.status
        /\ Armed(done).list = done.list /\ Asked(Armed(done)) = Asked(done)
    BY <1>4, ArmedHome DEF HomeFields
  <2> QED
    BY <1>1, <1>5, <2>1 DEF Answering
<1> QED
  BY <1>7, <1>8 DEF HomeInv, HomeGood

LEMMA LoadedHome ==
  ASSUME NEW sort, NEW r
  PROVE  /\ \A L : HomeGood([HomeLoaded(sort) EXCEPT !.route = r], L)
         /\ \A n : HomeGood([Booting(sort) EXCEPT !.route = r],
                            {[n |-> n, kind |-> "boot", asks |-> Asked(Booting(sort))]})
         /\ \A n : HomeGood(Booting(sort),
                            {[n |-> n, kind |-> "boot", asks |-> Asked(Booting(sort))]})
<1> DEFINE b == Booting(sort)
           c == [HomeLoaded(sort) EXCEPT !.route = r]
           d == [b EXCEPT !.route = r]
<1>1. IsHome(b) /\ b.status = "checking"
  BY DEF IsHome, HomeFields, Booting
<1>2. IsHome(d) /\ d.status = "checking" /\ Asked(d) = Asked(b)
  BY DEF IsHome, HomeFields, Booting, Asked
<1>3. IsHome(c) /\ c.status = "connected" /\ c.list = {Asked(b)} /\ Asked(c) = Asked(b)
  BY DEF IsHome, HomeFields, Booting, Asked, HomeLoaded
<1> HIDE DEF b, c, d
<1>4. \A L : HomeGood(c, L)
  BY <1>3 DEF HomeGood, Watched, Answering
<1>5. \A n : HomeGood(b, {[n |-> n, kind |-> "boot", asks |-> Asked(b)]})
  BY <1>1 DEF HomeGood, Watched, Answering
<1>6. \A n : HomeGood(d, {[n |-> n, kind |-> "boot", asks |-> Asked(b)]})
  BY <1>2 DEF HomeGood, Watched, Answering
<1> QED
  BY <1>4, <1>5, <1>6 DEF b, c, d

LEMMA InitHome == HomeInit => HomeInv
<1>1. CASE left["home"] = 0
  <2> DEFINE sort == CHOOSE x \in Sorts : TRUE
  <2> SUFFICES ASSUME HomeInit PROVE HomeInv
    OBVIOUS
  <2>1. (\E r : home = [HomeLoaded(sort) EXCEPT !.route = r]) /\ loads = {}
    BY <1>1, Zenon DEF HomeInit
  <2> HIDE DEF sort
  <2>2. PICK r : home = [HomeLoaded(sort) EXCEPT !.route = r]
    BY <2>1
  <2>3. HomeGood([HomeLoaded(sort) EXCEPT !.route = r], {})
    BY LoadedHome
  <2> QED
    BY <2>1, <2>2, <2>3, Zenon DEF HomeInv
<1>2. CASE left["home"] # 0
  <2> SUFFICES ASSUME HomeInit PROVE HomeInv
    OBVIOUS
  <2>1. PICK sort \in Sorts :
          /\ home = Booting(sort)
          /\ loads = {[n |-> 1, kind |-> "boot", asks |-> Asked(Booting(sort))]}
    BY <1>2 DEF HomeInit
  <2>2. HomeGood(Booting(sort), {[n |-> 1, kind |-> "boot", asks |-> Asked(Booting(sort))]})
    BY LoadedHome
  <2> QED
    BY <2>1, <2>2, Zenon DEF HomeInv
<1> QED
  BY <1>1, <1>2

LEMMA StepsKeepHome == HomeInv /\ HomeStep => HomeInv'
<1> SUFFICES ASSUME HomeInv, HomeStep PROVE HomeInv'
  OBVIOUS
<1>0. IsHome(home) /\ Watched(home) /\ Answering(home, loads)
  BY DEF HomeInv, HomeGood
<1>1. CASE UNCHANGED homeVars
  BY <1>1 DEF homeVars, HomeInv
<1>2. CASE Routed
  <2>1. PICK r : home' = [home EXCEPT !.route = r] /\ UNCHANGED loads
    BY <1>2 DEF Routed
  <2>2. IsHome(home') /\ Watched(home')
    BY <1>0, <2>1 DEF IsHome, HomeFields, Watched
  <2>3. Answering(home', loads')
    BY <1>0, <2>1 DEF IsHome, HomeFields, Answering, Asked
  <2> QED
    BY <2>2, <2>3 DEF HomeInv, HomeGood
<1>3. CASE RetryHome
  <2> DEFINE retried == [home EXCEPT !.status = "checking", !.retry = FreeNo]
  <2>1. CASE home.retry # 0
    BY <1>0, <1>3, <2>1 DEF RetryHome, RetryLoad, HomeInv
  <2>2. CASE home.retry = 0
    <3>1. Refetch(retried)
      BY <1>3, <2>2 DEF RetryHome, RetryLoad
    <3>2. IsHome(retried)
      BY <1>0 DEF IsHome, HomeFields
    <3> HIDE DEF retried
    <3> QED
      BY <3>1, <3>2, RefetchHome
  <2> QED
    BY <2>1, <2>2
<1>4. CASE HomeUnload
  <2> DEFINE L == {[n |-> 1, kind |-> "boot", asks |-> Asked(Booting(home.sort))]}
  <2>1. \/ home' = [HomeLoaded(home.sort) EXCEPT !.route = home.route] /\ loads' = {}
        \/ home' = [Booting(home.sort) EXCEPT !.route = home.route] /\ loads' = L
    BY <1>4 DEF HomeUnload
  <2>2. /\ HomeGood([HomeLoaded(home.sort) EXCEPT !.route = home.route], {})
        /\ HomeGood([Booting(home.sort) EXCEPT !.route = home.route], L)
    BY LoadedHome
  <2> HIDE DEF L
  <2> QED
    BY <2>1, <2>2, Zenon DEF HomeInv
<1> QED
  BY <1>1, <1>2, <1>3, <1>4, RefetchHome, TurnedHome, ChecksKeepHome, AnswersKeepHome
  DEF HomeStep, Asking

(* What every other part of the page does to the home list.                *)
LEMMA SignOutMovesHome == IsHome(home) /\ LibrarySignOut => HomeStep
  BY DEF LibrarySignOut, AwayFrom, HomeStep, Routed

LEMMA ListsMoveHome ==
  ASSUME IsHome(home), ListsStay \/ LibrarySignOut \/ UNCHANGED homeVars
  PROVE  HomeStep
  BY SignOutMovesHome DEF ListsStay, HomeStep

LEMMA ResetMovesHome ==
  ASSUME IsHome(home), NEW g, IsHome(g), g.status = home.status, g.list = home.list,
         g.moved = home.moved, Asked(g) = Asked(home), ResetHome(g)
  PROVE  HomeStep
<1> DEFINE h == [g EXCEPT !.find = "", !.page = 1]
           m == [h EXCEPT !.moved = @ \/ (g.status = "checking" /\ Asked(h) # Asked(g))]
<1>1. IsHome(h) /\ h.status = g.status /\ h.list = g.list /\ h.moved = g.moved
  BY DEF IsHome, HomeFields
<1>2. CASE g.status = "connected"
  BY <1>1, <1>2 DEF ResetHome, HomeStep, Asking
<1>3. CASE g.status # "connected"
  <2>1. home' = Armed(m) /\ UNCHANGED loads
    BY <1>3 DEF ResetHome
  <2>2. IsHome(m) /\ m.status = h.status /\ m.list = h.list /\ Asked(m) = Asked(h)
        /\ (h.moved => m.moved) /\ (g.status = "checking" /\ Asked(h) # Asked(g) => m.moved)
    BY <1>1 DEF IsHome, HomeFields, Asked
  <2>3. m.moved \/ m.status = "fallback" \/ Asked(m) = Asked(home)
    BY <1>1, <1>3, <2>2 DEF IsHome
  <2> HIDE DEF h, m
  <2>4. Turned
    BY <1>1, <2>1, <2>2, <2>3 DEF Turned
  <2> QED
    BY <2>4 DEF HomeStep
<1> QED
  BY <1>2, <1>3

(* The first page of another order is looked at, unasked.                  *)
LEMMA TurningMovesHome ==
  ASSUME IsHome(home), UNCHANGED loads,
         \/ home' = Armed([home EXCEPT !.page = 1, !.moved = @ \/ home.page # 1])
         \/ home' = Armed([home EXCEPT !.sort = "latest", !.page = 1,
                                       !.moved = @ \/ <<home.sort, home.page>> # <<"latest", 1>>])
  PROVE  HomeStep
<1> DEFINE g == [home EXCEPT !.page = 1, !.moved = @ \/ home.page # 1]
           h == [home EXCEPT !.sort = "latest", !.page = 1,
                             !.moved = @ \/ <<home.sort, home.page>> # <<"latest", 1>>]
<1>1. IsHome(g) /\ g.status = home.status /\ g.list = home.list /\ (home.moved => g.moved)
      /\ (g.moved \/ Asked(g) = Asked(home))
  BY DEF IsHome, HomeFields, Asked
<1>2. IsHome(h) /\ h.status = home.status /\ h.list = home.list /\ (home.moved => h.moved)
      /\ (h.moved \/ Asked(h) = Asked(home))
  BY DEF IsHome, HomeFields, Asked
<1>3. home' = Armed(g) \/ home' = Armed(h)
  OBVIOUS
<1> HIDE DEF g, h
<1>4. Turned
  BY <1>1, <1>2, <1>3 DEF Turned
<1> QED
  BY <1>4 DEF HomeStep

LEMMA HomeEventsMoveHome == IsHome(home) /\ HomeEvents => HomeStep
<1> SUFFICES ASSUME IsHome(home), HomeEvents PROVE HomeStep
  OBVIOUS
<1>1. \A f, s, p : /\ IsHome([home EXCEPT !.find = f, !.page = 1])
                   /\ IsHome([home EXCEPT !.sort = s, !.page = 1])
                   /\ IsHome([home EXCEPT !.page = p])
  BY DEF IsHome, HomeFields
<1>2. CASE \/ \E f \in Finds : CommitSearch(f) \/ ChangeScope(f)
           \/ \E s \in Sorts : ChangeSort(s)
           \/ \E p \in 1..MaxPage : ChangePage(p)
  BY <1>1, <1>2 DEF CommitSearch, ChangeScope, ChangeSort, ChangePage, HomeStep, Asking
<1>3. CASE RetryHome \/ Checked
  BY <1>3 DEF HomeStep
<1>4. CASE HideReported
  BY <1>4, TurningMovesHome DEF HideReported
<1>5. CASE GoHome
  BY <1>5, ResetMovesHome DEF GoHome
<1> QED
  BY <1>2, <1>3, <1>4, <1>5 DEF HomeEvents, HomePage, Checked

LEMMA LibraryMovesHome ==
  ASSUME IsHome(home), LibraryEvents \/ ListAnswers
  PROVE  HomeStep
<1>1. IsHome(AwayFrom(home)) /\ \A r : IsHome([home EXCEPT !.route = r])
      /\ \A f : IsHome([home EXCEPT !.find = f, !.page = 1, !.route = "home"])
  BY DEF IsHome, HomeFields, AwayFrom
<1>2. CASE VisitLibrary
  BY <1>2 DEF VisitLibrary, Visit, HomeStep, Routed
<1>3. CASE MyPage
  BY <1>3 DEF MyPage, ChangeTab, RetryLibrary, HomeStep
<1>4. ASSUME NEW p \in Prompts, PromptCard(p) PROVE HomeStep
  BY <1>4, TurningMovesHome
  DEF PromptCard, ToggleSaved, ToggleLiked, Publish, Unshare, DeletePrompt, HomeStep
<1>5. CASE Leave
  <2> DEFINE g == [home EXCEPT !.route = "home"]
  <2>1. ResetHome(g)
    BY <1>5 DEF Leave
  <2>2. IsHome(g) /\ g.status = home.status /\ g.list = home.list /\ g.moved = home.moved
        /\ Asked(g) = Asked(home)
    BY DEF IsHome, HomeFields, Asked
  <2> HIDE DEF g
  <2> QED
    BY <2>1, <2>2, ResetMovesHome
<1>6. ASSUME NEW f \in Finds, SearchFromLibrary(f) PROVE HomeStep
  BY <1>1, <1>6 DEF SearchFromLibrary, HomeStep, Asking
<1>7. CASE HomeAnswered
  BY <1>7 DEF HomeStep
<1>8. ASSUME NEW w \in library.works, WorkDone(w) PROVE HomeStep
  <2>1. UNCHANGED loads
    BY <1>8 DEF WorkDone
  <2>2. CASE w.how = "publish"
    <3>1. home' = Armed([home EXCEPT !.sort = "latest", !.page = 1,
                                     !.moved = @ \/ <<home.sort, home.page>> # <<"latest", 1>>])
      BY <1>8, <2>2 DEF WorkDone
    <3> QED
      BY <2>1, <3>1, TurningMovesHome
  <2>3. CASE w.how # "publish"
    BY <1>8, <2>1, <2>3 DEF WorkDone, HomeStep, homeVars
  <2> QED
    BY <2>2, <2>3
<1>9. ASSUME NEW p, NEW got, NEW late, NEW auth, PullAnswer(p, got, late, auth) PROVE HomeStep
  BY <1>9 DEF PullAnswer, AwayFrom, HomeStep, Routed, homeVars
<1>10. ASSUME NEW w, NEW why, WorkFails(w, why) PROVE HomeStep
  <2> DEFINE out == why = "auth" /\ LoggedIn
             h == IF out THEN AwayFrom(home) ELSE home
  <2>1. IF w.how \in Toggles THEN Refetch(h) ELSE home' = h /\ UNCHANGED loads
    BY <1>10 DEF WorkFails
  <2>2. CASE w.how \in Toggles
    BY <1>1, <2>1, <2>2 DEF HomeStep, Asking
  <2>3. CASE w.how \notin Toggles
    BY <2>1, <2>3 DEF HomeStep, Routed, AwayFrom, homeVars
  <2> QED
    BY <2>2, <2>3
<1> QED
  BY <1>2, <1>3, <1>4, <1>5, <1>6, <1>7, <1>8, <1>9, <1>10
  DEF LibraryEvents, ListAnswers, HomeAnswered

LEMMA NextMovesHome == IsHome(home) /\ [Next]_vars => HomeStep
<1> SUFFICES ASSUME IsHome(home), [Next]_vars PROVE HomeStep
  OBVIOUS
<1>1. CASE UNCHANGED vars
  BY <1>1 DEF vars, HomeStep
<1>2. ASSUME NEW a, Login(a) PROVE HomeStep
  BY <1>2 DEF Login, LibrarySignIn, HomeStep, Routed, AwayFrom, homeVars
<1>3. CASE Logout \/ LoadAgain
  BY <1>3, SignOutMovesHome DEF Logout, LoadAgain, HomeStep
<1>4. CASE MakeEvents \/ BillingEvents \/ AdminEvents \/ TalkEvents
  <2>1. MakeEvents => ListsStay
    BY DEF MakeEvents, SidePanel, ChatAlone, FoldersAlone, ListsAndBillingStay
  <2>2. BillingEvents => ListsStay
    BY DEF BillingEvents, BillingAlone
  <2>3. AdminEvents \/ TalkEvents => UNCHANGED homeVars
    BY DEF AdminEvents, AdminAlone, TalkEvents, TalkAlone
  <2> QED
    BY <1>4, <2>1, <2>2, <2>3, ListsMoveHome
<1>5. CASE BillingAnswers
  BY <1>5, ListsMoveHome DEF BillingAnswers, BillingAlone, ListsFollow, HomeStep
<1>6. CASE MakeAnswers
  BY <1>6, ListsMoveHome DEF MakeAnswers, ChatAlone, ListsAndBillingStay, ListsFollow
<1>7. CASE AdminAnswers
  BY <1>7, ListsMoveHome DEF AdminAnswers, AdminAlone, LibraryFollows
<1>8. CASE TalkAnswers
  BY <1>8, ListsMoveHome DEF TalkAnswers, TalkAlone
<1> QED
  BY <1>1, <1>2, <1>3, <1>4, <1>5, <1>6, <1>7, <1>8, HomeEventsMoveHome, LibraryMovesHome
  DEF Next

LEMMA SpecKeepsHome == Spec => []HomeInv
<1>1. Init => HomeInv
  BY InitHome DEF Init
<1>2. HomeInv /\ [Next]_vars => HomeInv'
  BY NextMovesHome, StepsKeepHome DEF HomeInv, HomeGood
<1> QED
  BY <1>1, <1>2, PTL DEF Spec

(* A home page that is away comes back by itself: whatever tabs, networks, *)
(* retries and late answers do, the timer runs or a check is under way.    *)
THEOREM HomeComesBack == Spec => []RecoveryArmed
<1>1. HomeInv => RecoveryArmed
  BY DEF HomeInv, HomeGood, Watched, RecoveryArmed
<1> QED
  BY <1>1, SpecKeepsHome, PTL

(* Once every load has been answered, the list shown is the one that the   *)
(* screen asks for, in whatever order searches, orders and pages were      *)
(* asked for and answered.                                                 *)
THEOREM HomeShowsAsked == Spec => []HomeIsAsked
<1>1. HomeInv => HomeIsAsked
  BY DEF HomeInv, HomeGood, Answering, HomeIsAsked
<1> QED
  BY <1>1, SpecKeepsHome, PTL

----------------------------------------------------------------------------
(* The billing screen *)

Members == Accounts \cup Staff
Fetches == {"refresh", "summary"}      \* the calls whose answer is shown

ScreenFields ==
  {"open", "busy", "error", "shown", "quote", "plan", "active", "summaryToken", "summary",
   "revision", "wanted"}
IsScreen(s) == DOMAIN s = ScreenFields /\ DOMAIN s.shown = Parts /\ s.active \in Nat /\ s.revision \in Nat
IsSub(n) == DOMAIN n = {"ver", "level", "status"} /\ n.ver \in Nat
IsCall(c) ==
  /\ DOMAIN c = {"kind", "token", "rev", "plan", "seen", "bad", "late"}
  /\ c.token \in 1..Len(owners) /\ c.rev \in Nat

BillingTypes ==
  /\ owners \in Seq(Members) /\ token \in 0..Len(owners)
  /\ DOMAIN subs = Members /\ \A a \in Members : IsSub(subs[a])
  /\ IsScreen(screen) /\ screen.active \in 0..Len(owners)
  /\ \A c \in calls : IsCall(c)

(* What is shown came from the account of the token it was fetched with,   *)
(* and is no newer than that account; the screen is open only for who is   *)
(* signed in.                                                              *)
Whose(s, p) == s.shown[p].of
Ver(s, p) == s.shown[p].sub.ver
Blank(s) == \A p \in Parts : ~Has(s, p)
ShownIsOf ==
  \A p \in Parts : Has(screen, p) =>
    /\ screen.active # 0 /\ Whose(screen, p) = owners[screen.active]
    /\ Ver(screen, p) \in Nat /\ Ver(screen, p) <= subs[owners[screen.active]].ver
OpenIsMine == screen.open => token # 0 /\ (screen.active = token \/ Blank(screen))

(* A call of the latest revision was sent under the screen's own token, by *)
(* itself, and will bring nothing older than what is shown.                *)
FetchOk(c) ==
  /\ c.rev <= screen.revision /\ (c.rev = screen.revision => c.token = screen.active)
  /\ c.seen.ver \in Nat /\ c.seen.ver <= subs[owners[c.token]].ver
  /\ c.kind \in Fetches =>
       /\ \A d \in calls : d.kind \in Fetches /\ d.rev = c.rev => d = c
       /\ c.rev = screen.revision => \A p \in Parts : Has(screen, p) => Ver(screen, p) <= c.seen.ver
FetchesInOrder == \A c \in calls : c.kind \in Fetches \cup {"quote"} => FetchOk(c)

BillingInv == BillingTypes /\ ShownIsOf /\ OpenIsMine /\ FetchesInOrder /\ BillingWaits

(* Tokens are only added, accounts only move on.                           *)
SessionMoves ==
  /\ owners' \in Seq(Members) /\ Len(owners) <= Len(owners') /\ token' \in 0..Len(owners')
  /\ \A i \in 1..Len(owners) : owners'[i] = owners[i]
SubsMove ==
  /\ DOMAIN subs' = Members
  /\ \A a \in Members : IsSub(subs'[a]) /\ subs[a].ver <= subs'[a].ver

(* What NewestWins says of one step.                                       *)
NewestStays ==
  IsCurrent(screen) /\ IsCurrent(screen)' =>
    \A p \in Parts :
      screen.shown[p] # NoData /\ screen.shown'[p] # NoData /\ screen.shown[p].of = screen.shown'[p].of
        => screen.shown[p].sub.ver <= screen.shown'[p].sub.ver

LEMMA NewestByVer ==
  ASSUME \A p \in Parts : Has(screen, p) /\ Has(screen', p) => Ver(screen, p) <= Ver(screen', p)
  PROVE  NewestStays
BY DEF NewestStays, Has, Ver

LEMMA BillingFacts ==
  ASSUME BillingInv
  PROVE  /\ BillingTypes /\ ShownIsOf /\ OpenIsMine /\ FetchesInOrder /\ BillingWaits
         /\ screen.revision \in Nat /\ screen.active \in 0..Len(owners) /\ Len(owners) \in Nat
         /\ token \in 0..Len(owners)
         /\ \A i \in 1..Len(owners) : owners[i] \in Members
         /\ \A a \in Members : subs[a].ver \in Nat
         /\ \A c \in calls : c.token \in 1..Len(owners) /\ c.rev \in Nat
BY DEF BillingInv, BillingTypes, IsScreen, IsCall, IsSub

LEMMA MovesFacts ==
  ASSUME BillingInv, SessionMoves, SubsMove
  PROVE  /\ \A i \in 1..Len(owners) : owners'[i] = owners[i]
         /\ \A i \in 1..Len(owners)' : owners'[i] \in Members
         /\ Len(owners)' \in Nat /\ Len(owners) <= Len(owners)' /\ token' \in 0..Len(owners)'
         /\ \A a \in Members : subs'[a].ver \in Nat /\ subs[a].ver <= subs'[a].ver
BY DEF BillingInv, BillingTypes, SessionMoves, SubsMove, IsSub

(* What is shown stays the account's.                                      *)
LEMMA ShownStays ==
  ASSUME BillingInv, SessionMoves, SubsMove, screen'.shown = screen.shown, screen'.active = screen.active
  PROVE  ShownIsOf'
<1> SUFFICES ASSUME NEW p \in Parts, Has(screen', p)
             PROVE  /\ screen'.active # 0 /\ Whose(screen', p) = owners'[screen'.active]
                    /\ Ver(screen', p) \in Nat /\ Ver(screen', p) <= subs'[owners'[screen'.active]].ver
  BY DEF ShownIsOf
<1>1. Has(screen, p) /\ Whose(screen', p) = Whose(screen, p) /\ Ver(screen', p) = Ver(screen, p)
  BY DEF Has, Whose, Ver
<1>2. /\ screen.active # 0 /\ Whose(screen, p) = owners[screen.active]
      /\ Ver(screen, p) \in Nat /\ Ver(screen, p) <= subs[owners[screen.active]].ver
  BY <1>1, BillingFacts DEF ShownIsOf
<1>3. screen.active \in 1..Len(owners)
  BY <1>2, BillingFacts
<1>4. owners'[screen.active] = owners[screen.active] /\ owners[screen.active] \in Members
  BY <1>3, MovesFacts, BillingFacts
<1>5. /\ subs[owners[screen.active]].ver \in Nat /\ subs'[owners[screen.active]].ver \in Nat
      /\ subs[owners[screen.active]].ver <= subs'[owners[screen.active]].ver
  BY <1>4, MovesFacts, BillingFacts
<1>6. owners'[screen'.active] = owners[screen.active]
  BY <1>4
<1> QED
  BY <1>1, <1>2, <1>5, <1>6

LEMMA TypesStay ==
  ASSUME BillingInv, SessionMoves, SubsMove, IsScreen(screen'), screen'.active \in 0..Len(owners'),
         \A c \in calls' \ calls : IsCall(c)'
  PROVE  BillingTypes'
<1>1. \A c \in calls' : IsCall(c)'
  BY BillingFacts, MovesFacts DEF BillingTypes, IsCall
<1> QED
  BY <1>1 DEF BillingTypes, SessionMoves, SubsMove

(* What a call brings stays no newer than the account.                     *)
LEMMA SeenStays ==
  ASSUME BillingInv, SessionMoves, SubsMove, NEW c \in calls, c.kind \in Fetches \cup {"quote"}
  PROVE  /\ c.rev \in Nat /\ c.token \in 1..Len(owners) /\ FetchOk(c)
         /\ c.seen.ver \in Nat /\ c.seen.ver <= subs'[owners'[c.token]].ver
<1>1. FetchOk(c) /\ c.token \in 1..Len(owners) /\ c.rev \in Nat
  BY BillingFacts DEF FetchesInOrder
<1>2. c.seen.ver \in Nat /\ c.seen.ver <= subs[owners[c.token]].ver
  BY <1>1 DEF FetchOk
<1>3. owners'[c.token] = owners[c.token] /\ owners[c.token] \in Members
  BY <1>1, BillingFacts, MovesFacts
<1>4. /\ subs[owners[c.token]].ver \in Nat /\ subs'[owners[c.token]].ver \in Nat
      /\ subs[owners[c.token]].ver <= subs'[owners[c.token]].ver
  BY <1>3, BillingFacts, MovesFacts
<1> QED
  BY <1>1, <1>2, <1>3, <1>4

(* The four ways a step may go.  The account is asked for,                 *)
LEMMA AskingKeepsBilling ==
  ASSUME BillingInv, SessionMoves, SubsMove, token' # 0,
         IsScreen(screen'), screen'.revision = screen.revision + 1, screen'.active = token',
         Blank(screen') \/ (screen'.shown = screen.shown /\ screen.active = token'),
         NEW r, r \in calls', calls' \subseteq calls \cup {r}, IsCall(r)',
         r.kind \in Fetches, r.rev = screen'.revision, r.token = token',
         r.seen = subs'[owners'[token']]
  PROVE  BillingInv' /\ NewestStays
<1>1. token' \in 1..Len(owners') /\ screen'.revision \in Nat /\ screen.revision \in Nat
  BY BillingFacts, MovesFacts
<1>2. owners'[token'] \in Members /\ subs'[owners'[token']].ver \in Nat
  BY <1>1, MovesFacts
<1>3. BillingTypes'
  BY <1>1, TypesStay
<1>4. ShownIsOf'
  <2>1. CASE Blank(screen')
    BY <2>1 DEF ShownIsOf, Blank
  <2>2. CASE screen'.shown = screen.shown /\ screen.active = token'
    BY <2>2, ShownStays
  <2> QED
    BY <2>1, <2>2
<1>5. OpenIsMine'
  BY DEF OpenIsMine
<1>6. ASSUME NEW c \in calls, c.kind \in Fetches \cup {"quote"}
      PROVE  c.rev # screen'.revision /\ c.rev <= screen'.revision
  <2>1. c.rev \in Nat /\ FetchOk(c)
    BY <1>6, SeenStays
  <2>2. c.rev <= screen.revision
    BY <2>1 DEF FetchOk
  <2> QED
    BY <1>1, <2>1, <2>2
<1>7. FetchOk(r)'
  <2>1. ASSUME NEW p \in Parts, Has(screen', p) PROVE Ver(screen', p) <= r.seen.ver
    BY <1>4, <2>1 DEF ShownIsOf
  <2>2. \A d \in calls' : d.kind \in Fetches /\ d.rev = r.rev => d = r
    BY <1>6
  <2>3. r.seen.ver \in Nat /\ r.seen.ver <= subs'[owners'[r.token]].ver /\ r.rev <= screen'.revision
    BY <1>1, <1>2
  <2> QED
    BY <2>1, <2>2, <2>3 DEF FetchOk
<1>8. ASSUME NEW c \in calls, c.kind \in Fetches \cup {"quote"}, c \in calls', c # r
      PROVE  FetchOk(c)'
  <2>1. FetchOk(c) /\ c.seen.ver \in Nat /\ c.seen.ver <= subs'[owners'[c.token]].ver
    BY <1>8, SeenStays
  <2>2. c.kind \in Fetches => \A d \in calls' : d.kind \in Fetches /\ d.rev = c.rev => d = c
    BY <1>6, <2>1 DEF FetchOk
  <2>3. c.rev # screen'.revision /\ c.rev <= screen'.revision
    BY <1>6, <1>8
  <2> QED
    BY <2>1, <2>2, <2>3 DEF FetchOk
<1>9. FetchesInOrder'
  BY <1>7, <1>8 DEF FetchesInOrder
<1>10. BillingWaits'
  BY DEF BillingWaits
<1>11. NewestStays
  <2>1. CASE Blank(screen')
    BY <2>1, NewestByVer DEF Blank
  <2>2. CASE screen'.shown = screen.shown
    <3>1. \A p \in Parts : Has(screen, p) => Ver(screen, p) \in Nat /\ Ver(screen', p) = Ver(screen, p)
      BY <2>2, BillingFacts DEF ShownIsOf, Ver
    <3> QED
      BY <2>2, <3>1, NewestByVer
  <2> QED
    BY <2>1, <2>2
<1> QED
  BY <1>3, <1>4, <1>5, <1>9, <1>10, <1>11 DEF BillingInv

(* or nothing is told,                                                     *)
LEMMA NotingKeepsBilling ==
  ASSUME BillingInv, SessionMoves, SubsMove, BillingWaits',
         IsScreen(screen'), screen'.revision = screen.revision, screen'.active = screen.active,
         screen'.shown = screen.shown, screen'.open => screen.open /\ token' = token,
         \A c \in calls' \ calls : IsCall(c)' /\ c.kind \notin Fetches \cup {"quote"}
  PROVE  BillingInv' /\ NewestStays
<1>1. \A p \in Parts : Has(screen', p) = Has(screen, p) /\ Ver(screen', p) = Ver(screen, p)
  BY DEF Has, Ver
<1>2. BillingTypes'
  BY BillingFacts, MovesFacts, TypesStay
<1>3. ShownIsOf'
  BY ShownStays
<1>4. OpenIsMine'
  BY <1>1, BillingFacts DEF OpenIsMine, Blank
<1>5. ASSUME NEW c \in calls', c.kind \in Fetches \cup {"quote"} PROVE FetchOk(c)'
  <2>1. c \in calls
    BY <1>5
  <2>2. FetchOk(c) /\ c.seen.ver \in Nat /\ c.seen.ver <= subs'[owners'[c.token]].ver
    BY <1>5, <2>1, SeenStays
  <2>3. c.kind \in Fetches => \A d \in calls' : d.kind \in Fetches /\ d.rev = c.rev => d = c
    BY <2>2 DEF FetchOk
  <2> QED
    BY <1>1, <2>2, <2>3 DEF FetchOk
<1>6. FetchesInOrder'
  BY <1>5 DEF FetchesInOrder
<1>7. \A p \in Parts : Has(screen, p) => Ver(screen, p) \in Nat
  BY BillingFacts DEF ShownIsOf
<1>8. NewestStays
  BY <1>1, <1>7, NewestByVer
<1> QED
  BY <1>2, <1>3, <1>4, <1>6, <1>8 DEF BillingInv

(* or an answer is shown,                                                  *)
LEMMA TellingKeepsBilling ==
  ASSUME BillingInv, UNCHANGED <<owners, subs>>, token' \in {0, token}, BillingWaits',
         NEW c \in calls, c.kind \in Fetches, IsLatest(c, screen),
         NEW now, now \in {c.seen, subs[owners[c.token]]},
         IsScreen(screen'), screen'.revision = screen.revision, screen'.active = screen.active,
         \A p \in Parts : \/ screen'.shown[p] = screen.shown[p] \/ screen'.shown[p] = NoData
                          \/ screen'.shown[p] = [of |-> owners[c.token], sub |-> now],
         screen'.open => screen.open /\ token' = token,
         c \notin calls', \A d \in calls' \ calls : IsCall(d) /\ d.kind = "quote"
                                 /\ d.token = c.token /\ d.rev = c.rev /\ d.seen = c.seen
  PROVE  BillingInv' /\ NewestStays
<1>1. token # 0 /\ screen.active = token /\ c.rev = screen.revision
  BY DEF IsLatest, IsCurrent, LoggedIn
<1>2. FetchOk(c) /\ c.token \in 1..Len(owners) /\ c.rev \in Nat
  BY BillingFacts DEF FetchesInOrder
<1>3. c.token = token /\ c.seen.ver \in Nat /\ c.seen.ver <= subs[owners[token]].ver
  BY <1>1, <1>2 DEF FetchOk
<1>4. owners[token] \in Members /\ subs[owners[token]].ver \in Nat
  BY <1>2, <1>3, BillingFacts
<1>5. now.ver \in Nat /\ c.seen.ver <= now.ver /\ now.ver <= subs[owners[token]].ver
  BY <1>3, <1>4
<1>6. SessionMoves /\ SubsMove
  BY BillingFacts DEF SessionMoves, SubsMove, BillingTypes, IsSub
<1>7. BillingTypes'
  <2>1. \A d \in calls' \ calls : IsCall(d)'
    BY DEF IsCall
  <2> QED
    BY <1>6, <2>1, TypesStay, BillingFacts
<1>8. \A p \in Parts : Has(screen, p) =>
        /\ Whose(screen, p) = owners[token] /\ Ver(screen, p) \in Nat
        /\ Ver(screen, p) <= c.seen.ver /\ Ver(screen, p) <= subs[owners[token]].ver
  BY <1>1, <1>2, BillingFacts DEF ShownIsOf, FetchOk
<1>9. ASSUME NEW p \in Parts, Has(screen', p)
      PROVE  /\ Whose(screen', p) = owners[token] /\ Ver(screen', p) \in Nat
             /\ Ver(screen', p) <= subs[owners[token]].ver
             /\ Has(screen, p) => Ver(screen, p) <= Ver(screen', p)
  <2>1. CASE screen'.shown[p] = screen.shown[p]
    <3>1. Has(screen, p) /\ Whose(screen', p) = Whose(screen, p) /\ Ver(screen', p) = Ver(screen, p)
      BY <1>9, <2>1 DEF Has, Whose, Ver
    <3> QED
      BY <1>8, <3>1
  <2>2. CASE screen'.shown[p] = [of |-> owners[c.token], sub |-> now]
    <3>1. Whose(screen', p) = owners[token] /\ Ver(screen', p) = now.ver
      BY <1>3, <2>2 DEF Whose, Ver
    <3> QED
      BY <1>3, <1>5, <1>8, <3>1
  <2> QED
    BY <1>9, <2>1, <2>2 DEF Has
<1>10. ShownIsOf'
  BY <1>1, <1>9 DEF ShownIsOf
<1>11. OpenIsMine'
  BY <1>1, BillingFacts DEF OpenIsMine
<1>12. \A d \in calls' : d.kind \in Fetches => d \in calls /\ d.rev # screen.revision
  <2>1. \A d \in calls : d.kind \in Fetches /\ d.rev = c.rev => d = c
    BY <1>2 DEF FetchOk
  <2> QED
    BY <1>1, <2>1 DEF Fetches
<1>13. ASSUME NEW d \in calls', d.kind \in Fetches \cup {"quote"} PROVE FetchOk(d)'
  <2>1. CASE d \in calls
    <3>1. FetchOk(d) /\ d.seen.ver \in Nat /\ d.seen.ver <= subs'[owners'[d.token]].ver
      BY <1>6, <1>13, <2>1, SeenStays
    <3>2. d.kind \in Fetches => \A e \in calls' : e.kind \in Fetches /\ e.rev = d.rev => e = d
      BY <1>12, <3>1 DEF FetchOk
    <3>3. d.kind \in Fetches => d.rev # screen'.revision
      BY <1>12
    <3> QED
      BY <3>1, <3>2, <3>3 DEF FetchOk
  <2>2. CASE d \notin calls
    <3>1. d.kind = "quote" /\ d.token = c.token /\ d.rev = c.rev /\ d.seen = c.seen
      BY <2>2
    <3>2. d.kind \notin Fetches
      BY <3>1 DEF Fetches
    <3>3. d.rev <= screen'.revision
      BY <1>1, <1>2, <3>1
    <3> QED
      BY <1>1, <1>3, <3>1, <3>2, <3>3 DEF FetchOk
  <2> QED
    BY <2>1, <2>2
<1>14. FetchesInOrder'
  BY <1>13 DEF FetchesInOrder
<1>15. NewestStays
  BY <1>9, NewestByVer
<1> QED
  BY <1>7, <1>10, <1>11, <1>14, <1>15 DEF BillingInv

(* or the page is loaded again.                                            *)
LEMMA LoadingKeepsBilling ==
  ASSUME BillingInv, UNCHANGED <<owners, subs>>, token' \in {0, token}, BillingWaits',
         IsScreen(screen'), Blank(screen'), screen'.active \in {0, token},
         screen'.open => token' # 0,
         \A c \in calls' : IsCall(c) /\ c.kind \notin Fetches \cup {"quote"}
  PROVE  BillingInv' /\ NewestStays
<1>1. SessionMoves /\ SubsMove
  BY BillingFacts DEF SessionMoves, SubsMove, BillingTypes, IsSub
<1>2. BillingTypes'
  <2>1. \A c \in calls' : IsCall(c)'
    BY DEF IsCall
  <2> QED
    BY <1>1, <2>1, TypesStay, BillingFacts
<1>3. ShownIsOf' /\ OpenIsMine' /\ FetchesInOrder'
  BY DEF ShownIsOf, OpenIsMine, FetchesInOrder, Blank
<1>4. NewestStays
  BY NewestByVer DEF Blank
<1> QED
  BY <1>2, <1>3, <1>4 DEF BillingInv

(* What the operations make of a screen and of a call.                     *)
CallFields == {"kind", "token", "rev", "plan", "seen", "bad", "late"}

LEMMA RefreshingScreen ==
  ASSUME NEW s, IsScreen(s), NEW t, t \in Nat
  PROVE  LET n == Refreshing(s, t)
         IN  /\ IsScreen(n) /\ n.revision = s.revision + 1 /\ n.active = t
             /\ n.shown = s.shown /\ n.open = s.open
BY DEF Refreshing, IsScreen, ScreenFields

LEMMA OpenedScreen ==
  ASSUME NEW s, IsScreen(s), NEW plan
  PROVE  LET n == ScreenOpened(s, plan)
         IN  IsScreen(n) /\ n.revision = s.revision /\ n.active = s.active /\ Blank(n)
BY DEF ScreenOpened, IsScreen, ScreenFields, Blank, Has, Nothing

LEMMA SentRead ==
  ASSUME NEW kind, NEW s, NEW t, NEW now
  PROVE  LET r == Read(kind, s, t, now)
         IN  /\ DOMAIN r = CallFields /\ r.kind = kind /\ r.token = t
             /\ r.rev = s.revision /\ r.seen = now
BY DEF Read, CallFields

LEMMA SentWrite ==
  ASSUME NEW kind, NEW plan
  PROVE  LET r == Write(kind, plan)
         IN  DOMAIN r = CallFields /\ r.kind = kind /\ r.token = token /\ r.rev = 0
BY DEF Write, CallFields

LEMMA Quiet ==
  ASSUME BillingInv, UNCHANGED owners, token' \in {0, token}
  PROVE  SessionMoves
BY BillingFacts DEF SessionMoves, BillingTypes

LEMMA SubsStay ==
  ASSUME BillingInv, UNCHANGED subs
  PROVE  SubsMove
BY BillingFacts DEF SubsMove, BillingTypes, IsSub

(* A refresh of the screen s.                                              *)
LEMMA RefreshKeepsBilling ==
  ASSUME BillingInv, SessionMoves, SubsMove, token' # 0,
         NEW s, IsScreen(s), s.revision = screen.revision,
         Blank(s) \/ (s.shown = screen.shown /\ screen.active = token'),
         screen' = Refreshing(s, token'),
         NEW r, r \in calls', calls' \subseteq calls \cup {r},
         DOMAIN r = CallFields, r.kind \in Fetches, r.token = token', r.rev = screen'.revision,
         r.seen = subs'[owners'[token']]
  PROVE  BillingInv' /\ NewestStays
<1>1. token' \in Nat /\ token' \in 1..Len(owners')
  BY MovesFacts
<1>2. /\ IsScreen(screen') /\ screen'.revision = screen.revision + 1 /\ screen'.active = token'
      /\ screen'.shown = s.shown
  BY <1>1, RefreshingScreen
<1>3. Blank(screen') \/ (screen'.shown = screen.shown /\ screen.active = token')
  BY <1>2 DEF Blank, Has
<1>4. IsCall(r)'
  BY <1>1, <1>2 DEF IsCall, CallFields, IsScreen
<1> QED
  BY <1>2, <1>3, <1>4, AskingKeepsBilling

(* The screen waits for the same call as before.                           *)
LEMMA WaitsOn ==
  ASSUME BillingWaits, token' = token, screen'.active = screen.active,
         screen'.revision = screen.revision, screen'.busy => screen.busy,
         NEW c, c.kind \notin Writes \cup {"sdk"}, ~IsLatest(c, screen), calls \ {c} \subseteq calls'
  PROVE  BillingWaits'
<1> SUFFICES ASSUME screen'.busy, token' # 0, screen'.active = token'
             PROVE  \E d \in calls' : d.kind \in Writes \cup {"sdk"}
                                      \/ (d.rev = screen'.revision /\ d.token = token')
  BY DEF BillingWaits, IsCurrent, LoggedIn
<1>1. PICK d \in calls : d.kind \in Writes \cup {"sdk"} \/ (d.rev = screen.revision /\ d.token = token)
  BY DEF BillingWaits, IsCurrent, LoggedIn
<1>2. c.rev # screen.revision
  BY DEF IsLatest, IsCurrent, LoggedIn
<1>3. d # c
  BY <1>1, <1>2
<1> QED
  BY <1>1, <1>3

LEMMA SignInKeepsBilling ==
  ASSUME BillingInv, ~LoggedIn, NEW a \in Members, SignIn(a), BillingSignIn
  PROVE  BillingInv' /\ NewestStays
<1>1. /\ owners' \in Seq(Members) /\ Len(owners') = Len(owners) + 1 /\ token' = Len(owners')
      /\ \A i \in 1..Len(owners) : owners'[i] = owners[i]
  BY BillingFacts DEF SignIn, BillingTypes
<1>2. SessionMoves /\ token' # 0 /\ token' # screen.active
  BY <1>1, BillingFacts DEF SessionMoves
<1>3. SubsMove
  BY SubsStay DEF BillingSignIn
<1>4. CASE ~Picked(screen)
  <2>1. UNCHANGED <<screen, calls>>
    BY <1>4 DEF BillingSignIn
  <2>2. IsScreen(screen') /\ ~screen.open
    BY <2>1, BillingFacts DEF BillingTypes, OpenIsMine, LoggedIn
  <2>3. BillingWaits'
    BY <1>2, <2>1 DEF BillingWaits, IsCurrent
  <2> QED
    BY <1>2, <1>3, <2>1, <2>2, <2>3, NotingKeepsBilling
<1>5. CASE Picked(screen)
  <2> DEFINE s == ScreenOpened([screen EXCEPT !.wanted = -1], screen.wanted)
             r == Read("refresh", screen', token', subs[owners'[token']])
  <2>1. screen' = Refreshing(s, token') /\ calls' = calls \cup {r} /\ subs' = subs
    BY <1>5 DEF BillingSignIn
  <2>2. IsScreen([screen EXCEPT !.wanted = -1]) /\ [screen EXCEPT !.wanted = -1].revision = screen.revision
    BY BillingFacts DEF BillingTypes, IsScreen, ScreenFields
  <2>3. IsScreen(s) /\ s.revision = screen.revision /\ Blank(s)
    BY <2>2, OpenedScreen
  <2>4. /\ DOMAIN r = CallFields /\ r.kind = "refresh" /\ r.token = token' /\ r.rev = screen'.revision
        /\ r.seen = subs'[owners'[token']]
    BY <2>1, SentRead
  <2> HIDE DEF s, r
  <2> QED
    BY <1>2, <1>3, <2>1, <2>3, <2>4, RefreshKeepsBilling DEF Fetches
<1> QED
  BY <1>4, <1>5

(* The session's end, here or on another screen.                           *)
LEMMA SignOutKeepsBilling ==
  ASSUME BillingInv, SignOut, UNCHANGED subs, IsScreen(screen'), screen'.revision = screen.revision,
         screen'.active = screen.active, screen'.shown = screen.shown, ~screen'.open,
         calls' \subseteq calls
  PROVE  BillingInv' /\ NewestStays
<1>1. SessionMoves /\ SubsMove
  BY Quiet, SubsStay DEF SignOut
<1>2. BillingWaits'
  BY DEF SignOut, BillingWaits, IsCurrent, LoggedIn
<1> QED
  BY <1>1, <1>2, NotingKeepsBilling

LEMMA ExpireKeepsBilling ==
  ASSUME BillingInv, UNCHANGED subs, NEW s, IsScreen(s), s.revision = screen.revision,
         s.active = screen.active, s.shown = screen.shown, Expire(s), calls' \subseteq calls
  PROVE  BillingInv' /\ NewestStays
<1>1. /\ IsScreen(screen') /\ screen'.revision = s.revision /\ screen'.active = s.active
      /\ screen'.shown = s.shown /\ ~screen'.open
  BY DEF Expire, IsScreen, ScreenFields
<1> QED
  BY <1>1, SignOutKeepsBilling DEF Expire

(* A step of this screen that only notes something on it, or sends a call  *)
(* that changes the account.                                               *)
LEMMA SendingKeepsBilling ==
  ASSUME BillingInv, token' \in {0, token}, UNCHANGED <<owners, subs>>, IsScreen(screen'),
         screen'.revision = screen.revision, screen'.active = screen.active,
         screen'.shown = screen.shown, screen'.open => screen.open /\ token' = token,
         NEW r, r \in calls', calls' = calls \cup {r}, IsCall(r), r.kind \in Writes \cup {"sdk"}
  PROVE  BillingInv' /\ NewestStays
<1>1. SessionMoves /\ SubsMove
  BY Quiet, SubsStay
<1>2. BillingWaits'
  BY DEF BillingWaits
<1>3. IsCall(r)' /\ r.kind \notin Fetches \cup {"quote"}
  BY DEF IsCall, Writes, Methods, Fetches
<1> QED
  BY <1>1, <1>2, <1>3, NotingKeepsBilling

LEMMA BillingEventsKeepBilling ==
  ASSUME BillingInv, BillingEvents
  PROVE  BillingInv' /\ NewestStays
<1>0. BillingTypes /\ IsScreen(screen) /\ token \in Nat /\ Len(owners) \in Nat
      /\ token \in 0..Len(owners)
  BY BillingFacts DEF BillingTypes
<1>1. ASSUME NEW plan, Open(plan) PROVE BillingInv' /\ NewestStays
  <2> DEFINE s == ScreenOpened(screen, plan)
             r == Read("refresh", screen', token, subs[Owner(token)])
  <2>1. screen' = Refreshing(s, token) /\ calls' = calls \cup {r}
        /\ UNCHANGED <<token, owners, subs>> /\ token # 0
    BY <1>1 DEF Open, Refresh, SessionStays, LoggedIn
  <2>2. IsScreen(s) /\ s.revision = screen.revision /\ Blank(s)
    BY <1>0, OpenedScreen
  <2>3. /\ DOMAIN r = CallFields /\ r.kind = "refresh" /\ r.token = token' /\ r.rev = screen'.revision
        /\ r.seen = subs'[owners'[token']]
    BY <2>1, SentRead DEF Owner
  <2>4. SessionMoves /\ SubsMove
    BY <2>1, Quiet, SubsStay
  <2> HIDE DEF s, r
  <2> QED
    BY <2>1, <2>2, <2>3, <2>4, RefreshKeepsBilling DEF Fetches
<1>2. CASE Reload
  <2> DEFINE r == Read("refresh", screen', token, subs[Owner(token)])
  <2>1. screen' = Refreshing(screen, token) /\ calls' = calls \cup {r}
        /\ UNCHANGED <<token, owners, subs>> /\ token # 0 /\ screen.open
    BY <1>2 DEF Reload, Refresh, SessionStays, LoggedIn
  <2>2. Blank(screen) \/ screen.active = token
    BY <2>1, BillingFacts DEF OpenIsMine
  <2>3. /\ DOMAIN r = CallFields /\ r.kind = "refresh" /\ r.token = token' /\ r.rev = screen'.revision
        /\ r.seen = subs'[owners'[token']]
    BY <2>1, SentRead DEF Owner
  <2>4. SessionMoves /\ SubsMove
    BY <2>1, Quiet, SubsStay
  <2> HIDE DEF r
  <2> QED
    BY <1>0, <2>1, <2>2, <2>3, <2>4, RefreshKeepsBilling DEF Fetches
<1>3. CASE Close \/ \E plan : StartPro(plan)
  <2>1. /\ IsScreen(screen') /\ screen'.revision = screen.revision /\ screen'.active = screen.active
        /\ screen'.shown = screen.shown /\ screen'.busy = screen.busy /\ (screen'.open => screen.open)
    BY <1>0, <1>3 DEF Close, StartPro, IsScreen, ScreenFields
  <2>2. UNCHANGED <<token, owners, calls, subs>>
    BY <1>3 DEF Close, StartPro, SessionStays
  <2>3. BillingWaits'
    BY <2>1, <2>2, BillingFacts DEF BillingWaits, IsCurrent, LoggedIn
  <2>4. SessionMoves /\ SubsMove
    BY <2>2, Quiet, SubsStay
  <2> QED
    BY <2>1, <2>2, <2>3, <2>4, NotingKeepsBilling
<1>4. CASE (\E m \in Methods : Mutate(m)) \/ ConfirmUpgrade \/ Register
  <2>1. /\ IsCurrent(screen) /\ screen' = Busied(screen) /\ UNCHANGED <<token, owners, subs>>
        /\ \E kind \in Writes \cup {"sdk"} : \E plan : calls' = calls \cup {Write(kind, plan)}
    BY <1>4 DEF Mutate, ConfirmUpgrade, Register, MayAct, SessionStays, Writes
  <2>2. PICK kind, plan : kind \in Writes \cup {"sdk"} /\ calls' = calls \cup {Write(kind, plan)}
    BY <2>1
  <2> DEFINE r == Write(kind, plan)
  <2>3. DOMAIN r = CallFields /\ r.kind = kind /\ r.token = token /\ r.rev = 0
    BY SentWrite
  <2> HIDE DEF r
  <2>4. IsCall(r) /\ r \in calls' /\ calls' = calls \cup {r}
    BY <1>0, <2>1, <2>2, <2>3 DEF IsCall, CallFields, IsCurrent, LoggedIn, r
  <2>5. /\ IsScreen(screen') /\ screen'.revision = screen.revision /\ screen'.active = screen.active
        /\ screen'.shown = screen.shown /\ (screen'.open => screen.open)
    BY <1>0, <2>1 DEF Busied, IsScreen, ScreenFields
  <2>6. r.kind \in Writes \cup {"sdk"}
    BY <2>2, <2>3
  <2> QED
    BY <2>1, <2>4, <2>5, <2>6, SendingKeepsBilling
<1> QED
  BY <1>1, <1>2, <1>3, <1>4 DEF BillingEvents

LEMMA SummarizeKeepsBilling ==
  ASSUME BillingInv, NEW force, MaySummarize(force), Summarize, SessionStays
  PROVE  BillingInv' /\ NewestStays
<1>1. UNCHANGED <<token, owners, subs>> /\ token # 0
  BY DEF Summarize, MaySummarize, LoggedIn, SessionStays
<1>2. IsScreen(screen) /\ token \in Nat /\ token \in 1..Len(owners)
  BY <1>1, BillingFacts DEF BillingTypes
<1>3. IsScreen(screen') /\ screen'.revision = screen.revision + 1 /\ screen'.active = token /\ Blank(screen')
  BY <1>2 DEF Summarize, IsScreen, ScreenFields, Blank, Has, Nothing
<1>4. \E r : calls' = calls \cup {r} /\ r = Read("summary", screen', token, subs[owners[token]])
  BY DEF Summarize, Owner
<1>5. PICK r : calls' = calls \cup {r} /\ r = Read("summary", screen', token, subs[owners[token]])
  BY <1>4
<1>6. /\ DOMAIN r = CallFields /\ r.kind = "summary" /\ r.token = token /\ r.rev = screen'.revision
      /\ r.seen = subs[owners[token]]
  BY <1>5, SentRead
<1>7. IsCall(r)'
  BY <1>1, <1>2, <1>3, <1>6 DEF IsCall, CallFields, IsScreen
<1>8. SessionMoves /\ SubsMove
  BY <1>1, Quiet, SubsStay
<1> QED
  BY <1>1, <1>3, <1>5, <1>6, <1>7, <1>8, AskingKeepsBilling DEF Fetches

(* The answers that leave what is shown alone.                             *)
LEMMA IdleKeepsBilling ==
  ASSUME BillingInv, SessionStays, UNCHANGED subs,
         IsScreen(screen'), screen'.revision = screen.revision, screen'.active = screen.active,
         screen'.shown = screen.shown, screen'.open => screen.open,
         ~screen'.busy, calls' \subseteq calls
  PROVE  BillingInv' /\ NewestStays
<1>1. SessionMoves /\ SubsMove /\ BillingWaits'
  BY Quiet, SubsStay DEF SessionStays, BillingWaits
<1> QED
  BY <1>1, NotingKeepsBilling DEF SessionStays

LEMMA DroppedKeepsBilling ==
  ASSUME BillingInv, SessionStays, UNCHANGED subs, NEW c, c.kind \notin Writes \cup {"sdk"},
         ~IsLatest(c, screen), calls' = calls \ {c},
         IsScreen(screen'), screen'.revision = screen.revision, screen'.active = screen.active,
         screen'.shown = screen.shown, screen'.open => screen.open, screen'.busy => screen.busy
  PROVE  BillingInv' /\ NewestStays
<1>1. SessionMoves /\ SubsMove
  BY Quiet, SubsStay DEF SessionStays
<1>2. BillingWaits'
  BY BillingFacts, WaitsOn DEF SessionStays
<1> QED
  BY <1>1, <1>2, NotingKeepsBilling DEF SessionStays

(* The end of a refresh, on whatever screen the quote left.                *)
LEMMA EndOfRefresh ==
  ASSUME NEW c, NEW s, IsScreen(s), EndRefresh(c, s)
  PROVE  /\ IsScreen(screen') /\ screen'.revision = s.revision /\ screen'.active = s.active
         /\ screen'.shown = s.shown /\ (screen'.busy => s.busy)
         /\ \/ SignOut /\ ~screen'.open
            \/ SessionStays /\ screen'.open = s.open /\ (IsLatest(c, s) => ~screen'.busy)
<1> DEFINE told == [s EXCEPT !.error = @ \/ c.bad = "some"]
           freed == [told EXCEPT !.summaryToken = c.token, !.busy = FALSE]
           idle == IF IsLatest(c, told) THEN freed ELSE told
           warned == [idle EXCEPT !.error = @ \/ Status(s) \in {"new", "failed"}]
<1>1. CASE c.bad = "auth"
  BY <1>1 DEF EndRefresh, Expire, IsScreen, ScreenFields
<1>2. CASE c.bad # "auth"
  <2>1. /\ IsScreen(told) /\ told.revision = s.revision /\ told.active = s.active
        /\ told.shown = s.shown /\ told.busy = s.busy /\ told.open = s.open
    BY DEF IsScreen, ScreenFields
  <2>2. IsLatest(c, told) <=> IsLatest(c, s)
    BY <2>1 DEF IsLatest, IsCurrent
  <2>3. SessionStays /\ (screen' = idle \/ screen' = warned)
    BY <1>2 DEF EndRefresh
  <2> HIDE DEF told
  <2>4. /\ IsScreen(freed) /\ freed.revision = s.revision /\ freed.active = s.active
        /\ freed.shown = s.shown /\ freed.busy = FALSE /\ freed.open = s.open
    BY <2>1 DEF IsScreen, ScreenFields
  <2> HIDE DEF freed
  <2>5. /\ IsScreen(idle) /\ idle.revision = s.revision /\ idle.active = s.active
        /\ idle.shown = s.shown /\ (idle.busy => s.busy) /\ idle.open = s.open
        /\ (IsLatest(c, s) => ~idle.busy)
    BY <2>1, <2>2, <2>4
  <2> HIDE DEF idle
  <2>6. /\ IsScreen(warned) /\ warned.revision = s.revision /\ warned.active = s.active
        /\ warned.shown = s.shown /\ (warned.busy => s.busy) /\ warned.open = s.open
        /\ (IsLatest(c, s) => ~warned.busy)
    BY <2>5 DEF IsScreen, ScreenFields
  <2> HIDE DEF warned
  <2> QED
    BY <2>3, <2>5, <2>6
<1> QED
  BY <1>1, <1>2

LEMMA QuoteKeepsBilling ==
  ASSUME BillingInv, NEW c \in calls, NEW ok, QuoteAnswer(c, ok)
  PROVE  BillingInv' /\ NewestStays
<1> DEFINE s == [screen EXCEPT !.quote = [of |-> Owner(c.token), plan |-> c.plan]]
           e == [screen EXCEPT !.error = TRUE]
<1>0. IsScreen(screen) /\ c.kind = "quote" /\ calls' = calls \ {c} /\ UNCHANGED subs
      /\ c.kind \notin Writes \cup {"sdk"}
  BY BillingFacts DEF BillingTypes, QuoteAnswer, Writes, Methods
<1>1. /\ IsScreen(s) /\ s.revision = screen.revision /\ s.active = screen.active
      /\ s.shown = screen.shown /\ s.busy = screen.busy /\ s.open = screen.open
  BY <1>0 DEF IsScreen, ScreenFields
<1>2. /\ IsScreen(e) /\ e.revision = screen.revision /\ e.active = screen.active
      /\ e.shown = screen.shown /\ e.busy = screen.busy /\ e.open = screen.open
  BY <1>0 DEF IsScreen, ScreenFields
<1>3. \/ EndRefresh(c, s) \/ EndRefresh(c, e)
      \/ SessionStays /\ screen' = screen /\ ~IsLatest(c, screen)
  BY DEF QuoteAnswer
<1> HIDE DEF s, e
<1>4. ASSUME NEW n, IsScreen(n), n.revision = screen.revision, n.active = screen.active,
             n.shown = screen.shown, n.busy = screen.busy, n.open = screen.open, EndRefresh(c, n)
      PROVE  BillingInv' /\ NewestStays
  <2>1. /\ IsScreen(screen') /\ screen'.revision = screen.revision /\ screen'.active = screen.active
        /\ screen'.shown = screen.shown /\ (screen'.busy => screen.busy)
        /\ \/ SignOut /\ ~screen'.open
           \/ SessionStays /\ screen'.open = screen.open /\ (IsLatest(c, n) => ~screen'.busy)
    BY <1>4, EndOfRefresh
  <2>2. IsLatest(c, n) <=> IsLatest(c, screen)
    BY <1>4 DEF IsLatest, IsCurrent
  <2>3. CASE SignOut /\ ~screen'.open
    BY <1>0, <2>1, <2>3, SignOutKeepsBilling
  <2>4. CASE SessionStays /\ screen'.open = screen.open /\ ~screen'.busy
    <3>1. calls' \subseteq calls
      BY <1>0
    <3> QED
      BY <1>0, <2>1, <2>4, <3>1, IdleKeepsBilling
  <2>5. CASE SessionStays /\ screen'.open = screen.open /\ ~IsLatest(c, screen)
    BY <1>0, <2>1, <2>5, DroppedKeepsBilling
  <2> QED
    BY <2>1, <2>2, <2>3, <2>4, <2>5
<1>5. CASE SessionStays /\ screen' = screen /\ ~IsLatest(c, screen)
  BY <1>0, <1>5, DroppedKeepsBilling
<1> QED
  BY <1>1, <1>2, <1>3, <1>4, <1>5

LEMMA RefreshAnswerKeepsBilling ==
  ASSUME BillingInv, NEW c \in calls, NEW ok, NEW auth, NEW latest, RefreshAnswer(c, ok, auth, latest)
  PROVE  BillingInv' /\ NewestStays
<1>0. IsScreen(screen) /\ c.kind = "refresh" /\ IsCall(c) /\ UNCHANGED subs
      /\ c.kind \notin Writes \cup {"sdk"}
  BY BillingFacts DEF BillingTypes, RefreshAnswer, Writes, Methods
<1>1. CASE ~IsLatest(c, screen)
  <2>1. SessionStays /\ screen' = screen /\ calls' = calls \ {c}
    BY <1>1 DEF RefreshAnswer
  <2> QED
    BY <1>0, <1>1, <2>1, DroppedKeepsBilling
<1>2. CASE IsLatest(c, screen)
  <2> DEFINE now == Found(c, latest)
             got == Received(c, ok, now)
             s == [screen EXCEPT !.shown = got, !.quote = NoQuote]
             bad == IF auth THEN "auth" ELSE IF ok = Parts THEN "none" ELSE "some"
             d == [c EXCEPT !.kind = "quote", !.bad = bad, !.plan = s.plan]
  <2>1. \/ SessionStays /\ screen' = s /\ calls' = (calls \ {c}) \cup {d}
        \/ calls' = calls \ {c} /\ EndRefresh(d, s)
    BY <1>2, Zenon DEF RefreshAnswer
  <2>2. now \in {c.seen, subs[owners[c.token]]}
    BY DEF Found, Owner
  <2>3. DOMAIN got = Parts
        /\ \A p \in Parts : got[p] = NoData \/ got[p] = [of |-> owners[c.token], sub |-> now]
    BY DEF Received, Owner
  <2> HIDE DEF now, got
  <2>4. /\ IsScreen(s) /\ s.revision = screen.revision /\ s.active = screen.active
        /\ s.shown = got /\ s.open = screen.open
    BY <1>0, <2>3 DEF IsScreen, ScreenFields
  <2> HIDE DEF s, bad
  <2>5. IsCall(d) /\ d.kind = "quote" /\ d.token = c.token /\ d.rev = c.rev /\ d.seen = c.seen
    BY <1>0 DEF IsCall
  <2> HIDE DEF d
  <2>6. /\ IsScreen(screen') /\ screen'.revision = screen.revision /\ screen'.active = screen.active
        /\ screen'.shown = got /\ (screen'.open => screen.open /\ token' = token)
        /\ token' \in {0, token} /\ UNCHANGED owners
        /\ (calls' = calls \ {c}) \/ (calls' = (calls \ {c}) \cup {d})
    BY <2>1, <2>4, EndOfRefresh DEF SessionStays, SignOut
  <2>7. BillingWaits'
    <3>1. token # 0 /\ screen.active = token /\ c.rev = screen.revision /\ c.token = token
      BY <1>0, <1>2, BillingFacts DEF IsLatest, IsCurrent, LoggedIn, FetchesInOrder, FetchOk, Fetches
    <3>2. CASE SessionStays /\ screen' = s /\ calls' = (calls \ {c}) \cup {d}
      BY <2>4, <2>5, <3>1, <3>2 DEF BillingWaits, SessionStays
    <3>3. CASE EndRefresh(d, s)
      <4>1. SignOut \/ ~screen'.busy
        <5>1. IsLatest(d, s) <=> IsLatest(c, screen)
          BY <2>4, <2>5 DEF IsLatest, IsCurrent
        <5> QED
          BY <1>2, <2>4, <3>3, <5>1, EndOfRefresh
      <4> QED
        BY <4>1 DEF BillingWaits, SignOut, IsCurrent, LoggedIn
    <3> QED
      BY <2>1, <3>2, <3>3
  <2>8. c \notin calls' /\ \A e \in calls' \ calls :
          IsCall(e) /\ e.kind = "quote" /\ e.token = c.token /\ e.rev = c.rev /\ e.seen = c.seen
    BY <1>0, <2>5, <2>6
  <2> QED
    BY <1>0, <1>2, <2>2, <2>3, <2>6, <2>7, <2>8, TellingKeepsBilling DEF Fetches
<1> QED
  BY <1>1, <1>2

LEMMA SummaryAnswerKeepsBilling ==
  ASSUME BillingInv, NEW c \in calls, NEW ok, NEW auth, NEW latest, SummaryAnswer(c, ok, auth, latest)
  PROVE  BillingInv' /\ NewestStays
<1>0. IsScreen(screen) /\ c.kind = "summary" /\ IsCall(c) /\ UNCHANGED subs
      /\ c.kind \notin Writes \cup {"sdk"} /\ calls' = calls \ {c}
  BY BillingFacts DEF BillingTypes, SummaryAnswer, Writes, Methods
<1> DEFINE quiet(r) == [r EXCEPT !.summary = FALSE, !.busy = FALSE]
           now == Found(c, latest)
           got == [p \in Parts |-> IF p \in {"usage", "billing"}
                                   THEN Received(c, ok, now)[p] ELSE screen.shown[p]]
           s == [screen EXCEPT !.shown = got, !.error = @ \/ ok # {"usage", "billing"}]
<1>1. ASSUME NEW r, IsScreen(r)
      PROVE  /\ IsScreen(quiet(r)) /\ quiet(r).revision = r.revision /\ quiet(r).active = r.active
             /\ quiet(r).shown = r.shown /\ ~quiet(r).busy /\ quiet(r).open = r.open
  BY <1>1 DEF IsScreen, ScreenFields
<1>2. CASE ~IsLatest(c, screen)
  <2>1. SessionStays /\ (screen' = screen \/ screen' = quiet(screen))
    BY <1>2, Zenon DEF SummaryAnswer
  <2>2. /\ IsScreen(quiet(screen)) /\ quiet(screen).revision = screen.revision
        /\ quiet(screen).active = screen.active /\ quiet(screen).shown = screen.shown
        /\ ~quiet(screen).busy /\ quiet(screen).open = screen.open
    BY <1>0, <1>1
  <2> HIDE DEF quiet
  <2> QED
    BY <1>0, <1>2, <2>1, <2>2, DroppedKeepsBilling
<1>3. CASE IsLatest(c, screen)
  <2>1. Expire(quiet(s)) \/ (SessionStays /\ screen' = quiet(s))
    BY <1>3, Zenon DEF SummaryAnswer
  <2>2. now \in {c.seen, subs[owners[c.token]]}
    BY DEF Found, Owner
  <2>3. DOMAIN got = Parts
        /\ \A p \in Parts : \/ got[p] = screen.shown[p] \/ got[p] = NoData
                            \/ got[p] = [of |-> owners[c.token], sub |-> now]
    BY DEF Received, Owner
  <2> HIDE DEF now, got
  <2>4. /\ IsScreen(s) /\ s.revision = screen.revision /\ s.active = screen.active
        /\ s.shown = got /\ s.open = screen.open
    BY <1>0, <2>3 DEF IsScreen, ScreenFields
  <2> HIDE DEF s
  <2>5. /\ IsScreen(quiet(s)) /\ quiet(s).revision = screen.revision /\ quiet(s).active = screen.active
        /\ quiet(s).shown = got /\ ~quiet(s).busy /\ quiet(s).open = screen.open
    BY <1>1, <2>4
  <2> HIDE DEF quiet
  <2>6. /\ IsScreen(screen') /\ screen'.revision = screen.revision /\ screen'.active = screen.active
        /\ screen'.shown = got /\ (screen'.open => screen.open /\ token' = token)
        /\ token' \in {0, token} /\ UNCHANGED owners /\ (token' = 0 \/ ~screen'.busy)
    BY <2>1, <2>5 DEF SessionStays, SignOut, Expire, IsScreen, ScreenFields
  <2>7. BillingWaits'
    BY <2>6 DEF BillingWaits, IsCurrent, LoggedIn
  <2> QED
    BY <1>0, <1>3, <2>2, <2>3, <2>6, <2>7, TellingKeepsBilling DEF Fetches
<1> QED
  BY <1>2, <1>3

(* What the server makes of a call that changes the account.               *)
LEMMA TakenMovesOn ==
  ASSUME BillingInv, NEW c \in calls, c.kind \in Writes,
         \/ UNCHANGED subs
         \/ \E next \in Taken(c, subs[owners[c.token]]) : subs' = [subs EXCEPT ![owners[c.token]] = next]
  PROVE  SubsMove
<1> DEFINE a == owners[c.token]
           now == subs[a]
<1>1. a \in Members /\ IsSub(now) /\ BillingTypes
  BY BillingFacts DEF BillingTypes
<1>2. ASSUME NEW next \in Taken(c, now) PROVE IsSub(next) /\ next.ver = now.ver + 1
  <2> DEFINE n == [now EXCEPT !.ver = @ + 1]
  <2>1. IsSub(n) /\ n.ver = now.ver + 1
    BY <1>1 DEF IsSub
  <2>2. \/ \E x : next = [n EXCEPT !.status = x]
        \/ \E x, y : next = [n EXCEPT !.status = x, !.level = y]
    <3>1. c.kind \in {"complete", "upgrade", "reconcile", "retry", "cancel", "refund"}
      BY DEF Writes, Methods
    <3>2. CASE c.kind = "complete"
      BY <1>2, <3>2, Zenon DEF Taken
    <3>3. CASE c.kind = "upgrade"
      BY <1>2, <3>3, Zenon DEF Taken
    <3>4. CASE c.kind = "reconcile"
      BY <1>2, <3>4, Zenon DEF Taken
    <3>5. CASE c.kind = "retry"
      BY <1>2, <3>5, Zenon DEF Taken
    <3>6. CASE c.kind \in {"cancel", "refund"}
      BY <1>2, <3>6, Zenon DEF Taken
    <3> QED
      BY <3>1, <3>2, <3>3, <3>4, <3>5, <3>6
  <2> HIDE DEF n
  <2>3. ASSUME NEW x, next = [n EXCEPT !.status = x] PROVE IsSub(next) /\ next.ver = n.ver
    BY <2>1, <2>3 DEF IsSub
  <2>4. ASSUME NEW x, NEW y, next = [n EXCEPT !.status = x, !.level = y]
        PROVE  IsSub(next) /\ next.ver = n.ver
    BY <2>1, <2>4 DEF IsSub
  <2> QED
    BY <2>1, <2>2, <2>3, <2>4
<1>3. CASE UNCHANGED subs
  BY <1>3, SubsStay
<1>4. ASSUME NEW next \in Taken(c, now), subs' = [subs EXCEPT ![a] = next] PROVE SubsMove
  <2>1. IsSub(next) /\ next.ver = now.ver + 1
    BY <1>2
  <2> HIDE DEF a
  <2>2. DOMAIN subs' = Members /\ subs'[a] = next /\ \A b \in Members : b # a => subs'[b] = subs[b]
    BY <1>1, <1>4 DEF BillingTypes
  <2> QED
    BY <1>1, <2>1, <2>2 DEF SubsMove, BillingTypes, IsSub
<1> QED
  BY <1>3, <1>4

LEMMA WriteDoneKeepsBilling ==
  ASSUME BillingInv, NEW c \in calls, WriteDone(c)
  PROVE  BillingInv' /\ NewestStays
<1>0. /\ IsScreen(screen) /\ c.kind \in Writes /\ SessionStays /\ SessionMoves
  BY BillingFacts, Quiet DEF BillingTypes, WriteDone, SessionStays
<1>1. SubsMove
  BY <1>0, TakenMovesOn DEF WriteDone, Owner
<1>2. CASE IsCurrent(screen)
  <2>1. PICK s : /\ s = screen \/ s = [screen EXCEPT !.plan = 0]
                 /\ screen' = Refreshing(s, token)
                 /\ calls' = (calls \ {c}) \cup {Read("refresh", screen', token, subs'[Owner(token)])}
    BY <1>2, Zenon DEF WriteDone
  <2>2. IsScreen(s) /\ s.revision = screen.revision /\ s.shown = screen.shown
    BY <1>0, <2>1 DEF IsScreen, ScreenFields
  <2>3. PICK r : calls' = (calls \ {c}) \cup {r} /\ r = Read("refresh", screen', token, subs'[owners[token]])
    BY <2>1 DEF Owner
  <2>4. /\ DOMAIN r = CallFields /\ r.kind = "refresh" /\ r.token = token /\ r.rev = screen'.revision
        /\ r.seen = subs'[owners[token]]
    BY <2>3, SentRead
  <2>5. token # 0 /\ screen.active = token /\ token' = token /\ owners' = owners
    BY <1>0, <1>2 DEF IsCurrent, LoggedIn, SessionStays
  <2> QED
    BY <1>0, <1>1, <2>1, <2>2, <2>3, <2>4, <2>5, RefreshKeepsBilling DEF Fetches
<1>3. CASE ~IsCurrent(screen)
  <2>1. screen' = screen /\ calls' = calls \ {c}
    BY <1>3 DEF WriteDone
  <2>2. BillingWaits'
    BY <1>0, <1>3, <2>1 DEF BillingWaits, IsCurrent, LoggedIn, SessionStays
  <2> QED
    BY <1>0, <1>1, <2>1, <2>2, NotingKeepsBilling DEF SessionStays
<1> QED
  BY <1>2, <1>3

LEMMA ComplainedScreen ==
  ASSUME NEW s, IsScreen(s)
  PROVE  LET n == Complain(s)
         IN  /\ IsScreen(n) /\ n.revision = s.revision /\ n.active = s.active /\ n.shown = s.shown
             /\ n.open = s.open /\ ~n.busy
BY DEF Complain, IsScreen, ScreenFields

LEMMA ComplainKeepsBilling ==
  ASSUME BillingInv, SessionStays, SubsMove, screen' = Complain(screen), calls' \subseteq calls
  PROVE  BillingInv' /\ NewestStays
<1>1. SessionMoves /\ IsScreen(screen)
  BY Quiet, BillingFacts DEF SessionStays, BillingTypes
<1>2. /\ IsScreen(screen') /\ screen'.revision = screen.revision /\ screen'.active = screen.active
      /\ screen'.shown = screen.shown /\ screen'.open = screen.open /\ ~screen'.busy
  BY <1>1, ComplainedScreen
<1>3. BillingWaits'
  BY <1>2 DEF BillingWaits
<1> QED
  BY <1>1, <1>2, <1>3, NotingKeepsBilling DEF SessionStays

LEMMA WriteFailsKeepsBilling ==
  ASSUME BillingInv, NEW c \in calls, NEW why, WriteFails(c, why)
  PROVE  BillingInv' /\ NewestStays
<1>0. /\ IsScreen(screen) /\ c.kind \in Writes
  BY BillingFacts DEF BillingTypes, WriteFails
<1>1. SubsMove /\ (why = "auth" => UNCHANGED subs)
  BY <1>0, TakenMovesOn DEF WriteFails, Owner
<1>2. CASE ~IsCurrent(screen)
  <2>1. SessionStays /\ screen' = screen /\ calls' = calls \ {c}
    BY <1>2 DEF WriteFails
  <2>2. BillingWaits'
    BY <1>2, <2>1 DEF BillingWaits, IsCurrent, LoggedIn, SessionStays
  <2>3. SessionMoves
    BY <2>1, Quiet DEF SessionStays
  <2> QED
    BY <1>0, <1>1, <2>1, <2>2, <2>3, NotingKeepsBilling DEF SessionStays
<1>3. CASE IsCurrent(screen) /\ why = "auth"
  <2>1. Expire(screen) /\ calls' = calls \ {c}
    BY <1>3 DEF WriteFails
  <2> QED
    BY <1>0, <1>1, <1>3, <2>1, ExpireKeepsBilling
<1>4. CASE IsCurrent(screen) /\ why = "lost" /\ c.kind \in {"retry", "complete"}
  <2> DEFINE f == Read("refresh", screen', token, subs'[Owner(token)])
  <2>1. /\ SessionStays /\ screen' = Refreshing(screen, token)
        /\ calls' = (calls \ {c}) \cup {[f EXCEPT !.late = TRUE]}
    BY <1>4 DEF WriteFails
  <2>2. SessionMoves
    BY <2>1, Quiet DEF SessionStays
  <2>3. /\ DOMAIN f = CallFields /\ f.kind = "refresh" /\ f.token = token /\ f.rev = screen'.revision
        /\ f.seen = subs'[owners[token]]
    BY SentRead DEF Owner
  <2> HIDE DEF f
  <2>4. PICK r : r = [f EXCEPT !.late = TRUE]
    OBVIOUS
  <2>5. /\ DOMAIN r = CallFields /\ r.kind = "refresh" /\ r.token = token /\ r.rev = screen'.revision
        /\ r.seen = subs'[owners[token]]
    BY <2>3, <2>4 DEF CallFields
  <2>6. token # 0 /\ screen.active = token /\ token' = token /\ owners' = owners
    BY <1>4, <2>1 DEF IsCurrent, LoggedIn, SessionStays
  <2>7. calls' = (calls \ {c}) \cup {r}
    BY <2>1, <2>4
  <2> QED
    BY <1>0, <1>1, <2>1, <2>2, <2>5, <2>6, <2>7, RefreshKeepsBilling DEF Fetches
<1>5. CASE IsCurrent(screen) /\ why # "auth" /\ ~(why = "lost" /\ c.kind \in {"retry", "complete"})
  <2>1. SessionStays /\ screen' = Complain(screen) /\ calls' = calls \ {c}
    BY <1>5 DEF WriteFails
  <2> QED
    BY <1>1, <2>1, ComplainKeepsBilling
<1> QED
  BY <1>2, <1>3, <1>4, <1>5

LEMMA BlankedScreen ==
  /\ IsScreen(BlankScreen) /\ Blank(BlankScreen) /\ BlankScreen.active = 0
  /\ ~BlankScreen.open /\ ~BlankScreen.busy
BY DEF BlankScreen, IsScreen, ScreenFields, Blank, Has

LEMMA SignedIn ==
  ASSUME BillingInv, LoggedIn
  PROVE  token \in Nat /\ token # 0 /\ token \in 1..Len(owners)
<1>1. token # 0 /\ token \in 0..Len(owners) /\ Len(owners) \in Nat
  BY BillingFacts DEF LoggedIn
<1> QED
  BY <1>1

LEMMA CompleteIsCall ==
  ASSUME BillingInv, LoggedIn, NEW plan
  PROVE  LET r == Write("complete", plan)
         IN  IsCall(r) /\ r.kind \notin Fetches \cup {"quote"} /\ r.kind \in Writes
BY SignedIn DEF Write, IsCall, Fetches, Writes

LEMMA RedirectKeepsBilling ==
  ASSUME BillingInv, NEW c \in calls, NEW how \in {"success", "fail", "signed out"}, Redirected(c, how)
  PROVE  BillingInv' /\ NewestStays
<1> DEFINE s == [BlankScreen EXCEPT !.open = TRUE]
           t == [s EXCEPT !.busy = TRUE, !.active = token]
           u == [s EXCEPT !.error = TRUE]
<1>0. token \in Nat /\ LoggedIn /\ token # 0 /\ UNCHANGED subs
  <2>1. LoggedIn /\ UNCHANGED subs
    BY Zenon DEF Redirected, IsCurrent
  <2> QED
    BY <2>1, SignedIn
<1>1. /\ IsScreen(s) /\ Blank(s) /\ s.active = 0 /\ ~s.busy
  BY BlankedScreen DEF IsScreen, ScreenFields, Blank, Has
<1>2. \/ SessionStays /\ screen' = t /\ calls' = {Write("complete", c.plan)}
      \/ SessionStays /\ screen' = u /\ calls' = {}
      \/ SignOut /\ screen' = BlankScreen /\ calls' = {}
  BY Zenon DEF Redirected
<1> HIDE DEF s
<1>3. /\ IsScreen(t) /\ Blank(t) /\ t.active = token
      /\ IsScreen(u) /\ Blank(u) /\ u.active = 0 /\ ~u.busy
  BY <1>0, <1>1 DEF IsScreen, ScreenFields, Blank, Has
<1> HIDE DEF t, u
<1>4. CASE SessionStays /\ screen' = t /\ calls' = {Write("complete", c.plan)}
  <2>1. PICK r : r = Write("complete", c.plan)
    OBVIOUS
  <2>3. IsCall(r) /\ r.kind \notin Fetches \cup {"quote"} /\ r.kind \in Writes
    BY <1>0, <2>1, CompleteIsCall
  <2>4. calls' = {r}
    BY <1>4, <2>1
  <2>5. BillingWaits'
    BY <2>3, <2>4 DEF BillingWaits
  <2> QED
    BY <1>0, <1>3, <1>4, <2>3, <2>4, <2>5, LoadingKeepsBilling DEF SessionStays
<1>5. CASE SessionStays /\ screen' = u /\ calls' = {}
  <2>1. BillingWaits'
    BY <1>3, <1>5 DEF BillingWaits
  <2> QED
    BY <1>0, <1>3, <1>5, <2>1, LoadingKeepsBilling DEF SessionStays
<1>6. CASE SignOut /\ screen' = BlankScreen /\ calls' = {}
  <2>1. BillingWaits'
    BY <1>6, BlankedScreen DEF BillingWaits
  <2> QED
    BY <1>0, <1>6, <2>1, BlankedScreen, LoadingKeepsBilling DEF SignOut
<1> QED
  BY <1>2, <1>4, <1>5, <1>6

(* What every step does to the billing screen.                             *)
BillingStep ==
  \/ SessionStays /\ UNCHANGED billingVars
  \/ SignOut /\ BillingSignOut
  \/ ~LoggedIn /\ \E a \in Members : SignIn(a) /\ BillingSignIn
  \/ SessionStays /\ Summarize /\ \E force \in BOOLEAN : MaySummarize(force)
  \/ SessionStays /\ BillingUnload
  \/ BillingEvents
  \/ BillingAnswers

LEMMA StepsKeepBilling ==
  ASSUME BillingInv, BillingStep
  PROVE  BillingInv' /\ NewestStays
<1>0. IsScreen(screen) /\ BillingTypes
  BY BillingFacts DEF BillingTypes
<1>1. CASE SessionStays /\ UNCHANGED billingVars
  <2>1. SessionMoves /\ SubsMove
    BY <1>1, Quiet, SubsStay DEF SessionStays, billingVars
  <2>2. BillingWaits'
    BY <1>1, BillingFacts DEF BillingWaits, SessionStays, billingVars, IsCurrent, LoggedIn
  <2> QED
    BY <1>0, <1>1, <2>1, <2>2, NotingKeepsBilling DEF SessionStays, billingVars
<1>2. CASE SignOut /\ BillingSignOut
  <2>1. /\ IsScreen(screen') /\ screen'.revision = screen.revision /\ screen'.active = screen.active
        /\ screen'.shown = screen.shown /\ ~screen'.open /\ UNCHANGED <<calls, subs>>
    BY <1>0, <1>2 DEF BillingSignOut, IsScreen, ScreenFields
  <2> QED
    BY <1>2, <2>1, SignOutKeepsBilling
<1>3. CASE ~LoggedIn /\ \E a \in Members : SignIn(a) /\ BillingSignIn
  BY <1>3, SignInKeepsBilling
<1>4. CASE SessionStays /\ Summarize /\ \E force \in BOOLEAN : MaySummarize(force)
  BY <1>4, SummarizeKeepsBilling
<1>5. CASE SessionStays /\ BillingUnload
  <2>1. BillingWaits'
    BY <1>5, BlankedScreen DEF BillingWaits, BillingUnload
  <2> QED
    BY <1>5, <2>1, BlankedScreen, LoadingKeepsBilling DEF SessionStays, BillingUnload
<1>6. CASE BillingEvents
  BY <1>6, BillingEventsKeepBilling
<1>7. ASSUME NEW c \in calls, RegisterFails(c) PROVE BillingInv' /\ NewestStays
  <2>1. SubsMove
    BY <1>7, SubsStay DEF RegisterFails
  <2> QED
    BY <1>7, <2>1, ComplainKeepsBilling DEF RegisterFails
<1>8. ASSUME NEW force \in BOOLEAN, HydrateSummary(force) PROVE BillingInv' /\ NewestStays
  BY <1>8, SummarizeKeepsBilling DEF HydrateSummary
<1>9. CASE BillingAnswers
  BY <1>7, <1>8, <1>9, WriteDoneKeepsBilling, WriteFailsKeepsBilling, RefreshAnswerKeepsBilling,
     SummaryAnswerKeepsBilling, QuoteKeepsBilling, RedirectKeepsBilling DEF BillingAnswers
<1> QED
  BY <1>1, <1>2, <1>3, <1>4, <1>5, <1>6, <1>9 DEF BillingStep

LEMMA FollowingMovesBilling ==
  ASSUME SessionStays \/ SignOut, BillingFollows \/ (SessionStays /\ UNCHANGED billingVars)
  PROVE  BillingStep
<1>1. CASE token' = token
  <2>1. SessionStays /\ UNCHANGED billingVars
    BY <1>1 DEF BillingFollows, SessionStays, SignOut
  <2> QED
    BY <2>1 DEF BillingStep
<1>2. CASE token' # token
  BY <1>2 DEF BillingFollows, SessionStays, BillingStep
<1> QED
  BY <1>1, <1>2

(* What the steps of the other screens do to the session.                  *)
Ends == SessionStays \/ SignOut

LEMMA OthersEnd ==
  /\ \A t, how : ImproveAnswer(t, how) \/ RecentAnswer(t, how) \/ DeleteAnswer(t, how)
                 \/ HydrateAnswer(t, how) => Ends
  /\ \A c, why : ChoreFails(c, why) => Ends
  /\ \A p, got, late, auth : PullAnswer(p, got, late, auth) => Ends
  /\ \A w, why : WorkFails(w, why) => Ends
  /\ \A j, why : DecideFails(j, why) \/ SmallAnswer(j, why) => Ends
  /\ \A why : SessionAfter(why) => Ends
<1>1. ASSUME NEW why, SessionAfter(why) PROVE Ends
  BY <1>1 DEF SessionAfter, Ends
<1>2. ASSUME NEW t, NEW how,
             ImproveAnswer(t, how) \/ RecentAnswer(t, how) \/ DeleteAnswer(t, how) \/ HydrateAnswer(t, how)
      PROVE  Ends
  <2>1. CASE ImproveAnswer(t, how)
    <3>1. Answered(t) \/ \E why : Fails(t, why)
      BY <2>1 DEF ImproveAnswer
    <3>2. Answered(t) => Ends
      BY Zenon DEF Answered, Ends
    <3>3. ASSUME NEW why, Fails(t, why) PROVE Ends
      BY <1>1, <3>3, Zenon DEF Fails
    <3> QED
      BY <3>1, <3>2, <3>3
  <2>2. CASE RecentAnswer(t, how)
    BY <1>1, <2>2, Zenon DEF RecentAnswer, Ends
  <2>3. CASE DeleteAnswer(t, how)
    BY <1>1, <2>3, Zenon DEF DeleteAnswer, Ends
  <2>4. CASE HydrateAnswer(t, how)
    BY <1>1, <2>4, Zenon DEF HydrateAnswer, Ends
  <2> QED
    BY <1>2, <2>1, <2>2, <2>3, <2>4
<1>3. ASSUME NEW c, NEW why, ChoreFails(c, why) PROVE Ends
  BY <1>1, <1>3, Zenon DEF ChoreFails, Ends
<1>4. ASSUME NEW p, NEW got, NEW late, NEW auth, PullAnswer(p, got, late, auth) PROVE Ends
  BY <1>4, Zenon DEF PullAnswer, Ends
<1>5. ASSUME NEW w, NEW why, WorkFails(w, why) PROVE Ends
  BY <1>5, Zenon DEF WorkFails, Ends
<1>6. ASSUME NEW j, NEW why, DecideFails(j, why) \/ SmallAnswer(j, why) PROVE Ends
  BY <1>6, Zenon DEF DecideFails, SmallAnswer, Ends
<1> QED
  BY <1>1, <1>2, <1>3, <1>4, <1>5, <1>6

LEMMA ChatStays ==
  /\ \A key, text : Resend(key, text) => SessionStays
  /\ \A text : Submit(text) => SessionStays
  /\ \A i : RetryConcurrent(i) \/ NewChatFromConflict(i) \/ OpenThread(i) \/ DeleteThread(i) => SessionStays
  /\ \A t : Cancel(t) => SessionStays
  /\ \A t, ok : ThreadAnswer(t, ok) \/ ListAnswer(t, ok) => SessionStays
  /\ NewChat \/ Hydrate => SessionStays
<1>1. ASSUME NEW key, NEW text, Resend(key, text) PROVE SessionStays
  BY <1>1, Zenon DEF Resend
<1>2. ASSUME NEW text, Submit(text) PROVE SessionStays
  BY <1>2, Zenon DEF Submit
<1>3. ASSUME NEW i, RetryConcurrent(i) \/ NewChatFromConflict(i) \/ OpenThread(i) \/ DeleteThread(i)
      PROVE  SessionStays
  BY <1>3, Zenon DEF RetryConcurrent, NewChatFromConflict, OpenThread, DeleteThread
<1>4. ASSUME NEW t, Cancel(t) PROVE SessionStays
  BY <1>4, Zenon DEF Cancel
<1>5. ASSUME NEW t, NEW ok, ThreadAnswer(t, ok) \/ ListAnswer(t, ok) PROVE SessionStays
  BY <1>5, Zenon DEF ThreadAnswer, ListAnswer
<1>6. NewChat \/ Hydrate => SessionStays
  BY Zenon DEF NewChat, Hydrate
<1> QED
  BY <1>1, <1>2, <1>3, <1>4, <1>5, <1>6

LEMMA FoldersStay ==
  /\ \A f : OpenFolder(f) \/ FolderButtons(f) => SessionStays
  /\ \A name, thread : CreateFolder(name, thread) => SessionStays
  /\ \A id : ThreadMenu(id) => SessionStays
  /\ \A c : ChoreDone(c) => SessionStays
<1>1. Guarded => SessionStays
  BY DEF Guarded
<1>2. ASSUME NEW name, NEW thread, CreateFolder(name, thread) PROVE SessionStays
  BY <1>1, <1>2, Zenon DEF CreateFolder
<1>3. ASSUME NEW f, OpenFolder(f) PROVE SessionStays
  BY <1>3, Zenon DEF OpenFolder
<1>4. ASSUME NEW f, NEW name, DeleteFolder(f) \/ RenameFolder(f, name) PROVE SessionStays
  BY <1>1, <1>4, Zenon DEF DeleteFolder, RenameFolder
<1>5. ASSUME NEW id, NEW f, Move(id, f) PROVE SessionStays
  BY <1>1, <1>5, Zenon DEF Move
<1>6. ASSUME NEW c, ChoreDone(c) PROVE SessionStays
  BY <1>6, Zenon DEF ChoreDone
<1> QED
  BY <1>2, <1>3, <1>4, <1>5, <1>6 DEF FolderButtons, ThreadMenu

LEMMA MakeStays == MakeEvents => SessionStays /\ UNCHANGED billingVars
  BY ChatStays, FoldersStay
  DEF MakeEvents, SidePanel, Feed, MessageButtons, ChatAlone, FoldersAlone, ListsAndBillingStay

LEMMA HomeStays == HomeEvents => SessionStays /\ UNCHANGED billingVars
  BY DEF HomeEvents, HomePage, AtHomeAlone, HomeAlone, CommitSearch, ChangeSort, ChangePage, RetryHome,
         HideReported, ChangeScope, GoHome, TimerFires, TabIsSeen, NetworkChanges

LEMMA LibraryStays ==
  LibraryEvents => SessionStays /\ (UNCHANGED billingVars \/ (MaySummarize(TRUE) /\ Summarize))
<1>1. \A p : PromptCard(p) => SessionStays
  BY Zenon DEF PromptCard, ToggleSaved, ToggleLiked, Publish, Unshare, DeletePrompt, Hands
<1>2. MyPage \/ Leave \/ (\E f \in Finds : SearchFromLibrary(f)) => SessionStays
  BY Zenon DEF MyPage, ChangeTab, RetryLibrary, Leave, SearchFromLibrary
<1>3. VisitLibrary => SessionStays /\ (UNCHANGED billingVars \/ (MaySummarize(TRUE) /\ Summarize))
  BY Zenon DEF VisitLibrary, Visit
<1> QED
  BY <1>1, <1>2, <1>3 DEF LibraryEvents, LibraryAlone

LEMMA TalkStays == TalkEvents => SessionStays /\ UNCHANGED billingVars
<1>1. Speaking \/ InDialog => SessionStays
  BY DEF Speaking, InDialog
<1>2. \A a : Others(a) => SessionStays
  BY DEF Others
<1>3. ASSUME NEW c, CommentButtons(c) PROVE SessionStays
  BY <1>1, <1>3, Zenon
  DEF CommentButtons, ToggleCommentLike, OpenReport, RemoveComment, AddReply, EditComment
<1>4. PromptDetail => SessionStays
  BY <1>1, <1>3, Zenon DEF PromptDetail, CloseTop, AddComment
<1>5. OpenTalk \/ SubmitReport => SessionStays
  BY Zenon DEF OpenTalk, SubmitReport
<1>6. ASSUME NEW a, NEW text, SaidElsewhere(a, text) \/ RemovedElsewhere(a, text) PROVE SessionStays
  BY <1>2, <1>6 DEF SaidElsewhere, RemovedElsewhere
<1> QED
  BY <1>4, <1>5, <1>6 DEF TalkEvents, TalkAlone

LEMMA AdminStays == AdminEvents => SessionStays /\ UNCHANGED billingVars
<1>1. Console => SessionStays
  BY DEF Console
<1>2. \A x, to : Decide(x, to) => SessionStays
  BY <1>1, Zenon DEF Decide
<1>3. OpenUser => SessionStays
  BY <1>1 DEF OpenUser
<1>4. AdminPage => SessionStays
  BY <1>2, <1>3 DEF AdminPage, ReportsPanel, PromptsPanel, RevisionForm, TagsPanel, UsersPanel
<1>5. ToggleAdminView => SessionStays
  BY DEF ToggleAdminView
<1> QED
  BY <1>4, <1>5 DEF AdminEvents, AdminAlone

LEMMA AnswersMoveBilling ==
  ASSUME MakeAnswers \/ ListAnswers \/ AdminAnswers \/ TalkAnswers
  PROVE  BillingStep
<1>1. CASE MakeAnswers
  <2>1. \/ SessionStays /\ UNCHANGED billingVars
        \/ Ends /\ BillingFollows
    BY <1>1, OthersEnd, ChatStays, FoldersStay DEF MakeAnswers, ChatAlone, ListsAndBillingStay
  <2> QED
    BY <2>1, FollowingMovesBilling DEF Ends
<1>2. CASE ListAnswers
  <2>1. ASSUME NEW l, NEW ok, NEW total, HomeAnswer(l, ok, total) PROVE SessionStays
    BY <2>1, Zenon DEF HomeAnswer
  <2>2. ASSUME NEW w, WorkDone(w) PROVE SessionStays
    BY <2>2, Zenon DEF WorkDone
  <2>3. \/ SessionStays /\ UNCHANGED billingVars
        \/ Ends /\ BillingFollows
    BY <1>2, <2>1, <2>2, OthersEnd DEF ListAnswers, HomeAlone, LibraryAlone
  <2> QED
    BY <2>3, FollowingMovesBilling DEF Ends
<1>3. CASE AdminAnswers
  <2>1. ASSUME NEW x, NEW to, Elsewhere(x, to) PROVE SessionStays
    BY <2>1, Zenon DEF Elsewhere
  <2>2. ASSUME NEW j, NEW got, NEW late, ReadAnswer(j, got, late) PROVE SessionStays
    BY <2>2, Zenon DEF ReadAnswer
  <2>3. ASSUME NEW j, DecideDone(j) PROVE SessionStays
    BY <2>3, Zenon DEF DecideDone
  <2>4. \/ SessionStays /\ UNCHANGED billingVars
        \/ Ends /\ BillingFollows
    BY <1>3, <2>1, <2>2, <2>3, OthersEnd DEF AdminAnswers, AdminAlone
  <2> QED
    BY <2>4, FollowingMovesBilling DEF Ends
<1>4. CASE TalkAnswers
  <2>1. ASSUME NEW c, TalkDone(c) PROVE SessionStays
    BY <2>1, Zenon DEF TalkDone
  <2>2. ASSUME NEW c, NEW ok, NEW late, TalkRead(c, ok, late) PROVE SessionStays
    BY <2>2, Zenon DEF TalkRead
  <2>3. \/ SessionStays /\ UNCHANGED billingVars
        \/ Ends /\ BillingFollows
    BY <1>4, <2>1, <2>2, OthersEnd DEF TalkAnswers, TalkAlone
  <2> QED
    BY <2>3, FollowingMovesBilling DEF Ends
<1> QED
  BY <1>1, <1>2, <1>3, <1>4

LEMMA NextMovesBilling == [Next]_vars => BillingStep
<1>1. CASE UNCHANGED vars
  BY <1>1 DEF vars, sessionVars, BillingStep, SessionStays
<1>2. ASSUME NEW a \in Accounts \cup Staff, Login(a) PROVE BillingStep
  BY <1>2 DEF Login, BillingStep, Members
<1>3. CASE Logout \/ LoadAgain
  BY <1>3 DEF Logout, LoadAgain, BillingStep
<1>4. CASE MakeEvents \/ HomeEvents \/ TalkEvents \/ AdminEvents
  BY <1>4, MakeStays, HomeStays, TalkStays, AdminStays DEF BillingStep
<1>5. CASE LibraryEvents
  BY <1>5, LibraryStays DEF BillingStep
<1>6. CASE BillingEvents \/ BillingAnswers
  BY <1>6 DEF BillingStep
<1> QED
  BY <1>1, <1>2, <1>3, <1>4, <1>5, <1>6, AnswersMoveBilling DEF Next

LEMMA InitBilling == Init => BillingInv
<1> SUFFICES ASSUME Init PROVE BillingInv
  OBVIOUS
<1>1. screen = BlankScreen /\ calls = {}
  BY DEF Init, BillingInit
<1>2. owners \in Seq(Members) /\ token \in 0..Len(owners)
  <2>1. CASE token = 0 /\ owners = <<>>
    BY <2>1
  <2>2. CASE \E a \in Members : token = 1 /\ owners = <<a>>
    BY <2>2
  <2> QED
    BY <2>1, <2>2 DEF Init, SessionInit, Members
<1>3. DOMAIN subs = Members /\ \A a \in Members : IsSub(subs[a])
  <2>1. IsSub(NewSub) /\ IsSub(PaidSub)
    BY DEF IsSub, NewSub, PaidSub
  <2>2. DOMAIN subs = Members /\ \A a \in Members : subs[a] \in {NewSub, PaidSub}
    BY DEF Init, BillingInit, Members
  <2> QED
    BY <2>1, <2>2
<1>4. BillingTypes
  BY <1>1, <1>2, <1>3, BlankedScreen DEF BillingTypes
<1> QED
  BY <1>1, <1>4, BlankedScreen
  DEF BillingInv, ShownIsOf, OpenIsMine, FetchesInOrder, BillingWaits, Blank

LEMMA SpecKeepsBilling == Spec => []BillingInv
<1>1. BillingInv /\ [Next]_vars => BillingInv'
  BY NextMovesBilling, StepsKeepBilling
<1> QED
  BY <1>1, InitBilling, PTL DEF Spec

(* Whoever is signed in, the billing screen shows nobody else's account.   *)
THEOREM BillingShowsMine == Spec => []BillingIsMine
<1>1. BillingInv => BillingIsMine
  <2> SUFFICES ASSUME BillingInv, IsCurrent(screen), NEW p \in Parts, Has(screen, p)
               PROVE  screen.shown[p].of = Owner(token)
    BY DEF BillingIsMine, Has, NoData
  <2> QED
    BY BillingFacts DEF ShownIsOf, Whose, Owner, IsCurrent
<1> QED
  BY <1>1, SpecKeepsBilling, PTL

(* Between two copies of the same account the billing screen never goes    *)
(* back to an older one, in whatever order overlapping reads are answered. *)
THEOREM NewestIsShown == Spec => NewestWins
<1>1. BillingInv /\ [Next]_vars => NewestStays
  BY NextMovesBilling, StepsKeepBilling
<1> QED
  BY <1>1, SpecKeepsBilling, PTL DEF Spec, NewestWins, NewestStays

----------------------------------------------------------------------------
(* The composer *)

TaskFields ==
  {"kind", "of", "then", "n", "token", "id", "to", "key", "text", "rid", "saved", "old"}
IsTask(t, n) ==
  /\ DOMAIN t = TaskFields /\ t.n \in Nat /\ t.n <= n
  /\ t.kind \in {"hydrate", "delete"} => t.n = 0
  /\ t.kind \in {"thread", "list"} => t.then \in {"conflict", "recover", "show"}
IsRequest(r) == DOMAIN r = {"thinking", "inFlight", "controller", "version"} /\ r.version \in Nat

(* A prompt that is being answered has its call; a composer that takes no  *)
(* prompt has the handler with its signal.                                 *)
ComposerGood(r, T, n) ==
  /\ n \in Nat /\ IsRequest(r) /\ \A t \in T : IsTask(t, n)
  /\ r.thinking => \A t \in T : t.n = r.controller => t.kind \in Improving
  /\ r.thinking \/ r.inFlight => r.controller # 0 /\ \E t \in T : t.n = r.controller
ComposerInv == ComposerGood(request, tasks, asked)

(* What an answer may do: the handler ends, or goes on as the ones in U,   *)
(* under its own signal or under none.                                     *)
Swapped(r, t, U, n, r2) ==
  /\ IsRequest(r2) /\ \A u \in U : IsTask(u, n)
  /\ r2.thinking => r.thinking /\ \A u \in U : u.n = r.controller => u.kind \in Improving
  /\ r2.thinking \/ r2.inFlight =>
       /\ r.thinking \/ r.inFlight
       /\ r2.controller = r.controller
       /\ t.n # r.controller \/ \E u \in U : u.n = t.n

LEMMA SwapKeepsComposer ==
  ASSUME NEW r, NEW T, NEW n, ComposerGood(r, T, n), NEW t, NEW U, NEW r2, Swapped(r, t, U, n, r2),
         NEW m \in Nat, n <= m
  PROVE  ComposerGood(r2, (T \ {t}) \cup U, m)
<1>1. \A u \in T \cup U : IsTask(u, m)
  BY DEF ComposerGood, Swapped, IsTask
<1>2. CASE ~(r2.thinking \/ r2.inFlight)
  BY <1>1, <1>2 DEF ComposerGood, Swapped
<1>3. CASE r2.thinking \/ r2.inFlight
  <2>1. r.controller # 0 /\ r2.controller = r.controller /\ \E u \in (T \ {t}) \cup U : u.n = r.controller
    BY <1>3 DEF ComposerGood, Swapped
  <2>2. r2.thinking => \A u \in (T \ {t}) \cup U : u.n = r2.controller => u.kind \in Improving
    BY <2>1 DEF ComposerGood, Swapped
  <2> QED
    BY <1>1, <1>3, <2>1, <2>2 DEF ComposerGood, Swapped
<1> QED
  BY <1>2, <1>3

LEMMA BeginKeepsComposer ==
  ASSUME ComposerInv, NEW p, NEW task, NEW version, NEW spoilt, Begin(p, task, version, spoilt),
         version \in Nat, DOMAIN task = TaskFields, task.n = asked + 1, task.kind \in Improving
  PROVE  ComposerInv'
<1>1. /\ request' = Started(version) /\ tasks' = tasks \cup {task} /\ asked' = asked + 1
      /\ request'.thinking /\ request'.controller = asked + 1 /\ IsRequest(request')
  BY DEF Begin, Started, IsRequest
<1>2. asked \in Nat /\ \A t \in tasks : IsTask(t, asked)
  BY DEF ComposerInv, ComposerGood
<1>3. \A t \in tasks' : IsTask(t, asked + 1)
  BY <1>1, <1>2 DEF IsTask, Improving
<1>4. \A t \in tasks' : t.n = asked + 1 => t.kind \in Improving
  BY <1>1, <1>2 DEF IsTask
<1>5. ComposerGood(request', tasks', asked')
  BY <1>1, <1>2, <1>3, <1>4 DEF ComposerGood
<1> QED
  BY <1>5 DEF ComposerInv

(* A call without a signal is added.                                       *)
LEMMA AddingKeepsComposer ==
  ASSUME ComposerInv, NEW u, DOMAIN u = TaskFields, u.n = 0, u.kind \notin {"thread", "list"},
         tasks' = tasks \cup {u},
         UNCHANGED <<request, asked>>
  PROVE  ComposerInv'
<1>1. IsTask(u, asked)
  BY DEF ComposerInv, ComposerGood, IsTask
<1> QED
  BY <1>1 DEF ComposerInv, ComposerGood

LEMMA CallFacts ==
  ASSUME NEW kind, NEW p, NEW id, NEW key, NEW text, NEW rid, NEW old
  PROVE  /\ DOMAIN Call(kind, p, id, key, text, rid, old) = TaskFields
         /\ Call(kind, p, id, key, text, rid, old).n = asked + 1
         /\ Call(kind, p, id, key, text, rid, old).kind = kind
<1> DEFINE to == IF LoggedIn THEN Backend(p, id) ELSE None
           saved == IndexOf(p, key) # 0 /\ p.messages[IndexOf(p, key)].mode = "saved"
<1>1. \A x, y, z :
        LET c == [kind |-> kind, of |-> kind, then |-> "none", n |-> asked + 1, token |-> token,
                  id |-> id, to |-> x, key |-> key, text |-> text, rid |-> rid, saved |-> y, old |-> z]
        IN  DOMAIN c = TaskFields /\ c.n = asked + 1 /\ c.kind = kind
  BY DEF TaskFields
<1> HIDE DEF to, saved
<1> QED
  BY <1>1, Zenon DEF Call, to, saved

LEMMA SubmitKeepsComposer ==
  ASSUME ComposerInv, NEW p, NEW text, SubmitOn(p, text)
  PROVE  ComposerInv'
<1>1. \E q, id, key, rid, old, s :
        Begin(q, Call("submit", q, id, key, text, rid, old), request.version + 1, s)
  BY Zenon DEF SubmitOn
<1>2. request.version + 1 \in Nat
  BY DEF ComposerInv, ComposerGood, IsRequest
<1> QED
  BY <1>1, <1>2, CallFacts, BeginKeepsComposer DEF Improving

LEMMA ResendKeepsComposer ==
  ASSUME ComposerInv, NEW p, NEW key, NEW text, ResendOn(p, key, text)
  PROVE  ComposerInv'
<1>1. \E there, q, id, rid, old, s :
        Begin(q, Call(IF there THEN "edit" ELSE "local", q, id, key, text, rid, old), request.version, s)
  BY Zenon DEF ResendOn
<1>2. request.version \in Nat
  BY DEF ComposerInv, ComposerGood, IsRequest
<1> QED
  BY <1>1, <1>2, CallFacts, BeginKeepsComposer DEF Improving

LEMMA ReadingFacts ==
  ASSUME NEW t, NEW then \in {"conflict", "recover", "show"}, NEW p, NEW n, IsTask(t, n)
  PROVE  /\ IsTask(Reading(t, then, p), n) /\ Reading(t, then, p).n = t.n
         /\ Reading(t, then, p).kind \in {"thread", "list"}
<1> DEFINE b == IF Backend(p, t.id) # None THEN Backend(p, t.id) ELSE t.id
           old == IF then = "recover" THEN p.messages ELSE <<>>
           kind == IF LoggedIn /\ OnServer(b) THEN "thread" ELSE "list"
<1>1. \A x, y, k : LET u == [t EXCEPT !.kind = k, !.then = then, !.token = token, !.to = x, !.old = y]
                   IN  DOMAIN u = TaskFields /\ u.n = t.n /\ u.kind = k /\ u.then = then
  BY DEF IsTask, TaskFields
<1>2. kind \in {"thread", "list"}
  OBVIOUS
<1>3. Reading(t, then, p) = [t EXCEPT !.kind = kind, !.then = then, !.token = token, !.to = b, !.old = old]
  BY DEF Reading
<1> HIDE DEF b, old, kind
<1>4. DOMAIN Reading(t, then, p) = TaskFields /\ Reading(t, then, p).n = t.n
      /\ Reading(t, then, p).kind \in {"thread", "list"} /\ Reading(t, then, p).then = then
  BY <1>1, <1>2, <1>3
<1> QED
  BY <1>4 DEF IsTask

LEMMA RecentFacts ==
  /\ \A n : DOMAIN Recent(n) = TaskFields /\ Recent(n).n = n /\ Recent(n).kind = "recent"
  /\ \A kind, key, to : LET u == [Recent(0) EXCEPT !.kind = kind, !.key = key, !.to = to]
                        IN  DOMAIN u = TaskFields /\ u.n = 0 /\ u.kind = kind
  /\ \A kind, key : LET u == [Recent(0) EXCEPT !.kind = kind, !.key = key]
                    IN  DOMAIN u = TaskFields /\ u.n = 0 /\ u.kind = kind
<1>1. \A n, tok, none, nil :
        LET c == [kind |-> "recent", of |-> "recent", then |-> "none", n |-> n, token |-> tok,
                  id |-> none, to |-> none, key |-> 0, text |-> NoText, rid |-> 0,
                  saved |-> FALSE, old |-> nil]
        IN  /\ DOMAIN c = TaskFields /\ c.n = n /\ c.kind = "recent"
            /\ \A k, key, to : LET u == [c EXCEPT !.kind = k, !.key = key, !.to = to]
                               IN  DOMAIN u = TaskFields /\ u.n = n /\ u.kind = k
            /\ \A k, key : LET u == [c EXCEPT !.kind = k, !.key = key]
                           IN  DOMAIN u = TaskFields /\ u.n = n /\ u.kind = k
  BY DEF TaskFields
<1> QED
  BY <1>1, Zenon DEF Recent

(* A composer at rest, or as it was, lets handlers go on.                  *)
LEMMA SwapCases ==
  ASSUME ComposerInv, NEW t \in tasks, NEW r2
  PROVE  /\ r2 = request /\ t.n # request.controller => Swapped(request, t, {}, asked, r2)
         /\ IsRequest(r2) /\ ~r2.thinking /\ ~r2.inFlight
              => /\ Swapped(request, t, {}, asked, r2)
                 /\ \A u : IsTask(u, asked) => Swapped(request, t, {u}, asked, r2)
         /\ r2 = [request EXCEPT !.thinking = FALSE]
              => \A u : IsTask(u, asked) /\ u.n = t.n => Swapped(request, t, {u}, asked, r2)
  BY DEF ComposerInv, ComposerGood, IsRequest, Swapped

Swaps(t) == \E U : tasks' = (tasks \ {t}) \cup U /\ Swapped(request, t, U, asked, request')

LEMMA SwapsKeepComposer ==
  ASSUME ComposerInv, NEW t, Swaps(t), asked' \in {asked, asked + 1}
  PROVE  ComposerInv'
<1>1. asked \in Nat /\ asked' \in Nat /\ asked <= asked'
  BY DEF ComposerInv, ComposerGood
<1>2. PICK U : tasks' = (tasks \ {t}) \cup U /\ Swapped(request, t, U, asked, request')
  BY DEF Swaps
<1>3. ComposerGood(request', (tasks \ {t}) \cup U, asked')
  BY <1>1, <1>2, SwapKeepsComposer DEF ComposerInv
<1> QED
  BY <1>2, <1>3 DEF ComposerInv

LEMMA AnsweredSwaps ==
  ASSUME ComposerInv, NEW t \in tasks, Answered(t)
  PROVE  Swaps(t)
<1>1. \/ ~IsCurrentRequest(t) /\ tasks' = tasks \ {t} /\ UNCHANGED request
      \/ /\ request' = [request EXCEPT !.thinking = FALSE]
         /\ \E p : tasks' = (tasks \ {t}) \cup {Reading(t, "show", p)}
      \/ /\ request' = [Idle EXCEPT !.version = request.version]
         /\ tasks' = tasks \ {t} \/ \E p : tasks' = (tasks \ {t}) \cup {Reading(t, "show", p)}
  <2> DEFINE rest == tasks \ {t}
  <2>1. \/ ~IsCurrentRequest(t) /\ tasks' = rest /\ UNCHANGED request
        \/ /\ request' = [request EXCEPT !.thinking = FALSE]
           /\ \E p : tasks' = rest \cup {Reading(t, "show", p)}
        \/ /\ request' = [Idle EXCEPT !.version = request.version]
           /\ \E p, s : tasks' = rest \cup (IF s THEN {Reading(t, "show", p)} ELSE {})
    BY Zenon DEF Answered
  <2> QED
    BY <2>1
<1>2. IsTask(t, asked) /\ \A p : IsTask(Reading(t, "show", p), asked) /\ Reading(t, "show", p).n = t.n
  BY ReadingFacts DEF ComposerInv, ComposerGood
<1>3. request' = [Idle EXCEPT !.version = request.version] =>
        IsRequest(request') /\ ~request'.thinking /\ ~request'.inFlight
  BY DEF Idle, IsRequest, ComposerInv, ComposerGood
<1>4. tasks \ {t} = (tasks \ {t}) \cup {}
  OBVIOUS
<1> QED
  BY <1>1, <1>2, <1>3, <1>4, SwapCases DEF Swaps, IsCurrentRequest

LEMMA FailsSwaps ==
  ASSUME ComposerInv, NEW t \in tasks, NEW why, Fails(t, why)
  PROVE  Swaps(t)
<1> DEFINE calm == [request EXCEPT !.thinking = FALSE]
           off == [calm EXCEPT !.inFlight = FALSE, !.controller = 0]
           rest == tasks \ {t}
<1>1. \/ ~IsCurrentRequest(t) /\ tasks' = rest /\ UNCHANGED request
      \/ /\ request' = calm \/ request' = off
         /\ \E then \in {"conflict", "recover", "show"} : \E p : tasks' = rest \cup {Reading(t, then, p)}
      \/ request' = calm /\ tasks' = rest \cup {Recent(t.n)}
      \/ request' = off /\ tasks' = rest
  BY Zenon DEF Fails
<1>2. IsTask(t, asked) /\ \A then \in {"conflict", "recover", "show"} : \A p : IsTask(Reading(t, then, p), asked) /\ Reading(t, then, p).n = t.n
  BY ReadingFacts DEF ComposerInv, ComposerGood
<1>3. IsTask(Recent(t.n), asked) /\ Recent(t.n).n = t.n
  BY <1>2, RecentFacts DEF IsTask
<1>4. IsRequest(off) /\ ~off.thinking /\ ~off.inFlight
  BY DEF ComposerInv, ComposerGood, IsRequest
<1>5. rest = rest \cup {}
  OBVIOUS
<1> HIDE DEF off
<1> QED
  BY <1>1, <1>2, <1>3, <1>4, <1>5, SwapCases DEF Swaps, IsCurrentRequest

LEMMA ImproveKeepsComposer ==
  ASSUME ComposerInv, NEW t, NEW how, ImproveAnswer(t, how)
  PROVE  ComposerInv'
<1>1. t \in tasks /\ asked' = asked /\ (Answered(t) \/ \E why : Fails(t, why))
  BY Zenon DEF ImproveAnswer
<1> QED
  BY <1>1, AnsweredSwaps, FailsSwaps, SwapsKeepComposer

LEMMA CancelKeepsComposer ==
  ASSUME ComposerInv, NEW t, Cancel(t)
  PROVE  ComposerInv'
<1> DEFINE off == [request EXCEPT !.thinking = FALSE, !.inFlight = FALSE, !.controller = 0]
<1>1. t \in tasks /\ asked' = asked /\ request' = off /\ tasks' = (tasks \ {t}) \cup {}
  BY DEF Cancel
<1>2. IsRequest(off) /\ ~off.thinking /\ ~off.inFlight
  BY DEF ComposerInv, ComposerGood, IsRequest
<1> HIDE DEF off
<1> QED
  BY <1>1, <1>2, SwapCases, SwapsKeepComposer DEF Swaps

(* A handler that reads has no prompt under its signal any more, so it may *)
(* let go of the composer.                                                 *)
LEMMA StoppedSwaps ==
  ASSUME ComposerInv, NEW t \in tasks, t.kind \notin Improving, NEW r2,
         \/ r2 = Stopped(t)
         \/ r2 = [Stopped(t) EXCEPT !.inFlight = FALSE]
  PROVE  Swapped(request, t, {}, asked, r2)
<1>1. IsRequest(request) /\ (t.n = request.controller => ~request.thinking)
  BY DEF ComposerInv, ComposerGood
<1>2. CASE t.n = request.controller
  <2>1. IsRequest(r2) /\ ~r2.thinking /\ ~r2.inFlight
    BY <1>1, <1>2 DEF Stopped, IsCurrentRequest, IsRequest
  <2> QED
    BY <2>1 DEF Swapped
<1>3. CASE t.n # request.controller
  <2>1. IsRequest(r2) /\ r2.thinking = request.thinking /\ r2.controller = request.controller
        /\ (r2.inFlight = request.inFlight \/ r2.inFlight = FALSE)
    BY <1>1, <1>3 DEF Stopped, IsCurrentRequest, IsRequest
  <2> QED
    BY <1>3, <2>1 DEF Swapped
<1> QED
  BY <1>2, <1>3

LEMMA GoesOnStops ==
  ASSUME NEW t, NEW n, IsTask(t, n), t.kind \in {"thread", "list"}, NEW p, NEW found, GoesOn(t, p, found)
  PROVE  /\ request' = Stopped(t) \/ request' = [Stopped(t) EXCEPT !.inFlight = FALSE]
         /\ asked' \in {asked, asked + 1}
<1>1. t.then = "conflict" \/ t.then = "recover" \/ t.then = "show"
  BY DEF IsTask
<1> DEFINE there == found /\ \E i \in DOMAIN p.messages :
                                p.messages[i].by = "user" /\ p.messages[i].text = t.text
           idle == [Stopped(t) EXCEPT !.inFlight = FALSE]
<1>2. CASE t.then = "conflict"
  BY <1>2, Zenon DEF GoesOn
<1>3. CASE t.then = "recover" /\ ~there
  BY <1>3, Zenon DEF GoesOn
<1>4. CASE t.then = "show" \/ (t.then = "recover" /\ there)
  BY <1>4, Zenon DEF GoesOn
<1> QED
  BY <1>1, <1>2, <1>3, <1>4

LEMMA ThreadKeepsComposer ==
  ASSUME ComposerInv, NEW t, NEW ok, ThreadAnswer(t, ok)
  PROVE  ComposerInv'
<1>0. t \in tasks /\ t.kind = "thread" /\ IsTask(t, asked)
  BY DEF ThreadAnswer, ComposerInv, ComposerGood
<1>1. CASE tasks' = (tasks \ {t}) \cup {[t EXCEPT !.kind = "list"]} /\ UNCHANGED <<request, asked>>
  <2> DEFINE u == [t EXCEPT !.kind = "list"]
  <2>1. IsTask(u, asked) /\ u.n = t.n
    BY <1>0 DEF IsTask, TaskFields
  <2>2. IsRequest(request) /\ (request.thinking => t.n # request.controller)
    BY <1>0 DEF ComposerInv, ComposerGood, Improving
  <2> HIDE DEF u
  <2>3. Swapped(request, t, {u}, asked, request)
    BY <2>1, <2>2 DEF Swapped
  <2> QED
    BY <1>1, <2>3, SwapsKeepComposer DEF Swaps, u
<1>2. CASE tasks' = tasks \ {t} /\ \E p : GoesOn(t, p, ok)
  <2>1. tasks' = (tasks \ {t}) \cup {}
    BY <1>2
  <2>2. /\ request' = Stopped(t) \/ request' = [Stopped(t) EXCEPT !.inFlight = FALSE]
        /\ asked' \in {asked, asked + 1}
    BY <1>0, <1>2, GoesOnStops
  <2>3. Swapped(request, t, {}, asked, request')
    BY <1>0, <2>2, StoppedSwaps DEF Improving
  <2> QED
    BY <2>1, <2>2, <2>3, SwapsKeepComposer DEF Swaps
<1> QED
  BY <1>1, <1>2, Zenon DEF ThreadAnswer

LEMMA ListKeepsComposer ==
  ASSUME ComposerInv, NEW t, NEW ok, ListAnswer(t, ok)
  PROVE  ComposerInv'
<1>0. t \in tasks /\ t.kind = "list" /\ IsTask(t, asked)
  BY DEF ListAnswer, ComposerInv, ComposerGood
<1>1. tasks' = (tasks \ {t}) \cup {}
  BY DEF ListAnswer
<1>2. \E p, found : GoesOn(t, p, found)
  BY Zenon DEF ListAnswer
<1>3. /\ request' = Stopped(t) \/ request' = [Stopped(t) EXCEPT !.inFlight = FALSE]
      /\ asked' \in {asked, asked + 1}
  BY <1>0, <1>2, GoesOnStops
<1>4. Swapped(request, t, {}, asked, request')
  BY <1>0, <1>3, StoppedSwaps DEF Improving
<1> QED
  BY <1>1, <1>3, <1>4, SwapsKeepComposer DEF Swaps

LEMMA RecentKeepsComposer ==
  ASSUME ComposerInv, NEW t, NEW how, RecentAnswer(t, how)
  PROVE  ComposerInv'
<1>1. t \in tasks /\ t.kind = "recent" /\ request' = Stopped(t) /\ asked' = asked
      /\ tasks' = (tasks \ {t}) \cup {}
  BY DEF RecentAnswer
<1>2. Swapped(request, t, {}, asked, request')
  BY <1>1, StoppedSwaps DEF Improving
<1> QED
  BY <1>1, <1>2, SwapsKeepComposer DEF Swaps

(* Calls without a signal come and go beside the composer.                 *)
LEMMA BesideKeepsComposer ==
  ASSUME ComposerInv, NEW t, NEW how, DeleteAnswer(t, how) \/ HydrateAnswer(t, how)
  PROVE  ComposerInv'
<1>1. t \in tasks /\ t.kind \in {"delete", "hydrate"} /\ UNCHANGED <<request, asked>>
  BY DEF DeleteAnswer, HydrateAnswer
<1>2. \E U \in {{}, {Recent(0)}} : tasks' = (tasks \ {t}) \cup U
  <2>1. CASE DeleteAnswer(t, how)
    BY <2>1, Zenon DEF DeleteAnswer
  <2>2. CASE HydrateAnswer(t, how)
    BY <2>2 DEF HydrateAnswer
  <2> QED
    BY <2>1, <2>2
<1>3. asked \in Nat /\ IsTask(Recent(0), asked)
  BY RecentFacts DEF ComposerInv, ComposerGood, IsTask
<1>4. t.n = 0 /\ IsRequest(request) /\ (request.thinking \/ request.inFlight => request.controller # 0)
  BY <1>1 DEF ComposerInv, ComposerGood, IsTask
<1>5. \A U \in {{}, {Recent(0)}} : Swapped(request, t, U, asked, request)
  BY <1>3, <1>4, RecentFacts DEF Swapped
<1> QED
  BY <1>1, <1>2, <1>5, SwapsKeepComposer DEF Swaps

LEMMA AskingKeepsComposer ==
  ASSUME ComposerInv, Hydrate \/ \E i : DeleteThread(i)
  PROVE  ComposerInv'
<1>1. UNCHANGED <<request, asked>>
  BY DEF Hydrate, DeleteThread
<1> DEFINE gone(key, to) == [Recent(0) EXCEPT !.kind = "delete", !.key = key, !.to = to]
           whole(key) == [Recent(0) EXCEPT !.kind = "hydrate", !.key = key]
<1>2. \/ UNCHANGED tasks
      \/ \E key, to : tasks' = tasks \cup {gone(key, to)}
      \/ \E key : tasks' = tasks \cup {whole(key)}
  <2>1. ASSUME NEW i, DeleteThread(i) PROVE UNCHANGED tasks \/ \E key, to : tasks' = tasks \cup {gone(key, to)}
    BY <2>1, Zenon DEF DeleteThread
  <2>2. Hydrate => UNCHANGED tasks \/ \E key : tasks' = tasks \cup {whole(key)}
    BY Zenon DEF Hydrate
  <2> QED
    BY <2>1, <2>2
<1>3. CASE UNCHANGED tasks
  BY <1>1, <1>3 DEF ComposerInv
<1>4. /\ \A key, to : DOMAIN gone(key, to) = TaskFields /\ gone(key, to).n = 0 /\ gone(key, to).kind = "delete"
      /\ \A key : DOMAIN whole(key) = TaskFields /\ whole(key).n = 0 /\ whole(key).kind = "hydrate"
  BY RecentFacts
<1> HIDE DEF gone, whole
<1> QED
  BY <1>1, <1>2, <1>3, <1>4, AddingKeepsComposer

LEMMA RetryKeepsComposer ==
  ASSUME ComposerInv, NEW i, RetryConcurrent(i)
  PROVE  ComposerInv'
<1>1. \/ \E p, key, text : ResendOn(p, key, text)
      \/ \E p, text : SubmitOn(p, text)
      \/ request' = [request EXCEPT !.inFlight = FALSE] /\ UNCHANGED <<tasks, asked>>
  BY Zenon DEF RetryConcurrent
<1>2. CASE request' = [request EXCEPT !.inFlight = FALSE] /\ UNCHANGED <<tasks, asked>>
  BY <1>2 DEF ComposerInv, ComposerGood, IsRequest
<1> QED
  BY <1>1, <1>2, ResendKeepsComposer, SubmitKeepsComposer

(* What the steps of the other screens do to the composer.                 *)
ComposerSame == UNCHANGED <<request, tasks, asked>>

LEMMA ComposerFollows ==
  /\ UNCHANGED chatVars \/ UNCHANGED <<chatVars, folderVars>> \/ ChatFollows => ComposerSame
  /\ ChatSignIn \/ ChatSignOut \/ ChatExpired => ComposerSame
<1>1. UNCHANGED chatVars => ComposerSame
  BY DEF chatVars, ComposerSame
<1>2. ChatSignIn \/ ChatSignOut \/ ChatExpired => ComposerSame
  BY Zenon DEF ChatSignIn, ChatSignOut, ChatExpired, ComposerSame
<1> QED
  BY <1>1, <1>2 DEF ChatFollows

LEMMA ChoresLeaveComposer ==
  ASSUME NEW c, ChoreDone(c) \/ \E why : ChoreFails(c, why)
  PROVE  ComposerSame
<1>1. Store(c) => ComposerSame
  BY Zenon DEF Store, ComposerSame
<1>2. ChoreDone(c) => Store(c) \/ UNCHANGED chatVars
  BY Zenon DEF ChoreDone
<1>3. ASSUME NEW why, ChoreFails(c, why) PROVE Store(c) \/ UNCHANGED chatVars \/ ChatExpired
  BY <1>3, Zenon DEF ChoreFails
<1> QED
  BY <1>1, <1>2, <1>3, ComposerFollows

ComposerStep == ComposerSame \/ ChatUnload \/ MakeEvents \/ MakeAnswers

LEMMA NextMovesComposer == [Next]_vars => ComposerStep
<1>1. CASE UNCHANGED vars
  BY <1>1, ComposerFollows DEF vars, ComposerStep
<1>2. ASSUME NEW a, Login(a) PROVE ComposerStep
  BY <1>2, ComposerFollows DEF Login, ComposerStep
<1>3. CASE Logout \/ LoadAgain
  BY <1>3, ComposerFollows DEF Logout, LoadAgain, ComposerStep
<1>4. CASE BillingEvents \/ HomeEvents \/ LibraryEvents \/ AdminEvents \/ TalkEvents
  BY <1>4, ComposerFollows
  DEF BillingEvents, BillingAlone, HomeEvents, AtHomeAlone, HomeAlone, LibraryEvents, VisitLibrary,
      LibraryAlone, AdminEvents, AdminAlone, TalkEvents, TalkAlone, ComposerStep
<1>5. CASE BillingAnswers
  BY <1>5, ComposerFollows DEF BillingAnswers, BillingAlone, ComposerStep
<1>6. CASE ListAnswers \/ AdminAnswers \/ TalkAnswers
  BY <1>6, ComposerFollows
  DEF ListAnswers, HomeAlone, LibraryAlone, AdminAnswers, AdminAlone, TalkAnswers, TalkAlone, ComposerStep
<1> QED
  BY <1>1, <1>2, <1>3, <1>4, <1>5, <1>6 DEF Next, ComposerStep

LEMMA StepsKeepComposer == ComposerInv /\ ComposerStep => ComposerInv'
<1> SUFFICES ASSUME ComposerInv, ComposerStep PROVE ComposerInv'
  OBVIOUS
<1>1. CASE ComposerSame
  BY <1>1 DEF ComposerSame, ComposerInv
<1>2. CASE ChatUnload
  <2>1. request' = Idle /\ tasks' = {} /\ asked' = asked
    BY <1>2 DEF ChatUnload
  <2> QED
    BY <2>1 DEF ComposerInv, ComposerGood, Idle, IsRequest
<1>3. CASE MakeEvents
  <2>1. ASSUME NewChat \/ \E i : OpenThread(i) \/ NewChatFromConflict(i) PROVE ComposerSame
    BY <2>1, Zenon DEF NewChat, OpenThread, NewChatFromConflict, ComposerSame
  <2>2. ASSUME NEW key, NEW text, Resend(key, text) \/ Submit(text) PROVE ComposerInv'
    BY <2>2, ResendKeepsComposer, SubmitKeepsComposer DEF Resend, Submit
  <2>3. FoldersAlone => ComposerSame
    BY ComposerFollows DEF FoldersAlone
  <2> QED
    BY <1>1, <1>3, <2>1, <2>2, <2>3, AskingKeepsComposer, RetryKeepsComposer, CancelKeepsComposer
    DEF MakeEvents, SidePanel, Feed, MessageButtons
<1>4. CASE MakeAnswers
  BY <1>1, <1>4, AskingKeepsComposer, ImproveKeepsComposer, ThreadKeepsComposer, ListKeepsComposer,
     RecentKeepsComposer, BesideKeepsComposer, ChoresLeaveComposer DEF MakeAnswers
<1> QED
  BY <1>1, <1>2, <1>3, <1>4 DEF ComposerStep

LEMMA SpecKeepsComposer == Spec => []ComposerInv
<1>1. Init => ComposerInv
  BY DEF Init, ChatInit, ComposerInv, ComposerGood, Idle, IsRequest
<1>2. ComposerInv /\ [Next]_vars => ComposerInv'
  BY NextMovesComposer, StepsKeepComposer
<1> QED
  BY <1>1, <1>2, PTL DEF Spec

LEMMA ComposerIsFreed == ComposerInv => ComposerWaits
  BY DEF ComposerInv, ComposerGood, ComposerWaits, Busy

----------------------------------------------------------------------------
(* My page *)

LibraryFields ==
  {"status", "tab", "lists", "rows", "liked", "pending", "works", "pulls", "retry", "synced", "loose"}
IsLibrary(l) == DOMAIN l = LibraryFields /\ \A p \in l.pulls : p.token # 0

(* A my page that is being read has a reading for whoever is signed in.    *)
LibraryGood(l, tok) == IsLibrary(l) /\ (l.status = "checking" => \E p \in l.pulls : p.token = tok)
LibraryInv == LibraryGood(library, token)

(* Most changes are to other fields than those of the readings.            *)
Alike(l, m) == DOMAIN m = DOMAIN l /\ m.status = l.status /\ m.pulls = l.pulls

LEMMA AlikeKeepsLibrary ==
  ASSUME NEW l, NEW m, NEW tok, LibraryGood(l, tok), Alike(l, m)
  PROVE  LibraryGood(m, tok)
  BY DEF LibraryGood, IsLibrary, Alike

RowsAre(l, x) == [l EXCEPT !.rows = x]
WorksAre(l, x) == [l EXCEPT !.works = x]
ListsAre(l, x) == [l EXCEPT !.lists = x]
PendingAre(l, x) == [l EXCEPT !.pending = x]
LooseIs(l, x) == [l EXCEPT !.loose = x]
MarksAre(l, x, y) == [l EXCEPT !.liked = x, !.lists = y]

LEMMA EditsAlike ==
  ASSUME NEW l, DOMAIN l = LibraryFields
  PROVE  /\ \A x : /\ Alike(l, RowsAre(l, x)) /\ Alike(l, WorksAre(l, x)) /\ Alike(l, ListsAre(l, x))
                   /\ Alike(l, PendingAre(l, x)) /\ Alike(l, LooseIs(l, x))
         /\ \A x, y : Alike(l, MarksAre(l, x, y))
  BY DEF Alike, LibraryFields, RowsAre, WorksAre, ListsAre, PendingAre, LooseIs, MarksAre

LEMMA AlikeSteps ==
  /\ \A l : Alike(l, l)
  /\ \A l, m, n : Alike(l, m) /\ Alike(m, n) => Alike(l, n)
  BY DEF Alike

LEMMA PullingKeepsLibrary ==
  ASSUME NEW l, NEW tok, IsLibrary(l), tok # 0
  PROVE  LibraryGood(Pulling(l, tok), tok)
<1> DEFINE s == shelf'
           k == FreeIn(l.pulls)
           m == [l EXCEPT !.status = "checking", !.pulls = l.pulls \cup {Pull(k, tok, s)}]
<1>1. Pulling(l, tok) = m
  BY DEF Pulling
<1>2. Pull(k, tok, s).token = tok
  BY DEF Pull
<1>3. DOMAIN m = LibraryFields /\ m.pulls = l.pulls \cup {Pull(k, tok, s)}
  BY DEF IsLibrary, LibraryFields
<1> HIDE DEF m, k, s
<1> QED
  BY <1>1, <1>2, <1>3 DEF IsLibrary, LibraryGood

LEMMA RenderedKeepsLibrary ==
  ASSUME NEW l, NEW h, NEW tok, LibraryGood(l, tok)
  PROVE  LibraryGood(Rendered(l, h, tok), tok)
<1>1. CASE h.route = "saved" /\ tok # 0 /\ l.status = "idle"
  <2>1. Rendered(l, h, tok) = Pulling(l, tok)
    BY <1>1, Zenon DEF Rendered
  <2> QED
    BY <1>1, <2>1, PullingKeepsLibrary DEF LibraryGood
<1>2. CASE ~(h.route = "saved" /\ tok # 0 /\ l.status = "idle")
  <2>1. Rendered(l, h, tok) = l
    BY <1>2, Zenon DEF Rendered
  <2> QED
    BY <2>1
<1> QED
  BY <1>1, <1>2

LEMMA IdleLibrary ==
  ASSUME NEW l, NEW tok, NEW x, NEW y, IsLibrary(l)
  PROVE  /\ LibraryGood([l EXCEPT !.status = "idle"], tok)
         /\ LibraryGood([l EXCEPT !.status = "idle", !.lists = x], tok)
         /\ LibraryGood([l EXCEPT !.status = "idle", !.loose = y], tok)
  BY DEF IsLibrary, LibraryGood, LibraryFields

LEMMA RefreshKeepsLibrary ==
  ASSUME NEW l, NEW h, NEW tok, LibraryGood(l, tok)
  PROVE  LibraryGood(RefreshedPage(l, h, tok), tok)
<1>1. CASE tok = 0 \/ l.status # "connected"
  <2>1. RefreshedPage(l, h, tok) = l
    BY <1>1, Zenon DEF RefreshedPage
  <2> QED
    BY <2>1
<1>2. CASE ~(tok = 0 \/ l.status # "connected")
  <2> DEFINE m == [l EXCEPT !.status = "idle"]
  <2>1. RefreshedPage(l, h, tok) = Rendered(m, h, tok)
    BY <1>2, Zenon DEF RefreshedPage
  <2>2. LibraryGood(m, tok)
    BY IdleLibrary DEF LibraryGood
  <2> HIDE DEF m
  <2> QED
    BY <2>1, <2>2, RenderedKeepsLibrary
<1> QED
  BY <1>1, <1>2

(* What a change does to the prompts is nothing to the readings.           *)
LEMMA EditedRowsAlike ==
  ASSUME NEW l, DOMAIN l = LibraryFields
  PROVE  /\ \A w, f, v : Alike(l, SetRow(l, w, f, v))
         /\ \A p, s, t : Alike(l, NewRow(l, p, s, t))
         /\ \A i : Alike(l, RowGone(l, i))
         /\ \A p : Alike(l, ListedToo(l, p)) /\ Alike(l, UnlistedToo(l, p)) /\ Alike(l, Settled(l, p))
<1>1. ASSUME NEW w, NEW f, NEW v PROVE Alike(l, SetRow(l, w, f, v))
  <2>1. SetRow(l, w, f, v) = l \/ \E x : SetRow(l, w, f, v) = RowsAre(l, x)
    BY DEF SetRow, RowsAre
  <2> QED
    BY <2>1, EditsAlike, AlikeSteps
<1>2. \A p, s, t : \E x : NewRow(l, p, s, t) = RowsAre(l, x)
  BY DEF NewRow, RowsAre
<1>3. ASSUME NEW i PROVE Alike(l, RowGone(l, i))
  <2>1. RowGone(l, i) = l \/ \E x : RowGone(l, i) = RowsAre(l, x)
    BY DEF RowGone, RowsAre
  <2> QED
    BY <2>1, EditsAlike, AlikeSteps
<1>4. ASSUME NEW p PROVE Alike(l, ListedToo(l, p)) /\ Alike(l, UnlistedToo(l, p)) /\ Alike(l, Settled(l, p))
  <2>1. ListedToo(l, p) = l \/ \E x : ListedToo(l, p) = ListsAre(l, x)
    BY DEF ListedToo, ListsAre
  <2>2. \E x : UnlistedToo(l, p) = ListsAre(l, x)
    BY DEF UnlistedToo, ListsAre
  <2>3. \E x : Settled(l, p) = PendingAre(l, x)
    BY DEF Settled, PendingAre
  <2> QED
    BY <2>1, <2>2, <2>3, EditsAlike, AlikeSteps
<1> QED
  BY <1>1, <1>2, <1>3, <1>4, EditsAlike

LEMMA WorkAlike ==
  ASSUME NEW l, NEW w, DOMAIN l = LibraryFields
  PROVE  Alike(l, WorkApplied(l, w))
<1>0. \A m : Alike(l, m) => DOMAIN m = LibraryFields
  BY DEF Alike
<1>1. \/ WorkApplied(l, w) = l
      \/ \E v : WorkApplied(l, w) = Settled(ListedToo(SetRow(l, w, "saved", v), w.id), w.id)
      \/ \E v : WorkApplied(l, w) = ListedToo(NewRow(l, w.id, TRUE, v), w.id)
      \/ \E v : WorkApplied(l, w) = Settled(UnlistedToo(SetRow(l, w, "saved", v), w.id), w.id)
      \/ \E v : WorkApplied(l, w) = UnlistedToo(SetRow(l, w, "saved", v), w.id)
      \/ WorkApplied(l, w) = UnlistedToo(RowGone(l, w.index), w.id)
      \/ WorkApplied(l, w) = SetRow(l, w, "shared", TRUE)
      \/ \E x, y : WorkApplied(l, w) = MarksAre(l, x, y)
  <2>1. CASE w.how = "existing"
    BY <2>1 DEF WorkApplied
  <2>2. CASE w.how = "new"
    BY <2>2 DEF WorkApplied
  <2>3. CASE w.how = "backend"
    BY <2>3 DEF WorkApplied
  <2>4. CASE w.how = "row"
    BY <2>4 DEF WorkApplied
  <2>5. CASE w.how = "like"
    BY <2>5 DEF WorkApplied, MarksAre
  <2>6. CASE w.how = "unlike"
    BY <2>6 DEF WorkApplied, MarksAre
  <2>7. CASE w.how = "publish"
    BY <2>7 DEF WorkApplied
  <2>8. CASE w.how \notin {"existing", "new", "backend", "row", "like", "unlike", "publish"}
    BY <2>8 DEF WorkApplied
  <2> QED
    BY <2>1, <2>2, <2>3, <2>4, <2>5, <2>6, <2>7, <2>8
<1>2. ASSUME NEW v, NEW m \in {SetRow(l, w, "saved", v), NewRow(l, w.id, TRUE, v), RowGone(l, w.index)},
             NEW n \in {ListedToo(m, w.id), UnlistedToo(m, w.id)}
      PROVE  Alike(l, n) /\ Alike(l, Settled(n, w.id))
  <2>1. Alike(l, m)
    BY EditedRowsAlike
  <2>2. Alike(l, n)
    BY <1>0, <2>1, EditedRowsAlike, AlikeSteps
  <2> QED
    BY <1>0, <2>2, EditedRowsAlike, AlikeSteps
<1>3. ASSUME NEW v
      PROVE  /\ Alike(l, Settled(ListedToo(SetRow(l, w, "saved", v), w.id), w.id))
             /\ Alike(l, Settled(UnlistedToo(SetRow(l, w, "saved", v), w.id), w.id))
             /\ Alike(l, UnlistedToo(SetRow(l, w, "saved", v), w.id))
             /\ Alike(l, ListedToo(NewRow(l, w.id, TRUE, v), w.id))
             /\ Alike(l, UnlistedToo(RowGone(l, w.index), w.id))
  BY <1>2
<1>4. Alike(l, l) /\ \A v : Alike(l, SetRow(l, w, "shared", v))
  BY EditedRowsAlike, AlikeSteps
<1>5. \A x, y : Alike(l, MarksAre(l, x, y))
  BY EditsAlike
<1> QED
  BY <1>1, <1>3, <1>4, <1>5

(* The user's changes; nobody comes or goes.                               *)
LEMMA SentAlike ==
  ASSUME NEW l, NEW m, NEW w, DOMAIN l = LibraryFields, Alike(l, m)
  PROVE  Alike(l, Sent(m, w))
<1>1. \E x : Sent(m, w) = WorksAre(m, x)
  BY DEF Sent, WorksAre
<1>2. DOMAIN m = LibraryFields
  BY DEF Alike
<1> QED
  BY <1>1, <1>2, EditsAlike, AlikeSteps

LEMMA TellKeepsLibrary ==
  ASSUME LibraryInv, NEW how, NEW p, Tell(how, p), UNCHANGED token
  PROVE  LibraryInv'
<1>1. DOMAIN library = LibraryFields
  BY DEF LibraryInv, LibraryGood, IsLibrary
<1>2. PICK w : \/ library' = Sent(library, w)
               \/ library' = LooseIs(RefreshedPage(WorkApplied(library, w), home, token), TRUE)
  BY Zenon DEF Tell, LooseIs
<1>3. LibraryGood(RefreshedPage(WorkApplied(library, w), home, token), token)
  BY <1>1, WorkAlike, AlikeKeepsLibrary, RefreshKeepsLibrary DEF LibraryInv
<1>4. LibraryGood(LooseIs(RefreshedPage(WorkApplied(library, w), home, token), TRUE), token)
  BY <1>3, EditsAlike, AlikeKeepsLibrary DEF LibraryGood, IsLibrary
<1>5. LibraryGood(Sent(library, w), token)
  BY <1>1, SentAlike, AlikeSteps, AlikeKeepsLibrary DEF LibraryInv
<1>6. LibraryGood(library', token)
  BY <1>2, <1>4, <1>5
<1> QED
  BY <1>6 DEF LibraryInv

LEMMA CommittedAlike ==
  ASSUME NEW l, DOMAIN l = LibraryFields
  PROVE  Alike(l, Committed(l)) /\ \A t : Alike(l, [Committed(l) EXCEPT !.tab = t])
<1>1. PICK rows, pending, works :
        \/ Committed(l) = l
        \/ Committed(l) = [[l EXCEPT !.rows = rows, !.pending = pending] EXCEPT !.works = works]
        \/ Committed(l) = [[l EXCEPT !.rows = rows, !.pending = pending] EXCEPT !.loose = TRUE]
  BY DEF Committed
<1>2. DOMAIN Committed(l) = LibraryFields /\ Alike(l, Committed(l))
  BY <1>1 DEF Alike, LibraryFields
<1> HIDE DEF Committed
<1>3. ASSUME NEW t PROVE Alike(l, [Committed(l) EXCEPT !.tab = t])
  <2> DEFINE c == Committed(l)
  <2> HIDE DEF c
  <2>1. DOMAIN c = LibraryFields => Alike(c, [c EXCEPT !.tab = t])
    BY DEF Alike, LibraryFields
  <2> QED
    BY <1>2, <2>1, AlikeSteps DEF c
<1> QED
  BY <1>2, <1>3

LEMMA CardKeepsLibrary ==
  ASSUME LibraryInv, NEW p, PromptCard(p)
  PROVE  LibraryInv'
<1>0. DOMAIN library = LibraryFields /\ LibraryGood(library, token)
  BY DEF LibraryInv, LibraryGood, IsLibrary
<1>s. UNCHANGED token
  BY Zenon DEF PromptCard, ToggleSaved, ToggleLiked, Publish, Unshare, DeletePrompt, Hands, SessionStays
<1>1. CASE \E how : Tell(how, p)
  BY <1>1, <1>s, TellKeepsLibrary
<1>2. CASE TogglePending(p)
  <2>1. \E x : library' = PendingAre(library, x)
    BY <1>2 DEF TogglePending, PendingAre
  <2>2. LibraryGood(library', token)
    BY <1>0, <2>1, EditsAlike, AlikeKeepsLibrary
  <2> QED
    BY <1>s, <2>2 DEF LibraryInv
<1>3. CASE \E m, w : Alike(library, m) /\ library' = Sent(m, w)
  <2>1. LibraryGood(library', token)
    BY <1>0, <1>3, SentAlike, AlikeKeepsLibrary
  <2> QED
    BY <1>s, <2>1 DEF LibraryInv
<1>4. CASE Publish(p)
  BY <1>3, <1>4, AlikeSteps DEF Publish
<1>5. CASE Unshare(p)
  <2>1. PICK w, x : \/ library' = Sent(NewRow(library, p, FALSE, FALSE), w)
                    \/ library' = Sent(RowsAre(library, x), w)
    BY <1>5, Zenon DEF Unshare, RowsAre
  <2> QED
    BY <1>0, <1>3, <2>1, EditsAlike, EditedRowsAlike
<1>6. CASE DeletePrompt(p)
  <2>1. PICK w, l : /\ l = RowGone(UnlistedToo(library, p), w.index)
                    /\ library' = Sent([l EXCEPT !.lists.likedToo = @ \ {p}], w)
    BY <1>6, Zenon DEF DeletePrompt
  <2>2. Alike(library, UnlistedToo(library, p)) /\ DOMAIN UnlistedToo(library, p) = LibraryFields
    BY <1>0, EditedRowsAlike DEF Alike
  <2>3. Alike(library, l) /\ DOMAIN l = LibraryFields
    BY <1>0, <2>1, <2>2, EditedRowsAlike, AlikeSteps DEF Alike
  <2>4. PICK x : library' = Sent(ListsAre(l, x), w)
    BY <2>1 DEF ListsAre
  <2>5. Alike(library, ListsAre(l, x))
    BY <2>3, EditsAlike, AlikeSteps
  <2> QED
    BY <1>3, <2>4, <2>5
<1> QED
  BY <1>1, <1>2, <1>4, <1>5, <1>6, Zenon DEF PromptCard, ToggleSaved, ToggleLiked

LEMMA EventsKeepLibrary ==
  ASSUME LibraryInv, LibraryEvents
  PROVE  LibraryInv'
<1>0. DOMAIN library = LibraryFields /\ LibraryGood(library, token) /\ IsLibrary(library)
  BY DEF LibraryInv, LibraryGood, IsLibrary
<1>s. UNCHANGED token
  BY LibraryStays DEF SessionStays
<1>1. CASE VisitLibrary
  <2>1. PICK h : library' = Rendered(library, h, token)
    BY <1>1 DEF VisitLibrary, Visit
  <2>2. LibraryGood(library', token)
    BY <1>0, <2>1, RenderedKeepsLibrary
  <2> QED
    BY <1>s, <2>2 DEF LibraryInv
<1>2. CASE \/ library' \in {library, Committed(library)}
           \/ \E t : library' \in {[library EXCEPT !.tab = t], [Committed(library) EXCEPT !.tab = t]}
  <2>1. \A t : Alike(library, [library EXCEPT !.tab = t])
    BY <1>0 DEF Alike, LibraryFields
  <2>2. Alike(library, library')
    BY <1>0, <1>2, <2>1, CommittedAlike, AlikeSteps
  <2>3. LibraryGood(library', token)
    BY <1>0, <2>2, AlikeKeepsLibrary
  <2> QED
    BY <1>s, <2>3 DEF LibraryInv
<1>3. CASE RetryLibrary
  <2>1. CASE library' = library
    BY <1>2, <2>1
  <2>2. CASE library' = [Pulling(library, token) EXCEPT !.retry = FreeIn(library.pulls)]
    <3> DEFINE m == Pulling(library, token)
               k == FreeIn(library.pulls)
    <3>1. LibraryGood(m, token)
      BY <1>0, <1>3, PullingKeepsLibrary DEF RetryLibrary, LoggedIn
    <3> HIDE DEF m, k
    <3>2. DOMAIN m = LibraryFields
      BY <3>1 DEF LibraryGood, IsLibrary
    <3>3. Alike(m, [m EXCEPT !.retry = k])
      BY <3>2 DEF Alike, LibraryFields
    <3>4. LibraryGood(library', token)
      BY <2>2, <3>1, <3>3, AlikeKeepsLibrary DEF m, k
    <3> QED
      BY <1>s, <3>4 DEF LibraryInv
  <2> QED
    BY <1>3, <2>1, <2>2, Zenon DEF RetryLibrary
<1>4. \A t : ChangeTab(t) => library' \in {[library EXCEPT !.tab = t], [Committed(library) EXCEPT !.tab = t]}
  BY Zenon DEF ChangeTab
<1>5. Leave \/ (\E f \in Finds : SearchFromLibrary(f)) => library' \in {library, Committed(library)}
  BY DEF Leave, SearchFromLibrary, libraryVars
<1> QED
  BY <1>1, <1>2, <1>3, <1>4, <1>5, CardKeepsLibrary DEF LibraryEvents, MyPage

(* The answers.                                                            *)
LEMMA PulledLibrary ==
  ASSUME NEW l, NEW got, NEW s, NEW a, DOMAIN l = LibraryFields
  PROVE  /\ DOMAIN Pulled(l, got, s, a) = LibraryFields /\ Pulled(l, got, s, a).pulls = l.pulls
         /\ Pulled(l, got, s, a).status # "checking"
  BY DEF Pulled, LibraryFields

LEMMA SignedOutLibrary ==
  ASSUME NEW l, NEW tok, IsLibrary(l)
  PROVE  LibraryGood(SignedOut(l), tok)
  BY IdleLibrary DEF SignedOut

LEMMA PullKeepsLibrary ==
  ASSUME LibraryInv, NEW p, NEW got, NEW late, NEW auth \in BOOLEAN, PullAnswer(p, got, late, auth)
  PROVE  LibraryInv'
<1> DEFINE gone == [library EXCEPT !.pulls = @ \ {p}, !.retry = IF @ = p.n THEN 0 ELSE @]
<1>0. LibraryGood(library, token) /\ IsLibrary(library) /\ DOMAIN library = LibraryFields
      /\ p \in library.pulls /\ p.token # 0
  BY DEF LibraryInv, LibraryGood, IsLibrary, PullAnswer
<1>1. DOMAIN gone = LibraryFields /\ gone.pulls = library.pulls \ {p} /\ gone.status = library.status
      /\ IsLibrary(gone)
  BY <1>0 DEF IsLibrary, LibraryFields
<1>2. CASE auth /\ LoggedIn
  <2>1. library' = SignedOut(gone)
    BY <1>2, Zenon DEF PullAnswer
  <2> HIDE DEF gone
  <2> QED
    BY <1>1, <2>1, SignedOutLibrary DEF LibraryInv
<1>3. CASE auth /\ ~LoggedIn
  <2>1. library' = gone /\ UNCHANGED token
    BY <1>3, Zenon DEF PullAnswer, SessionStays
  <2>2. library.status # "checking"
    BY <1>0, <1>3 DEF LibraryGood, IsLibrary, LoggedIn
  <2> HIDE DEF gone
  <2> QED
    BY <1>1, <2>1, <2>2 DEF LibraryInv, LibraryGood
<1>4. CASE ~auth
  <2>1. PICK s, a, x : library' = LooseIs(Pulled(gone, got, s, a), x)
    <3> DEFINE s == IF late THEN shelf ELSE p.seen
               l == Pulled(gone, got, s, Owner(p.token))
               crossed == p.token # token \/ (library.works # {} /\ got # {})
    <3>1. library' = [l EXCEPT !.loose = @ \/ crossed]
      BY <1>4, Zenon DEF PullAnswer
    <3>2. [l EXCEPT !.loose = @ \/ crossed] = LooseIs(l, l.loose \/ crossed)
      BY DEF LooseIs
    <3> HIDE DEF s, crossed, gone
    <3> QED
      BY <3>1, <3>2
  <2> HIDE DEF gone
  <2>2. PICK m : m = Pulled(gone, got, s, a)
    OBVIOUS
  <2>3. IsLibrary(m) /\ m.status # "checking" /\ DOMAIN m = LibraryFields
    BY <1>1, <2>2, PulledLibrary DEF IsLibrary
  <2>4. LibraryGood(m, token')
    BY <2>3 DEF LibraryGood
  <2>5. LibraryGood(library', token')
    BY <2>1, <2>2, <2>3, <2>4, EditsAlike, AlikeKeepsLibrary
  <2> QED
    BY <2>5 DEF LibraryInv
<1> QED
  BY <1>2, <1>3, <1>4

LEMMA DoneKeepsLibrary ==
  ASSUME LibraryInv, NEW w, WorkDone(w)
  PROVE  LibraryInv'
<1>0. LibraryGood(library, token) /\ DOMAIN library = LibraryFields
  BY DEF LibraryInv, LibraryGood, IsLibrary
<1>1. PICK works, x, gone, l, after :
        /\ gone = WorksAre(library, works) /\ l = WorkApplied(gone, w)
        /\ after = l \/ after = RefreshedPage(l, home, token)
        /\ library' = Rendered(LooseIs(after, x), home, token)
  <2> DEFINE g == [library EXCEPT !.works = @ \ {w}]
             l == WorkApplied(g, w)
             crossed == library.pulls # {} \/ w.token # token \/ \E v \in g.works : Crossing(w, v)
             after == IF w.how \in Toggles \cup {"commit"} THEN RefreshedPage(l, home, token) ELSE l
  <2>1. library' = Rendered([after EXCEPT !.loose = @ \/ crossed], home, token)
    BY Zenon DEF WorkDone
  <2>2. \E works : g = WorksAre(library, works)
    BY DEF WorksAre
  <2>3. \E x : [after EXCEPT !.loose = @ \/ crossed] = LooseIs(after, x)
    BY DEF LooseIs
  <2>4. after = l \/ after = RefreshedPage(l, home, token)
    OBVIOUS
  <2> HIDE DEF g, crossed, after
  <2> QED
    BY <2>1, <2>2, <2>3, <2>4
<1>2. LibraryGood(gone, token) /\ DOMAIN gone = LibraryFields
  BY <1>0, <1>1, EditsAlike, AlikeKeepsLibrary DEF Alike
<1>3. LibraryGood(l, token)
  BY <1>1, <1>2, WorkAlike, AlikeKeepsLibrary
<1>4. LibraryGood(after, token) /\ DOMAIN after = LibraryFields
  <2>1. LibraryGood(after, token)
    BY <1>1, <1>3, RefreshKeepsLibrary
  <2> QED
    BY <2>1 DEF LibraryGood, IsLibrary
<1>5. LibraryGood(LooseIs(after, x), token)
  BY <1>4, EditsAlike, AlikeKeepsLibrary
<1>6. LibraryGood(library', token)
  BY <1>1, <1>5, RenderedKeepsLibrary
<1> QED
  BY <1>6, Zenon DEF LibraryInv, WorkDone, SessionStays

LEMMA FailKeepsLibrary ==
  ASSUME LibraryInv, NEW w, NEW why, WorkFails(w, why)
  PROVE  LibraryInv'
<1> DEFINE out == why = "auth" /\ LoggedIn
           tok == IF out THEN 0 ELSE token
           h == IF out THEN AwayFrom(home) ELSE home
<1>0. LibraryGood(library, token) /\ DOMAIN library = LibraryFields /\ IsLibrary(library)
  BY DEF LibraryInv, LibraryGood, IsLibrary
<1>1. token' = tok
  BY Zenon DEF WorkFails, SignOut, SessionStays
<1>2. PICK works, x, gone, l :
        /\ gone = LooseIs(WorksAre(library, works), x)
        /\ l = IF out THEN SignedOut(gone) ELSE gone
        /\ library' \in {Rendered(RefreshedPage(l, h, tok), h, tok), Rendered(l, h, tok)}
  <2> DEFINE ahead == w.how \in {"commit", "unshare", "delete"}
             g == [library EXCEPT !.works = @ \ {w},
                                  !.loose = @ \/ why = "lost" \/ ahead \/ w.token # token]
             l == IF out THEN SignedOut(g) ELSE g
  <2>1. library' = Rendered(IF w.how \in Toggles \cup {"commit"} THEN RefreshedPage(l, h, tok) ELSE l, h, tok)
    BY Zenon DEF WorkFails
  <2>2. \E works, x : g = LooseIs(WorksAre(library, works), x)
    BY <1>0 DEF WorksAre, LooseIs, LibraryFields
  <2>3. library' \in {Rendered(RefreshedPage(l, h, tok), h, tok), Rendered(l, h, tok)}
    BY <2>1
  <2> HIDE DEF g, h, tok
  <2> QED
    BY <2>2, <2>3
<1>3. Alike(library, gone)
  <2>1. Alike(library, WorksAre(library, works)) /\ DOMAIN WorksAre(library, works) = LibraryFields
    BY <1>0, EditsAlike DEF Alike
  <2> QED
    BY <1>2, <2>1, EditsAlike, AlikeSteps
<1>4. LibraryGood(gone, token) /\ IsLibrary(gone)
  <2>1. LibraryGood(gone, token)
    BY <1>0, <1>3, AlikeKeepsLibrary
  <2> QED
    BY <2>1 DEF LibraryGood
<1>5. LibraryGood(l, tok)
  BY <1>2, <1>4, SignedOutLibrary
<1> HIDE DEF h, tok
<1>6. LibraryGood(library', tok)
  BY <1>2, <1>5, RefreshKeepsLibrary, RenderedKeepsLibrary
<1> QED
  BY <1>1, <1>6 DEF LibraryInv

(* What the session and the dialog do to my page.                          *)
LEMMA SessionKeepsLibrary ==
  ASSUME LibraryInv, LibrarySignOut \/ LibraryUnload \/ \E a : LibrarySignIn(a)
  PROVE  LibraryInv'
<1>0. IsLibrary(library) /\ DOMAIN library = LibraryFields
  BY DEF LibraryInv, LibraryGood, IsLibrary
<1>1. CASE LibrarySignOut
  <2>1. library' = SignedOut(library)
    BY <1>1 DEF LibrarySignOut
  <2> QED
    BY <1>0, <2>1, SignedOutLibrary DEF LibraryInv
<1>2. CASE LibraryUnload
  <2> DEFINE rows == Stored(library)
             synced == library.synced /\ library.pending = {}
             loose == library.loose \/ library.works # {}
             l == [SignedOut(library) EXCEPT !.rows = rows, !.pending = {}, !.tab = "library",
                                             !.works = {}, !.pulls = {}, !.retry = 0,
                                             !.synced = synced, !.loose = loose]
             h == home'
  <2>1. SignedOut(library).synced = library.synced /\ SignedOut(library).loose = library.loose
    BY <1>0 DEF SignedOut, LibraryFields
  <2>2. library' = Rendered(l, h, token')
    BY <1>2, <2>1 DEF LibraryUnload
  <2> HIDE DEF rows, synced, loose
  <2>3. LibraryGood(l, token')
    BY <1>0 DEF SignedOut, LibraryFields, LibraryGood, IsLibrary
  <2> HIDE DEF l, h
  <2> QED
    BY <2>2, <2>3, RenderedKeepsLibrary DEF LibraryInv
<1>3. ASSUME NEW a, LibrarySignIn(a) PROVE LibraryInv'
  <2> DEFINE x == library.loose \/ \E t \in Tokens : Owner(t) # a
             l == [library EXCEPT !.status = "idle", !.loose = x]
             h == home'
  <2>1. library' = Rendered(l, h, token')
    BY <1>3 DEF LibrarySignIn
  <2> HIDE DEF x
  <2>2. LibraryGood(l, token')
    BY <1>0, IdleLibrary
  <2> HIDE DEF l, h
  <2> QED
    BY <2>1, <2>2, RenderedKeepsLibrary DEF LibraryInv
<1> QED
  BY <1>1, <1>2, <1>3

RereadLibrary == UNCHANGED token /\ library' = RefreshedPage(library, home, token)

LEMMA RefreshedKeeps == LibraryInv /\ RereadLibrary => LibraryInv'
  BY RefreshKeepsLibrary DEF LibraryInv, RereadLibrary

(* What every step does to my page.                                        *)
LibraryStep ==
  \/ UNCHANGED <<token, library>>
  \/ LibrarySignOut \/ LibraryUnload \/ \E a : LibrarySignIn(a)
  \/ LibraryEvents
  \/ \E p, got, late : \E auth \in BOOLEAN : PullAnswer(p, got, late, auth)
  \/ \E w : WorkDone(w) \/ \E why : WorkFails(w, why)
  \/ RereadLibrary

LEMMA StepsKeepLibrary == LibraryInv /\ LibraryStep => LibraryInv'
<1>1. LibraryInv /\ UNCHANGED <<token, library>> => LibraryInv'
  BY DEF LibraryInv
<1> QED
  BY <1>1, SessionKeepsLibrary, EventsKeepLibrary, PullKeepsLibrary, DoneKeepsLibrary, FailKeepsLibrary,
     RefreshedKeeps DEF LibraryStep

LEMMA LibraryFollowsSession ==
  /\ SessionStays /\ ListsStay => LibraryStep
  /\ ListsFollow \/ LibraryFollows => LibraryStep
  /\ SessionStays /\ UNCHANGED library => LibraryStep
  /\ SessionStays /\ UNCHANGED libraryVars => LibraryStep
  BY DEF ListsStay, ListsFollow, LibraryFollows, LibraryStep, SessionStays, libraryVars

LEMMA AnswersMoveLibrary ==
  ASSUME BillingAnswers \/ MakeAnswers \/ ListAnswers \/ AdminAnswers \/ TalkAnswers
  PROVE  LibraryStep
<1>1. CASE BillingAnswers
  <2>1. ASSUME NEW c, WriteDone(c) \/ RegisterFails(c) \/ \E force : HydrateSummary(force) PROVE SessionStays
    BY <2>1, Zenon DEF WriteDone, RegisterFails, HydrateSummary, Complain
  <2> QED
    BY <1>1, <2>1, LibraryFollowsSession DEF BillingAnswers, BillingAlone, LibraryStep
<1>2. CASE MakeAnswers
  BY <1>2, LibraryFollowsSession, ChatStays, FoldersStay DEF MakeAnswers, ChatAlone, ListsAndBillingStay
<1>3. CASE ListAnswers
  <2>1. ASSUME NEW l, NEW ok, NEW total, HomeAnswer(l, ok, total), HomeAlone PROVE LibraryStep
    <3>1. SessionStays
      BY <2>1, Zenon DEF HomeAnswer
    <3> QED
      BY <2>1, <3>1, LibraryFollowsSession DEF HomeAlone
  <2> QED
    BY <1>3, <2>1 DEF ListAnswers, LibraryStep
<1>4. CASE AdminAnswers
  <2>1. ASSUME NEW x, NEW to, Elsewhere(x, to) PROVE SessionStays
    BY <2>1, Zenon DEF Elsewhere
  <2>2. ASSUME NEW j, NEW got, NEW late, ReadAnswer(j, got, late) PROVE SessionStays
    BY <2>2, Zenon DEF ReadAnswer
  <2>3. ASSUME NEW j, DecideDone(j) PROVE SessionStays
    BY <2>3, Zenon DEF DecideDone
  <2> QED
    BY <1>4, <2>1, <2>2, <2>3, LibraryFollowsSession DEF AdminAnswers, AdminAlone
<1>5. CASE TalkAnswers
  <2>1. ASSUME NEW c, TalkDone(c) PROVE LibraryStep
    <3>1. SessionStays /\ (library' = RefreshedPage(library, home, token) \/ library' = library)
      BY <2>1, Zenon DEF TalkDone
    <3> QED
      BY <3>1 DEF LibraryStep, RereadLibrary, SessionStays
  <2>2. ASSUME NEW c, NEW ok, NEW late, TalkRead(c, ok, late), UNCHANGED library PROVE LibraryStep
    <3>1. SessionStays
      BY <2>2, Zenon DEF TalkRead
    <3> QED
      BY <2>2, <3>1, LibraryFollowsSession
  <2>3. ASSUME NEW why, SessionAfter(why),
               IF token' = token THEN UNCHANGED <<homeVars, libraryVars, adminVars>>
               ELSE LibrarySignOut /\ AdminSignOut
        PROVE  LibraryStep
    BY <2>3 DEF LibraryStep, libraryVars
  <2> QED
    BY <1>5, <2>1, <2>2, <2>3 DEF TalkAnswers
<1> QED
  BY <1>1, <1>2, <1>3, <1>4, <1>5

LEMMA NextMovesLibrary == [Next]_vars => LibraryStep
<1>1. CASE UNCHANGED vars
  BY <1>1 DEF vars, sessionVars, libraryVars, LibraryStep
<1>2. ASSUME NEW a, Login(a) PROVE LibraryStep
  BY <1>2 DEF Login, LibraryStep
<1>3. CASE Logout \/ LoadAgain
  BY <1>3 DEF Logout, LoadAgain, LibraryStep
<1>4. CASE MakeEvents
  BY <1>4, MakeStays, LibraryFollowsSession
  DEF MakeEvents, SidePanel, ChatAlone, FoldersAlone, ListsAndBillingStay
<1>5. CASE BillingEvents
  <2>1. BillingEvents => SessionStays
    BY Zenon DEF BillingEvents, Open, StartPro, Close, Reload, Mutate, ConfirmUpgrade, Register
  <2> QED
    BY <1>5, <2>1, LibraryFollowsSession DEF BillingEvents, BillingAlone
<1>6. CASE HomeEvents
  BY <1>6, HomeStays, LibraryFollowsSession DEF HomeEvents, AtHomeAlone, HomeAlone
<1>7. CASE AdminEvents
  BY <1>7, AdminStays, LibraryFollowsSession DEF AdminEvents, AdminAlone
<1>8. CASE TalkEvents
  <2>1. SubmitReport => UNCHANGED library \/ library' = RefreshedPage(library, home, token)
    BY Zenon DEF SubmitReport
  <2> QED
    BY <1>8, <2>1, TalkStays, LibraryFollowsSession DEF TalkEvents, LibraryStep, RereadLibrary, SessionStays
<1>9. CASE LibraryEvents
  BY <1>9 DEF LibraryStep
<1> QED
  BY <1>1, <1>2, <1>3, <1>4, <1>5, <1>6, <1>7, <1>8, <1>9, AnswersMoveLibrary DEF Next

LEMMA InitLibrary == Init => LibraryInv
<1> SUFFICES ASSUME Init PROVE LibraryInv
  OBVIOUS
<1>1. DOMAIN Unread = LibraryFields /\ Unread.pulls = {} /\ Unread.status = "idle"
  BY DEF Unread, LibraryFields
<1>2. PICK rows, l :
        /\ l \in {Unread, [Unread EXCEPT !.rows = rows, !.synced = TRUE]}
        /\ \/ library = l
           \/ LoggedIn /\ library = [l EXCEPT !.status = "checking", !.pulls = {Pull(1, token, shelf)}]
  <2>1. PICK kept \in {{}, Prompts} :
          LET known == [Unread EXCEPT !.rows = Upserted(<<>>, Shelved(shelf, Keeper), shelf, Keeper),
                                      !.synced = TRUE]
          IN  \E l \in IF left["library"] # 0 /\ LoggedIn THEN {Unread, known} ELSE {Unread} :
                library = IF home.route = "saved" /\ LoggedIn
                          THEN [l EXCEPT !.status = "checking", !.pulls = {Pull(1, token, shelf)}]
                          ELSE l
    BY Zenon DEF Init, LibraryInit
  <2> QED
    BY <2>1
<1>3. DOMAIN l = LibraryFields /\ l.pulls = {} /\ l.status = "idle"
  BY <1>1, <1>2 DEF LibraryFields
<1>4. Pull(1, token, shelf).token = token
  BY DEF Pull
<1>5. CASE library = l
  BY <1>3, <1>5 DEF LibraryInv, LibraryGood, IsLibrary
<1>6. CASE LoggedIn /\ library = [l EXCEPT !.status = "checking", !.pulls = {Pull(1, token, shelf)}]
  <2>1. DOMAIN library = LibraryFields /\ library.pulls = {Pull(1, token, shelf)}
    BY <1>3, <1>6 DEF LibraryFields
  <2> QED
    BY <1>4, <1>6, <2>1 DEF LibraryInv, LibraryGood, IsLibrary, LoggedIn
<1> QED
  BY <1>2, <1>5, <1>6

LEMMA SpecKeepsLibrary == Spec => []LibraryInv
<1>1. LibraryInv /\ [Next]_vars => LibraryInv'
  BY NextMovesLibrary, StepsKeepLibrary
<1> QED
  BY <1>1, InitLibrary, PTL DEF Spec

----------------------------------------------------------------------------
(* Nothing stays disabled: a busy billing screen waits for a call, a       *)
(* composer that takes no prompt for the handler whose end opens it again, *)
(* and my page for a reading of whoever is signed in.                      *)
THEOREM ScreensAreFreed == Spec => []BusyEnds
<1>1. BillingInv /\ ComposerInv /\ LibraryInv => BusyEnds
  BY ComposerIsFreed DEF BillingInv, LibraryInv, LibraryGood, BusyEnds, LibraryWaits
<1> QED
  BY <1>1, SpecKeepsBilling, SpecKeepsComposer, SpecKeepsLibrary, PTL

----------------------------------------------------------------------------
(* The console of an administrator *)

ConsoleFields == {"mode", "status", "view", "log", "real", "told", "loose", "jobs"}

IsConsole(c) ==
  /\ DOMAIN c = ConsoleFields /\ DOMAIN c.view = Subjects
  /\ \A j \in c.jobs : j.kind = "decide" => j.x \in Subjects
IsDesk(d) == DOMAIN d = Subjects \cup {"log"}

(* A subject the console was told of is shown as it is decided; the audit   *)
(* log is shown to its end, or is being read, or will be before the         *)
(* console is seen again.                                                   *)
ViewsAgree(c, d) == \A x \in (Subjects \cap c.told) \ c.loose : c.view[x] = d[x]
BeingRead(c) == \E j \in c.jobs : j.kind \in {"read", "audit"}
LogKnown(c, d) ==
  "log" \in c.told \ c.loose => c.log = d["log"] \/ BeingRead(c) \/ (c.status = "idle" /\ ~c.mode)

Sound(c, d) == IsConsole(c) /\ IsDesk(d) /\ ViewsAgree(c, d)
ConsoleGood(c, d) == Sound(c, d) /\ LogKnown(c, d)
ConsoleInv == ConsoleGood(console, desk)

LEMMA DoingConsole ==
  ASSUME NEW c, NEW d, NEW kind, NEW x, NEW to, NEW e,
         Sound(c, d), kind = "decide" => x \in Subjects, e = Doing(kind, x, to, c)
  PROVE  /\ Sound(e, d)
         /\ LogKnown(c, d) \/ kind \in {"read", "audit"} => LogKnown(e, d)
         /\ e.status = c.status /\ e.mode = c.mode
         /\ kind \in {"read", "audit"} => BeingRead(e)
<1>1. PICK j : j.kind = kind /\ j.x = x /\ e = [c EXCEPT !.jobs = @ \cup {j}]
  <2> DEFINE j == [n |-> FreeIn(c.jobs), kind |-> kind, x |-> x, to |-> to, seen |-> desk',
                   was |-> IF x = "" THEN "" ELSE c.view[x]]
  <2>1. e = [c EXCEPT !.jobs = @ \cup {j}]
    BY Zenon DEF Doing
  <2>2. j.kind = kind /\ j.x = x
    BY Zenon
  <2> QED
    BY <2>1, <2>2, Zenon
<1>2. DOMAIN e = DOMAIN c /\ e.jobs = c.jobs \cup {j} /\ e.view = c.view /\ e.told = c.told
        /\ e.loose = c.loose /\ e.log = c.log /\ e.status = c.status /\ e.mode = c.mode
  BY <1>1 DEF Sound, IsConsole, ConsoleFields
<1>3. IsConsole(e) /\ ViewsAgree(e, d)
  BY <1>1, <1>2 DEF Sound, IsConsole, ViewsAgree
<1>4. BeingRead(c) \/ kind \in {"read", "audit"} => BeingRead(e)
  BY <1>1, <1>2 DEF BeingRead
<1> QED
  BY <1>2, <1>3, <1>4 DEF Sound, LogKnown

LEMMA ReadingConsole ==
  ASSUME NEW c, NEW d, NEW e, Sound(c, d), e = ReadAll(c)
  PROVE  ConsoleGood(e, d)
<1>1. PICK nobody, f : f = Doing("read", nobody, nobody, c) /\ e = [f EXCEPT !.status = "checking"]
  BY Zenon DEF ReadAll
<1>2. Sound(f, d) /\ BeingRead(f)
  BY <1>1, DoingConsole
<1>3. DOMAIN e = DOMAIN f /\ e.jobs = f.jobs /\ e.view = f.view /\ e.told = f.told /\ e.loose = f.loose
  BY <1>1, <1>2 DEF Sound, IsConsole, ConsoleFields
<1> QED
  BY <1>2, <1>3 DEF ConsoleGood, Sound, IsConsole, ViewsAgree, LogKnown, BeingRead

LEMMA DrawnConsole ==
  ASSUME NEW c, NEW d, NEW e, Sound(c, d), LogKnown(c, d) \/ c.status = "idle", e = Drawn(c)
  PROVE  ConsoleGood(e, d)
<1>1. CASE c.mode /\ c.status = "idle"
  <2>1. e = ReadAll(c)
    BY <1>1, Zenon DEF Drawn
  <2> QED
    BY <2>1, ReadingConsole
<1>2. CASE ~(c.mode /\ c.status = "idle")
  <2>1. e = c
    BY <1>2, Zenon DEF Drawn
  <2> QED
    BY <1>2, <2>1 DEF ConsoleGood, LogKnown
<1> QED
  BY <1>1, <1>2

LEMMA ClosedConsole ==
  ASSUME NEW c, NEW d, NEW e, Sound(c, d), e = ConsoleClosed(c)
  PROVE  ConsoleGood(e, d) /\ e.jobs = c.jobs /\ e.status = "idle" /\ e.loose = c.loose
<1>1. DOMAIN e = DOMAIN c /\ e.jobs = c.jobs /\ e.told = c.told \ {"user"} /\ e.loose = c.loose
        /\ e.status = "idle" /\ e.mode = FALSE /\ e.view = [c.view EXCEPT !["user"] = "active"]
  BY DEF ConsoleClosed, Sound, IsConsole, ConsoleFields
<1>2. DOMAIN e.view = Subjects /\ \A x \in Subjects \ {"user"} : e.view[x] = c.view[x]
  BY <1>1 DEF Sound, IsConsole, Subjects
<1> QED
  BY <1>1, <1>2 DEF ConsoleGood, Sound, IsConsole, ViewsAgree, LogKnown

(* What the server told of S, with the state s it was in.                  *)
LEMMA ToldConsole ==
  ASSUME NEW c, NEW S, NEW s, NEW e, e = Told(c, S, s), IsConsole(c), IsDesk(desk'),
         \A x \in Subjects \cap S : c.view[x] = s[x],
         \A x \in (Subjects \cap c.told) \ (c.loose \cup S) : c.view[x] = desk'[x],
         "log" \in S => c.log = s["log"],
         "log" \in S \/ "log" \in c.loose \/ LogKnown(c, desk')
  PROVE  ConsoleGood(e, desk') /\ e.status = c.status /\ e.mode = c.mode
<1>1. DOMAIN e = DOMAIN c /\ e.jobs = c.jobs /\ e.view = c.view /\ e.status = c.status /\ e.mode = c.mode
        /\ e.log = c.log /\ e.told = c.told \cup S
        /\ e.loose = (c.loose \ S) \cup {x \in S : s[x] # desk'[x]}
  BY DEF Told, IsConsole, ConsoleFields
<1>2. IsConsole(e)
  BY <1>1 DEF IsConsole
<1>3. ViewsAgree(e, desk')
  BY <1>1 DEF ViewsAgree
<1>4. LogKnown(e, desk')
  BY <1>1 DEF LogKnown, BeingRead
<1> QED
  BY <1>1, <1>2, <1>3, <1>4 DEF ConsoleGood, Sound

(* A job is over: what is known stays known, but for the log.              *)
LEMMA OverConsole ==
  ASSUME NEW j, NEW e, ConsoleInv, e = Over(j)
  PROVE  /\ Sound(e, desk) /\ e.mode = console.mode /\ e.status = console.status
         /\ e.told = console.told /\ e.loose = console.loose /\ e.view = console.view /\ e.log = console.log
         /\ j.kind \notin {"read", "audit"} => LogKnown(e, desk)
<1>1. DOMAIN e = DOMAIN console /\ e.jobs = console.jobs \ {j} /\ e.mode = console.mode
        /\ e.status = console.status /\ e.told = console.told /\ e.loose = console.loose
        /\ e.view = console.view /\ e.log = console.log
  BY DEF Over, ConsoleInv, ConsoleGood, Sound, IsConsole, ConsoleFields
<1>2. j.kind \notin {"read", "audit"} /\ BeingRead(console) => BeingRead(e)
  BY <1>1 DEF BeingRead
<1> QED
  BY <1>1, <1>2 DEF ConsoleInv, ConsoleGood, Sound, IsConsole, ViewsAgree, LogKnown

LEMMA SessionKeepsConsole ==
  ConsoleInv /\ (AdminSignOut \/ AdminUnload \/ \E a : AdminSignIn(a)) => ConsoleInv'
<1> SUFFICES ASSUME ConsoleInv, AdminSignOut \/ AdminUnload \/ \E a : AdminSignIn(a) PROVE ConsoleInv'
  OBVIOUS
<1>0. Sound(console, desk) /\ DOMAIN console = ConsoleFields
  BY DEF ConsoleInv, ConsoleGood, Sound, IsConsole
<1>1. CASE AdminSignOut
  <2>1. ConsoleGood(console', desk)
    BY <1>0, <1>1, ClosedConsole DEF AdminSignOut
  <2> QED
    BY <1>1, <2>1 DEF ConsoleInv, AdminSignOut
<1>2. CASE AdminUnload
  <2>1. PICK c, m, S, e :
          /\ c = ConsoleClosed(console)
          /\ e = [c EXCEPT !.mode = m, !.log = 0, !.told = @ \ {"log"}, !.jobs = {}, !.loose = @ \cup S]
          /\ console' = Drawn(e) /\ desk' = desk
    BY <1>2, Zenon DEF AdminUnload
  <2>2. ConsoleGood(c, desk) /\ c.status = "idle"
    BY <1>0, <2>1, ClosedConsole
  <2>3. DOMAIN e = DOMAIN c /\ e.view = c.view /\ e.told = c.told \ {"log"} /\ e.jobs = {}
          /\ e.loose = c.loose \cup S /\ e.status = c.status
    BY <2>1, <2>2 DEF ConsoleGood, Sound, IsConsole, ConsoleFields
  <2>4. Sound(e, desk) /\ e.status = "idle"
    BY <2>2, <2>3 DEF ConsoleGood, Sound, IsConsole, ViewsAgree
  <2>5. ConsoleGood(console', desk)
    BY <2>1, <2>4, DrawnConsole
  <2> QED
    BY <2>1, <2>5 DEF ConsoleInv
<1>3. ASSUME NEW a, AdminSignIn(a) PROVE ConsoleInv'
  <2>1. PICK m, e : e = [console EXCEPT !.mode = m, !.status = "idle"] /\ console' = Drawn(e) /\ desk' = desk
    BY <1>3, Zenon DEF AdminSignIn
  <2>2. DOMAIN e = DOMAIN console /\ e.view = console.view /\ e.told = console.told /\ e.jobs = console.jobs
          /\ e.loose = console.loose /\ e.status = "idle"
    BY <1>0, <2>1 DEF ConsoleFields
  <2>3. Sound(e, desk)
    BY <1>0, <2>2 DEF Sound, IsConsole, ViewsAgree
  <2>4. ConsoleGood(console', desk)
    BY <2>1, <2>2, <2>3, DrawnConsole
  <2> QED
    BY <2>1, <2>4 DEF ConsoleInv
<1> QED
  BY <1>1, <1>2, <1>3

LEMMA DecidingKeepsConsole ==
  ASSUME ConsoleInv, NEW x \in Subjects, NEW to, Decide(x, to)
  PROVE  ConsoleInv'
<1>0. ConsoleGood(console, desk) /\ Sound(console, desk) /\ desk' = desk
  BY Zenon DEF ConsoleInv, ConsoleGood, Decide
<1>1. PICK c : /\ c = Shown(console, x, to)
               /\ \/ console' = [c EXCEPT !.loose = @ \cup {x}]
                  \/ console' = Doing("decide", x, to, console)
  BY Zenon DEF Decide
<1>2. CASE console' = [c EXCEPT !.loose = @ \cup {x}]
  <2>1. DOMAIN c = DOMAIN console /\ c.view = [console.view EXCEPT ![x] = to] /\ c.told = console.told
          /\ c.loose = console.loose /\ c.jobs = console.jobs /\ c.log = console.log
          /\ c.status = console.status /\ c.mode = console.mode
    BY <1>0, <1>1 DEF Shown, Sound, IsConsole, ConsoleFields
  <2>2. DOMAIN console' = DOMAIN console /\ console'.view = [console.view EXCEPT ![x] = to]
          /\ console'.told = console.told /\ console'.loose = console.loose \cup {x}
          /\ console'.jobs = console.jobs /\ console'.log = console.log
          /\ console'.status = console.status /\ console'.mode = console.mode
    BY <1>0, <1>2, <2>1 DEF Sound, IsConsole, ConsoleFields
  <2>3. DOMAIN console'.view = Subjects /\ \A y \in Subjects \ {x} : console'.view[y] = console.view[y]
    BY <1>0, <2>2 DEF Sound, IsConsole
  <2>4. Sound(console', desk)
    BY <1>0, <2>2, <2>3 DEF Sound, IsConsole, ViewsAgree
  <2>5. LogKnown(console', desk)
    BY <1>0, <2>2 DEF ConsoleGood, LogKnown, BeingRead
  <2> QED
    BY <1>0, <2>4, <2>5 DEF ConsoleInv, ConsoleGood
<1>3. CASE console' = Doing("decide", x, to, console)
  <2>1. ConsoleGood(console', desk)
    BY <1>0, <1>3, DoingConsole DEF ConsoleGood
  <2> QED
    BY <1>0, <2>1 DEF ConsoleInv
<1> QED
  BY <1>1, <1>2, <1>3

LEMMA EventsKeepConsole == ConsoleInv /\ (ToggleAdminView \/ AdminPage) => ConsoleInv'
<1> SUFFICES ASSUME ConsoleInv, ToggleAdminView \/ AdminPage PROVE ConsoleInv'
  OBVIOUS
<1>0. ConsoleGood(console, desk) /\ Sound(console, desk) /\ DOMAIN console = ConsoleFields
  BY DEF ConsoleInv, ConsoleGood, Sound, IsConsole
<1>1. CASE ToggleAdminView
  <2>1. PICK e : e = [console EXCEPT !.mode = ~@] /\ console' = Drawn(e) /\ desk' = desk
    BY <1>1, Zenon DEF ToggleAdminView
  <2>2. DOMAIN e = DOMAIN console /\ e.view = console.view /\ e.told = console.told /\ e.jobs = console.jobs
          /\ e.loose = console.loose /\ e.status = console.status /\ e.log = console.log
    BY <1>0, <2>1 DEF ConsoleFields
  <2>3. Sound(e, desk)
    BY <1>0, <2>2 DEF Sound, IsConsole, ViewsAgree
  <2>4. LogKnown(e, desk) \/ e.status = "idle"
    BY <1>0, <2>2 DEF ConsoleGood, LogKnown, BeingRead
  <2>5. ConsoleGood(console', desk)
    BY <2>1, <2>3, <2>4, DrawnConsole
  <2> QED
    BY <2>1, <2>5 DEF ConsoleInv
<1>2. CASE OpenUser
  <2>1. PICK nobody : console' = Doing("visit", "user", nobody, console) /\ desk' = desk
    BY <1>2, Zenon DEF OpenUser
  <2>2. ConsoleGood(console', desk)
    BY <1>0, <2>1, DoingConsole DEF ConsoleGood
  <2> QED
    BY <2>1, <2>2 DEF ConsoleInv
<1>3. AdminPage => OpenUser \/ \E x \in Subjects : \E to : Decide(x, to)
  BY DEF AdminPage, ReportsPanel, PromptsPanel, RevisionForm, TagsPanel, UsersPanel, Subjects
<1> QED
  BY <1>1, <1>2, <1>3, DecidingKeepsConsole

LEMMA DecidedDesk ==
  ASSUME NEW x \in Subjects, NEW to, IsDesk(desk), desk' = Decided(desk, x, to)
  PROVE  /\ IsDesk(desk') /\ desk'[x] = to
         /\ \A y \in Subjects \ {x} : desk'[y] = desk[y]
<1>1. x # "log"
  BY DEF Subjects
<1> QED
  BY <1>1 DEF Decided, IsDesk, Subjects

LEMMA ElsewhereKeepsConsole ==
  ASSUME ConsoleInv, NEW x \in Subjects, NEW to, Elsewhere(x, to)
  PROVE  ConsoleInv'
<1>0. ConsoleGood(console, desk) /\ Sound(console, desk) /\ DOMAIN console = ConsoleFields /\ IsDesk(desk)
  BY DEF ConsoleInv, ConsoleGood, Sound, IsConsole
<1>1. IsDesk(desk')
  BY <1>0, DecidedDesk DEF Elsewhere, IsDesk
<1>2. PICK S : /\ console' = [console EXCEPT !.loose = @ \cup S]
               /\ S = {f \in DOMAIN desk : desk'[f] # desk[f]}
  BY Zenon DEF Elsewhere
<1>3. DOMAIN console' = ConsoleFields /\ console'.view = console.view /\ console'.told = console.told
        /\ console'.jobs = console.jobs /\ console'.loose = console.loose \cup S
        /\ console'.status = console.status /\ console'.log = console.log /\ console'.mode = console.mode
  BY <1>0, <1>2 DEF ConsoleFields
<1>4. \A f \in Subjects \cup {"log"} : f \notin S => desk'[f] = desk[f]
  BY <1>0, <1>2 DEF IsDesk
<1>5. Sound(console', desk')
  BY <1>0, <1>1, <1>3, <1>4 DEF Sound, IsConsole, ViewsAgree
<1>6. LogKnown(console', desk')
  BY <1>0, <1>3, <1>4 DEF ConsoleGood, LogKnown, BeingRead
<1> QED
  BY <1>5, <1>6 DEF ConsoleInv, ConsoleGood

LEMMA ReadKeepsConsole ==
  ASSUME ConsoleInv, NEW j, NEW got \in Heard, NEW late, ReadAnswer(j, got, late)
  PROVE  ConsoleInv'
<1>0. ConsoleGood(console, desk) /\ Sound(console, desk) /\ IsDesk(desk) /\ desk' = desk
  BY Zenon DEF ConsoleInv, ConsoleGood, Sound, ReadAnswer
<1>1. PICK s : LET e == [Over(j) EXCEPT
                             !.status = IF got = {} THEN "fallback" ELSE "connected",
                             !.view = [x \in Subjects |-> IF x \in got THEN s[x] ELSE @[x]],
                             !.log = IF "log" \in got THEN s.log ELSE @,
                             !.real = @ \cup (got \cap Subjects),
                             !.loose = @ \cup {"log"}]
               IN  console' = Told(e, got \cap DOMAIN desk, s)
  <2> DEFINE s == IF late THEN desk ELSE j.seen
  <2> WITNESS s
  <2> QED
    BY Zenon DEF ReadAnswer
<1>2. PICK c : c = Over(j)
  OBVIOUS
<1>3. PICK e : e = [c EXCEPT !.status = IF got = {} THEN "fallback" ELSE "connected",
                             !.view = [x \in Subjects |-> IF x \in got THEN s[x] ELSE @[x]],
                             !.log = IF "log" \in got THEN s.log ELSE @,
                             !.real = @ \cup (got \cap Subjects),
                             !.loose = @ \cup {"log"}]
  BY Zenon
<1>4. console' = Told(e, got \cap DOMAIN desk, s)
  BY <1>1, <1>2, <1>3, Zenon
<1>5. Sound(c, desk)
  BY <1>2, OverConsole
<1>6. DOMAIN e = DOMAIN c /\ e.view = [x \in Subjects |-> IF x \in got THEN s[x] ELSE c.view[x]]
        /\ e.log = (IF "log" \in got THEN s.log ELSE c.log) /\ e.jobs = c.jobs
        /\ e.told = c.told /\ e.loose = c.loose \cup {"log"}
  BY <1>5, <1>3 DEF Sound, IsConsole, ConsoleFields
<1>7. IsConsole(e)
  BY <1>5, <1>6 DEF Sound, IsConsole
<1>8. /\ \A x \in Subjects \cap (got \cap DOMAIN desk) : e.view[x] = s[x]
      /\ \A x \in (Subjects \cap e.told) \ (e.loose \cup (got \cap DOMAIN desk)) : e.view[x] = desk'[x]
      /\ "log" \in got \cap DOMAIN desk => e.log = s["log"]
      /\ "log" \in e.loose
  BY <1>0, <1>5, <1>6 DEF Sound, ViewsAgree, IsDesk
<1>9. ConsoleGood(console', desk')
  BY <1>0, <1>4, <1>7, <1>8, ToldConsole
<1> QED
  BY <1>9 DEF ConsoleInv

LEMMA DoneKeepsConsole ==
  ASSUME ConsoleInv, NEW j, DecideDone(j)
  PROVE  ConsoleInv'
<1>0. ConsoleGood(console, desk) /\ Sound(console, desk) /\ IsDesk(desk)
        /\ j \in console.jobs /\ j.kind = "decide" /\ desk' = Decided(desk, j.x, j.to)
  BY Zenon DEF ConsoleInv, ConsoleGood, Sound, DecideDone
<1>1. j.x \in Subjects
  BY <1>0 DEF Sound, IsConsole
<1>2. PICK c : c = Over(j)
  OBVIOUS
<1>3. PICK e : e = Shown(c, j.x, j.to)
  OBVIOUS
<1>4. PICK f : f = [e EXCEPT !.told = @ \cup {j.x}, !.loose = @ \ {j.x}]
  BY Zenon
<1>5. console' = AfterDecision(f, j.x, j.to)
  BY <1>2, <1>3, <1>4, Zenon DEF DecideDone
<1>6. Sound(c, desk)
  BY <1>2, OverConsole
<1>7. DOMAIN e = DOMAIN c /\ e.view = [c.view EXCEPT ![j.x] = j.to] /\ e.told = c.told /\ e.loose = c.loose
        /\ e.jobs = c.jobs
  BY <1>3, <1>6 DEF Shown, Sound, IsConsole, ConsoleFields
<1>8. DOMAIN f = DOMAIN e /\ f.view = e.view /\ f.told = e.told \cup {j.x} /\ f.loose = e.loose \ {j.x}
        /\ f.jobs = e.jobs
  BY <1>4, <1>6, <1>7 DEF Sound, IsConsole, ConsoleFields
<1>9. DOMAIN f.view = Subjects /\ f.view[j.x] = j.to /\ \A y \in Subjects \ {j.x} : f.view[y] = c.view[y]
  BY <1>1, <1>6, <1>7, <1>8 DEF Sound, IsConsole
<1>10. IsDesk(desk') /\ desk'[j.x] = j.to /\ \A y \in Subjects \ {j.x} : desk'[y] = desk[y]
  BY <1>0, <1>1, DecidedDesk
<1>11. Sound(f, desk')
  <2>1. IsConsole(f)
    BY <1>6, <1>7, <1>8, <1>9 DEF Sound, IsConsole
  <2>2. ViewsAgree(f, desk')
    BY <1>6, <1>7, <1>8, <1>9, <1>10 DEF Sound, ViewsAgree
  <2> QED
    BY <2>1, <2>2, <1>10 DEF Sound
<1>12. CASE j.x = "user"
  <2>1. PICK g : g = [f EXCEPT !.status = "idle"]
    OBVIOUS
  <2>2. PICK k : k = Doing("again", j.x, j.to, g)
    OBVIOUS
  <2>3. console' = Drawn(k)
    BY <1>5, <1>12, <2>1, <2>2, Zenon DEF AfterDecision
  <2>4. DOMAIN g = DOMAIN f /\ g.view = f.view /\ g.told = f.told /\ g.loose = f.loose /\ g.jobs = f.jobs
          /\ g.status = "idle"
    BY <1>11, <2>1 DEF Sound, IsConsole, ConsoleFields
  <2>5. Sound(g, desk')
    BY <1>11, <2>4 DEF Sound, IsConsole, ViewsAgree
  <2>6. Sound(k, desk') /\ k.status = "idle"
    BY <1>1, <2>2, <2>4, <2>5, DoingConsole
  <2> QED
    BY <2>3, <2>6, DrawnConsole DEF ConsoleInv
<1>13. CASE j.x # "user" /\ f.mode
  <2>1. PICK nobody : console' = Doing("audit", nobody, nobody, f)
    BY <1>5, <1>13, Zenon DEF AfterDecision
  <2> QED
    BY <1>11, <2>1, DoingConsole DEF ConsoleInv, ConsoleGood
<1>14. CASE j.x # "user" /\ ~f.mode
  <2>1. console' = [f EXCEPT !.loose = @ \cup {"log"}]
    BY <1>5, <1>14, Zenon DEF AfterDecision
  <2>2. DOMAIN console' = DOMAIN f /\ console'.view = f.view /\ console'.told = f.told
          /\ console'.loose = f.loose \cup {"log"} /\ console'.jobs = f.jobs
    BY <1>11, <2>1 DEF Sound, IsConsole, ConsoleFields
  <2> QED
    BY <1>11, <2>2 DEF ConsoleInv, ConsoleGood, Sound, IsConsole, ViewsAgree, LogKnown
<1> QED
  BY <1>12, <1>13, <1>14

LEMMA FailKeepsConsole ==
  ASSUME ConsoleInv, NEW j, NEW why, DecideFails(j, why)
  PROVE  ConsoleInv'
<1>0. ConsoleGood(console, desk) /\ Sound(console, desk) /\ IsDesk(desk)
        /\ j \in console.jobs /\ j.kind = "decide" /\ desk' \in {desk, Decided(desk, j.x, j.to)}
  BY Zenon DEF ConsoleInv, ConsoleGood, Sound, DecideFails
<1>1. j.x \in Subjects
  BY <1>0 DEF Sound, IsConsole
<1>2. PICK c : c = Over(j)
  OBVIOUS
<1>3. PICK e : e = IF desk' = desk THEN c ELSE [c EXCEPT !.loose = @ \cup {j.x, "log"}]
  BY Zenon
<1>4. console' \in {ConsoleClosed(e), ReadAll(e), e}
  BY <1>2, <1>3, Zenon DEF DecideFails
<1>5. Sound(c, desk) /\ LogKnown(c, desk)
  BY <1>0, <1>2, OverConsole
<1>6. Sound(e, desk') /\ LogKnown(e, desk')
  <2>1. CASE desk' = desk
    BY <1>3, <1>5, <2>1
  <2>2. CASE desk' # desk
    <3>1. DOMAIN e = DOMAIN c /\ e.view = c.view /\ e.told = c.told /\ e.jobs = c.jobs
            /\ e.loose = c.loose \cup {j.x, "log"}
      BY <1>3, <1>5, <2>2 DEF Sound, IsConsole, ConsoleFields
    <3>2. IsDesk(desk') /\ \A y \in Subjects \ {j.x} : desk'[y] = desk[y]
      BY <1>0, <1>1, <2>2, DecidedDesk
    <3>3. IsConsole(e) /\ ViewsAgree(e, desk') /\ LogKnown(e, desk')
      BY <1>5, <3>1, <3>2 DEF Sound, IsConsole, ViewsAgree, LogKnown
    <3> QED
      BY <3>2, <3>3 DEF Sound
  <2> QED
    BY <2>1, <2>2
<1>7. ConsoleGood(console', desk')
  BY <1>4, <1>6, ClosedConsole, ReadingConsole DEF ConsoleGood
<1> QED
  BY <1>7 DEF ConsoleInv

LEMMA SmallKeepsConsole ==
  ASSUME ConsoleInv, NEW j, NEW how, SmallAnswer(j, how)
  PROVE  ConsoleInv'
<1>0. ConsoleGood(console, desk) /\ Sound(console, desk) /\ IsDesk(desk) /\ desk' = desk
        /\ j.kind \in {"audit", "visit", "again"}
  BY Zenon DEF ConsoleInv, ConsoleGood, Sound, SmallAnswer
<1>1. PICK c : c = Over(j)
  OBVIOUS
<1>2. Sound(c, desk) /\ (j.kind # "audit" => LogKnown(c, desk))
  BY <1>0, <1>1, OverConsole
<1>3. ASSUME NEW e, ConsoleGood(e, desk), console' \in {ConsoleClosed(e), Drawn(e)} PROVE ConsoleInv'
  BY <1>0, <1>3, ClosedConsole, DrawnConsole DEF ConsoleGood, ConsoleInv
<1>4. CASE how # "ok"
  <2>1. PICK e : e = [c EXCEPT !.loose = @ \cup {"log"}]
    OBVIOUS
  <2>2. console' \in {ConsoleClosed(e), Drawn(e)}
    BY <1>1, <1>4, <2>1, Zenon DEF SmallAnswer
  <2>3. DOMAIN e = DOMAIN c /\ e.view = c.view /\ e.told = c.told /\ e.jobs = c.jobs
          /\ e.loose = c.loose \cup {"log"}
    BY <1>2, <2>1 DEF Sound, IsConsole, ConsoleFields
  <2>4. ConsoleGood(e, desk)
    BY <1>2, <2>3 DEF ConsoleGood, Sound, IsConsole, ViewsAgree, LogKnown
  <2> QED
    BY <1>3, <2>2, <2>4
<1>5. CASE how = "ok" /\ j.kind = "audit"
  <2>1. PICK f : f = [c EXCEPT !.log = desk.log]
    OBVIOUS
  <2>2. PICK e : e = Told(f, {"log"}, desk)
    OBVIOUS
  <2>3. console' \in {ConsoleClosed(e), Drawn(e)}
    BY <1>1, <1>5, <2>1, <2>2, Zenon DEF SmallAnswer
  <2>4. DOMAIN f = DOMAIN c /\ f.view = c.view /\ f.told = c.told /\ f.jobs = c.jobs
          /\ f.loose = c.loose /\ f.log = desk.log
    BY <1>2, <2>1 DEF Sound, IsConsole, ConsoleFields
  <2>5. IsConsole(f) /\ Subjects \cap {"log"} = {}
    BY <1>2, <2>4 DEF Sound, IsConsole, Subjects
  <2>6. \A x \in (Subjects \cap f.told) \ (f.loose \cup {"log"}) : f.view[x] = desk'[x]
    BY <1>0, <1>2, <2>4 DEF Sound, ViewsAgree
  <2>7. ConsoleGood(e, desk)
    BY <1>0, <2>2, <2>4, <2>5, <2>6, ToldConsole
  <2> QED
    BY <1>3, <2>3, <2>7
<1>6. ASSUME NEW to, NEW s, NEW e, s.user = to, LogKnown(c, desk),
             \E f : /\ f \in {Shown(c, "user", to), [Shown(c, "user", to) EXCEPT !.real = @ \cup {"user"}]}
                    /\ e = Told(f, {"user"}, s)
      PROVE  ConsoleGood(e, desk)
  <2>1. PICK g, f : g = Shown(c, "user", to) /\ f \in {g, [g EXCEPT !.real = @ \cup {"user"}]}
                      /\ e = Told(f, {"user"}, s)
    BY <1>6
  <2>2. DOMAIN g = DOMAIN c /\ g.view = [c.view EXCEPT !["user"] = to] /\ g.told = c.told /\ g.jobs = c.jobs
          /\ g.loose = c.loose /\ g.log = c.log /\ g.status = c.status /\ g.mode = c.mode
    BY <1>2, <2>1 DEF Shown, Sound, IsConsole, ConsoleFields
  <2>3. DOMAIN f = DOMAIN c /\ f.view = [c.view EXCEPT !["user"] = to] /\ f.told = c.told /\ f.jobs = c.jobs
          /\ f.loose = c.loose /\ f.log = c.log /\ f.status = c.status /\ f.mode = c.mode
    BY <1>2, <2>1, <2>2 DEF Sound, IsConsole, ConsoleFields
  <2>4. DOMAIN f.view = Subjects /\ f.view["user"] = to /\ \A x \in Subjects \ {"user"} : f.view[x] = c.view[x]
    BY <1>2, <2>3 DEF Sound, IsConsole, Subjects
  <2>5. IsConsole(f) /\ LogKnown(f, desk')
    BY <1>0, <1>2, <1>6, <2>3, <2>4 DEF Sound, IsConsole, LogKnown, BeingRead
  <2>6. \A x \in (Subjects \cap f.told) \ (f.loose \cup {"user"}) : f.view[x] = desk'[x]
    BY <1>0, <1>2, <2>3, <2>4 DEF Sound, ViewsAgree
  <2>7. \A x \in Subjects \cap {"user"} : f.view[x] = s[x]
    BY <1>6, <2>4
  <2> QED
    BY <1>0, <2>1, <2>5, <2>6, <2>7, ToldConsole
<1>7. CASE how = "ok" /\ j.kind = "visit"
  <2>1. PICK f : f = [Shown(c, "user", desk.user) EXCEPT !.real = @ \cup {"user"}]
    OBVIOUS
  <2>2. PICK e : e = Told(f, {"user"}, desk)
    OBVIOUS
  <2>3. console' \in {ConsoleClosed(e), Drawn(e)}
    BY <1>1, <1>7, <2>1, <2>2, Zenon DEF SmallAnswer
  <2>4. ConsoleGood(e, desk)
    BY <1>2, <1>6, <1>7, <2>1, <2>2
  <2> QED
    BY <1>3, <2>3, <2>4
<1>8. CASE how = "ok" /\ j.kind = "again"
  <2>1. PICK f : f = Shown(c, "user", j.to)
    OBVIOUS
  <2>2. PICK s : s = [desk EXCEPT !.user = j.to]
    OBVIOUS
  <2>3. PICK e : e = Told(f, {"user"}, s)
    OBVIOUS
  <2>4. console' \in {ConsoleClosed(e), Drawn(e)}
    BY <1>1, <1>8, <2>1, <2>2, <2>3, Zenon DEF SmallAnswer
  <2>5. s.user = j.to
    BY <1>0, <2>2 DEF IsDesk, Subjects
  <2>6. ConsoleGood(e, desk)
    BY <1>2, <1>6, <1>8, <2>1, <2>3, <2>5
  <2> QED
    BY <1>3, <2>4, <2>6
<1> QED
  BY <1>0, <1>4, <1>5, <1>7, <1>8

(* What every step does to the console.                                    *)
ConsoleStep ==
  \/ UNCHANGED adminVars
  \/ AdminSignOut \/ AdminUnload \/ \E a : AdminSignIn(a)
  \/ ToggleAdminView \/ AdminPage
  \/ \E x \in Subjects : \E to : Elsewhere(x, to)
  \/ \E got \in Heard : \E j, late : ReadAnswer(j, got, late)
  \/ \E j : DecideDone(j) \/ \E why : DecideFails(j, why) \/ SmallAnswer(j, why)

LEMMA StepsKeepConsole == ConsoleInv /\ ConsoleStep => ConsoleInv'
<1>1. ConsoleInv /\ UNCHANGED adminVars => ConsoleInv'
  BY DEF ConsoleInv, adminVars
<1> QED
  BY <1>1, SessionKeepsConsole, EventsKeepConsole, ElsewhereKeepsConsole, ReadKeepsConsole, DoneKeepsConsole,
     FailKeepsConsole, SmallKeepsConsole DEF ConsoleStep

LEMMA AnswersMoveConsole ==
  ASSUME BillingAnswers \/ MakeAnswers \/ ListAnswers \/ AdminAnswers \/ TalkAnswers
  PROVE  ConsoleStep
<1>1. ListsStay \/ ListsFollow \/ AdminFollows \/ AdminAlone => UNCHANGED adminVars \/ AdminSignOut \/ AdminAlone
  BY DEF ListsStay, ListsFollow, AdminFollows
<1>2. CASE BillingAnswers
  BY <1>2 DEF BillingAnswers, BillingAlone, ListsStay, ListsFollow, ConsoleStep
<1>3. CASE MakeAnswers
  BY <1>3 DEF MakeAnswers, ChatAlone, ListsAndBillingStay, ListsStay, ListsFollow, ConsoleStep
<1>4. CASE ListAnswers
  BY <1>4 DEF ListAnswers, HomeAlone, LibraryAlone, AdminFollows, ConsoleStep
<1>5. CASE AdminAnswers
  BY <1>5 DEF AdminAnswers, ConsoleStep
<1>6. CASE TalkAnswers
  BY <1>6 DEF TalkAnswers, TalkAlone, ConsoleStep
<1> QED
  BY <1>2, <1>3, <1>4, <1>5, <1>6

LEMMA NextMovesConsole == [Next]_vars => ConsoleStep
<1>1. CASE UNCHANGED vars
  BY <1>1 DEF vars, ConsoleStep
<1>2. ASSUME NEW a, Login(a) PROVE ConsoleStep
  BY <1>2 DEF Login, ConsoleStep
<1>3. CASE Logout \/ LoadAgain
  BY <1>3 DEF Logout, LoadAgain, ConsoleStep
<1>4. CASE MakeEvents
  BY <1>4 DEF MakeEvents, SidePanel, ChatAlone, FoldersAlone, ListsAndBillingStay, ListsStay, ConsoleStep
<1>5. CASE BillingEvents
  BY <1>5 DEF BillingEvents, BillingAlone, ListsStay, ConsoleStep
<1>6. CASE HomeEvents
  BY <1>6 DEF HomeEvents, AtHomeAlone, HomeAlone, ConsoleStep
<1>7. CASE AdminEvents
  BY <1>7 DEF AdminEvents, ConsoleStep
<1>8. CASE TalkEvents
  BY <1>8 DEF TalkEvents, TalkAlone, ConsoleStep
<1>9. CASE LibraryEvents
  BY <1>9 DEF LibraryEvents, VisitLibrary, LibraryAlone, ConsoleStep
<1> QED
  BY <1>1, <1>2, <1>3, <1>4, <1>5, <1>6, <1>7, <1>8, <1>9, AnswersMoveConsole DEF Next

LEMMA InitConsole == Init => ConsoleInv
<1> SUFFICES ASSUME Init PROVE ConsoleInv
  OBVIOUS
<1>1. IsDesk(desk)
  <2>1. desk = [f \in Subjects \cup {"log"} |-> IF f = "log" THEN 0 ELSE Undecided[f]]
    BY Zenon DEF Init, AdminInit
  <2> QED
    BY <2>1 DEF IsDesk
<1>2. PICK j : /\ j.kind = "read"
               /\ \/ console = [NobodysConsole EXCEPT !.mode = TRUE, !.status = "checking", !.jobs = {j}]
                  \/ console = NobodysConsole
  <2> DEFINE j == [n |-> 1, kind |-> "read", x |-> "", to |-> "", was |-> "", seen |-> desk]
  <2>1. j.kind = "read"
    BY Zenon
  <2>2. \/ console = [NobodysConsole EXCEPT !.mode = TRUE, !.status = "checking", !.jobs = {j}]
        \/ console = NobodysConsole
    BY Zenon DEF Init, AdminInit
  <2> QED
    BY <2>1, <2>2, Zenon
<1>3. DOMAIN console = ConsoleFields /\ console.view = Undecided /\ console.told = {} /\ console.jobs \in {{}, {j}}
  <2>1. DOMAIN NobodysConsole = ConsoleFields /\ NobodysConsole.view = Undecided /\ NobodysConsole.told = {}
          /\ NobodysConsole.jobs = {}
    BY DEF NobodysConsole, ConsoleFields
  <2> QED
    BY <1>2, <2>1 DEF ConsoleFields
<1>4. DOMAIN Undecided = Subjects
  BY DEF Undecided, Subjects
<1> QED
  BY <1>1, <1>2, <1>3, <1>4 DEF ConsoleInv, ConsoleGood, Sound, IsConsole, ViewsAgree, LogKnown

(* Once nothing is under way the console shows what is decided, and the     *)
(* audit log to its end, however decisions, readings, refusals and the      *)
(* decisions of others overlapped; but for what changed unseen.             *)
THEOREM ConsoleIsTrue == Spec => []AdminAgrees
<1>1. ConsoleInv /\ [Next]_vars => ConsoleInv'
  BY NextMovesConsole, StepsKeepConsole
<1>2. ConsoleInv => AdminAgrees
  BY DEF ConsoleInv, ConsoleGood, Sound, ViewsAgree, LogKnown, BeingRead, AdminAgrees
<1> QED
  BY <1>1, <1>2, InitConsole, PTL DEF Spec
=============================================================================
