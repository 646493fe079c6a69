----------------------------- MODULE WebLibrary -----------------------------
(***************************************************************************)
(* Saving, liking, sharing and deleting prompts, and my page, where they   *)
(* are listed (prompt-engagement-controller.mjs, prompt-workflows.mjs,     *)
(* state-prompt.mjs, saved-library-controller.mjs, the my page effects of  *)
(* backend-effects.mjs).  Most handlers tell the server first and the      *)
(* screen after; a few do it the other way round.  My page is read again   *)
(* after every change, by up to five reads that are applied together.      *)
(***************************************************************************)
EXTENDS WebHome, Lists, SequencesExt

CONSTANTS
  Prompts,    \* numbered prompts of the server
  Author      \* who wrote each of them

Guest == "guest"
ASSUME LibraryAssumption == Guest \notin Accounts \cup Staff /\ Author \in [Prompts -> Accounts]

VARIABLES
  library,    \* the prompts this page keeps, and its calls
  shelf       \* the server: what each account saved and liked, what there is

libraryVars == <<library, shelf>>

Keeper == IF LoggedIn THEN Owner(token) ELSE Guest   \* the account scope

(* What GET /api/me/library answers: saved, liked or written by a. *)
Shelved(s, a) == {p \in s.alive : p \in s.saved[a] \cup s.liked[a] \/ Author[p] = a}

EmptyLists == [listed |-> {}, likedToo |-> {}, written |-> {}]   \* backend… lists

Unread ==
  [status |-> "idle", tab |-> "library", lists |-> EmptyLists,
   rows |-> <<>>,            \* savedPrompts
   liked |-> [k \in Accounts \cup Staff \cup {Guest} |-> {}],
   pending |-> {},           \* pendingUnsaveIds
   works |-> {}, pulls |-> {}, retry |-> 0,
   synced |-> FALSE,         \* history: my page was read
   loose |-> FALSE]          \* history: something overlapped or was lost

Likes(l) == l.liked[Keeper]
RowOf(l, p) == SelectInSeq(l.rows, LAMBDA r : r.id = p)
IsSaved(l, p) == LoggedIn /\ RowOf(l, p) # 0 /\ l.rows[RowOf(l, p)].saved /\ p \notin l.pending
LocalPrompts(l) == {l.rows[i].id : i \in {j \in DOMAIN l.rows :
               l.rows[j].saved \/ l.rows[j].id \in l.pending \cup Likes(l)}}
InLibrary(l) ==
  IF l.status = "connected" THEN l.lists.listed \cup l.lists.likedToo \cup LocalPrompts(l)
  ELSE LocalPrompts(l)
InMine(l) ==
  {l.rows[i].id : i \in {j \in DOMAIN l.rows : l.rows[j].mine}}
    \cup (IF l.status = "connected" THEN l.lists.written ELSE {})
OnScreen(p) ==
  IF home.route = "home" THEN p \in shelf.alive \cap shelf.shared
  ELSE /\ library.status # "fallback"
       /\ p \in IF library.tab = "library" THEN InLibrary(library) ELSE InMine(library)

FreeIn(S) == CHOOSE n \in 1..Cardinality(S) + 1 : \A s \in S : s.n # n

----------------------------------------------------------------------------
(* Reading my page. *)

(* hydrateBackendMyPageData: five reads under one timeout. *)
Pull(n, tok, s) == [n |-> n, token |-> tok, seen |-> s]
Pulling(l, tok) ==
  [l EXCEPT !.status = "checking", !.pulls = @ \cup {Pull(FreeIn(l.pulls), tok, shelf')}]

(* Every render of my page reads it when nothing has been read yet. *)
Rendered(l, h, tok) ==
  IF h.route = "saved" /\ tok # 0 /\ l.status = "idle" THEN Pulling(l, tok) ELSE l

(* refreshMyPageDataAfterMutation *)
RefreshedPage(l, h, tok) ==
  IF tok = 0 \/ l.status # "connected" THEN l ELSE Rendered([l EXCEPT !.status = "idle"], h, tok)

(* upsertPrompt, for every prompt of an answer. *)
Upserted(rows, S, s, a) ==
  LET row(p) == [id |-> p, mine |-> Author[p] = a, saved |-> p \in s.saved[a], shared |-> p \in s.shared]
      known == {rows[i].id : i \in DOMAIN rows}
      first(i) == ~\E j \in 1..i-1 : rows[j].id = rows[i].id
  IN  [n \in 1..Cardinality(S \ known) |-> row(SetToSeq(S \ known)[n])]
        \o [i \in DOMAIN rows |-> IF rows[i].id \in S /\ first(i) THEN row(rows[i].id) ELSE rows[i]]

(* The page is loaded on the home screen or on my page; what was read      *)
(* before is kept by storage.  A run that leaves my page alone finds it    *)
(* unread.                                                                 *)
LibraryInit ==
  \E kept \in IF left["library"] = 0 THEN {{}} ELSE {{}, Prompts} :
    /\ shelf = [saved |-> [a \in Accounts |-> kept], liked |-> [a \in Accounts |-> {}],
                alive |-> Prompts, shared |-> Prompts]
    /\ LET known == [Unread EXCEPT !.rows = Upserted(<<>>, Shelved(shelf, Keeper), shelf, Keeper),
                                   !.synced = TRUE]
       IN  \E l \in IF left["library"] # 0 /\ LoggedIn THEN {Unread, known} ELSE {Unread} :
             library = IF home.route = "saved" /\ LoggedIn
                       THEN [l EXCEPT !.status = "checking", !.pulls = {Pull(1, token, shelf)}]
                       ELSE l

Reads == {"library", "liked", "rest"}     \* the rest: written, comments, reports

(* What the reads in got put in place of what was there; s is what the     *)
(* server had when they were served.  Rows are never taken away.           *)
Pulled(l, got, s, a) ==
  LET part(read, S) == IF read \in got THEN S ELSE {}
      listed == Shelved(s, a)
      likes == s.liked[a] \cap s.alive
      wrote == {p \in s.alive : Author[p] = a}
      all == part("library", listed) \cup part("liked", likes) \cup part("rest", wrote)
  IN  [l EXCEPT !.rows = Upserted(@, all, s, a),
                !.works = {[w EXCEPT !.live = @ /\ w.id \notin all] : w \in @},
                !.lists = [listed |-> IF "library" \in got THEN listed ELSE @.listed,
                           likedToo |-> IF "liked" \in got THEN likes ELSE @.likedToo,
                           written |-> IF "rest" \in got THEN wrote ELSE @.written],
                !.liked[Keeper] = @ \cup part("liked", likes),
                !.status = IF got = {} THEN "fallback" ELSE "connected",
                !.synced = @ \/ {"library", "liked"} \subseteq got]

SignedOut(l) == [l EXCEPT !.status = "idle", !.lists = EmptyLists]

PullAnswer(p, got, late, auth) ==
  /\ p \in library.pulls /\ (auth => got = {})
  /\ LET gone == [library EXCEPT !.pulls = @ \ {p}, !.retry = IF @ = p.n THEN 0 ELSE @]
         crossed == p.token # token \/ (library.works # {} /\ got # {})
         l == Pulled(gone, got, IF late THEN shelf ELSE p.seen, Owner(p.token))
     IN  CASE auth /\ LoggedIn  -> SignOut /\ library' = SignedOut(gone) /\ home' = AwayFrom(home)
           [] auth /\ ~LoggedIn -> SessionStays /\ library' = gone /\ UNCHANGED home
           [] OTHER             -> /\ SessionStays /\ UNCHANGED home
                                   /\ library' = [l EXCEPT !.loose = @ \/ crossed]
  /\ UNCHANGED <<shelf, loads, left>>

RetryLibrary ==
  /\ Gesture("library") /\ LoggedIn /\ home.route = "saved" /\ library.status = "fallback"
  /\ UNCHANGED <<shelf, homeVars>> /\ SessionStays
  /\ library' = IF library.retry # 0 THEN library
                ELSE [Pulling(library, token) EXCEPT !.retry = FreeIn(library.pulls)]

----------------------------------------------------------------------------
(* What a change does to the screen. *)

SetRow(l, w, field, value) ==
  IF ~w.live \/ RowOf(l, w.id) = 0 THEN l ELSE [l EXCEPT !.rows[RowOf(l, w.id)][field] = value]
NewRow(l, p, saved, shared) ==
  [l EXCEPT !.rows = <<[id |-> p, mine |-> Author[p] = Keeper, saved |-> saved, shared |-> shared]>> \o @]
RowGone(l, i) == IF i \in DOMAIN l.rows THEN [l EXCEPT !.rows = RemoveAt(@, i)] ELSE l
ListedToo(l, p) == IF l.status = "connected" THEN [l EXCEPT !.lists.listed = @ \cup {p}] ELSE l
UnlistedToo(l, p) == [l EXCEPT !.lists.listed = @ \ {p}]
Settled(l, p) == [l EXCEPT !.pending = @ \ {p}]

WorkApplied(l, w) ==
  CASE w.how = "existing" -> Settled(ListedToo(SetRow(l, w, "saved", TRUE), w.id), w.id)
    [] w.how = "new"      -> ListedToo(NewRow(l, w.id, TRUE, w.id \in shelf.shared), w.id)
    [] w.how = "backend"  -> Settled(UnlistedToo(SetRow(l, w, "saved", FALSE), w.id), w.id)
    [] w.how = "row"      -> UnlistedToo(IF w.mine THEN SetRow(l, w, "saved", FALSE)
                                      ELSE RowGone(l, w.index), w.id)
    [] w.how = "like"     -> [l EXCEPT !.liked[Keeper] = @ \cup {w.id},
                                       !.lists.likedToo = IF l.status = "connected" THEN @ \cup {w.id} ELSE @]
    [] w.how = "unlike"   -> [l EXCEPT !.liked[Keeper] = @ \ {w.id}, !.lists.likedToo = @ \ {w.id}]
    [] w.how = "publish"  -> SetRow(l, w, "shared", TRUE)
    [] OTHER              -> l

Toggles == {"existing", "new", "backend", "row", "like", "unlike"}

Work(how, p) ==
  [n |-> FreeIn(library.works), how |-> how, id |-> p, token |-> token, live |-> TRUE,
   index |-> RowOf(library, p),
   mine |-> RowOf(library, p) # 0 /\ library.rows[RowOf(library, p)].mine]
Sent(l, w) == [l EXCEPT !.works = @ \cup {w}]

(* runPromptStateMutation: with the server out of reach the screen goes    *)
(* ahead alone.                                                            *)
Tell(how, p) ==
  LET w == Work(how, p)
  IN  IF home.status = "connected" THEN library' = Sent(library, w)
      ELSE library' = [RefreshedPage(WorkApplied(library, w), home, token) EXCEPT !.loose = TRUE]

Hands == Gesture("library") /\ LoggedIn /\ SessionStays /\ UNCHANGED shelf

(* toggleSavedPrompt *)
TogglePending(p) ==
  library' = [library EXCEPT !.pending = IF p \in @ THEN @ \ {p} ELSE @ \cup {p}]

ToggleSaved(p) ==
  /\ Hands /\ OnScreen(p) /\ UNCHANGED homeVars
  /\ LET i == RowOf(library, p)
         off == i # 0 /\ library.rows[i].saved
     IN  \/ i # 0 /\ ~off /\ Tell("existing", p)
         \/ off /\ home.route = "saved" /\ library.status = "connected" /\ Tell("backend", p)
         \/ off /\ home.route = "saved" /\ library.status # "connected" /\ TogglePending(p)
         \/ off /\ home.route = "home" /\ Tell("row", p)
         \/ i = 0 /\ p \in library.pending /\ TogglePending(p)
         \/ i = 0 /\ p \notin library.pending /\ Tell("new", p)

ToggleLiked(p) ==
  /\ Hands /\ OnScreen(p) /\ UNCHANGED homeVars
  /\ Tell(IF p \in Likes(library) THEN "unlike" ELSE "like", p)

(* publishSavedPrompt *)
Publish(p) ==
  /\ Hands /\ home.route = "saved" /\ RowOf(library, p) # 0
  /\ LET r == library.rows[RowOf(library, p)] IN r.mine /\ ~r.shared
  /\ library' = Sent(library, Work("publish", p)) /\ UNCHANGED homeVars

(* The screen first, the server after. *)
Unshare(p) ==
  /\ Hands /\ OnScreen(p) /\ Author[p] = Owner(token) /\ p \in shelf.shared
  /\ LET w == Work("unshare", p)
     IN  library' = Sent(IF w.index = 0 THEN NewRow(library, p, FALSE, FALSE)
                         ELSE [library EXCEPT !.rows[w.index] = [@ EXCEPT !.shared = FALSE, !.mine = TRUE]], w)
  /\ home' = Armed([home EXCEPT !.page = 1, !.moved = @ \/ home.page # 1]) /\ UNCHANGED loads

DeletePrompt(p) ==
  /\ Hands /\ OnScreen(p) /\ Author[p] = Owner(token)
  /\ LET w == Work("delete", p)
         l == RowGone(UnlistedToo(library, p), w.index)
     IN  library' = Sent([l EXCEPT !.lists.likedToo = @ \ {p}], w)
  /\ UNCHANGED homeVars

----------------------------------------------------------------------------
(* Going to my page and away from it. *)

(* commitPendingUnsaves: what was put off is done now, to the first row of  *)
(* each prompt in S.                                                       *)
Unkept(rows, S) ==
  LET off(i) == rows[i].id \in S /\ ~\E j \in 1..i-1 : rows[j].id = rows[i].id
      rest == Keep([i \in DOMAIN rows |-> i], {i \in DOMAIN rows : rows[i].mine \/ ~off(i)})
  IN  [n \in DOMAIN rest |->
         IF off(rest[n]) THEN [rows[rest[n]] EXCEPT !.saved = FALSE] ELSE rows[rest[n]]]

(* Faulty: taken off the screen, never off the server. *)
Hidden(l) == [l EXCEPT !.rows = Unkept(@, l.pending), !.pending = {}]

Committed(l) ==
  LET next == [l EXCEPT !.rows = Unkept(@, l.pending), !.pending = {}]
      seq == SetToSeq(l.pending)
      calls == {[Work("commit", seq[i]) EXCEPT !.n = 10 + i] : i \in DOMAIN seq}
  IN  IF l.pending = {} THEN l
      ELSE IF LoggedIn THEN [next EXCEPT !.works = @ \cup calls]
      ELSE [next EXCEPT !.loose = TRUE]

Visit ==
  /\ Gesture("library") /\ home.route = "home" /\ SessionStays
  /\ home' = [home EXCEPT !.route = "saved"] /\ UNCHANGED <<shelf, loads>>
  /\ library' = Rendered(library, home', token)

Leave ==
  /\ Gesture("library") /\ home.route = "saved" /\ SessionStays
  /\ library' = Committed(library)
  /\ ResetHome([home EXCEPT !.route = "home"]) /\ UNCHANGED shelf

(* A tag or an author of a card of my page: to the home list, uncommitted. *)
SearchFromLibrary(f) ==
  /\ Gesture("library") /\ home.route = "saved" /\ SessionStays
  /\ Refetch([home EXCEPT !.find = f, !.page = 1, !.route = "home"])
  /\ UNCHANGED libraryVars

ChangeTab(t) ==
  /\ Gesture("library") /\ home.route = "saved" /\ SessionStays
  /\ library' = [IF library.tab = "library" /\ t = "library" THEN library ELSE Committed(library)
                    EXCEPT !.tab = t]
  /\ UNCHANGED <<shelf, homeVars>>

----------------------------------------------------------------------------
(* The answers. *)

Served(s, w) ==
  LET a == Owner(w.token)
  IN  CASE w.how \in {"existing", "new"}          -> [s EXCEPT !.saved[a] = @ \cup {w.id}]
        [] w.how \in {"backend", "row", "commit"} -> [s EXCEPT !.saved[a] = @ \ {w.id}]
        [] w.how = "like"    -> [s EXCEPT !.liked[a] = @ \cup {w.id}]
        [] w.how = "unlike"  -> [s EXCEPT !.liked[a] = @ \ {w.id}]
        [] w.how = "publish" -> [s EXCEPT !.shared = @ \cup {w.id}]
        [] w.how = "unshare" -> [s EXCEPT !.shared = @ \ {w.id}]
        [] OTHER             -> [s EXCEPT !.alive = @ \ {w.id}]

(* Changes that get in each other's way. *)
Crossing(w, v) == w.id = v.id \/ "row" \in {w.how, v.how}

WorkDone(w) ==
  /\ w \in library.works /\ w.id \in shelf.alive
  /\ shelf' = Served(shelf, w)
  /\ LET gone == [library EXCEPT !.works = @ \ {w}]
         l == WorkApplied(gone, w)
         crossed == library.pulls # {} \/ w.token # token \/ \E v \in gone.works : Crossing(w, v)
         after == IF w.how \in Toggles \cup {"commit"} THEN RefreshedPage(l, home, token) ELSE l
     IN  library' = Rendered([after EXCEPT !.loose = @ \/ crossed], home, token)
  /\ home' = IF w.how = "publish"
             THEN Armed([home EXCEPT !.sort = "latest", !.page = 1,
                                     !.moved = @ \/ <<home.sort, home.page>> # <<"latest", 1>>])
             ELSE home
  /\ UNCHANGED <<loads, left>> /\ SessionStays

(* The server may have done it all the same. *)
WorkFails(w, why) ==
  /\ w \in library.works
  /\ shelf' = IF why = "lost" /\ w.id \in shelf.alive THEN Served(shelf, w) ELSE shelf
  /\ LET out == why = "auth" /\ LoggedIn
         ahead == w.how \in {"commit", "unshare", "delete"}     \* the screen went first
         gone == [library EXCEPT !.works = @ \ {w},
                                 !.loose = @ \/ why = "lost" \/ ahead \/ w.token # token]
         tok == IF out THEN 0 ELSE token
         l == IF out THEN SignedOut(gone) ELSE gone
         h == IF out THEN AwayFrom(home) ELSE home
     IN  /\ IF out THEN SignOut ELSE SessionStays
         /\ library' = Rendered(IF w.how \in Toggles \cup {"commit"} THEN RefreshedPage(l, h, tok) ELSE l, h, tok)
         /\ IF w.how \in Toggles THEN Refetch(h) ELSE home' = h /\ UNCHANGED loads
  /\ UNCHANGED left

----------------------------------------------------------------------------
(* What the session does to this screen. *)

LibrarySignIn(a) ==
  /\ UNCHANGED <<shelf, loads>>
  /\ home' = IF a \in Staff THEN AwayFrom(home) ELSE home
  /\ library' = Rendered([library EXCEPT !.status = "idle",
                                         !.loose = @ \/ \E t \in Tokens : Owner(t) # a],
                         home', token')

LibrarySignOut ==
  library' = SignedOut(library) /\ home' = AwayFrom(home) /\ UNCHANGED <<shelf, loads>>

(* persistAppState: every row put off counts as done.                      *)
Stored(l) ==
  LET rest == Keep(l.rows, {i \in DOMAIN l.rows : l.rows[i].id \notin l.pending \/ l.rows[i].mine})
  IN  [i \in DOMAIN rest |->
         IF rest[i].id \in l.pending THEN [rest[i] EXCEPT !.saved = FALSE] ELSE rest[i]]

(* Storage keeps the rows, without what was put off; calls are forgotten.  *)
LibraryUnload ==
  /\ UNCHANGED shelf
  /\ LET l == [SignedOut(library) EXCEPT !.rows = Stored(library), !.pending = {}, !.tab = "library",
                                         !.works = {}, !.pulls = {}, !.retry = 0,
                                         !.synced = @ /\ library.pending = {},
                                         !.loose = @ \/ library.works # {}]
     IN  library' = Rendered(l, home', token')
=============================================================================
