------------------------------- MODULE WebAdmin -------------------------------
(***************************************************************************)
(* The console of an administrator on the web page: decisions about tags,  *)
(* reports, prompts, authors and members (admin-controller.mjs and the     *)
(* controllers it is made of, admin-effects.mjs, state-admin.mjs).  One    *)
(* subject of each kind stands for its table.  A decision is sent first    *)
(* and shown after; the console is read as a whole, by reads that are      *)
(* applied together, and other administrators are at work too.             *)
(***************************************************************************)
EXTENDS WebLibrary

VARIABLES
  console,   \* what the administrator sees, and the calls under way
  desk       \* the server: what is decided, and the length of the audit log

adminVars == <<console, desk>>

Subjects == {"tag", "report", "prompt", "revision", "user"}

Undecided ==
  [tag |-> "pending", report |-> "pending", prompt |-> "shown", revision |-> "none", user |-> "active"]

(* What may follow what, on the buttons as on the server.                  *)
TagMoves == {<<"pending", "approved">>, <<"pending", "rejected">>,
             <<"approved", "disabled">>, <<"disabled", "approved">>}
ReportMoves == {<<"pending", "reviewed">>, <<"pending", "dismissed">>, <<"reviewed", "dismissed">>}
Reworded == {<<"asked", "asked again">>, <<"asked again", "asked">>}
AuthorMoves == {<<"asked", "seen">>, <<"asked again", "seen">>, <<"seen", "done">>}
Hiding == {<<"shown", "hidden">>, <<"hidden", "shown">>}
Blocking == {<<"active", "blocked">>, <<"blocked", "active">>}

MayBecome(x) ==
  CASE x = "tag"      -> TagMoves
    [] x = "report"   -> ReportMoves
    [] x = "prompt"   -> Hiding
    [] x = "revision" -> Reworded \cup {<<"none", "asked">>}
    [] x = "user"     -> Blocking

Verdicts == {"approved", "rejected", "disabled", "reviewed", "dismissed", "shown", "hidden",
             "asked", "asked again", "seen", "done", "active", "blocked"}

(* What the server makes of a request for next, sent over the view was.    *)
Accepts(d, x, was, next) ==
  CASE x \in {"tag", "report"} -> <<d[x], next>> \in MayBecome(x)
    [] x = "revision" -> IF was = "none" THEN d.revision \in {"none", "done"} /\ d.prompt = "shown"
                         ELSE d.revision \in {"asked", "asked again"}
    [] OTHER -> TRUE
(* Every decision is entered in the audit log, save one: letting in a      *)
(* member who is not blocked.                                              *)
Decided(d, x, next) ==
  [d EXCEPT ![x] = next, !.log = IF x = "user" /\ next = "active" /\ d.user = next THEN @ ELSE @ + 1]

NobodysConsole ==
  [mode |-> FALSE, status |-> "idle", view |-> Undecided, log |-> 0,
   real |-> {},     \* subjects shown with the server's id
   told |-> {},     \* history: subjects whose view came from the server
   loose |-> {},    \* history: what changed unseen, or in an unknown way, since
   jobs |-> {}]

Doing(kind, x, to, c) ==
  [c EXCEPT !.jobs = @ \cup {[n |-> FreeIn(c.jobs), kind |-> kind, x |-> x, to |-> to, seen |-> desk',
                              was |-> IF x = "" THEN "" ELSE c.view[x]]}]

(* hydrateBackendAdminData: by every render while nothing was read yet, or *)
(* forced.                                                                 *)
ReadAll(c) == [Doing("read", "", "", c) EXCEPT !.status = "checking"]
Drawn(c) == IF c.mode /\ c.status = "idle" THEN ReadAll(c) ELSE c

AdminInit ==
  /\ desk = [f \in Subjects \cup {"log"} |-> IF f = "log" THEN 0 ELSE Undecided[f]]
  /\ console = IF Staffed
               THEN [NobodysConsole EXCEPT
                       !.mode = TRUE, !.status = "checking",
                       !.jobs = {[n |-> 1, kind |-> "read", x |-> "", to |-> "", was |-> "", seen |-> desk]}]
               ELSE NobodysConsole

----------------------------------------------------------------------------
(* What the administrator does. *)

Console == Gesture("admin") /\ console.mode /\ SessionStays

(* The read-only look at the home screen, and back. *)
ToggleAdminView ==
  /\ Gesture("admin") /\ Staffed /\ SessionStays /\ UNCHANGED desk
  /\ console' = Drawn([console EXCEPT !.mode = ~@])

(* Without the server's id, or away from the server, a decision is made    *)
(* here only.                                                              *)
Shown(c, x, to) == [c EXCEPT !.view[x] = to]
Decide(x, to) ==
  /\ Console /\ UNCHANGED desk
  /\ <<console.view[x], to>> \in MayBecome(x)
  /\ x = "user" => x \in console.real
  /\ LET here == (x \in {"tag", "report"} /\ x \notin console.real)
                   \/ (x = "revision" /\ home.status # "connected")
     IN  console' = IF here THEN [Shown(console, x, to) EXCEPT !.loose = @ \cup {x}]
                    ELSE Doing("decide", x, to, console)

(* openActivity of a member found by a search. *)
OpenUser ==
  /\ Console /\ UNCHANGED desk
  /\ console' = Doing("visit", "user", "", console)

(* What each panel offers.  A prompt is reviewed from its row, from the     *)
(* report about it and in its dialog; only what was read from the server   *)
(* is listed among the reports.                                            *)
ReportsPanel == console.status = "connected" /\ \E to \in {"reviewed", "dismissed"} : Decide("report", to)
RevisionForm == \E to \in {"asked", "asked again"} : Decide("revision", to)
PromptsPanel == RevisionForm \/ \E to \in {"shown", "hidden"} : Decide("prompt", to)
TagsPanel == \E to \in {"approved", "rejected", "disabled"} : Decide("tag", to)
UsersPanel == OpenUser \/ \E to \in {"active", "blocked"} : Decide("user", to)
AdminPage == ReportsPanel \/ PromptsPanel \/ TagsPanel \/ UsersPanel

(* Somebody else decides: another administrator, the author, a reporter.   *)
Elsewhere(x, to) ==
  /\ Gesture("admin") /\ SessionStays
  /\ <<desk[x], to>> \in IF x = "revision" THEN AuthorMoves ELSE MayBecome(x)
  /\ desk' = IF x = "revision" THEN [desk EXCEPT ![x] = to] ELSE Decided(desk, x, to)
  /\ console' = [console EXCEPT !.loose = @ \cup {f \in DOMAIN desk : desk'[f] # desk[f]}]

----------------------------------------------------------------------------
(* The answers. *)

(* Told by the server, with what it had at the time. *)
Told(c, S, s) ==
  [c EXCEPT !.told = @ \cup S,
            !.loose = (@ \ S) \cup {x \in S : s[x] # desk'[x]}]

Over(j) == [console EXCEPT !.jobs = @ \ {j}]

(* The reads that got through are applied, whoever is signed in by then.   *)
(* The requests to authors are in a table the console never reads.         *)
Tables == {"tag", "report", "log", "prompts and requests"}
Heard == {{}, Tables} \cup {Tables \ {p} : p \in Tables}

ReadAnswer(j, got, late) ==
  /\ j \in console.jobs /\ j.kind = "read" /\ UNCHANGED <<desk, left>> /\ SessionStays
  /\ LET s == IF late THEN desk ELSE j.seen
         c == [Over(j) EXCEPT
                 !.status = IF got = {} THEN "fallback" ELSE "connected",
                 !.view = [x \in Subjects |-> IF x \in got THEN s[x] ELSE @[x]],
                 !.log = IF "log" \in got THEN s.log ELSE @,
                 !.real = @ \cup (got \cap Subjects),
                 !.loose = @ \cup {"log"}]
     IN  console' = Told(c, got \cap DOMAIN desk, s)

(* Faulty: the audit log is left as it was. *)
NoRefresh(c, x, to) == c
(* refreshAdminAfterMutation: the audit log is read again after a decision.*)
(* After a member was blocked or let in again the whole console is read,   *)
(* and his activity, though not for the block.                             *)
AfterDecision(c, x, to) ==
  IF x = "user" THEN Drawn(Doing("again", x, to, [c EXCEPT !.status = "idle"]))
  ELSE IF c.mode THEN Doing("audit", "", "", c)
  ELSE [c EXCEPT !.loose = @ \cup {"log"}]

DecideDone(j) ==
  /\ j \in console.jobs /\ j.kind = "decide" /\ Accepts(desk, j.x, j.was, j.to)
  /\ desk' = Decided(desk, j.x, j.to) /\ UNCHANGED left /\ SessionStays
  /\ LET c == Shown(Over(j), j.x, j.to)
     IN  console' = AfterDecision([c EXCEPT !.told = @ \cup {j.x}, !.loose = @ \ {j.x}], j.x, j.to)

ConsoleClosed(c) ==
  [c EXCEPT !.mode = FALSE, !.status = "idle", !.real = @ \ {"tag", "user"}, !.told = @ \ {"user"},
            !.view.user = "active"]

(* Refused, answered too late, or not authorised.  For tags and reports    *)
(* the console is then read again.                                         *)
DecideFails(j, why) ==
  /\ j \in console.jobs /\ j.kind = "decide" /\ UNCHANGED left
  /\ desk' = IF why = "lost" /\ Accepts(desk, j.x, j.was, j.to) THEN Decided(desk, j.x, j.to) ELSE desk
  /\ LET lost == IF desk' = desk THEN Over(j) ELSE [Over(j) EXCEPT !.loose = @ \cup {j.x, "log"}]
         out == why = "auth" /\ LoggedIn
         again == j.x \in {"tag", "report"} /\ lost.mode
     IN  /\ IF out THEN SignOut ELSE SessionStays
         /\ console' = IF out THEN ConsoleClosed(lost)
                       ELSE IF again THEN ReadAll(lost) ELSE lost

(* Only the visit of a member looks at the error. *)
SmallAnswer(j, how) ==
  /\ j \in console.jobs /\ j.kind \in {"audit", "visit", "again"} /\ UNCHANGED <<desk, left>>
  /\ LET out == how = "auth" /\ j.kind = "visit" /\ LoggedIn
         c == IF how # "ok" THEN [Over(j) EXCEPT !.loose = @ \cup {"log"}] ELSE
              CASE j.kind = "audit" -> Told([Over(j) EXCEPT !.log = desk.log], {"log"}, desk)
                [] j.kind = "visit" -> Told([Shown(Over(j), "user", desk.user) EXCEPT !.real = @ \cup {"user"}],
                                            {"user"}, desk)
                [] j.kind = "again" -> Told(Shown(Over(j), "user", j.to), {"user"}, [desk EXCEPT !.user = j.to])
     IN  /\ IF out THEN SignOut ELSE SessionStays
         /\ console' = IF out THEN ConsoleClosed(c) ELSE Drawn(c)

----------------------------------------------------------------------------
(* What the session does to the console. *)

AdminSignIn(a) ==
  /\ UNCHANGED desk
  /\ console' = Drawn([console EXCEPT !.mode = (a \in Staff), !.status = "idle"])
AdminSignOut == console' = ConsoleClosed(console) /\ UNCHANGED desk
(* Storage keeps the decisions seen, not what the server listed. *)
AdminUnload ==
  /\ UNCHANGED desk
  /\ console' = Drawn([ConsoleClosed(console) EXCEPT
                         !.mode = console.mode /\ token' = token, !.log = 0, !.told = @ \ {"log"}, !.jobs = {},
                         !.loose = @ \cup {j.x : j \in {k \in console.jobs : k.kind = "decide"}}])
=============================================================================
