------------------------------ MODULE PanelChat ------------------------------
(***************************************************************************)
(* The side panel of the browser extension: its session (hooks/useAuth.js) *)
(* and its conversation (hooks/useConversation.js, useMessageRetry.js,     *)
(* useMakeRequest.js, useServerThreads.js, useConversationHistory.js,      *)
(* utils/improveRequestLifecycle.js, and the recovery of main.jsx).        *)
(*                                                                         *)
(* A handler waiting for an answer is a member of `jobs` with what its     *)
(* closure captured; `waits` holds the three places that say whether a     *)
(* request is under way (isLoading, requestInFlight and the coordinator's  *)
(* active request).  React renders between two events of the loop.         *)
(*                                                                         *)
(* A prompt is one of a few texts; a message carries the number of the     *)
(* request that created it.  Notices, status dots, titles, the limit of 30 *)
(* local conversations and the saved library are left out.                 *)
(***************************************************************************)
EXTENDS Lists

CONSTANTS
  Accounts,     \* members who sign in
  MaxLogins,    \* bound on the tokens issued
  Texts         \* what the user may ask

NoText == ""
ASSUME PanelAssumption == MaxLogins \in Nat /\ NoText \notin Texts

VARIABLES
  session,   \* token: authSession, stored: pp_auth_session, owners: of each token,
             \* mode: authMode, the account form that is open
  panel,     \* the open conversation and its composer
  waits,     \* loading, inFlight and active
  jobs,      \* handlers waiting for an answer
  recents,   \* the lists of recent conversations: local, server
  threads,   \* the server's conversations
  made,      \* numbers given so far: keys of messages, request ids, requests
  moved,     \* history: the user, or the session, moved on during a request
  sent       \* history: <<request id, prompt>> of every call a member sent, and <<id, NoText>>
             \* of those whose message a guest has edited since

panelVars == <<session, panel, waits, jobs, recents, threads, made, moved, sent>>

None == <<"none", 0>>
Local(n) == <<"local", n>>
Server(n) == <<"server", n>>
OnServer(id) == id[1] = "server"        \* /^\d+$/

(* The id of a message here, or the one the server gave it.                *)
Id(m) == <<m.key, m.saved>>
NoId == <<0, FALSE>>

(* by: "user", "reply", "stop", "error", "conflict", "stale", "limit"; the  *)
(* last four are error messages, with the edited message (target) and      *)
(* whether the conflict is a repeated one (again).                         *)
Say(by, key, text, rid) ==
  [by |-> by, key |-> key, text |-> text, rid |-> rid, saved |-> FALSE,
   target |-> NoId, again |-> FALSE]

NoRetry == [key |-> 0, text |-> NoText, rid |-> 0, thread |-> None]
BlankPanel == [open |-> None, messages |-> <<>>, composer |-> NoText, editing |-> NoId,
               retry |-> NoRetry,          \* pendingRetry
               met |-> {},                 \* concurrencyCounts: conversations with a count
               edits |-> {},               \* serverEditRequests: <<message, text, request id>>
               uuid |-> FALSE]             \* sessionUuid is known
NotWaiting == [loading |-> FALSE, inFlight |-> FALSE, active |-> 0]

Job == [kind |-> "", then |-> "", of |-> "", n |-> 0, text |-> NoText, rid |-> 0, key |-> 0,
        target |-> NoId, base |-> <<>>, to |-> None, token |-> 0, again |-> FALSE, resolves |-> FALSE]

PanelInit ==
  /\ \/ session = [token |-> 0, stored |-> 0, owners |-> <<>>, mode |-> ""]
     \/ \E a \in Accounts : session = [token |-> 0, stored |-> 1, owners |-> <<a>>, mode |-> ""]
  /\ panel = BlankPanel
  /\ waits = NotWaiting
  /\ jobs = {}
  /\ recents = [local |-> <<>>, server |-> <<>>]
  /\ threads = <<>>
  /\ made = 0
  /\ moved = FALSE /\ sent = {}

LoggedIn == session.token # 0
Busy == waits.loading \/ waits.inFlight
Resolving == \E j \in jobs : j.resolves     \* recoveryCoordinator.isActive
Moves == moved' = (moved \/ jobs # {}) /\ UNCHANGED sent
MovesIfSignedOut == moved' = (moved \/ session'.token # session.token) /\ UNCHANGED sent

----------------------------------------------------------------------------
(* The server (PromptController.improve and the conversations it keeps) *)

Owned(token, id) ==
  /\ OnServer(id) /\ id[2] \in DOMAIN threads
  /\ threads[id[2]].live /\ token # 0 /\ threads[id[2]].owner = session.owners[token]

Read(id) == [id |-> id, messages |-> threads[id[2]].messages]
Mine(token) == {n \in DOMAIN threads : Owned(token, Server(n))}
ReadAll(token) == [i \in 1..Cardinality(Mine(token)) |->
                     Read(Server(Nth(Mine(token), Cardinality(Mine(token)) + 1 - i)))]

(* A request id the conversation has seen is answered again, or refused    *)
(* with another prompt (REQUEST_ID_REUSED); an edit replaces its message   *)
(* and all that follows; another request is appended.                      *)
Improved(j) ==
  LET same == {n \in Mine(j.token) : threads[n].first = j.rid}
      n == IF j.to # None THEN j.to[2] ELSE IF same = {} THEN 0 ELSE CHOOSE m \in same : TRUE
      saved(m) == [m EXCEPT !.saved = TRUE]
      pair == <<saved(Say("user", j.key, j.text, j.rid)), saved(Say("reply", j.key, j.text, 0))>>
      ms == threads[n].messages
      at == {i \in DOMAIN ms : ms[i].by = "user" /\ Id(ms[i]) = j.target}
      seen == {i \in DOMAIN ms : ms[i].by = "user" /\ ms[i].rid = j.rid}
      put(new) == [why |-> "ok", id |-> Server(n), after |-> [threads EXCEPT ![n].messages = new]]
      gone == [why |-> "gone", id |-> None, after |-> threads]
      reused == [gone EXCEPT !.why = "reused"]
  IN  CASE j.token = 0 -> [gone EXCEPT !.why = "ok"]
        [] j.token # 0 /\ n = 0 ->
             [why |-> "ok", id |-> Server(Len(threads) + 1),
              after |-> Append(threads, [owner |-> session.owners[j.token], live |-> TRUE,
                                         first |-> j.rid, messages |-> pair])]
        [] j.token # 0 /\ n # 0 /\ ~Owned(j.token, Server(n)) -> gone
        [] j.token # 0 /\ n # 0 /\ Owned(j.token, Server(n)) ->
             IF seen # {} THEN (IF \E i \in seen : ms[i].text = j.text THEN put(ms) ELSE reused)
             ELSE IF j.of = "submit" THEN put(ms \o pair)
             ELSE IF at = {} THEN gone
             ELSE put(SubSeq(ms, 1, First(at) - 1) \o pair)

----------------------------------------------------------------------------
(* The request coordinator *)

(* begin: a request under way is aborted. *)
Begin(j) == waits' = [loading |-> TRUE, inFlight |-> TRUE, active |-> j.n]

(* Faulty: what the coordinator says of the request is not looked at. *)
FinishUnread(j) == [loading |-> FALSE, inFlight |-> FALSE, active |-> IF waits.active = j.n THEN 0 ELSE waits.active]

Finish(j) == IF waits.active = j.n THEN NotWaiting ELSE waits    \* coordinator.finish
Current(j) == waits.active = j.n

(* The request stops being under way, now or after another answer.         *)
Ends(j) == waits' = Finish(j) /\ jobs' = jobs \ {j}
Goes(j, kind, then) == UNCHANGED waits /\ jobs' = (jobs \ {j}) \cup {[j EXCEPT !.kind = kind, !.then = then]}

----------------------------------------------------------------------------
(* Sending *)

Without(list, S) == Keep(list, DOMAIN list \ S)

(* submitPrompt, with the closure of the event. *)
Submission(p, text, resolves) ==
  LET again == /\ p.retry # NoRetry /\ LoggedIn /\ OnServer(p.open)
               /\ p.retry.text = text /\ p.retry.thread = p.open
      rid == IF ~LoggedIn THEN 0 ELSE IF again /\ p.retry.rid # 0 THEN p.retry.rid ELSE made + 1
      base == IF again THEN Without(p.messages, {i \in DOMAIN p.messages : p.messages[i].key = p.retry.key})
              ELSE p.messages
      there == {i \in DOMAIN base : again /\ base[i].by = "user" /\ base[i].rid = rid}
      key == IF there = {} THEN made + 1 ELSE base[CHOOSE i \in there : \A k \in there : k <= i].key
  IN  [job |-> [Job EXCEPT !.kind = "call", !.of = "submit", !.n = made + 1, !.text = text,
                  !.rid = rid, !.key = key, !.token = session.token, !.resolves = resolves,
                  !.to = IF LoggedIn /\ OnServer(p.open) THEN p.open ELSE None,
                  !.base = IF LoggedIn THEN <<>> ELSE Append(base, Say("user", key, text, rid))],
       messages |-> IF again THEN base ELSE Append(base, Say("user", key, text, rid))]

(* A guest whose sessionUuid is not known yet waits for it first, with the *)
(* composer as it is and nothing that says so.                             *)
SubmitOn(p, text, resolves) ==
  LET s == Submission(p, text, resolves)
  IN  /\ made' = made + 1
      /\ sent' = IF LoggedIn THEN sent \cup {<<s.job.rid, text>>} ELSE sent
      /\ IF ~LoggedIn /\ ~p.uuid
         THEN /\ panel' = [p EXCEPT !.composer = text]
              /\ jobs' = jobs \cup {[s.job EXCEPT !.kind = "uuid"]}
              /\ UNCHANGED waits
         ELSE /\ panel' = [p EXCEPT !.messages = s.messages, !.composer = NoText]
              /\ jobs' = jobs \cup {s.job}
              /\ Begin(s.job)

Submit(text) ==
  /\ ~Busy
  /\ SubmitOn(panel, text, FALSE)
  /\ moved' = (moved \/ \E j \in jobs : j.kind = "uuid")
  /\ UNCHANGED <<session, recents, threads>>

(* getOrCreateSessionUuid has answered: the messages of the closure are    *)
(* written back.                                                           *)
UuidKnown(j) ==
  /\ j \in jobs /\ j.kind = "uuid"
  /\ panel' = [panel EXCEPT !.uuid = TRUE, !.messages = j.base, !.composer = IF j.of = "edit" THEN @ ELSE NoText,
                            !.editing = IF j.of = "edit" THEN NoId ELSE @]
  /\ jobs' = (jobs \ {j}) \cup {[j EXCEPT !.kind = "call"]}
  /\ Begin(j)
  /\ moved' = (moved \/ waits.active # 0)
  /\ UNCHANGED <<session, recents, threads, made, sent>>

LoadUuid ==        \* the effect of useAuth
  /\ ~panel.uuid
  /\ panel' = [panel EXCEPT !.uuid = TRUE]
  /\ UNCHANGED <<session, waits, jobs, recents, threads, made, moved, sent>>

IndexOf(ms, id) ==
  LET at == {i \in DOMAIN ms : ms[i].by = "user" /\ Id(ms[i]) = id}
  IN  IF at = {} THEN 0 ELSE CHOOSE i \in at : TRUE

StartEdit(i) ==
  /\ ~waits.loading
  /\ i \in DOMAIN panel.messages /\ panel.messages[i].by = "user"
  /\ panel.editing # Id(panel.messages[i])
  /\ panel' = [panel EXCEPT !.editing = Id(panel.messages[i])]
  /\ UNCHANGED <<session, waits, jobs, recents, threads, made, moved, sent>>

(* Faulty: the id is kept although the prompt was edited. *)
SameEditId(p, id, text) ==
  LET of(e) == e[1] = id
  IN  IF \E e \in p.edits : of(e) THEN (CHOOSE e \in p.edits : of(e))[3] ELSE made + 1

(* resolveMakeRequestId for an edit: the id of the last try with this text, *)
(* else of the message itself.                                             *)
EditId(p, id, text) ==
  LET last == {e \in p.edits : e[1] = id}
      i == IndexOf(p.messages, id)
      tries == IF last # {} THEN last
               ELSE IF i = 0 THEN {} ELSE {<<id, p.messages[i].text, p.messages[i].rid>>}
  IN  IF \E e \in tries : e[2] = text /\ e[3] # 0 THEN (CHOOSE e \in tries : TRUE)[3] ELSE made + 1

(* submitEditedMessage: a member's message is edited on the server, a      *)
(* guest's conversation is cut at it.                                      *)
EditOn(p, id, text, resolves) ==
  LET i == IndexOf(p.messages, id)
      rid == IF LoggedIn THEN EditId(p, id, text) ELSE 0
      cut == Append(SubSeq(p.messages, 1, i - 1), [p.messages[i] EXCEPT !.text = text])
      j == [Job EXCEPT !.kind = "call", !.of = "edit", !.n = made + 1, !.text = text, !.key = id[1],
              !.target = id, !.rid = rid, !.token = session.token, !.resolves = resolves,
              !.to = p.open, !.base = IF LoggedIn THEN <<>> ELSE cut]
      q == [p EXCEPT !.editing = NoId, !.messages = IF LoggedIn THEN @ ELSE cut,
              !.edits = IF LoggedIn THEN {e \in @ : e[1] # id} \cup {<<id, text, rid>>} ELSE @]
      noted == IF LoggedIn THEN {<<rid, text>>}
               ELSE IF p.messages[i].text = text THEN {} ELSE {<<p.messages[i].rid, NoText>>}
  IN  CASE (LoggedIn /\ ~OnServer(p.open)) \/ (~LoggedIn /\ i = 0) ->
             panel' = p /\ UNCHANGED <<waits, jobs, made, sent>>
        [] ~LoggedIn /\ i # 0 /\ ~p.uuid ->
             panel' = p /\ made' = made + 1 /\ jobs' = jobs \cup {[j EXCEPT !.kind = "uuid"]}
             /\ sent' = sent \cup noted /\ UNCHANGED waits
        [] OTHER ->
             panel' = q /\ made' = made + 1 /\ jobs' = jobs \cup {j} /\ sent' = sent \cup noted /\ Begin(j)

(* What waits for the sessionUuid will write its own messages back.        *)
Overlaps == moved' = (moved \/ \E j \in jobs : j.kind = "uuid")

SubmitEdited(text) ==
  /\ ~Busy /\ panel.editing # NoId
  /\ EditOn(panel, panel.editing, text, FALSE)
  /\ Overlaps /\ UNCHANGED <<session, recents, threads>>

(* handleResolveError on a failed message: the prompt returns to the       *)
(* composer and is sent again, unless a request is under way.              *)
Retry(i) ==
  /\ ~Resolving /\ i \in DOMAIN panel.messages
  /\ LET m == panel.messages[i]
         p == [panel EXCEPT !.composer = m.text,
                 !.retry = [key |-> m.key, text |-> m.text, rid |-> m.rid, thread |-> panel.open]]
     IN  /\ m.by \in {"error", "conflict"}
         /\ IF Busy THEN panel' = p /\ UNCHANGED <<waits, jobs, made, sent>>
            ELSE IF m.target # NoId THEN EditOn(p, m.target, m.text, TRUE)
            ELSE SubmitOn(p, m.text, TRUE)
  /\ Overlaps /\ UNCHANGED <<session, recents, threads>>

----------------------------------------------------------------------------
(* What an answer does *)

WithoutId(list, id) == Without(list, {i \in DOMAIN list : list[i].id = id})
Upsert(list, e) == <<e>> \o WithoutId(list, e.id)

Error(j, by) ==
  [Say(by, -2 * j.n, j.text, j.rid) EXCEPT
     !.target = IF j.of = "edit" /\ by \in {"conflict", "stale"} THEN j.target ELSE NoId,
     !.again = j.again]
With(p, m) == [p EXCEPT !.messages = Append(@, m)]

(* handleLogout; handleAuthExpired also asks for the login, whoever is     *)
(* signed in by now.  The effect of useConversationHistory empties the     *)
(* server's list.                                                          *)
SignedOut == [session EXCEPT !.token = 0, !.stored = 0]
Expired == [SignedOut EXCEPT !.mode = "login"]
SignsOut == session' = Expired /\ recents' = [recents EXCEPT !.server = <<>>]

(* The conversation to read back: by its number, or else in the list.      *)
ReadBack(j, id, then) ==
  /\ UNCHANGED waits
  /\ jobs' = (jobs \ {j}) \cup
       {[j EXCEPT !.to = id, !.kind = IF id # None THEN "thread" ELSE "list", !.then = then,
                  !.again = then = "conflict" /\ id \in panel.met]}

(* onSuccess *)
Answered(j) ==
  LET res == Improved(j)
      reply == Say("reply", j.key, j.text, 0)
      heard == [panel EXCEPT !.retry = IF j.of = "submit" THEN NoRetry ELSE @]
      open == IF panel.open = None THEN Local(j.n) ELSE panel.open
      kept == Append(j.base, reply)
  IN  /\ threads' = res.after
      /\ UNCHANGED session
      /\ CASE j.token # 0 /\ j.of = "submit" ->
                /\ panel' = [With(heard, reply) EXCEPT !.open = res.id, !.met = @ \ {res.id}]
                /\ ReadBack(j, res.id, "show") /\ UNCHANGED recents
           [] j.token # 0 /\ j.of = "edit" ->
                /\ panel' = [heard EXCEPT !.met = @ \ {j.to}, !.edits = {e \in @ : e[1] # j.target}]
                /\ ReadBack(j, j.to, "show") /\ UNCHANGED recents
           [] j.token = 0 ->
                /\ panel' = [heard EXCEPT !.open = open,
                               !.messages = IF j.of = "submit" THEN Append(@, reply) ELSE kept,
                               !.met = IF j.of = "submit" THEN {} ELSE @]
                /\ recents' = [recents EXCEPT !.local = Upsert(@, [id |-> open, messages |-> kept])]
                /\ Ends(j)

(* onError *)
Fails(j, why) ==
  CASE why = "auth" /\ j.token # 0 ->
         SignsOut /\ Ends(j) /\ UNCHANGED panel
    [] why = "conflict" ->
         /\ panel' = [panel EXCEPT !.met = @ \cup {j.to},
                                   !.retry = IF j.of = "submit" THEN NoRetry ELSE @]
         /\ ReadBack(j, j.to, "conflict")
         /\ UNCHANGED <<session, recents>>
    [] why = "reused" ->
         /\ panel' = [panel EXCEPT !.retry = IF j.of = "submit" THEN NoRetry ELSE @,
                                   !.edits = {e \in @ : j.of = "submit" \/ e[1] # j.target}]
         /\ ReadBack(j, j.to, "reused")
         /\ UNCHANGED <<session, recents>>
    [] j.of = "edit" /\ why = "gone" ->
         Goes(j, "list", "missing") /\ UNCHANGED <<session, recents, panel>>
    [] (j.of = "submit" \/ j.token # 0) /\ j.token # 0 /\ panel.open # None
         /\ why \notin {"auth", "conflict", "reused"} /\ ~(j.of = "edit" /\ why = "gone") ->
         ReadBack(j, panel.open, "recover") /\ UNCHANGED <<session, recents, panel>>
    [] OTHER ->
         /\ panel' = IF j.of = "edit" /\ j.token # 0 THEN panel
                     ELSE With(panel, Error(j, IF why = "limit" THEN "limit" ELSE "error"))
         /\ session' = IF why = "limit" /\ j.token = 0 THEN [session EXCEPT !.mode = "login"] ELSE session
         /\ Ends(j) /\ UNCHANGED recents

Outcomes(j) ==
  {"ok", "lost", "limit"} \cup (IF j.token # 0 THEN {"auth"} ELSE {})
                          \cup (IF j.token # 0 /\ j.to # None THEN {"conflict"} ELSE {})

ImproveAnswer(j, how) ==
  /\ j \in jobs /\ j.kind = "call" /\ Current(j)
  /\ how \in Outcomes(j)
  /\ IF how = "ok" /\ Improved(j).why = "ok"
     THEN Answered(j)
     ELSE /\ threads' \in IF how = "lost" THEN {threads, Improved(j).after} ELSE {threads}
          /\ Fails(j, IF how = "ok" THEN Improved(j).why ELSE how)
  /\ MovesIfSignedOut
  /\ UNCHANGED made

(* A call whose request was cancelled or superseded has no effect here,    *)
(* whether or not the server has carried it out.                           *)
Dropped(j) ==
  /\ j \in jobs /\ j.kind = "call" /\ ~Current(j)
  /\ threads' \in {threads, Improved(j).after}
  /\ Ends(j)
  /\ UNCHANGED <<session, panel, recents, made, moved, sent>>

(* The cancel button: the composer gets the prompt back at once; what has  *)
(* gone past the call goes on all the same.                                *)
Cancel ==
  \E j \in jobs :
    /\ waits.active # 0 /\ Current(j)
    /\ panel' = [With(panel, Say("stop", -2 * j.n - 1, j.text, 0)) EXCEPT !.composer = j.text]
    /\ waits' = NotWaiting
    /\ UNCHANGED <<session, jobs, recents, threads, made, moved, sent>>

(* Faulty: a failure that was looked up is over. *)
ToldNothing(j, p) == p

(* The prompt the server does not know is put below what it knows. *)
Told(j, p) == With(p, Error(j, "error"))

(* What waited for the conversation goes on, with what was read (found),   *)
(* not found or not read (failed).                                         *)
GoesOn(j, p, found) ==
  LET known == found /\ \E i \in DOMAIN p.messages :
                          p.messages[i].by = "user" /\ p.messages[i].text = j.text
      note == Error(j, IF found THEN "conflict" ELSE "stale")
      old == {i \in DOMAIN p.messages : p.messages[i].key = j.key}
  IN  CASE j.then = "conflict" ->
             IF j.of = "edit" THEN With(p, note) ELSE [With(p, note) EXCEPT !.composer = j.text]
        [] j.then = "recover" /\ j.of = "submit" ->
             IF known THEN [p EXCEPT !.retry = NoRetry] ELSE Told(j, p)
        [] j.then = "refresh" /\ found ->
             LET again == [note EXCEPT !.key = j.key, !.target = j.target]
             IN  [p EXCEPT !.composer = j.text,
                           !.messages = IF old = {} THEN Append(@, again)
                                        ELSE [i \in DOMAIN @ |-> IF i \in old THEN again ELSE @[i]]]
        [] OTHER -> p

(* An answer to "show" that is no answer goes the way of a failed request, *)
(* if the request is still the current one.                                *)
ReadFails(j, why) ==
  CASE j.then = "show" /\ Current(j) -> Fails(j, why)
    [] j.then = "deleted" /\ why = "auth" -> SignsOut /\ Ends(j) /\ UNCHANGED panel
    [] OTHER -> /\ panel' = IF j.then = "show" THEN panel ELSE GoesOn(j, panel, FALSE)
                /\ Ends(j) /\ UNCHANGED <<session, recents>>

(* refreshActiveServerThread *)
ThreadAnswer(j, how) ==
  /\ j \in jobs /\ j.kind = "thread"
  /\ UNCHANGED <<threads, made>>
  /\ IF how # "ok" THEN ReadFails(j, how)
     ELSE IF ~Owned(j.token, j.to)
     THEN Goes(j, "list", j.then) /\ UNCHANGED <<session, panel, recents>>      \* 404
     ELSE /\ panel' = GoesOn(j, [panel EXCEPT !.open = j.to, !.messages = Read(j.to).messages], TRUE)
          /\ recents' = [recents EXCEPT !.server = Upsert(@, Read(j.to))]
          /\ Ends(j) /\ UNCHANGED session
  /\ MovesIfSignedOut

(* refreshServerThreads, on its own or for a conversation not found. *)
ListAnswer(j, how) ==
  /\ j \in jobs /\ j.kind = "list"
  /\ UNCHANGED <<threads, made>>
  /\ IF how # "ok" /\ j.token # 0 THEN ReadFails(j, how)
     ELSE LET all == IF j.token = 0 THEN <<>> ELSE ReadAll(j.token)
              at == {i \in DOMAIN all : all[i].id = j.to /\ j.then \notin {"missing", "deleted"}}
              p == IF at = {} THEN panel
                   ELSE [panel EXCEPT !.open = j.to, !.messages = Read(j.to).messages]
          IN  /\ panel' = GoesOn(j, p, at # {})
              /\ recents' = IF j.token = 0 THEN recents ELSE [recents EXCEPT !.server = all]
              /\ Ends(j) /\ UNCHANGED session
  /\ MovesIfSignedOut

(* The refresh button of a conflict whose conversation could not be read.  *)
RefreshConflict(i) ==
  /\ ~Resolving /\ i \in DOMAIN panel.messages /\ panel.messages[i].by = "stale"
  /\ LET m == panel.messages[i]
     IN  jobs' = jobs \cup
           {[Job EXCEPT !.kind = IF panel.open # None THEN "thread" ELSE "list", !.then = "refresh",
               !.of = "refresh", !.text = m.text, !.rid = m.rid, !.key = m.key, !.target = m.target,
               !.to = panel.open, !.token = session.token, !.again = m.again, !.resolves = TRUE]}
  /\ UNCHANGED <<session, panel, waits, recents, threads, made, moved, sent>>

----------------------------------------------------------------------------
(* Conversations *)

OpenPrompt(text) ==
  /\ panel' = [panel EXCEPT !.open = None, !.composer = text, !.messages = <<>>]
  /\ Moves /\ UNCHANGED <<session, waits, jobs, recents, threads, made>>

RecentThreads == IF LoggedIn THEN recents.server ELSE recents.local

OpenRecent(i) ==
  /\ i \in DOMAIN RecentThreads
  /\ panel' = [panel EXCEPT !.open = RecentThreads[i].id, !.messages = RecentThreads[i].messages]
  /\ Moves /\ UNCHANGED <<session, waits, jobs, recents, threads, made>>

NewChatOn(p, composer) ==
  [p EXCEPT !.open = None, !.messages = <<>>, !.composer = composer, !.editing = NoId,
            !.retry = NoRetry, !.met = {}]

NewChat ==
  /\ ~waits.loading /\ panel.messages # <<>>
  /\ panel' = NewChatOn(panel, NoText)
  /\ Moves /\ UNCHANGED <<session, waits, jobs, recents, threads, made>>

ContinueInNewChat(i) ==
  /\ ~Resolving /\ i \in DOMAIN panel.messages /\ panel.messages[i].again
  /\ panel' = NewChatOn(panel, panel.messages[i].text)
  /\ Moves /\ UNCHANGED <<session, waits, jobs, recents, threads, made>>

Left(p, id) == IF p.open = id THEN [p EXCEPT !.open = None, !.messages = <<>>] ELSE p

DeleteRecent(i) ==
  /\ i \in DOMAIN RecentThreads
  /\ LET id == RecentThreads[i].id
     IN  IF LoggedIn
         THEN /\ jobs' = jobs \cup {[Job EXCEPT !.kind = "delete", !.of = "delete", !.to = id,
                                               !.token = session.token]}
              /\ UNCHANGED <<panel, recents>>
         ELSE /\ recents' = [recents EXCEPT !.local = WithoutId(@, id)]
              /\ panel' = Left(panel, id)
              /\ UNCHANGED jobs
  /\ Moves /\ UNCHANGED <<session, waits, threads, made>>

DeleteAnswer(j, how) ==
  /\ j \in jobs /\ j.kind = "delete"
  /\ UNCHANGED made
  /\ threads' \in IF Owned(j.token, j.to) /\ how # "auth"
                  THEN {[threads EXCEPT ![j.to[2]].live = FALSE]} \cup
                       (IF how = "lost" THEN {threads} ELSE {})
                  ELSE {threads}
  /\ CASE how = "ok" ->
            /\ recents' = [recents EXCEPT !.server = WithoutId(@, j.to)]
            /\ panel' = Left(panel, j.to)
            /\ Goes(j, "list", IF Owned(j.token, j.to) THEN "deleted" ELSE "missing")
            /\ UNCHANGED session
       [] how = "auth" -> SignsOut /\ Ends(j) /\ UNCHANGED panel
       [] how = "lost" -> Ends(j) /\ UNCHANGED <<session, panel, recents>>
  /\ moved' = (moved \/ (jobs' # {} /\ (panel' # panel \/ session'.token # session.token))) /\ UNCHANGED sent

----------------------------------------------------------------------------
(* The session *)

Hydrating(token) == [Job EXCEPT !.kind = "hydrate", !.of = "hydrate", !.token = token]
Running(js) == {j \in js : j.kind # "hydrate"}     \* the effect's cleanup: cancelled

(* The stored session, read when the panel opens. *)
RestoreSession ==
  /\ ~LoggedIn /\ session.stored # 0
  /\ session' = [session EXCEPT !.token = session.stored]
  /\ jobs' = Running(jobs) \cup {Hydrating(session.stored)}
  /\ Moves /\ UNCHANGED <<panel, waits, recents, threads, made>>

(* The conversation on the screen stays.                                   *)
LogOut ==
  /\ LoggedIn
  /\ session' = SignedOut /\ recents' = [recents EXCEPT !.server = <<>>]
  /\ jobs' = Running(jobs)
  /\ Moves /\ UNCHANGED <<panel, waits, threads, made>>

(* Somebody signs in or out elsewhere on the panel.                        *)
ChatFollows ==
  IF session'.token = session.token THEN UNCHANGED <<panel, waits, jobs, recents, threads, made, moved, sent>>
  ELSE LET t == session'.token
       IN  /\ jobs' = Running(jobs) \cup IF t = 0 THEN {} ELSE {Hydrating(t)}
           /\ recents' = IF t = 0 THEN [recents EXCEPT !.server = <<>>] ELSE recents
           /\ Moves /\ UNCHANGED <<panel, waits, threads, made>>

HydrateAnswer(j, how) ==
  /\ j \in jobs /\ j.kind = "hydrate"
  /\ IF j.token # session.token     \* cancelled meanwhile
     THEN UNCHANGED <<session, recents>>
     ELSE CASE how = "ok" -> recents' = [recents EXCEPT !.server = ReadAll(j.token)] /\ UNCHANGED session
            [] how = "auth" -> SignsOut
            [] how = "lost" -> UNCHANGED <<session, recents>>
  /\ jobs' = jobs \ {j}
  /\ MovesIfSignedOut
  /\ UNCHANGED <<panel, waits, threads, made>>

(* The panel is closed and opened again. *)
Reopen ==
  /\ panel' = BlankPanel
  /\ waits' = NotWaiting
  /\ jobs' = {}
  /\ session' = [session EXCEPT !.token = 0, !.mode = ""]
  /\ recents' = [recents EXCEPT !.server = <<>>]
  /\ threads' \in {threads} \cup {Improved(j).after : j \in {k \in jobs : k.kind = "call"}}
  /\ Moves /\ UNCHANGED made

----------------------------------------------------------------------------

(* A request id the server has stored with a prompt never travels with     *)
(* another one, however often messages were edited, retried and read back, *)
(* whoever signed in and out meanwhile: REQUEST_ID_REUSED is never earned. *)
(* Left out are ids whose message a guest has edited (sent): the edited    *)
(* text goes out under the old id after the next login.                    *)
IdKeepsPrompt ==
  \A j \in jobs, n \in DOMAIN threads :
    j.kind = "call" /\ j.rid # 0 /\ <<j.rid, NoText>> \notin sent =>
      \A i \in DOMAIN threads[n].messages :
        threads[n].messages[i].rid = j.rid => threads[n].messages[i].text = j.text

(* When a submitted prompt stops being under way, its text is on the panel *)
(* or back in the composer, cancelled, failed, looked up or in conflict;   *)
(* unless the user or the session moved on meanwhile.                      *)
PanelPromptKept ==
  [][\A j \in jobs :
       j.of = "submit" /\ Current(j) /\ waits'.active # j.n =>
         \/ moved'
         \/ panel'.composer = j.text
         \/ \E i \in DOMAIN panel'.messages : panel'.messages[i].text = j.text]_panelVars
=============================================================================
