------------------------------- MODULE WebChat -------------------------------
(***************************************************************************)
(* The Make screen of the web page: the open conversation, the list of     *)
(* recent ones, and the calls that improve a prompt and read conversations *)
(* back (make/make-controller.mjs, make/make-recent-workflows.mjs,         *)
(* effects/make-server-sync-effects.mjs, effects/backend-effects.mjs,      *)
(* effects/make-failure-recovery-effects.mjs, effects/error-effects.mjs).  *)
(*                                                                         *)
(* Handlers of one event loop share the record `page` (fields of app.js's  *)
(* state) and `request` (isMakeThinking, makeRequestState and the abort    *)
(* controller).  A handler waiting for an answer is a member of `tasks`    *)
(* and carries the local variables of its continuation; every operator on  *)
(* a page is one function of the source.                                   *)
(*                                                                         *)
(* A prompt is one of a few texts.  A message carries the number of the    *)
(* request that created it (key), also when it is read back: the server's  *)
(* own message ids are left out.  So are folders, titles, the limit of 8   *)
(* recent conversations, and the two timers of 120 ms and 80 ms.           *)
(***************************************************************************)
EXTENDS WebSession, Lists

CONSTANT Texts   \* what the user may ask

NoText == ""    \* an empty draft, a prompt not known

ASSUME TextsAssumption == Texts # {} /\ NoText \notin Texts

VARIABLES
  page,      \* open conversation, recent list, draft, pending transfer
  request,   \* what the composer is waiting for
  tasks,     \* handlers waiting for an answer
  threads,   \* the server's conversations
  asked,     \* numbers given so far: keys of messages, request ids, signals
  strayed,   \* history: an answer was applied to a page that had moved on
  sent       \* history: request ids and the prompts sent under them; with NoText, ids
             \* whose message was changed, or stored, with a prompt not sent under them

chatVars == <<page, request, tasks, threads, asked, strayed, sent>>

(* Conversations: a local id (thread-<time>) or a number of the server.    *)
None == <<"none", 0>>
Local(n) == <<"local", n>>
Server(n) == <<"server", n>>
OnServer(id) == id[1] = "server"

(* A prompt in a conversation: "new" here, "saved" as the server returned   *)
(* it, "follow-up" when a retry must append it, "note" and "edit note" for  *)
(* one that met a conflict (retryMode; `target` is retryMessageId).         *)
Ask(n, text, rid, mode) ==
  [by |-> "user", key |-> n, text |-> text, rid |-> rid, sentText |-> NoText,
   mode |-> mode, target |-> 0]
Reply(n, text) == [Ask(n, text, 0, "saved") EXCEPT !.by = "ai"]
IsNote(m) == m.mode \in {"note", "edit note"}

BlankPage == [open |-> None, messages |-> <<>>, recent |-> <<>>, draft |-> NoText,
              transfer |-> None,             \* pendingGuestThreadTransferId
              improved |-> <<None, None>>,   \* pendingMakeImproveThread
              status |-> "idle"]             \* makeBackendStatus
Idle == [thinking |-> FALSE, inFlight |-> FALSE, controller |-> 0, version |-> 0]

(* Conversations the account of this browser has had elsewhere.            *)
Before ==
  IF left["folders"] = 0 \/ owners = <<>> THEN <<>>
  ELSE LET text == CHOOSE x \in Texts : TRUE
       IN  [i \in 1..2 |-> [owner |-> owners[1], live |-> TRUE, first |-> 0,
                             messages |-> <<Ask(-i, text, 0, "saved"), Reply(-i, text)>>]]

ChatInit ==
  /\ page = BlankPage
  /\ request = Idle
  /\ tasks = {}
  /\ threads = Before
  /\ asked = 0
  /\ strayed = FALSE
  /\ sent = {}

Busy == request.thinking \/ request.inFlight

(* The user, or the session, moves on while some handler waits. *)
Moves == strayed' = (strayed \/ tasks # {})

----------------------------------------------------------------------------
(* Looking conversations up *)

Called(p, id) == {i \in DOMAIN p.recent : id # None /\ id \in {p.recent[i].id, p.recent[i].server}}
Known(p, id) == Called(p, id) # {}
Entry(p, id) == p.recent[First(Called(p, id))]

(* getMakeBackendThreadId *)
Backend(p, id) ==
  IF Known(p, id) /\ Entry(p, id).server # None THEN Entry(p, id).server
  ELSE IF OnServer(id) THEN id ELSE None

IndexOf(p, key) ==     \* findEditableMessage: 0 when there is none
  LET at == {i \in DOMAIN p.messages : p.messages[i].by = "user" /\ p.messages[i].key = key}
  IN  IF at = {} THEN 0 ELSE First(at)

(* What one conversation of the server looks like when read. *)
Fetched(id) == [id |-> id, server |-> id, messages |-> threads[id[2]].messages]
Mine(t) == {n \in DOMAIN threads : t # 0 /\ threads[n].live /\ threads[n].owner = Owner(t)}
AllMine(t) ==      \* the newest first
  LET k == Cardinality(Mine(t)) IN [i \in 1..k |-> Fetched(Server(Nth(Mine(t), k + 1 - i)))]

----------------------------------------------------------------------------
(* The functions of state-make.mjs and their callers, on a page *)

Besides(list, id) == Keep(list, {i \in DOMAIN list : list[i].id # id})

Updated(p, id) ==        \* updateRecentMakeThreadState
  LET old == {i \in DOMAIN p.recent : p.recent[i].id = id}
      server == IF old = {} THEN None ELSE p.recent[First(old)].server
  IN  [p EXCEPT !.recent = <<[id |-> id, server |-> server, messages |-> p.messages]>> \o Besides(@, id)]

Opened(p, e) == [p EXCEPT !.open = e.id, !.messages = e.messages]

Added(p, id, m) == [p EXCEPT !.open = id, !.messages = Append(@, m)]

Numbered(p, id, server) ==
  [p EXCEPT !.recent = [i \in DOMAIN @ |->
     IF @[i] = Entry(p, id) THEN [@[i] EXCEPT !.server = server] ELSE @[i]]]

(* applyImproveThreadId and applyPendingImproveThreadId *)
Improved(p, id, server) ==
  IF server = None THEN p
  ELSE [(IF Known(p, id) THEN Numbered(p, id, server) ELSE p) EXCEPT !.improved = <<id, server>>]

Applied(p, id) ==
  IF p.improved[2] = None \/ p.improved[1] # id THEN p
  ELSE [(IF Known(p, id) THEN Numbered(p, id, p.improved[2]) ELSE p)
          EXCEPT !.improved = <<None, None>>]

(* The guest's conversation that waits to be transferred, if there is one. *)
Guests(p) ==
  {i \in DOMAIN p.recent : LET e == p.recent[i]
                           IN  e.id = p.transfer /\ e.id # None /\ e.server = None /\ ~OnServer(e.id)}

(* The list of the server replaces the recent one; a guest's conversation  *)
(* that waits to be transferred is kept (applyMakeThreadsResult).          *)
Listed(p, list) ==
  LET lookup == IF Known(p, p.open) /\ Entry(p, p.open).server # None
                THEN Entry(p, p.open).server ELSE p.open
      kept == Keep(p.recent, Guests(p))
      q == [p EXCEPT !.recent = kept \o list]
  IN  IF lookup = None THEN q
      ELSE IF Known(q, lookup) THEN Opened(q, Entry(q, lookup))
      ELSE IF kept # <<>> THEN Opened(q, kept[1])
      ELSE [q EXCEPT !.open = None, !.messages = <<>>]

(* One conversation read back: first in the list, and open.                *)
Refreshed(p, id) ==
  LET rest == {i \in DOMAIN p.recent : id \notin {p.recent[i].id, p.recent[i].server}}
  IN  Opened([p EXCEPT !.recent = <<Fetched(id)>> \o Keep(@, rest)], Fetched(id))

(* deleteMakeThreadState *)
Deleted(p, id) ==
  LET q == [p EXCEPT !.recent = Besides(@, id),
                     !.transfer = IF @ = id THEN None ELSE @]
  IN  IF p.open = id THEN [q EXCEPT !.open = None, !.messages = <<>>, !.draft = NoText] ELSE q

(* Faulty: the conversations stay for whoever comes next. *)
ClearedOpenOnly(p) == [p EXCEPT !.open = None, !.messages = <<>>, !.draft = NoText,
                                !.improved = <<None, None>>, !.transfer = None,
                                !.status = "idle"]

(* clearMakeSessionDataState with the rest of clearAuthenticatedSession.   *)
Cleared(p) ==
  LET local == {i \in DOMAIN p.recent : p.recent[i].server = None /\ ~OnServer(p.recent[i].id)}
      q == [p EXCEPT !.recent = Keep(@, local), !.draft = NoText, !.improved = <<None, None>>,
                     !.transfer = None, !.status = "idle"]
      open == {i \in local : p.recent[i].id = p.open}
  IN  IF open # {} THEN Opened(q, p.recent[First(open)])
      ELSE [q EXCEPT !.open = None, !.messages = <<>>]

(* clearSessionPreservingPendingGuestTransfer: the guest's conversation,   *)
(* else one with the prompt that met the 401, waits for the next login.    *)
Expired(p, prompt) ==
  LET guest == p.recent[First(Guests(p))]
      keep(e) == [Opened(Cleared(p), e) EXCEPT !.recent = <<e>>, !.transfer = e.id]
  IN  IF Guests(p) # {}
      THEN keep([guest EXCEPT !.messages = IF p.open = p.transfer THEN p.messages ELSE @])
      ELSE IF prompt = NoText THEN Cleared(p)
      ELSE keep([id |-> Local(-asked), server |-> None,
                 messages |-> <<Ask(-asked, prompt, 0, "follow-up")>>])

----------------------------------------------------------------------------
(* The server's side of an improvement (improve of PromptController) *)

Owned(t, n) ==
  n \in DOMAIN threads /\ threads[n].live /\ t.token # 0 /\ threads[n].owner = Owner(t.token)

(* The conversation of a request: the one it names, or else the one it     *)
(* created when it was sent before.                                        *)
Home(t) ==
  IF t.to # None THEN t.to[2]
  ELSE LET same == {n \in DOMAIN threads : Owned(t, n) /\ threads[n].first = t.rid}
       IN  IF same = {} THEN 0 ELSE CHOOSE n \in same : TRUE

History(ms) ==
  LET sent1(m) == [m EXCEPT !.rid = 0, !.mode = "new", !.sentText = NoText]
      asks == Keep(ms, {i \in DOMAIN ms : ~IsNote(ms[i])})
  IN  [i \in DOMAIN asks |-> sent1(asks[i])]

(* A request id the conversation has seen is answered again, or refused    *)
(* when the prompt is another one; an edit replaces its message and all    *)
(* that follows it; another request is appended.                           *)
Improve(t) ==
  LET n == Home(t)
      ms == threads[n].messages
      seen == {i \in DOMAIN ms : ms[i].by = "user" /\ ms[i].rid = t.rid}
      at == {i \in DOMAIN ms : ms[i].by = "user" /\ ms[i].key = t.key /\ ms[i].mode = "saved"}
      pair == <<Ask(t.key, t.text, t.rid, "saved"), Reply(t.key, t.text)>>
      put(new) == [answer |-> "ok", server |-> Server(n),
                   after |-> [threads EXCEPT ![n].messages = new]]
      refuse(why) == [answer |-> why, server |-> None, after |-> threads]
  IN  CASE t.token = 0 -> refuse("ok")
        [] t.token # 0 /\ n = 0 ->
             [answer |-> "ok", server |-> Server(Len(threads) + 1),
              after |-> Append(threads, [owner |-> Owner(t.token), live |-> TRUE,
                                         first |-> t.rid, messages |-> t.old \o pair])]
        [] t.token # 0 /\ n # 0 /\ ~Owned(t, n) -> refuse("gone")
        [] t.token # 0 /\ n # 0 /\ Owned(t, n) ->
             IF seen # {}
             THEN IF \E i \in seen : ms[i].text = t.text THEN put(ms) ELSE refuse("reused")
             ELSE IF t.kind # "edit" THEN put(ms \o pair)
             ELSE IF at = {} \/ ~t.saved THEN refuse("gone")
             ELSE put(SubSeq(ms, 1, First(at) - 1) \o pair)

----------------------------------------------------------------------------
(* Sending *)

Improving == {"submit", "local", "edit"}

Call(kind, p, id, key, text, rid, old) ==
  LET to == IF LoggedIn THEN Backend(p, id) ELSE None
      saved == IndexOf(p, key) # 0 /\ p.messages[IndexOf(p, key)].mode = "saved"
  IN  [kind |-> kind, of |-> kind, then |-> "none", n |-> asked + 1, token |-> token,
       id |-> id, to |-> to, key |-> key, text |-> text, rid |-> rid,
       saved |-> saved, old |-> IF to = None THEN old ELSE <<>>]

Started(version) ==
  [thinking |-> TRUE, inFlight |-> TRUE, controller |-> asked + 1, version |-> version]

Begin(p, task, version, spoilt) ==
  /\ page' = p
  /\ request' = Started(version)
  /\ tasks' = tasks \cup {task}
  /\ asked' = asked + 1
  /\ sent' = sent \cup (IF task.rid = 0 THEN {} ELSE {<<task.rid, task.text>>}) \cup spoilt
  /\ UNCHANGED <<threads, strayed>>

ThreadOf(p) == IF p.open # None THEN p.open ELSE Local(asked + 1)

(* submitPrompt *)
SubmitOn(p, text) ==
  LET n == asked + 1
      id == ThreadOf(p)
      rid == IF LoggedIn THEN n ELSE 0
      q == Updated(Added([p EXCEPT !.draft = NoText], id, Ask(n, text, rid, "new")), id)
  IN  Begin(q, Call("submit", q, id, n, text, rid, History(p.messages)), request.version + 1, {})

(* Faulty: the id is kept although the prompt was edited. *)
AnyPromptId(m, text, fresh) == IF m.rid # 0 THEN m.rid ELSE fresh

SentAs(m) == IF m.sentText # NoText THEN m.sentText ELSE m.text     \* requestPrompt || content
RequestId(m, text, fresh) ==   \* resolveMakeRequestId
  IF m.rid # 0 /\ text = SentAs(m) THEN m.rid ELSE fresh

(* The ids in ms that are not with what was sent under them. *)
Spoilt(ms) == {<<ms[i].rid, NoText>> : i \in {j \in DOMAIN ms : ms[j].rid # 0 /\ SentAs(ms[j]) # ms[j].text}}

(* Faulty: what followed the edited prompt stays below it. *)
EditedInPlace(ms, i, m) == [ms EXCEPT ![i] = m]

Edited(ms, i, m) == Append(SubSeq(ms, 1, i - 1), m)   \* applyEditedMakeMessageState

(* resendEdited: a message the server holds is edited there; otherwise the *)
(* conversation is cut here and sent as a new request.                     *)
ResendOn(p, key, text) ==
  LET i == IndexOf(p, key)
      m == p.messages[i]
      id == ThreadOf(p)
      rid == IF LoggedIn THEN RequestId(m, text, asked + 1) ELSE 0
      marked == IF rid = 0 THEN m ELSE [m EXCEPT !.rid = rid, !.sentText = text]
      spoilt == IF m.rid # 0 /\ m.sentText = NoText /\ text # m.text THEN {<<m.rid, NoText>>} ELSE {}
      there == LoggedIn /\ Backend(p, id) # None /\ m.mode # "follow-up"
      q == IF there THEN Updated([p EXCEPT !.messages[i] = marked], id)
           ELSE [p EXCEPT !.messages = Edited(@, i, [marked EXCEPT !.text = text])]
  IN  Begin(q, Call(IF there THEN "edit" ELSE "local", q, id, key, text, rid,
                    History(SubSeq(p.messages, 1, i - 1))),
            request.version, IF LoggedIn THEN {} ELSE spoilt)

Submit(text) ==
  /\ Gesture("chat") /\ SessionStays
  /\ ~Busy
  /\ SubmitOn(page, text)

Resend(key, text) ==
  /\ Gesture("chat") /\ SessionStays
  /\ ~Busy
  /\ IndexOf(page, key) # 0 /\ ~IsNote(page.messages[IndexOf(page, key)])
  /\ ResendOn(page, key, text)

(* The retry button of a prompt that met a conflict (retryConcurrent).     *)
RetryConcurrent(i) ==
  /\ Gesture("chat") /\ SessionStays
  /\ i \in DOMAIN page.messages /\ IsNote(page.messages[i])
  /\ LET m == page.messages[i]
         rest == {j \in DOMAIN page.messages : page.messages[j].key # m.key \/ page.messages[j].by # "user"}
         q == [page EXCEPT !.messages = Keep(@, rest), !.draft = m.text]
         p == Updated(q, q.open)
     IN  IF request.thinking \/ (m.mode = "edit note" /\ IndexOf(p, m.target) = 0)
         THEN /\ page' = p
              /\ request' = [request EXCEPT !.inFlight = FALSE]
              /\ Moves /\ UNCHANGED <<tasks, threads, asked, sent>>
         ELSE IF m.mode = "edit note" THEN ResendOn(p, m.target, m.text)
         ELSE SubmitOn(p, m.text)

----------------------------------------------------------------------------
(* What an answer does *)

(* An answer is applied while another prompt is still being sent or        *)
(* recovered, or it ends the session while others are awaited; or the      *)
(* conversation is gone below which a prompt that met a conflict is put.   *)
Unsettled(u) == u.kind \in Improving \/ u.then \in {"recover", "conflict"}
Gone(t) == t.kind = "list" /\ t.then = "conflict"
Astray(t) == Gone(t) \/ \E u \in tasks \ {t} : Unsettled(u)
Applies(t) == strayed' = (strayed \/ Astray(t) \/ (token' # token /\ tasks' # {}))

IsCurrentRequest(t) == request.controller = t.n
Stopped(t) ==      \* stopInFlight
  IF IsCurrentRequest(t) THEN [request EXCEPT !.controller = 0, !.inFlight = FALSE] ELSE request

(* refreshThread: the conversation when it has a number, else the list.    *)
Reading(t, then, p) ==
  LET b == IF Backend(p, t.id) # None THEN Backend(p, t.id) ELSE t.id
  IN  [t EXCEPT !.kind = IF LoggedIn /\ OnServer(b) THEN "thread" ELSE "list",
                !.then = then, !.token = token, !.to = b,
                !.old = IF then = "recover" THEN p.messages ELSE <<>>]

Recent(n) == [kind |-> "recent", of |-> "recent", then |-> "none", n |-> n, token |-> token,
              id |-> None, to |-> None, key |-> 0, text |-> NoText, rid |-> 0,
              saved |-> FALSE, old |-> <<>>]

SetMode(p, key, mode) ==
  IF IndexOf(p, key) = 0 THEN p ELSE [p EXCEPT !.messages[IndexOf(p, key)].mode = mode]

(* The prompt stays, marked as failed. *)
Failed(p, t) ==
  LET q == IF t.of = "submit" THEN SetMode(p, t.key, "follow-up") ELSE p
  IN  Updated(q, IF q.open # None THEN q.open ELSE t.id)

(* An answer: the reply is appended to the open conversation, stored under *)
(* the one that was asked, and the conversation is read back.              *)
Answered(t) ==
  LET res == Improve(t)
      p == [Improved(page, t.id, res.server) EXCEPT !.status = "connected"]
      q == [(IF t.of = "submit" THEN [p EXCEPT !.draft = NoText] ELSE
             IF IndexOf(p, t.key) # 0 /\ p.messages[IndexOf(p, t.key)].mode = "follow-up"
             THEN SetMode(p, t.key, "new") ELSE p)
              EXCEPT !.messages = Append(@, Reply(t.key, t.text))]
      r == Applied(Updated(q, t.id), t.id)
      sync == IF t.of = "submit" THEN LoggedIn ELSE t.rid # 0
      done == IF sync /\ Backend(r, t.id) # None /\ r.transfer = t.id
              THEN [r EXCEPT !.transfer = None] ELSE r
      rest == tasks \ {t}
  IN  /\ threads' = res.after
      /\ IF ~IsCurrentRequest(t)
         THEN page' = p /\ tasks' = rest /\ UNCHANGED request
         ELSE IF t.of = "edit"
         THEN /\ page' = p
              /\ request' = [request EXCEPT !.thinking = FALSE]
              /\ tasks' = rest \cup {Reading(t, "show", p)}
         ELSE /\ page' = done
              /\ request' = [Idle EXCEPT !.version = request.version]
              /\ tasks' = rest \cup (IF sync THEN {Reading(t, "show", done)} ELSE {})
      /\ SessionStays

(* handleBackendAccessError, as the conversation sees it. *)
HandleError(why, p, prompt) ==
  CASE why = "auth" /\ LoggedIn -> Expired(p, prompt)
    [] why = "limit"            -> [p EXCEPT !.transfer = p.open]
    [] OTHER                    -> p

SessionAfter(why) == IF why = "auth" /\ LoggedIn THEN SignOut ELSE SessionStays

Fails(t, why) ==
  LET p == HandleError(why, [page EXCEPT !.status = "fallback"], t.text)
      calm == [request EXCEPT !.thinking = FALSE]
      still == IF t.of = "edit" THEN calm ELSE [calm EXCEPT !.inFlight = FALSE, !.controller = 0]
      ended == [calm EXCEPT !.inFlight = FALSE, !.controller = 0]
      rest == tasks \ {t}
      read(then) == page' = p /\ request' = still /\ tasks' = rest \cup {Reading(t, then, p)}
      canRecover == why \notin {"auth", "limit"} /\ LoggedIn /\ Backend(p, t.id) # None
  IN  /\ SessionAfter(why)
      /\ CASE ~IsCurrentRequest(t) -> page' = p /\ tasks' = rest /\ UNCHANGED request
           [] IsCurrentRequest(t) /\ t.of # "local" /\ why = "conflict" -> read("conflict")
           [] IsCurrentRequest(t) /\ t.of # "local" /\ why = "reused" -> read("show")
           [] IsCurrentRequest(t) /\ t.of = "edit" /\ why = "gone" ->
                page' = p /\ request' = calm /\ tasks' = rest \cup {Recent(t.n)}
           [] IsCurrentRequest(t) /\ t.of # "local" /\ canRecover
                /\ why \in {"lost", "refused"} \cup (IF t.of = "submit" THEN {"gone"} ELSE {}) ->
                read("recover")
           [] OTHER ->
                /\ page' = IF t.of = "edit" THEN p ELSE HandleError(why, Failed(p, t), t.text)
                /\ request' = ended
                /\ tasks' = rest

Outcomes(t) ==
  {"ok", "lost", "refused"} \cup (IF t.to # None THEN {"conflict"} ELSE {})
    \cup (IF t.token # 0 THEN {"auth"} ELSE {"limit"})

ImproveAnswer(t, how) ==
  /\ t \in tasks /\ t.kind \in Improving
  /\ how \in Outcomes(t)
  /\ UNCHANGED <<left, asked, sent>>
  /\ IF how = "ok" /\ Improve(t).answer = "ok"
     THEN Answered(t)
     ELSE /\ threads' = IF how = "lost" THEN Improve(t).after ELSE threads
          /\ Fails(t, IF how = "ok" THEN Improve(t).answer ELSE how)
  /\ Applies(t)

(* The user cancels, or leaves the screen: the request is aborted, whether *)
(* or not the server has carried it out.                                   *)
Cancel(t) ==
  /\ Gesture("chat") /\ SessionStays
  /\ t \in tasks /\ t.kind \in Improving /\ IsCurrentRequest(t)
  /\ threads' \in {threads, Improve(t).after}
  /\ page' = Updated(IF t.of = "edit" THEN [page EXCEPT !.draft = t.text] ELSE page, t.id)
  /\ request' = [request EXCEPT !.thinking = FALSE, !.inFlight = FALSE, !.controller = 0]
  /\ tasks' = tasks \ {t}
  /\ UNCHANGED <<asked, sent>>
  /\ Applies(t)

(* Faulty: a prompt the server does not know is left out. *)
AsRead(p, t) == p

Restored(p, t) == [p EXCEPT !.messages = t.old]   \* the snapshot of the caller

Note(t) ==
  [Ask(asked + 1, t.text, t.rid, IF t.of = "edit" THEN "edit note" ELSE "note")
     EXCEPT !.target = IF t.of = "edit" THEN t.key ELSE 0]

(* What waited for the conversation to be read back goes on (finally       *)
(* included): the prompt that met a conflict is put below it, and one that *)
(* failed is looked for in it.                                             *)
GoesOn(t, p, found) ==
  LET idle == [Stopped(t) EXCEPT !.inFlight = FALSE]
      there == found /\ \E i \in DOMAIN p.messages :
                          p.messages[i].by = "user" /\ p.messages[i].text = t.text
  IN  CASE t.then = "conflict" ->
             /\ page' = Updated(Added([p EXCEPT !.draft = t.text], t.id, Note(t)), t.id)
             /\ request' = idle
             /\ asked' = asked + 1
        [] t.then = "recover" /\ ~there ->
             /\ page' = IF t.of = "edit" THEN Restored(p, t) ELSE Failed(Restored(p, t), t)
             /\ request' = IF t.of = "edit" THEN Stopped(t) ELSE idle
             /\ UNCHANGED asked
        [] t.then = "show" \/ (t.then = "recover" /\ there) ->
             page' = p /\ request' = Stopped(t) /\ UNCHANGED asked

(* refreshActiveMakeThreadFromBackend *)
ThreadAnswer(t, ok) ==
  /\ t \in tasks /\ t.kind = "thread"
  /\ SessionStays /\ UNCHANGED <<left, threads, sent>>
  /\ IF ok /\ ~Owned(t, t.to[2])
     THEN /\ tasks' = (tasks \ {t}) \cup {[t EXCEPT !.kind = "list"]}     \* 404
          /\ UNCHANGED <<page, request, asked, strayed>>
     ELSE /\ tasks' = tasks \ {t}
          /\ Applies(t)
          /\ GoesOn(t, IF ok THEN Refreshed(page, t.to) ELSE page, ok)

ListAnswer(t, ok) ==
  /\ t \in tasks /\ t.kind = "list"
  /\ tasks' = tasks \ {t}
  /\ SessionStays /\ UNCHANGED <<left, threads, sent>>
  /\ LET p == IF ok /\ t.token # 0 THEN Listed(page, AllMine(t.token)) ELSE page
         found == Known(p, t.to)
     IN  GoesOn(t, IF found THEN Opened(p, Entry(p, t.to)) ELSE p, found)
  /\ Applies(t)

(* refreshMakeThreadsFromBackend after a deletion or an edit that met 404. *)
RecentAnswer(t, how) ==
  /\ t \in tasks /\ t.kind = "recent"
  /\ tasks' = tasks \ {t}
  /\ request' = Stopped(t)
  /\ SessionAfter(how) /\ UNCHANGED <<left, threads, asked, sent>>
  /\ page' = IF how = "ok" THEN Listed(page, AllMine(t.token)) ELSE HandleError(how, page, NoText)
  /\ Applies(t)

----------------------------------------------------------------------------
(* The list of conversations *)

OpenThread(i) ==
  /\ Gesture("chat") /\ SessionStays
  /\ i \in DOMAIN page.recent
  /\ page' = Opened(page, page.recent[i])
  /\ Moves /\ UNCHANGED <<request, tasks, threads, asked, sent>>

BlankChat(p) == [p EXCEPT !.open = None, !.messages = <<>>, !.draft = NoText]

NewChat ==
  /\ Gesture("chat") /\ SessionStays
  /\ page.open # None
  /\ page' = BlankChat(page)
  /\ Moves /\ UNCHANGED <<request, tasks, threads, asked, sent>>

(* "New chat" offered by a prompt that met a conflict. *)
NewChatFromConflict(i) ==
  /\ Gesture("chat") /\ SessionStays
  /\ i \in DOMAIN page.messages /\ IsNote(page.messages[i])
  /\ page' = [BlankChat(page) EXCEPT !.draft = page.messages[i].text]
  /\ Moves /\ UNCHANGED <<request, tasks, threads, asked, sent>>

DeleteThread(i) ==
  /\ Gesture("chat") /\ SessionStays
  /\ i \in DOMAIN page.recent
  /\ LET e == page.recent[i]
         b == IF e.server # None THEN e.server ELSE e.id
     IN  IF LoggedIn /\ OnServer(b)
         THEN /\ tasks' = tasks \cup {[Recent(0) EXCEPT !.kind = "delete", !.key = b[2], !.to = e.id]}
              /\ UNCHANGED page
         ELSE page' = Deleted(page, e.id) /\ UNCHANGED tasks
  /\ Moves /\ UNCHANGED <<request, threads, asked, sent>>

(* A conversation already deleted (404) is dropped like one deleted now.   *)
DeleteAnswer(t, how) ==
  /\ t \in tasks /\ t.kind = "delete"
  /\ SessionAfter(how) /\ UNCHANGED <<left, request, asked, sent>>
  /\ threads' = IF how # "auth" /\ Owned(t, t.key)
                THEN [threads EXCEPT ![t.key].live = FALSE] ELSE threads
  /\ page' = IF how = "ok" THEN Deleted(page, t.to) ELSE HandleError(how, page, NoText)
  /\ tasks' = (tasks \ {t}) \cup (IF how = "ok" /\ LoggedIn THEN {Recent(0)} ELSE {})
  /\ Applies(t)

(* hydrateBackendMakeData, tried by every rendering. *)
Hydrate ==
  /\ page.status = "idle" /\ ~request.thinking
  /\ IF LoggedIn
     THEN /\ page' = [page EXCEPT !.status = "checking"]
          /\ tasks' = tasks \cup {[Recent(0) EXCEPT !.kind = "hydrate", !.key = request.version]}
     ELSE page' = [page EXCEPT !.status = "fallback"] /\ UNCHANGED tasks
  /\ SessionStays /\ UNCHANGED <<left, request, threads, asked, strayed, sent>>

HydrateAnswer(t, how) ==
  /\ t \in tasks /\ t.kind = "hydrate"
  /\ tasks' = tasks \ {t}
  /\ UNCHANGED <<left, request, threads, asked, sent>>
  /\ IF t.key # request.version
     THEN SessionStays /\ UNCHANGED <<page, strayed>>
     ELSE /\ SessionAfter(how)
          /\ page' = IF how = "ok"
                     THEN [Listed(page, AllMine(t.token)) EXCEPT !.status = "connected"]
                     ELSE [HandleError(how, page, NoText) EXCEPT !.status = "fallback"]
          /\ Applies(t)

----------------------------------------------------------------------------
(* Other screens' effects on this one *)

ChatSignIn ==
  /\ page' = [page EXCEPT !.status = "idle"]
  /\ Moves /\ UNCHANGED <<request, tasks, threads, asked, sent>>

(* A logout leaves the request that is being answered alone. *)
ChatSignOut ==
  /\ page' = Cleared(page)
  /\ Moves /\ UNCHANGED <<request, tasks, threads, asked, sent>>

ChatExpired ==
  /\ page' = Expired(page, NoText)
  /\ Moves /\ UNCHANGED <<request, tasks, threads, asked, sent>>

(* The page is loaded again: what storage kept is all that is left. *)
ChatUnload ==
  /\ page' = [(IF token' = token THEN page ELSE Cleared(page))
                EXCEPT !.improved = <<None, None>>, !.status = "idle"]
  /\ request' = Idle
  /\ tasks' = {}
  /\ UNCHANGED <<threads, asked, strayed, sent>>
=============================================================================
