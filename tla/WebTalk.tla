------------------------------- MODULE WebTalk -------------------------------
(***************************************************************************)
(* The dialog of a prompt: its comments and replies, their likes and       *)
(* reports (interactions/prompt-engagement-controller.mjs and              *)
(* prompt-workflows.mjs, with state/state-interaction.mjs and the views).  *)
(* A comment is shown before the server has it, under an id of its own;    *)
(* after every answer, good or bad, the list is read again and replaced.   *)
(* Likes are shown on trust and never read again; reports wait.            *)
(***************************************************************************)
EXTENDS WebChat, WebLibrary

VARIABLES
  talk,     \* the dialog, what the page keeps of the comments, and its calls
  board     \* the server: comments, who likes them, who reported them

talkVars == <<talk, board>>

Topic == CHOOSE p \in Prompts : TRUE     \* the prompt that is opened

----------------------------------------------------------------------------
(* The server: CommentController and ReportController *)

Row(a, text, under) == [by |-> a, text |-> text, likers |-> {}, under |-> under, gone |-> FALSE, live |-> TRUE]

Viewable(t) == Topic \in shelf.alive /\ (Topic \in shelf.shared \/ (t # 0 /\ Owner(t) = Author[Topic]))
Stands(b, id) == id \in DOMAIN b.rows /\ b.rows[id].live
Speaks(b, id) == Stands(b, id) /\ ~b.rows[id].gone

Posted(c) ==
  /\ c.kind = "report" \/ Viewable(c.token)
  /\ CASE c.kind = "add" -> TRUE
       [] c.kind \in {"reply", "like"} -> Speaks(board, c.id)
       [] c.kind = "edit" -> Speaks(board, c.id) /\ board.rows[c.id].by = Owner(c.token)
       [] c.kind = "remove" -> Stands(board, c.id) /\ board.rows[c.id].by = Owner(c.token)
       [] c.kind = "unlike" -> Stands(board, c.id)
       [] c.kind = "report" -> TRUE

(* A comment with replies stays as a deleted one; with its last reply a    *)
(* deleted comment goes too.                                               *)
Removed(rows, id) ==
  LET replied(r, n) == \E k \in DOMAIN r : r[k].live /\ r[k].under = n
      one == IF replied(rows, id) THEN [rows EXCEPT ![id].gone = TRUE] ELSE [rows EXCEPT ![id].live = FALSE]
      over == rows[id].under
  IN  IF over # 0 /\ one[over].gone /\ ~replied(one, over) THEN [one EXCEPT ![over].live = FALSE] ELSE one

Published(c) ==
  LET a == Owner(c.token)
  IN  CASE c.kind = "add"    -> [board EXCEPT !.rows = Append(@, Row(a, c.text, 0))]
        [] c.kind = "reply"  -> [board EXCEPT !.rows = Append(@, Row(a, c.text, c.id))]
        [] c.kind = "edit"   -> [board EXCEPT !.rows[c.id].text = c.text]
        [] c.kind = "remove" -> [board EXCEPT !.rows = Removed(@, c.id)]
        [] c.kind = "like"   -> [board EXCEPT !.rows[c.id].likers = @ \cup {a}]
        [] c.kind = "unlike" -> [board EXCEPT !.rows[c.id].likers = @ \ {a}]
        [] c.kind = "report" -> [board EXCEPT !.reports = @ \cup {<<a, c.id>>}]

(* What GET /api/prompts/{id}/comments answers; of a deleted comment only  *)
(* that there was one is shown.                                            *)
Comment(id, by, text, likes, under, gone) ==
  [id |-> id, by |-> IF gone THEN Guest ELSE by, text |-> IF gone THEN "" ELSE text,
   likes |-> IF gone THEN 0 ELSE likes, under |-> under, gone |-> gone]
Thread(b) ==
  {LET r == b.rows[n] IN Comment(n, r.by, r.text, Cardinality(r.likers), r.under, r.gone)
     : n \in {k \in DOMAIN b.rows : b.rows[k].live}}
Counted(list) == Cardinality({c \in list : ~c.gone})       \* countCommentThread

----------------------------------------------------------------------------
(* The page *)

(* A run that opens no dialog has nothing to say about it.                 *)
TalkInit ==
  /\ LET a == CHOOSE x \in Accounts : TRUE
         b == IF Accounts = {a} THEN a ELSE CHOOSE x \in Accounts \ {a} : TRUE
         text == CHOOSE t \in Texts : TRUE
         said == <<Row(a, text, 0), Row(b, text, 1)>>
     IN  \E n \in IF left["talk"] = 0 THEN {0} ELSE {0, 1, 2} : board = [rows |-> SubSeq(said, 1, n), reports |-> {}]
  /\ talk = [open |-> FALSE, form |-> 0,      \* the comment a report is written about
             list |-> {}, count |-> Counted(Thread(board)),
             liked |-> [k \in Accounts \cup Staff \cup {Guest} |-> {}],
             reported |-> [k \in Accounts \cup Staff \cup {Guest} |-> {}],
             calls |-> {}, made |-> 0,
             stale |-> TRUE,       \* history: the server changed since it was read
             loose |-> FALSE]      \* history: a mark that nothing corrects

Posting(kind, id, text) ==
  [kind |-> kind, n |-> FreeIn(talk.calls), id |-> id, text |-> text, token |-> token, seen |-> board]

(* hydratePromptComments: the whole list, whoever asks. *)
Rereading(t, b) == [t EXCEPT !.calls = @ \cup {[kind |-> "read", n |-> FreeIn(@), id |-> 0, text |-> "",
                                                token |-> token', seen |-> b]}]
Posts(t, c) == [t EXCEPT !.calls = @ \cup {c}]

(* Counts go up and down with what is done here, never below zero.         *)
CountBy(t, d) == [t EXCEPT !.count = IF @ + d < 0 THEN 0 ELSE @ + d]

Own(c) == ~c.gone /\ LoggedIn /\ c.by = Owner(token)      \* canDeleteComment
InDialog == Gesture("talk") /\ talk.open /\ SessionStays /\ UNCHANGED board
Speaking == InDialog /\ LoggedIn

OpenTalk ==
  /\ Gesture("talk") /\ ~talk.open /\ OnScreen(Topic) /\ SessionStays /\ UNCHANGED board
  /\ talk' = Rereading([talk EXCEPT !.open = TRUE], board)

Away(t) == [t EXCEPT !.open = FALSE, !.form = 0]

(* closeTopModalState: what lies on top goes first.                        *)
CloseTop ==
  /\ InDialog
  /\ talk' = IF talk.form # 0 THEN [talk EXCEPT !.form = 0] ELSE [talk EXCEPT !.open = FALSE]

(* addPromptComment, addCommentReply *)
Say(kind, under, text) ==
  LET id == -(talk.made + 1)
  IN  talk' = Posts(CountBy([talk EXCEPT !.made = @ + 1,
                                         !.list = @ \cup {Comment(id, Owner(token), text, 0, under, FALSE)}], 1),
                    Posting(kind, under, text))
AddComment(text) == Speaking /\ Say("add", 0, text)
AddReply(c, text) == Speaking /\ ~c.gone /\ c.under = 0 /\ Say("reply", c.id, text)

(* updateOwnComment: one the server has not told its number of is changed  *)
(* here only.                                                              *)
EditComment(c, text) ==
  /\ Speaking /\ Own(c) /\ c.text # text
  /\ LET t == [talk EXCEPT !.list = (@ \ {c}) \cup {[c EXCEPT !.text = text]}]
     IN  talk' = IF c.id > 0 THEN Posts(t, Posting("edit", c.id, text)) ELSE t

(* performDeleteComment, once confirmed *)
Without(list, c) ==
  IF \E r \in list : r.under = c.id
  THEN (list \ {c}) \cup {Comment(c.id, c.by, c.text, c.likes, c.under, TRUE)}
  ELSE list \ {c}
RemoveComment(c) ==
  /\ Speaking /\ Own(c)
  /\ LET t == CountBy([talk EXCEPT !.list = Without(@, c), !.liked[Keeper] = @ \ {c.id},
                                   !.reported[Keeper] = @ \ {c.id}], -1)
     IN  talk' = IF c.id > 0 THEN Posts(t, Posting("remove", c.id, "")) ELSE t

(* toggleLikeComment: the server is told even of a comment it has given no *)
(* number yet, and nothing is read afterwards.                             *)
Liking(c) == c.kind \in {"like", "unlike"}
ToggleCommentLike(c) ==
  /\ Speaking /\ ~c.gone /\ ~Own(c)
  /\ LET on == c.id \in talk.liked[Keeper]
         likes == IF ~on THEN c.likes + 1 ELSE IF c.likes = 0 THEN 0 ELSE c.likes - 1
     IN  talk' = Posts([talk EXCEPT
                          !.liked[Keeper] = IF on THEN @ \ {c.id} ELSE @ \cup {c.id},
                          !.list = (@ \ {c}) \cup {[c EXCEPT !.likes = likes]},
                          !.loose = @ \/ \E x \in talk.calls : Liking(x) /\ x.id = c.id],
                       Posting(IF on THEN "unlike" ELSE "like", c.id, ""))

(* openReportComment; the button of a comment reported before says so.     *)
OpenReport(c) ==
  /\ Speaking /\ ~c.gone /\ ~Own(c) /\ c.id \notin talk.reported[Keeper]
  /\ talk' = [talk EXCEPT !.form = c.id]

(* reportComment: the form stays until the answer, so it can be sent twice. *)
Reported(t, k, id) == [t EXCEPT !.reported[k] = @ \cup {id}, !.form = 0]
SubmitReport ==
  /\ Gesture("talk") /\ LoggedIn /\ talk.form # 0 /\ (\E c \in talk.list : c.id = talk.form)
  /\ SessionStays /\ UNCHANGED board
  /\ IF home.status = "connected" /\ talk.form > 0
     THEN talk' = Posts(talk, Posting("report", talk.form, "")) /\ UNCHANGED library
     ELSE /\ talk' = [Reported(talk, Keeper, talk.form) EXCEPT !.loose = TRUE]
          /\ library' = RefreshedPage(library, home, token)

(* Somebody else writes a comment, or takes back one of theirs.            *)
Others(a) == /\ Gesture("talk") /\ (LoggedIn => a # Owner(token)) /\ SessionStays
             /\ talk' = [talk EXCEPT !.stale = TRUE]
SaidElsewhere(a, text) == Others(a) /\ board' = [board EXCEPT !.rows = Append(@, Row(a, text, 0))]
RemovedElsewhere(a, n) ==
  /\ Others(a) /\ Speaks(board, n) /\ board.rows[n].by = a
  /\ board' = [board EXCEPT !.rows = Removed(@, n)]

----------------------------------------------------------------------------
(* Answers *)

Rewriting == {"add", "reply", "edit", "remove"}     \* followed by a reading

(* Faulty: the list is read again only after a change that went well.      *)
ReadIfDone(t, c, done) ==
  IF c.kind \notin Rewriting \/ ~done THEN t
  ELSE IF token' # 0 THEN Rereading(t, board') ELSE [t EXCEPT !.stale = TRUE]

(* callBackendApi turns a failure into null, so what follows is the same:  *)
(* a reading, unless nobody is signed in any more.                         *)
FollowedUp(t, c, done) ==
  IF c.kind \notin Rewriting THEN t
  ELSE IF token' # 0 THEN Rereading(t, board') ELSE [t EXCEPT !.stale = TRUE]

TalkDone(c) ==
  /\ c \in talk.calls /\ c.kind # "read" /\ Posted(c)
  /\ SessionStays /\ UNCHANGED left
  /\ board' = Published(c)
  /\ LET t == [talk EXCEPT !.calls = @ \ {c}, !.loose = @ \/ (c.token # token /\ c.kind = "report")]
     IN  talk' = FollowedUp(IF c.kind = "report" THEN Reported(t, Keeper, c.id) ELSE t, c, TRUE)
  /\ library' = IF c.kind = "report" THEN RefreshedPage(library, home, token) ELSE library

(* A like that fails leaves its mark.                                      *)
TalkFails(c, why) ==
  /\ c \in talk.calls /\ c.kind # "read" /\ (why = "lost" => Posted(c))
  /\ UNCHANGED left
  /\ board' = IF why = "lost" THEN Published(c) ELSE board
  /\ LET t == [talk EXCEPT !.calls = @ \ {c}, !.loose = @ \/ Liking(c) \/ (c.kind = "report" /\ why = "lost")]
     IN  talk' = FollowedUp(IF token' = token THEN t ELSE Away(t), c, FALSE)

(* Readings replace the list in the order they are answered; one that      *)
(* fails leaves it.                                                        *)
TalkRead(c, ok, late) ==
  /\ c \in talk.calls /\ c.kind = "read" /\ (ok => Viewable(c.token))
  /\ SessionStays /\ UNCHANGED <<left, board>>
  /\ LET list == Thread(IF late THEN board ELSE c.seen)
         t == [talk EXCEPT !.calls = @ \ {c}]
     IN  talk' = IF ok
                 THEN [t EXCEPT !.list = list, !.count = Counted(list),
                                !.stale = list # Thread(board) \/ \E x \in t.calls : Liking(x)]
                 ELSE [t EXCEPT !.stale = TRUE]

----------------------------------------------------------------------------
(* Other screens' effects on this one *)

TalkSignOut == talk' = Away(talk) /\ UNCHANGED board

(* A search from the dialog, and going to another page. *)
TalkHides == talk' = [talk EXCEPT !.open = FALSE] /\ UNCHANGED board

(* Storage keeps the comments and the marks; calls are forgotten.          *)
TalkUnload ==
  /\ UNCHANGED board
  /\ talk' = [Away(talk) EXCEPT !.calls = {}, !.stale = TRUE,
                                !.loose = @ \/ \E c \in talk.calls : c.kind \notin Rewriting \cup {"read"}]
=============================================================================
