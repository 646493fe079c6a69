------------------------------ MODULE WebFolders ------------------------------
(***************************************************************************)
(* The folders of the Make screen (make/make-folder-workflows.mjs, with    *)
(* state/state-make.mjs, the side panel of make/make-page-adapter.mjs and  *)
(* the reading of folders in effects/backend-effects.mjs).                 *)
(*                                                                         *)
(* A folder made here bears a local id (folder-<time>) until the page      *)
(* reads its folders again, even after its creation was answered and its   *)
(* number noted (serverId).  Handlers hold on to the folder and to the     *)
(* conversation they began with; both may have been replaced on the page   *)
(* by the time of the answer.  Left out: which menu or form is open, and   *)
(* demo accounts.                                                          *)
(***************************************************************************)
EXTENDS WebChat, TLC

CONSTANTS
  Names,        \* what folders may be called
  MaxFolders    \* MAX_CUSTOM_MAKE_FOLDERS, the server's limit too

ASSUME FoldersAssumption == MaxFolders \in Nat

VARIABLES
  drawer,    \* the side panel: folders, who is in which, what is looked at
  chores,    \* handlers waiting for an answer
  cabinet    \* the server's folders, and its conversations that are in one

folderVars == <<drawer, chores, cabinet>>

(* The folder "uncategorized" is None; All only ever is what is looked at. *)
All == <<"all", 0>>
Kept == IF left["folders"] = 0 \/ owners = <<>> THEN {} ELSE {1}

FoldersInit ==
  /\ drawer = [folders |-> {}, filed |-> <<>>, active |-> All, made |-> 0,
               read |-> FALSE,      \* the folders shown were read once
               loose |-> FALSE]     \* history: something crossed or got lost
  /\ chores = {}
  /\ cabinet = [folders |-> [k \in Kept |-> [owner |-> owners[1], name |-> CHOOSE n \in Names : TRUE,
                                             live |-> TRUE]],
                filing |-> [n \in Kept |-> 1]]

----------------------------------------------------------------------------
(* The server: MakeController's folders *)

Drawers(t) == {k \in DOMAIN cabinet.folders : t # 0 /\ cabinet.folders[k].live
                                              /\ cabinet.folders[k].owner = Owner(t)}
Placed(n) == IF n \in DOMAIN cabinet.filing /\ cabinet.filing[n] # 0
             THEN Server(cabinet.filing[n]) ELSE None

(* What is read, or set, at the server is never another member's.          *)
Mayfile(t, f) == f = None \/ f[2] \in Drawers(t)
Place(n, f) == [cabinet EXCEPT !.filing = (n :> IF f = None THEN 0 ELSE f[2]) @@ @]

Allowed(c) ==
  CASE c.kind = "create" -> Cardinality(Drawers(c.token)) < MaxFolders
    [] c.kind \in {"rename", "delete"} -> c.target[2] \in Drawers(c.token)
    [] c.kind = "move" -> c.to[2] \in Mine(c.token) /\ Mayfile(c.token, c.target)
    [] c.kind = "save" -> Mayfile(c.token, c.target)

Carried(c) ==
  LET k == c.target[2]
  IN  CASE c.kind = "create" ->
             [cabinet EXCEPT !.folders = Append(@, [owner |-> Owner(c.token), name |-> c.name, live |-> TRUE])]
        [] c.kind = "rename" -> [cabinet EXCEPT !.folders[k].name = c.name]
        [] c.kind = "delete" ->
             [cabinet EXCEPT !.folders[k].live = FALSE,
                             !.filing = [n \in DOMAIN @ |-> IF @[n] = k THEN 0 ELSE @[n]]]
        [] c.kind = "move" -> Place(c.to[2], c.target)
        [] c.kind = "save" -> Place(Len(threads) + 1, c.target)

----------------------------------------------------------------------------
(* The panel *)

Ids(p) == {p.recent[i].id : i \in DOMAIN p.recent}

(* sidePanel, on every rendering: nothing uncategorized is not looked at.  *)
Displayed(d) ==
  IF d.active = None /\ ~\E id \in DOMAIN d.filed : d.filed[id] = None
  THEN [d EXCEPT !.active = All] ELSE d

(* getBackendFolderId *)
Resolved(d, f) ==
  LET same == {x \in d.folders : x.id = f \/ x.server = f}
      noted == {x.server : x \in same} \ {None}
      candidate == IF noted = {} THEN f ELSE CHOOSE s \in noted : TRUE
  IN  IF OnServer(candidate) THEN candidate ELSE None

(* A conversation read from the server comes with its folder; a new one is *)
(* put in the folder looked at (updateRecentMakeThreadState), unless it    *)
(* was made to keep a prompt (createAuthRecoveryThread).                   *)
Fresh(d, id) == IF d.active = All \/ id[2] < 0 THEN None ELSE d.active
Refiled(d, p, heard) ==
  [id \in Ids(p) |-> IF id \in heard THEN Placed(id[2])
                     ELSE IF id \in DOMAIN d.filed THEN d.filed[id] ELSE Fresh(d, id)]

(* A list that was replaced, or a conversation that was: handlers under    *)
(* way hold the old objects.                                               *)
Dropped(ids, folders) ==
  {[c EXCEPT !.holdsThread = @ /\ c.thread \notin ids, !.holdsFolder = @ /\ ~folders] : c \in chores}
Rewritten(id) ==
  \E i \in DOMAIN page.recent, j \in DOMAIN page'.recent :
    /\ page.recent[i].id = id /\ page'.recent[j].id = id
    /\ page.recent[i].messages # page'.recent[j].messages

(* One conversation twice in the list: a guest's, which was stored without *)
(* an answer, was kept beside what the server has of it.                   *)
Twice(p) ==
  \E i, j \in DOMAIN p.recent :
    i # j /\ p.recent[i].server # None /\ p.recent[i].server = p.recent[j].server

Unnumbered(d) == \E f \in d.folders : f.server = None
LocalFolders(d) == {f \in d.folders : ~OnServer(f.id)}

(* The panel after a step of the conversation.                             *)
FoldersHear(heard) ==
  /\ drawer' = Displayed([drawer EXCEPT
       !.filed = Refiled(drawer, page', heard),
       !.loose = \/ @
                 \/ heard # {} /\ (chores # {} \/ LocalFolders(drawer) # {})
                 \/ Twice(page')
                 \/ \E id \in Ids(page') \ (heard \cup DOMAIN drawer.filed) : Fresh(drawer, id) # None])
  /\ chores' = Dropped(heard \cup {id \in Ids(page') : Rewritten(id)}, FALSE)
  /\ UNCHANGED cabinet

Numbers(p) == {id \in Ids(p) : OnServer(id)}

(* The conversations that a reading of the page brings. *)
Brought(t, ok) ==
  IF ~ok \/ t.token = 0 THEN {}
  ELSE IF t.kind # "thread" THEN Numbers(page')
  ELSE IF Owned(t, t.to[2]) THEN {t.to} ELSE {}

(* hydrateBackendMakeData: the folders come beside the conversations, an   *)
(* empty list is not taken over (applyMakeFoldersResult).                  *)
FoldersHydrated(t, listed, got) ==
  LET current == t.key = request.version
      here == {[id |-> Server(k), server |-> Server(k), name |-> cabinet.folders[k].name] : k \in Drawers(t.token)}
      heard == IF current THEN Brought(t, listed) ELSE {}
      new == got /\ current /\ here # {}
      d == [drawer EXCEPT !.folders = IF new THEN here ELSE @, !.filed = Refiled(drawer, page', heard)]
      astray == \E id \in DOMAIN d.filed : d.filed[id] \notin {None} \cup {f.id : f \in d.folders}
  IN  /\ drawer' = Displayed([d EXCEPT !.read = (@ \/ (got /\ current)),
                                       !.loose = (@ \/ (current /\ (chores # {} \/ astray)) \/ Twice(page'))])
      /\ chores' = Dropped(heard, new)
      /\ UNCHANGED cabinet

----------------------------------------------------------------------------
(* The user's handlers *)

(* The messages of a conversation that has no number yet. *)
Said(thread) ==
  IF thread = None \/ Backend(page, thread) # None THEN <<>>
  ELSE LET ms == Entry(page, thread).messages IN IF ms = <<>> THEN page.messages ELSE ms

Chore(kind, d, f, name, thread, to, back) ==
  [kind |-> kind, n |-> d.made, token |-> token, folder |-> f, target |-> Resolved(d, f), name |-> name,
   thread |-> thread, to |-> to, back |-> back, made |-> FALSE, stored |-> FALSE, crossed |-> FALSE,
   holdsThread |-> TRUE, holdsFolder |-> TRUE, said |-> Said(thread),
   was |-> IF kind = "delete" THEN <<drawer.folders, drawer.filed, drawer.active>> ELSE <<>>]

(* moveThreadToFolderOnBackend: a conversation without a number is stored  *)
(* first (ensureBackendMakeThreadId).                                      *)
Moving(c) ==
  LET b == IF c.holdsThread THEN Backend(page, c.thread) ELSE IF OnServer(c.thread) THEN c.thread ELSE None
  IN  [c EXCEPT !.kind = IF b = None THEN "save" ELSE "move", !.to = b]

OnItsWay(id) == \E c \in chores : c.thread = id

Guarded ==      \* guardMakeFolderMutation
  /\ Gesture("folders") /\ LoggedIn /\ SessionStays
  /\ UNCHANGED <<cabinet>>

(* createMakeFolder and, for a conversation, createMakeFolderAndMoveThread. *)
CreateFolder(name, thread) ==
  /\ Guarded
  /\ thread \in {None} \cup Ids(page)
  /\ Cardinality(drawer.folders) < MaxFolders /\ name \notin {f.name : f \in drawer.folders}
  /\ LET n == drawer.made + 1
         f == [id |-> Local(n), server |-> None, name |-> name]
         d == [drawer EXCEPT !.made = n, !.folders = @ \cup {f}, !.active = f.id]
     IN  IF thread = None
         THEN /\ drawer' = Displayed(d)
              /\ chores' = chores \cup {Chore("create", d, f.id, name, None, None, All)}
         ELSE /\ drawer' = Displayed([d EXCEPT !.filed[thread] = f.id, !.loose = (@ \/ OnItsWay(thread))])
              /\ chores' = chores \cup {Chore("create", d, f.id, name, thread, None, drawer.filed[thread])}

(* renameMakeFolder: a folder without a number is renamed here only.       *)
Named(d, f, name) == [d EXCEPT !.folders = {IF x.id = f THEN [x EXCEPT !.name = name] ELSE x : x \in @}]

RenameFolder(f, name) ==
  /\ Guarded
  /\ IF Resolved(drawer, f.id) = None
     THEN drawer' = [Named(drawer, f.id, name) EXCEPT !.loose = TRUE] /\ UNCHANGED chores
     ELSE /\ drawer' = [drawer EXCEPT !.made = @ + 1]
          /\ chores' = chores \cup {Chore("rename", drawer', f.id, name, None, None, None)}

(* Faulty: the conversations stay in the folder that is gone. *)
WithoutFolderOnly(d, f) == [d EXCEPT !.folders = {x \in @ : x.id # f}]

(* deleteMakeFolderState *)
WithoutFolder(d, f) ==
  [d EXCEPT !.folders = {x \in @ : x.id # f},
            !.filed = [id \in DOMAIN @ |-> IF @[id] = f THEN None ELSE @[id]],
            !.active = IF @ = f THEN All ELSE @]

(* performDeleteFolder *)
DeleteFolder(f) ==
  /\ Guarded
  /\ IF Resolved(drawer, f.id) = None
     THEN drawer' = Displayed([WithoutFolder(drawer, f.id) EXCEPT !.loose = TRUE]) /\ UNCHANGED chores
     ELSE /\ drawer' = [drawer EXCEPT !.made = @ + 1]
          /\ chores' = chores \cup {Chore("delete", drawer', f.id, NoText, None, None, None)}

(* moveThreadToFolder *)
Move(id, f) ==
  /\ Guarded
  /\ id \in Ids(page) /\ f # drawer.filed[id]
  /\ drawer' = Displayed([drawer EXCEPT !.made = @ + 1, !.filed[id] = f,
                !.loose = (@ \/ (f # None /\ Resolved(drawer, f) = None) \/ OnItsWay(id))])
  /\ chores' = chores \cup {Moving(Chore("move", drawer', f, NoText, id, None, drawer.filed[id]))}

OpenFolder(f) ==
  /\ Gesture("folders") /\ SessionStays
  /\ drawer.active # f
  /\ drawer' = Displayed([drawer EXCEPT !.active = f])
  /\ UNCHANGED <<chores, cabinet>>

(* The conversations of the panel: those of the folder looked at.          *)
InSight(id) == drawer.active = All \/ drawer.filed[id] = drawer.active

(* What a folder offers, its menu only to a member (folderButton).         *)
FolderButtons(f) ==
  \/ OpenFolder(f.id)
  \/ DeleteFolder(f)
  \/ \E name \in Names : RenameFolder(f, name)

(* What the menu of a conversation offers for its folder.                  *)
ThreadMenu(id) ==
  \/ \E f \in {None} \cup {x.id : x \in drawer.folders} : Move(id, f)
  \/ \E name \in Names : CreateFolder(name, id)

----------------------------------------------------------------------------
(* Answers *)

(* clearMakeSessionDataState: folders made here stay, number or not.       *)
PanelSignedOut(d) ==
  LET mine == LocalFolders(d)
  IN  [d EXCEPT !.folders = mine, !.filed = Refiled(d, page', {}), !.read = FALSE,
                !.active = IF @ \in {f.id : f \in mine} \cup {None} THEN @ ELSE All,
                !.loose = (@ \/ chores # {} \/ mine # {})]

(* createBackendMakeThread: the conversation as it was taken up, as far as  *)
(* the server keeps it.                                                    *)
Store(c) ==
  /\ threads' = Append(threads,
       [owner |-> Owner(c.token), live |-> TRUE, first |-> 0,
        messages |-> [i \in DOMAIN c.said |-> [c.said[i] EXCEPT !.mode = "new", !.sentText = NoText]]])
  /\ sent' = sent \cup Spoilt(c.said)
  /\ UNCHANGED <<request, tasks, asked>>

(* Faulty: a conversation stays where it was put. *)
StaysThere(d, c) == d

Back(d, c) == IF c.holdsThread /\ c.thread \in DOMAIN d.filed THEN [d EXCEPT !.filed[c.thread] = c.back] ELSE d

(* The changes made on trust are taken back: a folder is removed again, a  *)
(* conversation put where it was, a deletion restores the whole panel as   *)
(* it was when it began, over what has happened since.                     *)
TakenBack(d, c) ==
  CASE c.kind = "create" ->
         [Back([d EXCEPT !.folders = {x \in @ : x.id # c.folder}], c)
            EXCEPT !.active = c.back]
    [] c.kind \in {"move", "save"} -> IF c.made THEN d ELSE Back(d, c)
    [] c.kind = "rename" -> d
    [] c.kind = "delete" ->
         [d EXCEPT !.folders = c.was[1], !.active = c.was[3],
            !.filed = [id \in DOMAIN @ |-> IF id \in DOMAIN c.was[2] THEN c.was[2][id] ELSE @[id]]]

ChoreDone(c) ==
  /\ c \in chores /\ Allowed(c)
  /\ SessionStays /\ UNCHANGED left
  /\ cabinet' = Carried(c)
  /\ LET k == Len(cabinet'.folders)
         numbered == [drawer EXCEPT !.folders =
                        {IF x.id = c.folder /\ c.holdsFolder THEN [x EXCEPT !.server = Server(k)] ELSE x : x \in @}]
         d == CASE c.kind = "create" -> numbered
                [] c.kind = "rename" -> IF c.holdsFolder THEN Named(drawer, c.folder, c.name) ELSE drawer
                [] c.kind = "delete" -> WithoutFolder(drawer, c.folder)
                [] c.kind \in {"move", "save"} -> drawer
         gone == \/ c.kind \in {"create", "rename"}
                      /\ ~(c.holdsFolder /\ \E x \in drawer.folders : x.id = c.folder)
                 \/ c.kind # "move" /\ ~c.holdsThread
                 \/ c.kind = "save" /\ tasks # {}
         rest == {[x EXCEPT !.crossed = TRUE] : x \in chores \ {c}}
     IN  /\ drawer' = Displayed([d EXCEPT !.loose = (@ \/ gone)])
         /\ chores' = CASE c.kind = "create" /\ c.thread # None ->
                             rest \cup {Moving([c EXCEPT !.target = Server(k), !.made = TRUE])}
                        [] c.kind = "save" ->
                             rest \cup {[c EXCEPT !.kind = "move", !.to = Server(Len(threads) + 1), !.stored = TRUE]}
                        [] OTHER -> rest
  /\ IF c.kind = "save"
     THEN /\ Store(c)
          /\ page' = IF c.holdsThread /\ Known(page, c.thread)
                     THEN Numbered(page, c.thread, Server(Len(threads) + 1)) ELSE page
          /\ strayed' = (strayed \/ token # c.token)
     ELSE UNCHANGED chatVars

(* A call that failed, or whose answer got lost after it was carried out;  *)
(* a conversation that cannot be stored leaves the session open.           *)
ChoreFails(c, why) ==
  /\ c \in chores
  /\ why = "lost" => Allowed(c)
  /\ UNCHANGED left
  /\ IF c.kind = "save" THEN SessionStays ELSE SessionAfter(why)
  /\ cabinet' = IF why = "lost" THEN Carried(c) ELSE cabinet
  /\ IF c.kind = "save" /\ why = "lost"
     THEN Store(c) /\ UNCHANGED <<page, strayed>>
     ELSE IF token' = token THEN UNCHANGED chatVars ELSE ChatExpired
  /\ LET d == TakenBack(IF token' = token THEN drawer ELSE PanelSignedOut(drawer), c)
     IN  drawer' = Displayed([d EXCEPT !.loose = \/ @
                            \/ c.made \/ c.stored \/ c.crossed \/ chores # {c} \/ ~c.holdsThread \/ ~c.holdsFolder
                            \/ why = "lost" \/ token' # c.token])
  /\ chores' = {IF c.kind = "delete" THEN [x EXCEPT !.holdsFolder = FALSE] ELSE x : x \in chores \ {c}}

----------------------------------------------------------------------------
(* Other screens' effects on this one *)

FoldersSignOut == drawer' = Displayed(PanelSignedOut(drawer)) /\ UNCHANGED <<chores, cabinet>>

FoldersUnload ==
  /\ drawer' = [(IF token' = token THEN drawer ELSE PanelSignedOut(drawer))
                  EXCEPT !.loose = (@ \/ chores # {} \/ Unnumbered(drawer))]
  /\ chores' = {} /\ UNCHANGED cabinet
=============================================================================
