----------------------------- MODULE MCExtension -----------------------------
(***************************************************************************)
(* A small instance of Extension.  The parts share little, so the user's   *)
(* gestures are rationed per part: each budget lets one part, or a few     *)
(* steps of several, be explored to the end.                               *)
(***************************************************************************)
EXTENDS Extension, TLC

Budget(p, c, s, f, l) == [page |-> p, chat |-> c, session |-> s, form |-> f, list |-> l]
MCBudgets == {Budget(0, 3, 0, 0, 0), Budget(0, 2, 2, 0, 0), Budget(3, 1, 0, 0, 0),
              Budget(0, 0, 0, 3, 0), Budget(0, 0, 1, 2, 0), Budget(0, 0, 1, 0, 3)}

MCSymmetry == Permutations(Texts)

(* A page nobody uses is a page of another kind, and a panel nobody signs  *)
(* in to or out of while the page is in use is a guest's.                  *)
MCInit ==
  /\ Init
  /\ left.page = 0 => site = "other" /\ field = 0 /\ inline = Script
  /\ left.page # 0 => session.stored = 0

(* Where nothing is done with the list, what is read at a login is         *)
(* answered well and at once, and so is the chat while nobody uses it; and *)
(* where nothing is done with forms, one that opens is dealt with at once. *)
Readings == {c \in side.calls : c.kind \in {"usage", "hydrate"}}
Unused == left["page"] = 0 /\ left["chat"] = 0 /\ made = 0
MCNext ==
  IF Unused /\ ~panel.uuid THEN LoadUuid /\ InPanel /\ ByItself
  ELSE IF Unused /\ jobs # {}
  THEN \E j \in jobs : HydrateAnswer(j, "ok") /\ InPanel /\ ByItself
  ELSE IF left["list"] = 0 /\ Readings # {}
  THEN \E c \in Readings : (UsageAnswer(c, "ok") \/ SavedAnswer(c, "ok")) /\ InAccount /\ ByItself
  ELSE IF left["form"] = 0 /\ left["list"] = 0 /\ session.mode # ""
  THEN \/ CloseForm /\ InAccount /\ ByItself
       \/ \E a \in Accounts : TypeName("userId", a) /\ InAccount /\ ByItself
       \/ SubmitForm("login") /\ InAccount /\ Gesture("session")
       \/ \E c \in side.calls, how \in {"ok", "lost"} : LoginAnswer(c, how) /\ InAccount /\ ByItself
  ELSE Next
MCSpec == MCInit /\ [][MCNext]_vars
=============================================================================
