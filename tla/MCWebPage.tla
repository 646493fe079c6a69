------------------------------ MODULE MCWebPage ------------------------------
(***************************************************************************)
(* A small instance of WebPage.  The screens share little, so the user's   *)
(* gestures are rationed per screen: each budget lets one screen, or a few *)
(* steps of several, be explored to the end.                               *)
(***************************************************************************)
EXTENDS WebPage

Budget(s, b, c, h, l) ==
  [session |-> s, billing |-> b, chat |-> c, home |-> h, library |-> l, admin |-> 0, folders |-> 0, talk |-> 0]
Desk(s, a) == [Budget(s, 0, 0, 0, 0) EXCEPT !.admin = a]
Panel(s, c, f) == [Budget(s, 0, c, 0, 0) EXCEPT !.folders = f]
Dialog(s, t) == [Budget(s, 0, 0, 0, 0) EXCEPT !.talk = t]
MCBudgets == {Budget(0, 0, 3, 0, 0), Budget(1, 0, 2, 0, 0), Budget(2, 0, 1, 0, 0),
              Budget(0, 3, 0, 0, 0), Budget(2, 1, 0, 0, 0), Budget(1, 2, 0, 0, 0), Budget(0, 1, 1, 0, 0),
              Budget(0, 0, 0, 3, 0), Budget(0, 0, 0, 0, 2), Budget(1, 0, 0, 0, 1),
              Budget(0, 0, 0, 1, 1), Desk(0, 2), Desk(1, 1),
              Panel(0, 0, 3), Panel(1, 0, 2), Panel(0, 1, 1), Dialog(0, 3), Dialog(1, 2)}
MCAuthor == [p \in Prompts |-> IF p = "m" THEN "ann" ELSE "bob"]

(* Accounts and prompts may be exchanged together, so the one who is       *)
(* signed in at first is ann; where nobody logs in, bob's plan does not    *)
(* matter and is the free one.  Home list and my page together, and a page *)
(* not read before, start with prompts that are kept.                      *)
MCInit ==
  /\ Init
  /\ token = 0 \/ Owner(token) # "bob"
  /\ left["session"] = 0 => subs["bob"] = NewSub
  /\ left["library"] # 0 /\ LoggedIn /\ (left["home"] # 0 \/ ~library.synced)
       => \A a \in Accounts : shelf.saved[a] = Prompts
MCSpec == MCInit /\ [][Next]_vars
=============================================================================
