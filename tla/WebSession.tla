------------------------------ MODULE WebSession ------------------------------
(***************************************************************************)
(* What every screen of the web page shares: the token of the signed-in    *)
(* account (state.authToken of app.js, with isLoggedIn), and the account   *)
(* each token was issued for.  A login brings a token never seen before,   *)
(* so a token says more than the name of its account.                      *)
(***************************************************************************)
EXTENDS Integers, Sequences, FiniteSets

CONSTANTS
  Accounts,     \* members who sign in on this browser
  Staff,        \* administrators who do
  MaxLogins,    \* bound on the tokens issued
  Budgets       \* bounds on what the user does on each screen of the page

Screens == {"session", "billing", "chat", "home", "library", "admin", "folders", "talk"}

ASSUME SessionAssumption ==
  /\ MaxLogins \in Nat /\ Accounts \cap Staff = {}
  /\ Budgets \subseteq [Screens -> Nat]

VARIABLES
  token,    \* authToken: 0 when nobody is signed in
  owners,   \* the account each token was issued for
  left      \* user actions still to come, by screen

sessionVars == <<token, owners, left>>

Tokens == 1..Len(owners)
Owner(t) == owners[t]
LoggedIn == token # 0
Staffed == LoggedIn /\ Owner(token) \in Staff     \* isAdminAccount

SessionInit ==
  /\ left \in Budgets
  /\ \/ token = 0 /\ owners = <<>>
     \/ \E a \in Accounts \cup IF left["admin"] = 0 THEN {} ELSE Staff :
          token = 1 /\ owners = <<a>>                     \* kept by storage

(* One more thing done by the user on a screen; an administrator has the   *)
(* console and, to look at, the home screen (guardAdminUserAction).        *)
Gesture(s) ==
  /\ left[s] > 0
  /\ Staffed => s \in {"session", "home", "admin"}
  /\ left' = [left EXCEPT ![s] = @ - 1]

(* How a call ends badly: the server refuses it; no answer comes in time   *)
(* or the way to it is lost, done or not; the token is no longer good.     *)
Faults == {"refused", "lost", "auth"}

(* The answer of /login: a new token replaces what was there. *)
SignIn(a) ==
  /\ Len(owners) < MaxLogins
  /\ owners' = Append(owners, a)
  /\ token' = Len(owners) + 1

SignOut == token' = 0 /\ UNCHANGED owners
SessionStays == UNCHANGED <<token, owners>>
=============================================================================
