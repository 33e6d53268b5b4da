------------------------------ MODULE AppShell ------------------------------
(***************************************************************************)
(* The ways through the console: the routes of App and their redirects,    *)
(* the setup and login pages, and of AdminLayout what depends on who is    *)
(* logged in.  They share the session cookie, which the manager sets and   *)
(* takes back, and App's idea of whether the manager is set up, which is   *)
(* read once for every load of the page.                                   *)
(***************************************************************************)
EXTENDS Naturals

CONSTANTS MaxLoads,    \* bound: how often the page is loaded
          MayFail      \* may a question about the setup go unanswered?

ShellAssumption == MaxLoads \in Nat \ {0} /\ MayFail \in BOOLEAN

VARIABLES
    server,   \* the manager: initialized, and whom the cookie belongs to
    tab,      \* the page: App's state, the route, the states of the mounted pages
    asked     \* requests under way

shellVars == <<server, tab, asked>>

Roles == {"admin", "user"}
PublicRoutes == {"/", "/login", "/setup"}

\* Where a route leads: App redirects by the answer it got when it was loaded.
Landed(knows, r) ==
    IF knows = "no" THEN "/setup"
    ELSE IF knows = "yes" /\ r = "/setup" THEN "/login" ELSE r

\* A page that is mounted starts from scratch; Setup and AdminLayout ask first.
Mounted(t, r) ==
    [t EXCEPT !.route = r, !.setup = "checking", !.login = "form", !.menu = "admin", !.leaving = FALSE]
Asks(r) == CASE r = "/setup" -> {"setupStatus"} [] r = "/admin" -> {"auth"} [] OTHER -> {}

ShellInit ==
    /\ \E i \in BOOLEAN, c \in Roles \cup {"nobody"} :
          server = [initialized |-> i, cookie |-> IF i THEN c ELSE "nobody"]
    /\ \E r \in PublicRoutes \cup {"/admin"} :
          tab = [knows |-> "unknown", route |-> r, setup |-> "checking", login |-> "form",
                 menu |-> "admin", leaving |-> FALSE, timer |-> FALSE, loads |-> 1]
    /\ asked = {"appStatus"}

ShellTypeOK ==
    /\ server.initialized \in BOOLEAN /\ server.cookie \in Roles \cup {"nobody"}
    /\ tab.knows \in {"unknown", "yes", "no"} /\ tab.route \in PublicRoutes \cup {"/admin"}
    /\ tab.setup \in {"checking", "form", "sending", "success"} /\ tab.login \in {"form", "sending"}
    /\ tab.menu \in Roles /\ {tab.timer, tab.leaving} \subseteq BOOLEAN
    /\ asked \subseteq {"appStatus", "setupStatus", "init", "login", "logout", "auth"}

\* navigate: what a page left behind asked dies with it.
Navigate(t, r, open) ==
    LET to == Landed(t.knows, r)
    IN  IF to = t.route /\ r = to THEN tab' = t /\ asked' = open
        ELSE tab' = Mounted(t, to) /\ asked' = (open \ {"setupStatus", "auth"}) \cup Asks(to)

-----------------------------------------------------------------------------
(* App. *)

\* Without an answer the manager is taken to be set up.  The routes are drawn
\* only now, the one of the address first.
AppStatus ==
    /\ "appStatus" \in asked
    /\ \E k \in {IF server.initialized THEN "yes" ELSE "no"} \cup (IF MayFail THEN {"yes"} ELSE {}) :
          LET to == Landed(k, tab.route)
          IN  /\ tab' = Mounted([tab EXCEPT !.knows = k], to)
              /\ asked' = (asked \ {"appStatus"}) \cup Asks(to)
    /\ UNCHANGED server

\* A link or the menu; only a page that is drawn has them.
Follow(r) ==
    /\ tab.knows # "unknown" /\ tab.route \in {"/", "/login", "/admin"} /\ r # tab.route
    /\ Navigate(tab, r, asked) /\ UNCHANGED server

\* The address bar: everything starts again.  Answers under way are lost, what
\* they answer may have been done.
Reload(r) ==
    /\ tab.loads < MaxLoads
    /\ \/ UNCHANGED server
       \/ "init" \in asked /\ ~server.initialized /\ server' = [initialized |-> TRUE, cookie |-> "admin"]
    /\ tab' = [Mounted(tab, r) EXCEPT !.knows = "unknown", !.timer = FALSE, !.loads = @ + 1]
    /\ asked' = {"appStatus"}

\* Another tab, or the end of the session, changes whom the cookie belongs to.
CookieChanges ==
    /\ server.initialized
    /\ \E c \in Roles \cup {"nobody"} : c # server.cookie /\ server' = [server EXCEPT !.cookie = c]
    /\ UNCHANGED <<tab, asked>>

-----------------------------------------------------------------------------
(* Setup. *)

SetupStatus ==
    /\ "setupStatus" \in asked
    /\ \/ server.initialized /\ Navigate(tab, "/login", asked \ {"setupStatus"})
       \/ /\ MayFail \/ ~server.initialized
          /\ tab' = [tab EXCEPT !.setup = "form"]
          /\ asked' = asked \ {"setupStatus"}
    /\ UNCHANGED server

SetupSubmit ==
    /\ tab.route = "/setup" /\ tab.knows # "unknown" /\ tab.setup = "form"
    /\ tab' = [tab EXCEPT !.setup = "sending"] /\ asked' = asked \cup {"init"}
    /\ UNCHANGED server

\* The manager accepts one setup only; it logs the new administrator in.
SetupInit ==
    /\ "init" \in asked /\ asked' = asked \ {"init"}
    /\ \/ /\ ~server.initialized /\ server' = [initialized |-> TRUE, cookie |-> "admin"]
          /\ tab' = IF tab.setup = "sending" THEN [tab EXCEPT !.setup = "success", !.timer = TRUE] ELSE tab
       \/ /\ tab' = [tab EXCEPT !.setup = IF @ = "sending" THEN "form" ELSE @]
          /\ UNCHANGED server

\* 1.5 s after the success.
SetupEnters ==
    /\ tab.timer /\ Navigate([tab EXCEPT !.timer = FALSE], "/admin", asked)
    /\ UNCHANGED server

-----------------------------------------------------------------------------
(* Login, and the layout of the console. *)

LoginSubmit ==
    /\ tab.route = "/login" /\ tab.knows = "yes" /\ tab.login = "form"
    /\ tab' = [tab EXCEPT !.login = "sending"] /\ asked' = asked \cup {"login"}
    /\ UNCHANGED server

\* The answer of a login whose page was left navigates all the same.
LoginAnswer ==
    /\ "login" \in asked
    /\ \/ /\ server.initialized
          /\ \E c \in Roles : server' = [server EXCEPT !.cookie = c]
          /\ Navigate([tab EXCEPT !.login = "form"], "/admin", asked \ {"login"})
       \/ /\ tab' = [tab EXCEPT !.login = "form"] /\ asked' = asked \ {"login"}
          /\ UNCHANGED server

\* Faulty: the permission is only set by an answer, and its start value is an
\* administrator's.
AuthAnswerNoCatch ==
    /\ "auth" \in asked /\ asked' = asked \ {"auth"}
    /\ \/ server.cookie # "nobody" /\ tab' = [tab EXCEPT !.menu = server.cookie]
       \/ tab' = tab
    /\ UNCHANGED server

\* No answer, or a 401, leaves the menu of a user.
AuthAnswer ==
    /\ "auth" \in asked /\ asked' = asked \ {"auth"}
    /\ \/ server.cookie # "nobody" /\ tab' = [tab EXCEPT !.menu = server.cookie]
       \/ tab' = [tab EXCEPT !.menu = "user"]
    /\ UNCHANGED server

Logout ==
    /\ tab.route = "/admin" /\ tab.knows = "yes" /\ ~tab.leaving
    /\ tab' = [tab EXCEPT !.leaving = TRUE] /\ asked' = asked \cup {"logout"}
    /\ UNCHANGED server

\* Faulty: a logout that failed is given up.
LogoutAnswerStays ==
    /\ "logout" \in asked
    /\ \/ /\ server' = [server EXCEPT !.cookie = "nobody"]
          /\ Navigate(tab, "/login", asked \ {"logout"})
       \/ asked' = asked \ {"logout"} /\ UNCHANGED <<server, tab>>

\* The layout leaves for the login page also when the manager was not reached,
\* and the cookie still holds.
LogoutAnswer ==
    /\ "logout" \in asked
    /\ \/ server' = [server EXCEPT !.cookie = "nobody"]
       \/ UNCHANGED server
    /\ Navigate(tab, "/login", asked \ {"logout"})

ShellSystem ==
    AppStatus \/ SetupStatus \/ SetupInit \/ SetupEnters \/ LoginAnswer \/ AuthAnswer \/ LogoutAnswer

ShellNext ==
    \/ ShellSystem \/ CookieChanges \/ SetupSubmit \/ LoginSubmit \/ Logout
    \/ \E r \in PublicRoutes \cup {"/admin"} : Follow(r) \/ Reload(r)

\* Each answer arrives, and the timer fires; nobody has to load the page again.
ShellFair ==
    /\ WF_shellVars(AppStatus) /\ WF_shellVars(SetupStatus) /\ WF_shellVars(SetupInit)
    /\ WF_shellVars(SetupEnters) /\ WF_shellVars(LoginAnswer) /\ WF_shellVars(LogoutAnswer)

ShellSpec == ShellInit /\ [][ShellNext]_shellVars /\ ShellFair

-----------------------------------------------------------------------------
(* A setup that succeeded leads into the console, as its message says.       *)
(* It does not: App goes by what it was told before the setup, and sends     *)
(* every route back to the setup page, which sends it on, until the page is  *)
(* loaded again.                                                             *)
SetupLeadsIn == tab.setup = "success" ~> tab.route # "/setup"

(* After its question about the session was answered, the layout shows the   *)
(* administrator's menu only if an administrator's cookie was sent with it,  *)
(* in whatever order logins, logouts and failures follow each other.         *)
MenuEarned ==
    [][tab'.route = "/admin" /\ tab'.knows = "yes" /\ tab'.menu = "admin" /\ "auth" \in asked \ asked'
         => server.cookie = "admin"]_shellVars

(* A logout ends: the layout is left whatever the manager answers.           *)
LogoutLeaves == tab.leaving ~> ~tab.leaving
=============================================================================
