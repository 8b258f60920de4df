-------------------------------- MODULE UiShell --------------------------------
(***************************************************************************)
(* What every page of the user interface stands on: the router, the        *)
(* session, which lives twice (the token in local storage, its image in    *)
(* the store), and the axios client that attaches the token to a request   *)
(* and throws the session away when an answer says 401.                    *)
(*                                                                         *)
(* One page is mounted at a time.  Navigating changes the location; React  *)
(* then replaces the page.  A request outlives the page that sent it; its  *)
(* answer can no longer touch that page's state, but the code that waits   *)
(* for it still runs.                                                      *)
(***************************************************************************)
EXTENDS FiniteSets

CONSTANTS
  Slots,   \* bound: the places for requests that are under way
  Served   \* the calls the API behind the pages has a handler for

ASSUME ShellAssumption == IsFiniteSet(Slots) /\ Slots # {}

VARIABLES
  storage,   \* the token in local storage: "none", "good" or "expired"
  auth,      \* the store: is a user logged in, is a login under way
  location,  \* the path the router is at
  mounted,   \* the page React shows, "none" before the first rendering
  net,       \* the requests under way
  ui         \* the state of the mounted page

session == <<storage, auth>>
shell == <<storage, auth, location, mounted>>
vars == <<storage, auth, location, mounted, net, ui>>

--------------------------------------------------------------------------------
\* The pages.

PublicPages == {"home", "login", "register"}

\* "static" stands for the ten pages that ask the API for nothing.  "crashed" is the
\* router's own error screen, which replaces the page whose rendering threw.
ProtectedPages ==
  {"dashboard", "agents", "alerts", "vulnerabilities", "network", "cloud", "topology",
   "playbooks", "forensics", "static", "host", "explorer", "incidents", "console",
   "settings", "profile", "editor", "newPlaybook"}

Pages == PublicPages \cup ProtectedPages \cup {"crashed"}

\* The sidebar: every page but the two that take an id from the path.
Sidebar == (ProtectedPages \ {"host", "editor"}) \cup {"home"}

\* One plain and one secret setting.
Unset == [plain |-> "none", secret |-> "none"]

\* What the mounted page holds.  A page uses the fields it needs.
Blank ==
  [loading |-> FALSE, busy |-> FALSE,  \* its two flags
   error   |-> FALSE,                  \* an error is shown in place of the content
   note    |-> "none",                 \* a message: "good" or "bad"
   rows    |-> "none",                 \* its list: nothing, "some" rows, or "sample" rows
   told    |-> FALSE,                  \* the list is what the API last answered
   form    |-> "blank",                \* its form or query
   pick    |-> "none",                 \* the selected row, tab or dialog
   of      |-> "none",                 \* what the shown answer was asked for
   log     |-> <<>>,                   \* the lines of a terminal
   hiding  |-> FALSE,                  \* a timer is going to take the error away
   draft   |-> Unset,                  \* settings as the page has them,
   sent    |-> Unset,                  \* as it last sent them,
   store   |-> Unset]                  \* and as the API keeps them

\* The user acts on page p, which is there.
At(p) == mounted = p /\ location = p

\* An element that is shown, or enabled, on a condition.
When(c, e) == IF c THEN {e} ELSE {}

\* What mounting a page starts with, and the request its first effect sends.
Opens(u, c) == [ui |-> u, call |-> c]

--------------------------------------------------------------------------------
\* Requests.

Plain == {"getPlaybooks", "findPlaybook", "savePlaybook", "upload"}   \* sent without the client
Open == Plain \cup {"login", "register"}              \* need no token
Credentials == {"login", "putPassword"}               \* 401 also for a wrong password
Pauses == {"pause"}                                   \* a timer the code waits for

\* Calls whose continuation does more than set the state of its page.
Lasting == {"login", "register", "savePlaybook",
            "getStats", "getFeedAgents", "getFeedEvents"}

Calls ==
  Open \cup Lasting \cup
  {"putPassword", "getMetrics", "getAgents", "getAlerts", "getVulnerabilities", "getTraffic",
   "getCloud", "postSync", "getTopology", "getHost", "getEvents", "getIncidents",
   "analyze", "command", "getProfile", "putProfile", "getSettings", "putSettings",
   "forgotten"}

\* The calls the Go API has a route for.
RegisteredCalls ==
  Calls \ {"getEvents", "getFeedEvents", "putSettings", "getPlaybooks", "findPlaybook", "savePlaybook"}

Idle == [call |-> "none", live |-> FALSE, tok |-> "none", arg |-> "none"]

Free == {s \in Slots : net[s] = Idle}

\* The request interceptor reads the token at this moment.
Request(c, a) ==
  [call |-> c, live |-> TRUE, tok |-> IF c \in Open THEN "none" ELSE storage, arg |-> a]

\* The mounted page sends a request; the rest of the step says what it sets.
Send(c, a) == (\E s \in Free : net' = [net EXCEPT ![s] = Request(c, a)]) /\ UNCHANGED shell

Live(s, c) == net[s].live /\ net[s].call = c

Answered(s) == [net EXCEPT ![s] = Idle]

\* The answer is a success.
Accepts(s) == net[s].call \in Served /\ (net[s].call \in Open \/ net[s].tok # "none")

\* A step of the page that an answer (or a timer that ran out) starts.
OnAnswer(s, c) == Live(s, c) /\ net' = Answered(s) /\ UNCHANGED shell

OnSuccess(s, c) == OnAnswer(s, c) /\ Accepts(s)

\* A refused request, a network failure, a status of 4xx or 5xx other than 401.
OnFailure(s, c) == OnAnswer(s, c) /\ c \notin Pauses

\* A step of the mounted page p that concerns its own state alone.
Locally(p, e, shows, new) ==
  /\ At(p)
  /\ e \in shows
  /\ ui' = new
  /\ UNCHANGED <<shell, net>>

\* The list r has come from the API.
Lists(r) == [ui EXCEPT !.loading = FALSE, !.rows = r, !.told = TRUE]

\* The list becomes r without such an answer.
Fills(r) == [ui EXCEPT !.loading = FALSE, !.rows = r, !.told = FALSE]

Lengths == {"none", "some"}

--------------------------------------------------------------------------------
\* The session.

Signed(t) == [in |-> t # "none", loading |-> FALSE]

\* The browser loads the program anew: nothing survives but local storage.
Reload(p, t) ==
  /\ location' = p
  /\ mounted' = "none"
  /\ storage' = t
  /\ auth' = Signed(t)
  /\ net' = [s \in Slots |-> Idle]
  /\ ui' = Blank

\* The API says 401.
Rejects(s) ==
  /\ net[s].call \in Served \ Plain
  /\ net[s].call \in Credentials \/ (net[s].call \notin Open /\ net[s].tok # "good")

\* An interceptor that leaves the page where it is.
DeniedStaying(s) ==
  /\ Rejects(s)
  /\ location \notin PublicPages
  /\ storage' = "none"
  /\ net' = Answered(s)
  /\ UNCHANGED <<auth, location, mounted, ui>>

\* The response interceptor: the token goes, and on a protected page the program
\* with it.
DeniedAway(s) ==
  /\ Rejects(s)
  /\ location \notin PublicPages
  /\ Reload("login", "none")

\* On a public page only an answer nobody waits for any more can be such a one, or
\* the login's own (LoginFails).
DeniedHere(s) ==
  /\ Rejects(s)
  /\ net[s].call # "login"
  /\ ~net[s].live
  /\ location \in PublicPages
  /\ storage' = "none"
  /\ net' = Answered(s)
  /\ UNCHANGED <<auth, location, mounted, ui>>

\* The user types a path, or reloads the page.
TypedUrl(p) == mounted = location /\ Reload(p, storage)

\* The token's time runs out; what was sent with it may be refused from now on.
Expire ==
  /\ storage = "good"
  /\ storage' = "expired"
  /\ net' = [s \in Slots |-> IF net[s].tok = "good" THEN [net[s] EXCEPT !.tok = "expired"] ELSE net[s]]
  /\ UNCHANGED <<auth, location, mounted, ui>>

\* A link or a call of navigate: the page it starts from stays until React renders.
GoTo(p) == location' = p /\ UNCHANGED <<mounted, ui>>

Follow(p) ==
  /\ mounted = location
  /\ p # location
  /\ GoTo(p)
  /\ UNCHANGED <<session, net>>

\* A request whose page is gone: "forgotten" is one whose answer matters no more but
\* for its status.  A timer of a page that is gone sets nothing.
Abandoned(r) ==
  IF r.call \in Lasting THEN [r EXCEPT !.live = FALSE, !.arg = "none"]
  ELSE IF r.call \in Served \ Plain
       THEN [call |-> "forgotten", live |-> FALSE, arg |-> "none",
             tok |-> IF r.tok = "good" THEN "good" ELSE "expired"]
       ELSE Idle

Forgotten(s) ==
  /\ net[s].call = "forgotten"
  /\ net' = Answered(s)
  /\ UNCHANGED <<shell, ui>>

================================================================================
