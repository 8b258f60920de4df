--------------------------------- MODULE UiApp ---------------------------------
(***************************************************************************)
(* The user interface as a whole: the router, its pages, the session, and  *)
(* the answers of the API in whatever order they come.                     *)
(***************************************************************************)
EXTENDS UiAccount, UiMonitor, UiInvestigate, UiEdit

\* The element of each route.
OpensOf(p) ==
  CASE p = "dashboard"       -> DashboardOpens
    [] p = "agents"          -> AgentsOpens
    [] p = "alerts"          -> AlertsOpens
    [] p = "vulnerabilities" -> VulnerabilitiesOpens
    [] p = "network"         -> NetworkOpens
    [] p = "cloud"           -> CloudOpens
    [] p = "topology"        -> TopologyOpens
    [] p = "playbooks"       -> PlaybooksOpens
    [] p = "forensics"       -> ForensicsOpens
    [] p = "host"            -> HostOpens
    [] p = "explorer"        -> ExplorerOpens
    [] p = "incidents"       -> IncidentsOpens
    [] p = "settings"        -> SettingsOpens
    [] p = "profile"         -> ProfileOpens
    [] p = "editor"          -> EditorOpens
    [] p = "newPlaybook"     -> NewPlaybookOpens
    [] OTHER                 -> Opens(Blank, "none")

Init ==
  /\ storage \in {"none", "good", "expired"}
  /\ location \in Pages \ {"crashed"}
  /\ mounted = "none"
  /\ auth = Signed(storage)
  /\ net = [s \in Slots |-> Idle]
  /\ ui = Blank

\* React takes the old page away and mounts the one of the location.
Mount ==
  LET left == [s \in Slots |-> Abandoned(net[s])]
      page == OpensOf(location)
  IN  /\ ui' = page.ui
      /\ IF page.call = "none" THEN net' = left
         ELSE \E s \in Slots : left[s] = Idle /\ net' = [left EXCEPT ![s] = Request(page.call, "none")]

Render ==
  /\ mounted # location
  /\ mounted' = location
  /\ IF mounted = "editor" /\ location = "newPlaybook"
     THEN ui' = NewPlaybookTakesOver /\ UNCHANGED net
     ELSE Mount
  /\ UNCHANGED <<session, location>>

Answer(s) ==
  \/ AccountAnswer(s)
  \/ MonitorAnswer(s)
  \/ InvestigateAnswer(s)
  \/ EditAnswer(s)
  \/ Forgotten(s)
  \/ DeniedAway(s)
  \/ DeniedHere(s)

UserStep ==
  \/ AccountStep
  \/ MonitorStep
  \/ InvestigateStep
  \/ EditStep
  \/ \E p \in Pages \ {"crashed"} : TypedUrl(p)

Next ==
  \/ Render
  \/ Expire
  \/ \E s \in Slots : Answer(s)
  \/ UserStep

Spec == Init /\ [][Next]_vars

\* Every request ends: with an answer, or by the time limit of a proxy or the browser.
Fairness == WF_vars(Render) /\ \A s \in Slots : WF_vars(Answer(s))

\* The dashboard's interval ticks, and an API that is asked for ever with an expired
\* token says so in the end.
PollFairness == WF_vars(DashboardPoll) /\ \A s \in Slots : SF_vars(DeniedAway(s))

FairSpec == Spec /\ Fairness /\ PollFairness

--------------------------------------------------------------------------------

UnderWay(c) == {s \in Slots : net[s].call = c}

Awaited(calls) == {s \in Slots : net[s].live /\ net[s].call \in calls}

\* The calls whose answer takes the flag loading back, first those that a button waits for.
Saves == {"register", "putProfile", "putPassword", "pause"}

Loads ==
  Saves \cup {"getAgents", "getTraffic", "getTopology", "getPlaybooks", "getHost", "getEvents",
              "getIncidents", "getSettings", "findPlaybook"}

\* The requests whose answer takes the flag busy back; of the two that read the cloud's
\* assets, the one that follows a sync.
Occupies(r) ==
  /\ r.live
  /\ \/ r.call \in {"postSync", "putSettings", "upload", "command", "analyze"}
     \/ r.call = "getCloud" /\ r.arg = "sync"

\* The types of the session, the router, the requests and the page's flags.
TypeOK ==
  /\ storage \in {"none", "good", "expired"}
  /\ auth \in [in : BOOLEAN, loading : BOOLEAN]
  /\ location \in Pages
  /\ mounted \in Pages \cup {"none"}
  /\ \A s \in Slots :
       /\ net[s].call \in Calls \cup Pauses \cup {"none"}
       /\ net[s].live \in BOOLEAN
       /\ net[s].tok \in {"none", "good", "expired"}
  /\ DOMAIN ui = DOMAIN Blank
  /\ ui.loading \in BOOLEAN /\ ui.busy \in BOOLEAN
  /\ Len(ui.log) <= MaxLines

\* The session lives twice, in the store and in local storage, and is changed in four
\* places (thunk, reducer, interceptor, loading of the program): whoever the store
\* takes for a guest leaves no token behind that requests would still be sent with.
GuestHasNoToken == ~auth.in => storage = "none"

\* What of the API's data the mounted page has on the screen.
Shown ==
  CASE mounted = "agents"          -> AgentsShows
    [] mounted = "alerts"          -> AlertsShows
    [] mounted = "vulnerabilities" -> VulnerabilitiesShows
    [] mounted = "network"         -> NetworkShows
    [] mounted = "cloud"           -> CloudShows
    [] mounted = "topology"        -> TopologyShows
    [] mounted = "host"            -> HostShows
    [] mounted = "explorer"        -> ExplorerShows
    [] mounted = "incidents"       -> IncidentsShows
    [] mounted = "profile"         -> ProfileShows
    [] OTHER                       -> {}

\* Without a token no page shows what the API gave to the user before: the interceptor
\* loads the program anew, and the logout leaves the protected pages.  (The events of
\* the dashboard come from a socket that asks for no token, the playbooks from a plain
\* request, and some pages have sample data to show.)
GuestSeesNothing ==
  storage = "none" /\ location = mounted /\ ui.rows # "sample"
  => Shown \cap {"row", "entity", "charts", "map", "tabs", "cell"} = {}

\* On the two pages that tell a failure from an empty list, those of the agents and of
\* the playbooks, the notice of an empty list is what the API answered with (a body that
\* is no list counts as an empty one) and not what became of a failed or outstanding
\* request.  (The other pages do not make the difference.)
EmptyNoticeIsTrue ==
  /\ mounted = "agents" /\ "emptyNotice" \in AgentsShows => ui.told
  /\ mounted = "playbooks" /\ "emptyNotice" \in PlaybooksShows => ui.told

\* The eight calls that change something, and are offered by a button that waits for them,
\* are never under way twice; of the login not even from two visits of its page.  (The
\* playbook editor's button does not wait: two clicks send savePlaybook twice.)
SubmittedOnce ==
  /\ Cardinality(UnderWay("login")) <= 1
  /\ \A c \in {"register", "putProfile", "putPassword", "putSettings", "postSync", "upload", "command"} :
       Cardinality(Awaited({c})) <= 1

\* A flag that disables a button or shows a spinner is set only while the request is
\* under way whose answer takes it back: through failures of the first or the second
\* of two requests, and through leaving the page and coming back to it.
FlagHasItsRequest ==
  /\ auth.loading <=> UnderWay("login") # {}
  /\ ui.loading => Awaited(Loads) # {}
  /\ ui.busy => \E s \in Slots : Occupies(net[s])

\* A secret goes to the page as a mask and comes back with the whole list: neither the
\* mask nor an emptied field replaces it in the API, and a list that never came
\* erases nothing.
SecretsSurvive ==
  mounted = "settings" => ui.store.secret \in {"old", "new"} /\ ui.store.plain \in {"old", "new"}

\* What the console prints stands under the command it answers.
ConsoleInOrder ==
  \A i, j \in 1..Len(ui.log) :
    /\ i < j
    /\ ui.log[i].by = "cmd"
    /\ \A k \in (i + 1)..j : ui.log[k].by # "cmd"
    => ui.log[j].of = ui.log[i].of

\* No flag stays set for ever on a page the user stays on, whatever fails, and a login
\* ends.  This is about the flags, which buttons and most spinners look at; the host page
\* shows its spinner also while it has no host, which a failed request leaves it with.
FlagsAreTakenBack ==
  /\ (ui.busy /\ mounted = location) ~> (~ui.busy \/ mounted # location)
  /\ (ui.loading /\ mounted = location) ~> (~ui.loading \/ mounted # location)
  /\ auth.loading ~> ~auth.loading

\* Whoever stays on the dashboard with an expired token is sent to the login page.
ExpiredSessionEnds ==
  (storage = "expired" /\ location = "dashboard") ~> (storage # "expired" \/ location # "dashboard")

================================================================================
