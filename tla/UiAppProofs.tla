------------------------------ MODULE UiAppProofs ------------------------------
(***************************************************************************)
(* Proofs about the user interface: the pages, the session and the answers *)
(* in whatever order they come, for any number of requests under way.      *)
(*                                                                         *)
(* The program has some seventy steps, but they do few things to what the  *)
(* invariant speaks of.  Each step is shown to have one of the effects     *)
(* named below (an answer the page receives, one nobody waits for, a       *)
(* request that follows another, a request sent, work on the page itself), *)
(* and the invariant is shown to survive each effect once.  The steps of   *)
(* the session and the mounting of a page are treated one by one.          *)
(***************************************************************************)
EXTENDS UiApp, FiniteSetTheorems, TLAPS

--------------------------------------------------------------------------------
\* The types.

\* Every text that a page, a request or a line of the console may hold.
Texts ==
  {"none", "blank", "good", "bad", "row", "dialog", "sync", "password", "cmd", "out", "err",
   "personal", "security", "activity", "match", "mismatch", "file", "pivot", "changed",
   "new", "saved", "create", "update", "zero", "local", "old", "mask", "empty",
   "declared", "lower"}
  \cup HostTabs \cup Queries \cup Incidents \cup Asking

Settings == [plain : Texts, secret : Texts]

PageState ==
  [loading : BOOLEAN, busy : BOOLEAN, error : BOOLEAN, note : Texts,
   rows : {"none", "some", "sample"}, told : BOOLEAN, form : Texts,
   pick : Texts, of : Texts, log : Seq([by : Texts, of : Texts]), hiding : BOOLEAN,
   draft : Settings, sent : Settings, store : Settings]

Requests ==
  [call : Calls \cup Pauses \cup {"none"}, live : BOOLEAN, tok : {"none", "good", "expired"},
   arg : Texts]

UiTypes ==
  /\ storage \in {"none", "good", "expired"}
  /\ auth \in [in : BOOLEAN, loading : BOOLEAN]
  /\ location \in Pages
  /\ mounted \in Pages \cup {"none"}
  /\ net \in [Slots -> Requests]
  /\ ui \in PageState

--------------------------------------------------------------------------------
\* The requests and the page.

\* The page p is the one that waits for an answer to the call c.
AsksFor(p, c) ==
  \/ p = "dashboard" /\ c \in {"getStats", "getFeedAgents", "getFeedEvents", "getMetrics"}
  \/ p = "agents" /\ c = "getAgents"
  \/ p = "alerts" /\ c = "getAlerts"
  \/ p = "vulnerabilities" /\ c = "getVulnerabilities"
  \/ p = "network" /\ c = "getTraffic"
  \/ p = "cloud" /\ c \in {"getCloud", "postSync"}
  \/ p = "topology" /\ c = "getTopology"
  \/ p = "playbooks" /\ c = "getPlaybooks"
  \/ p = "forensics" /\ c = "upload"
  \/ p = "host" /\ c = "getHost"
  \/ p = "explorer" /\ c = "getEvents"
  \/ p = "incidents" /\ c \in {"getIncidents", "analyze"}
  \/ p = "console" /\ c = "command"
  \/ p = "settings" /\ c \in {"getSettings", "putSettings"}
  \/ p = "profile" /\ c \in {"getProfile", "putProfile", "putPassword", "pause"}
  \/ p \in {"editor", "newPlaybook"} /\ c \in {"findPlaybook", "savePlaybook"}
  \/ p = "login" /\ c = "login"
  \/ p = "register" /\ c = "register"

\* Whoever waits for an answer is the mounted page.
Belongs == \A s \in Slots : net[s].live => AsksFor(mounted, net[s].call)

\* The login is under way as long as the store says so.
LoginInv ==
  /\ auth.loading <=> \E s \in Slots : net[s].call = "login"
  /\ \A s, t \in Slots : net[s].call = "login" /\ net[t].call = "login" => s = t

\* The flag loading and the requests it is set for.
LoadingInv ==
  /\ ui.loading => \E s \in Slots : net[s].live /\ net[s].call \in Loads
  /\ \A s \in Slots : net[s].live /\ net[s].call \in Saves => ui.loading
  /\ \A s, t \in Slots : net[s].live /\ net[t].live /\ net[s].call \in Saves /\ net[t].call \in Saves => s = t
  /\ \A s, t \in Slots : net[s].live /\ net[s].call = "getProfile" => ui.rows = "none" /\ (net[t].live => s = t)

\* The flag busy and the requests it is set for.
BusyInv ==
  /\ ui.busy => \E s \in Slots : Occupies(net[s])
  /\ \A s \in Slots : Occupies(net[s]) /\ net[s].call # "analyze" =>
       ui.busy /\ \A t \in Slots : Occupies(net[t]) => s = t

\* An empty list is one the API gave, or something else is shown.
ToldInv == mounted \in {"agents", "playbooks"} => ui.loading \/ ui.error \/ ui.told

\* What the settings page can have read, typed and sent.
SettingsInv ==
  mounted = "settings" =>
    /\ ui.store.plain \in {"old", "new"} /\ ui.store.secret \in {"old", "new"}
    /\ ui.draft.plain \in {"none", "old", "new"} /\ ui.draft.secret \in {"none", "mask", "empty", "new"}
    /\ ui.sent.plain \in {"none", "old", "new"} /\ ui.sent.secret \in {"none", "mask", "empty", "new"}

\* The last command of the console is the one that is under way, and has room left for
\* its answer.
LastCommand(i) == ui.log[i].by = "cmd" /\ \A k \in (i + 1)..Len(ui.log) : ui.log[k].by # "cmd"

ConsoleInv ==
  /\ Len(ui.log) <= MaxLines
  /\ ConsoleInOrder
  /\ \A s \in Slots : net[s].live /\ net[s].call = "command" =>
       /\ Len(ui.log) + 1 <= MaxLines
       /\ \A i \in 1..Len(ui.log) : LastCommand(i) => ui.log[i].of = net[s].arg

\* The pages that show what the API gave, and nobody but to a user.
Watched ==
  {"agents", "alerts", "vulnerabilities", "network", "cloud", "topology", "host", "explorer",
   "incidents", "profile"}

\* A page a guest has come to waits for nothing that was asked with a token.
GuestInv ==
  storage = "none" /\ location = mounted /\ mounted \in Watched =>
    /\ ui.rows # "some"
    /\ \A s \in Slots : net[s].live => net[s].tok = "none"

UiInv ==
  /\ UiTypes
  /\ Belongs
  /\ GuestHasNoToken
  /\ LoginInv
  /\ LoadingInv
  /\ BusyInv
  /\ ToldInv
  /\ SettingsInv
  /\ ConsoleInv
  /\ GuestInv

--------------------------------------------------------------------------------
\* What the steps do to the session, the requests and the page.

\* The router does not come back to a page that shows what the API gave.
Moves ==
  /\ UNCHANGED <<session, mounted>>
  /\ location' = location \/ location' # mounted \/ location' \notin Watched
  /\ location' \in Pages

\* The settings and the console's lines are as they were, or what they may become.
Keeps ==
  /\ UNCHANGED <<ui.draft, ui.sent, ui.store>> \/ SettingsInv'
  /\ ui'.log = ui.log \/ ConsoleInv'

\* The answer to the call c, of request s, which the mounted page waits for.
Settles(s, c) ==
  /\ c # "login"
  /\ ui' \in PageState
  /\ c \in Loads => ~ui'.loading
  /\ ui'.loading => ui.loading
  /\ ui.loading => \/ ui'.loading
                   \/ c \in Loads \cup {"getAlerts", "getVulnerabilities", "getCloud", "getProfile"}
  /\ ui'.busy <=> (ui.busy /\ ~Occupies(net[s]))
  /\ ui'.rows = "some" => ui.rows = "some" \/ Accepts(s)
  /\ c \in {"getAgents", "getPlaybooks"} => ui'.error \/ ui'.told
  /\ Keeps

Receives(s) ==
  /\ net[s].live
  /\ net' = Answered(s)
  /\ Moves
  /\ Settles(s, net[s].call)

\* The page sends a request.
Sends(c, a) ==
  /\ \E s \in Free : net' = [net EXCEPT ![s] = Request(c, a)]
  /\ UNCHANGED shell
  /\ AsksFor(mounted, c)
  /\ c \in (Calls \cup Pauses) \ {"login", "getProfile", "getAgents", "getPlaybooks"}
  /\ a \in Texts
  /\ ui' \in PageState
  /\ ui'.loading <=> ui.loading \/ c \in Loads
  /\ ui'.busy <=> ui.busy \/ Occupies(Request(c, a))
  /\ Occupies(Request(c, a)) => ~ui.busy
  /\ c \in Saves => ~ui.loading
  /\ mounted = "profile" => ui.rows # "none"
  /\ ui'.rows = ui.rows
  /\ Keeps
  /\ c = "command" => ConsoleInv'

\* The page keeps its requests.
Works ==
  /\ net' = net
  /\ Moves
  /\ ui' \in PageState
  /\ ui'.loading <=> ui.loading
  /\ (ui'.busy <=> ui.busy) \/ (mounted = "incidents" /\ ~ui'.busy)
  /\ ui'.rows = ui.rows \/ mounted = "dashboard"
  /\ mounted \in {"agents", "playbooks"} => ui'.told = ui.told /\ ui'.error = ui.error
  /\ Keeps

\* An answer nobody waits for any more.
Vanishes(s) ==
  /\ ~net[s].live
  /\ net[s].call # "login"
  /\ net' = Answered(s)
  /\ UNCHANGED <<auth, mounted, ui>>
  /\ \/ Moves
     \/ storage' = "none" /\ location' = location /\ location \in PublicPages

\* A request that follows another one in its place.
Follows(s, c, a) ==
  /\ net' = [net EXCEPT ![s] = [Request(c, a) EXCEPT !.live = net[s].live]]
  /\ UNCHANGED shell
  /\ \/ /\ net[s].call \in {"getStats", "getFeedAgents", "getFeedEvents"}
        /\ c \in {"getFeedAgents", "getFeedEvents", "getMetrics"} /\ a = "none"
        /\ net[s].live \/ ui' = ui
     \/ net[s].call = "postSync" /\ c = "getCloud" /\ a = "sync" /\ ui' = ui
  /\ ui' \in PageState
  /\ UNCHANGED <<ui.loading, ui.busy, ui.log, ui.draft, ui.sent, ui.store>>
  /\ ui'.rows \in {ui.rows, "none"}

\* The literals of the pages are texts.
LEMMA Known ==
  /\ {"none", "blank", "good", "bad", "row", "dialog", "sync", "password", "cmd", "out", "err"} \subseteq Texts
  /\ {"personal", "security", "activity", "match", "mismatch", "file", "pivot", "changed"} \subseteq Texts
  /\ {"new", "saved", "create", "update", "zero", "local", "old", "mask", "empty"} \subseteq Texts
  /\ HostTabs \cup Queries \cup Incidents \cup Asking \cup IncidentKeys \subseteq Texts
BY InvestigateAssumption DEF Texts

\* An answer with the effect Settles, on a page that stays, is received.
LEMMA Taken ==
  ASSUME UiInv, NEW s \in Slots, NEW c, OnAnswer(s, c), Settles(s, c)
  PROVE  Receives(s)
BY DEF OnAnswer, Live, Receives, Moves, shell, session, UiInv, UiTypes

\* The two ways in which an answer to a list's request is shown.
LEMMA Listed ==
  ASSUME ui \in PageState, NEW r \in {"none", "some", "sample"}, ui' = Lists(r) \/ ui' = Fills(r)
  PROVE  /\ ui' \in PageState /\ ~ui'.loading /\ ui'.rows = r
         /\ ui'.busy = ui.busy /\ ui'.error = ui.error /\ ui'.log = ui.log
         /\ UNCHANGED <<ui.draft, ui.sent, ui.store>>
         /\ ui' = Lists(r) => ui'.told
BY DEF PageState, Lists, Fills

\* The same, where a text of the page changes with the list.
LEMMA ListedAs ==
  ASSUME ui \in PageState, NEW r \in {"none", "some", "sample"}, NEW t \in Texts,
         \/ ui' = [Lists(r) EXCEPT !.of = t] \/ ui' = [Fills(r) EXCEPT !.of = t]
         \/ ui' = [Lists(r) EXCEPT !.form = t]
  PROVE  /\ ui' \in PageState /\ ~ui'.loading /\ ui'.rows = r
         /\ ui'.busy = ui.busy /\ ui'.log = ui.log
         /\ UNCHANGED <<ui.draft, ui.sent, ui.store>>
<1>1. Lists(r) \in PageState /\ Fills(r) \in PageState
  BY DEF PageState, Lists, Fills
<1>2. /\ ~Lists(r).loading /\ Lists(r).rows = r /\ Lists(r).busy = ui.busy /\ Lists(r).log = ui.log
      /\ Lists(r).draft = ui.draft /\ Lists(r).sent = ui.sent /\ Lists(r).store = ui.store
      /\ ~Fills(r).loading /\ Fills(r).rows = r /\ Fills(r).busy = ui.busy /\ Fills(r).log = ui.log
      /\ Fills(r).draft = ui.draft /\ Fills(r).sent = ui.sent /\ Fills(r).store = ui.store
  BY DEF PageState, Lists, Fills
<1> QED
  BY <1>1, <1>2 DEF PageState

\* The page's list, its lines and its settings stay.
Untouched == ui' \in PageState /\ UNCHANGED <<ui.rows, ui.log, ui.draft, ui.sent, ui.store>>

--------------------------------------------------------------------------------
\* Each answer a page waits for is received.

\* The pages that show what the API knows.
LEMMA MonitorReceives ==
  ASSUME UiInv, NEW s \in Slots,
         \/ AgentsAnswer(s) \/ AlertsAnswer(s) \/ VulnerabilitiesAnswer(s) \/ NetworkAnswer(s)
         \/ CloudAnswer(s) \/ TopologyAnswer(s) \/ PlaybooksAnswer(s)
  PROVE  Receives(s)
<1> USE DEF Settles, Keeps, Loads, Saves, Occupies
<1>1. ui \in PageState
  BY DEF UiInv, UiTypes
<1>2. ASSUME NEW c, OnSuccess(s, c) \/ OnFailure(s, c)
      PROVE  OnAnswer(s, c) /\ net[s].call = c /\ (OnSuccess(s, c) => Accepts(s))
  BY <1>2 DEF OnSuccess, OnFailure, OnAnswer, Live
<1>3. CASE AgentsAnswer(s)
  <2>1. CASE ui' = [ui EXCEPT !.loading = FALSE, !.error = TRUE]
    <3>1. Untouched /\ ~ui'.loading /\ ui'.error /\ ui'.busy = ui.busy
      BY <1>1, <2>1 DEF Untouched, PageState
    <3> QED
      BY <1>2, <1>3, <3>1, Taken DEF AgentsAnswer, Untouched
  <2> QED
    BY <1>1, <1>2, <1>3, <2>1, Listed, Taken DEF AgentsAnswer, Lengths
<1>4. CASE AlertsAnswer(s)
  <2>1. CASE OnSuccess(s, "getAlerts")
    <3>1. PICK r \in Lengths : ui' = [Lists("none") EXCEPT !.told = (r = "none")]
                               \/ ui' = Fills("none")
      BY <2>1, <1>4 DEF AlertsAnswer, Lengths
    <3>2. ui' \in PageState /\ ~ui'.loading /\ ui'.rows = "none" /\ ui'.busy = ui.busy /\ ui'.log = ui.log
          /\ UNCHANGED <<ui.draft, ui.sent, ui.store>>
      BY <1>1, <3>1 DEF PageState, Lists, Fills
    <3> QED
      BY <1>2, <2>1, <3>2, Taken
  <2> QED
    BY <1>1, <1>2, <1>4, <2>1, Listed, Taken DEF AlertsAnswer
<1>5. CASE VulnerabilitiesAnswer(s)
  BY <1>1, <1>2, <1>5, Listed, Taken DEF VulnerabilitiesAnswer, Lengths
<1>6. CASE NetworkAnswer(s)
  BY <1>1, <1>2, <1>6, Listed, Taken DEF NetworkAnswer, Lengths
<1>7. CASE CloudAnswer(s)
  <2>1. PICK r \in Lengths :
          /\ \/ OnSuccess(s, "getCloud")
             \/ OnFailure(s, "getCloud") /\ r = "none"
          /\ \/ net[s].arg = "sync" /\ ui' = [Lists(r) EXCEPT !.busy = FALSE]
             \/ net[s].arg = "sync" /\ ui' = [Fills(r) EXCEPT !.busy = FALSE]
             \/ net[s].arg # "sync" /\ (ui' = Lists(r) \/ ui' = Fills(r))
    BY <1>7 DEF CloudAnswer, Lengths
  <2>2. /\ ui' \in PageState /\ ~ui'.loading /\ ui'.rows = r /\ ui'.log = ui.log
        /\ UNCHANGED <<ui.draft, ui.sent, ui.store>>
        /\ net[s].arg = "sync" => ~ui'.busy
        /\ net[s].arg # "sync" => ui'.busy = ui.busy
    BY <1>1, <2>1 DEF PageState, Lists, Fills, Lengths
  <2>3. net[s].live
    BY <1>2, <2>1 DEF OnAnswer, Live
  <2> QED
    BY <1>2, <2>1, <2>2, <2>3, Taken DEF Lengths
<1>8. CASE TopologyAnswer(s)
  BY <1>1, <1>2, <1>8, Listed, Taken DEF TopologyAnswer
<1>9. CASE PlaybooksAnswer(s)
  <2>1. CASE ui' = [ui EXCEPT !.loading = FALSE, !.error = TRUE]
    <3>1. Untouched /\ ~ui'.loading /\ ui'.error /\ ui'.busy = ui.busy
      BY <1>1, <2>1 DEF Untouched, PageState
    <3> QED
      BY <1>2, <1>9, <3>1, Taken DEF PlaybooksAnswer, Untouched
  <2> QED
    BY <1>1, <1>2, <1>9, <2>1, Listed, Taken DEF PlaybooksAnswer, Lengths
<1> QED
  BY <1>3, <1>4, <1>5, <1>6, <1>7, <1>8, <1>9

\* The profile and the registration.
LEMMA AccountReceives ==
  ASSUME UiInv, NEW s \in Slots,
         \/ ProfileAnswer(s) \/ ProfileInfoSaved(s) \/ ProfilePasswordSaved(s)
         \/ RegisterAnswer(s) /\ net[s].live
  PROVE  Receives(s)
<1> USE DEF Settles, Keeps, Loads, Saves, Occupies
<1>1. ui \in PageState
  BY DEF UiInv, UiTypes
<1>2. ASSUME NEW c, OnSuccess(s, c) \/ OnFailure(s, c)
      PROVE  OnAnswer(s, c) /\ net[s].call = c /\ (OnSuccess(s, c) => Accepts(s))
  BY <1>2 DEF OnSuccess, OnFailure, OnAnswer, Live
<1>3. CASE ProfileAnswer(s)
  BY <1>1, <1>2, <1>3, Listed, Taken DEF ProfileAnswer
<1>4. CASE ProfileInfoSaved(s) \/ ProfilePasswordSaved(s)
  <2>1. PICK c \in {"putProfile", "putPassword", "pause"} : OnAnswer(s, c) /\ net[s].call = c
    BY <1>2, <1>4 DEF ProfileInfoSaved, ProfilePasswordSaved, Pretended, OnAnswer, Live
  <2>2. \/ \E n \in {"good", "bad"} : ui' = [ui EXCEPT !.loading = FALSE, !.note = n]
        \/ ui' = [ui EXCEPT !.loading = FALSE, !.note = "good", !.form = "blank"]
    BY <1>4 DEF ProfileInfoSaved, ProfilePasswordSaved
  <2>3. Untouched /\ ~ui'.loading /\ ui'.busy = ui.busy
    <3>1. CASE \E n \in {"good", "bad"} : ui' = [ui EXCEPT !.loading = FALSE, !.note = n]
      <4>1. PICK n \in Texts : ui' = [ui EXCEPT !.loading = FALSE, !.note = n]
        BY <3>1, Known
      <4> QED
        BY <1>1, <4>1 DEF Untouched, PageState
    <3>2. CASE ui' = [ui EXCEPT !.loading = FALSE, !.note = "good", !.form = "blank"]
      BY <1>1, <3>2, Known DEF Untouched, PageState
    <3> QED
      BY <2>2, <3>1, <3>2
  <2> QED
    BY <2>1, <2>3, Taken DEF Untouched
<1>5. CASE RegisterAnswer(s) /\ net[s].live
  <2>1. Untouched /\ ~ui'.loading /\ ui'.busy = ui.busy
    BY <1>1, <1>5 DEF Untouched, PageState, RegisterAnswer
  <2>2. net[s].call = "register" /\ net' = Answered(s) /\ Moves
    BY <1>5 DEF RegisterAnswer, Moves, session, UiInv, UiTypes, Watched, Pages, PublicPages
  <2> QED
    BY <1>5, <2>1, <2>2 DEF Untouched, Receives
<1> QED
  BY <1>3, <1>4, <1>5

\* The pages on which a user asks again.
LEMMA InvestigateReceives ==
  ASSUME UiInv, NEW s \in Slots,
         \/ HostAnswer(s) \/ ExplorerAnswer(s) \/ IncidentsAnswer(s) \/ AnalysisAnswer(s)
         \/ ForensicsAnswer(s)
  PROVE  Receives(s)
<1> USE DEF Settles, Keeps, Loads, Saves, Occupies
<1>1. ui \in PageState
  BY DEF UiInv, UiTypes
<1>2. ASSUME NEW c, OnSuccess(s, c) \/ OnFailure(s, c)
      PROVE  OnAnswer(s, c) /\ net[s].call = c /\ (OnSuccess(s, c) => Accepts(s))
  BY <1>2 DEF OnSuccess, OnFailure, OnAnswer, Live
<1>3. CASE HostAnswer(s)
  <2>1. CASE ui' = [ui EXCEPT !.loading = FALSE]
    <3>1. Untouched /\ ~ui'.loading /\ ui'.busy = ui.busy
      BY <1>1, <2>1, Known DEF Untouched, PageState
    <3> QED
      BY <1>2, <1>3, <3>1, Taken DEF HostAnswer, Untouched
  <2> QED
    BY <1>1, <1>2, <1>3, <2>1, Listed, Taken DEF HostAnswer
<1>4. CASE ExplorerAnswer(s)
  <2>1. PICK r \in {"none", "some", "sample"}, of \in Texts :
          /\ OnSuccess(s, "getEvents") \/ (OnFailure(s, "getEvents") /\ r = "sample")
          /\ ui' = [Lists(r) EXCEPT !.of = of] \/ ui' = [Fills(r) EXCEPT !.of = of]
    <3>1. net[s].arg \in Texts
      BY DEF UiInv, UiTypes, Requests
    <3> QED
      BY <1>4, <3>1 DEF ExplorerAnswer, Lengths
  <2>2. /\ ui' \in PageState /\ ~ui'.loading /\ ui'.rows = r /\ ui'.log = ui.log /\ ui'.busy = ui.busy
        /\ UNCHANGED <<ui.draft, ui.sent, ui.store>>
    BY <1>1, <2>1, ListedAs
  <2> QED
    BY <1>2, <2>1, <2>2, Taken
<1>5. CASE IncidentsAnswer(s)
  <2>1. CASE OnSuccess(s, "getIncidents") /\ \E k \in IncidentKeys : ui' = [Lists("some") EXCEPT !.form = k]
    <3>1. /\ ui' \in PageState /\ ~ui'.loading /\ ui'.rows = "some" /\ ui'.log = ui.log /\ ui'.busy = ui.busy
          /\ UNCHANGED <<ui.draft, ui.sent, ui.store>>
      BY <1>1, <2>1, ListedAs, Known
    <3> QED
      BY <1>2, <2>1, <3>1, Taken
  <2>2. CASE \/ OnSuccess(s, "getIncidents") /\ ui' = Lists("none")
             \/ OnFailure(s, "getIncidents") /\ ui' = Fills("none")
    BY <1>1, <1>2, <2>2, Listed, Taken
  <2> QED
    BY <1>5, <2>1, <2>2 DEF IncidentsAnswer
<1>6. CASE AnalysisAnswer(s)
  <2>1. PICK n \in {"good", "bad"}, i \in Texts : ui' = [ui EXCEPT !.busy = FALSE, !.note = n, !.of = i]
    <3>1. net[s].arg \in Texts
      BY DEF UiInv, UiTypes, Requests
    <3> QED
      BY <1>6, <3>1 DEF AnalysisAnswer
  <2>2. Untouched /\ ~ui'.busy /\ ui'.loading = ui.loading
    BY <1>1, <2>1, Known DEF Untouched, PageState
  <2>3. OnAnswer(s, "analyze") /\ net[s].call = "analyze" /\ net[s].live
    BY <1>2, <1>6 DEF AnalysisAnswer, OnAnswer, Live
  <2> QED
    BY <2>2, <2>3, Taken DEF Untouched
<1>7. CASE ForensicsAnswer(s)
  <2>1. Untouched /\ ~ui'.busy /\ ui'.loading = ui.loading
    <3>1. CASE ui' = [ui EXCEPT !.busy = FALSE, !.form = "blank", !.note = "good"]
      BY <1>1, <3>1, Known DEF Untouched, PageState
    <3>2. CASE ui' = [ui EXCEPT !.busy = FALSE]
      BY <1>1, <3>2, Known DEF Untouched, PageState
    <3> QED
      BY <1>7, <3>1, <3>2 DEF ForensicsAnswer
  <2>2. OnAnswer(s, "upload") /\ net[s].call = "upload" /\ net[s].live
    BY <1>7 DEF ForensicsAnswer, OnAnswer, Live
  <2> QED
    BY <2>1, <2>2, Taken DEF Untouched
<1> QED
  BY <1>3, <1>4, <1>5, <1>6, <1>7

\* The settings, which may hold what the API has, and the playbook editor.
LEMMA EditReceives ==
  ASSUME UiInv, NEW s \in Slots,
         \/ SettingsAnswer(s) \/ SettingsSaved(s) \/ EditorAnswer(s)
         \/ EditorSaved(s) /\ net[s].live
  PROVE  Receives(s)
<1> USE DEF Settles, Loads, Saves, Occupies
<1>1. ui \in PageState
  BY DEF UiInv, UiTypes
<1>2. ASSUME NEW c, OnSuccess(s, c) \/ OnFailure(s, c)
      PROVE  OnAnswer(s, c) /\ net[s].call = c /\ net[s].live /\ mounted' = mounted /\ AsksFor(mounted, c)
  BY <1>2 DEF OnSuccess, OnFailure, OnAnswer, Live, shell, UiInv, Belongs
<1>3. ASSUME mounted = "settings"
      PROVE  /\ ui.store.plain \in {"old", "new"} /\ ui.store.secret \in {"old", "new"}
             /\ ui.draft.plain \in {"none", "old", "new"} /\ ui.draft.secret \in {"none", "mask", "empty", "new"}
             /\ ui.sent.plain \in {"none", "old", "new"} /\ ui.sent.secret \in {"none", "mask", "empty", "new"}
             /\ ui.store \in Settings /\ ui.sent \in Settings
  BY <1>1, <1>3 DEF UiInv, SettingsInv, PageState
<1>4. CASE SettingsAnswer(s)
  <2>1. /\ OnAnswer(s, "getSettings") /\ net[s].call = "getSettings" /\ net[s].live /\ mounted' = mounted
        /\ mounted = "settings"
    BY <1>2, <1>4 DEF SettingsAnswer, AsksFor
  <2>2. PICK d \in Settings, e \in BOOLEAN :
          /\ ui' = [ui EXCEPT !.loading = FALSE, !.error = e, !.draft = d]
          /\ d = ui.draft \/ d = Masked(ui.store)
    <3>1. ui.draft \in Settings /\ ui = [ui EXCEPT !.draft = ui.draft]
      BY <1>1 DEF PageState
    <3>2. Masked(ui.store) \in Settings
      BY <1>3, <2>1, Known DEF Masked, Settings
    <3>3. CASE ui' = [ui EXCEPT !.loading = FALSE, !.error = FALSE, !.draft = Masked(ui.store)]
      BY <3>2, <3>3
    <3>4. CASE ui' = [ui EXCEPT !.loading = FALSE, !.error = TRUE]
      <4>1. ui' = [ui EXCEPT !.loading = FALSE, !.error = TRUE, !.draft = ui.draft]
        BY <1>1, <3>4 DEF PageState
      <4> QED
        BY <3>1, <4>1
    <3> QED
      BY <1>4, <3>3, <3>4 DEF SettingsAnswer
  <2>3. /\ ui' \in PageState /\ ~ui'.loading /\ ui'.busy = ui.busy /\ UNCHANGED <<ui.rows, ui.log, ui.sent, ui.store>>
        /\ ui'.draft = d
    BY <1>1, <2>2 DEF PageState
  <2>4. d.plain \in {"none", "old", "new"} /\ d.secret \in {"none", "mask", "empty", "new"}
    <3>1. Masked(ui.store).plain = ui.store.plain /\ Masked(ui.store).secret = "mask"
      BY <1>3, <2>1 DEF Masked, Settings
    <3> QED
      BY <1>3, <2>1, <2>2, <3>1
  <2>5. Keeps
    BY <1>3, <2>1, <2>3, <2>4 DEF Keeps, SettingsInv
  <2> QED
    BY <2>1, <2>3, <2>5, Taken
<1>5. CASE SettingsSaved(s)
  <2>1. /\ OnAnswer(s, "putSettings") /\ net[s].call = "putSettings" /\ net[s].live /\ mounted' = mounted
        /\ mounted = "settings"
    <3>1. OnSuccess(s, "putSettings") \/ OnFailure(s, "putSettings")
      BY <1>5 DEF SettingsSaved
    <3> QED
      BY <1>2, <3>1 DEF AsksFor
  <2> DEFINE updated == Updated(ui.store, ui.sent)
  <2>2. updated \in Settings /\ updated.plain \in {"old", "new"} /\ updated.secret \in {"old", "new"}
    BY <1>3, <2>1, Known DEF Updated, Settings
  <2> HIDE DEF updated
  <2>3. \E k \in {ui.store, updated}, e, h \in BOOLEAN :
          ui' = [[ui EXCEPT !.error = e, !.hiding = h, !.store = k] EXCEPT !.busy = FALSE, !.sent = Unset]
    <3>1. ASSUME OnSuccess(s, "putSettings"), ui' = [[ui EXCEPT !.store = updated] EXCEPT !.busy = FALSE, !.sent = Unset]
          PROVE  ui' = [[ui EXCEPT !.error = ui.error, !.hiding = ui.hiding, !.store = updated]
                         EXCEPT !.busy = FALSE, !.sent = Unset]
      BY <1>1, <3>1 DEF PageState
    <3>2. ui.error \in BOOLEAN /\ ui.hiding \in BOOLEAN
      BY <1>1 DEF PageState
    <3>3. \/ OnSuccess(s, "putSettings") /\ ui' = [[ui EXCEPT !.store = updated] EXCEPT !.busy = FALSE, !.sent = Unset]
          \/ \E k \in {ui.store, updated} :
               ui' = [[ui EXCEPT !.error = TRUE, !.hiding = TRUE, !.store = k] EXCEPT !.busy = FALSE, !.sent = Unset]
      BY <1>5 DEF SettingsSaved, When, updated
    <3> QED
      BY <3>1, <3>2, <3>3
  <2>4. PICK k \in Settings, e \in BOOLEAN, h \in BOOLEAN :
          /\ ui' = [[ui EXCEPT !.error = e, !.hiding = h, !.store = k] EXCEPT !.busy = FALSE, !.sent = Unset]
          /\ k.plain \in {"old", "new"} /\ k.secret \in {"old", "new"}
    BY <1>3, <2>1, <2>2, <2>3
  <2>5. Unset \in Settings /\ Unset.plain = "none" /\ Unset.secret = "none"
    BY Known DEF Unset, Settings
  <2>6. /\ ui' \in PageState /\ ~ui'.busy /\ ui'.loading = ui.loading /\ UNCHANGED <<ui.rows, ui.log, ui.draft>>
        /\ ui'.store = k /\ ui'.sent = Unset
    <3> DEFINE u == [ui EXCEPT !.error = e, !.hiding = h, !.store = k]
    <3>1. /\ u \in PageState /\ u.loading = ui.loading /\ u.rows = ui.rows /\ u.log = ui.log /\ u.draft = ui.draft
          /\ u.store = k
      BY <1>1 DEF PageState
    <3>2. ui' = [u EXCEPT !.busy = FALSE, !.sent = Unset]
      BY <2>4
    <3> HIDE DEF u
    <3> QED
      BY <2>5, <3>1, <3>2 DEF PageState
  <2>7. Keeps
    BY <1>3, <2>1, <2>4, <2>5, <2>6 DEF Keeps, SettingsInv
  <2> QED
    BY <2>1, <2>6, <2>7, Taken
<1>6. CASE EditorAnswer(s)
  <2>1. OnAnswer(s, "findPlaybook") /\ net[s].call = "findPlaybook" /\ net[s].live
    BY <1>2, <1>6 DEF EditorAnswer
  <2>2. Untouched /\ ~ui'.loading /\ ui'.busy = ui.busy
    <3>1. CASE ui' = [ui EXCEPT !.loading = FALSE, !.form = "saved", !.pick = "none"]
      BY <1>1, <3>1, Known DEF Untouched, PageState
    <3>2. CASE ui' = [ui EXCEPT !.loading = FALSE, !.error = TRUE]
      BY <1>1, <3>2 DEF Untouched, PageState
    <3> QED
      BY <1>6, <3>1, <3>2 DEF EditorAnswer
  <2> QED
    BY <2>1, <2>2, Taken DEF Untouched, Keeps
<1>7. CASE EditorSaved(s) /\ net[s].live
  <2>1. net[s].call = "savePlaybook" /\ net' = Answered(s) /\ Moves
    BY <1>7 DEF EditorSaved, GoTo, Moves, session, UiInv, UiTypes, Watched, Pages, ProtectedPages
  <2>2. Untouched /\ ui'.loading = ui.loading /\ ui'.busy = ui.busy
    BY <1>1, <1>7 DEF EditorSaved, GoTo, Untouched, PageState
  <2> QED
    BY <1>7, <2>1, <2>2 DEF Untouched, Receives, Keeps
<1> QED
  BY <1>4, <1>5, <1>6, <1>7

\* A failed sync, and an answer the dashboard makes nothing of.
LEMMA QuietReceives ==
  ASSUME UiInv, NEW s \in Slots,
         \/ OnFailure(s, "postSync") /\ ui' = [ui EXCEPT !.busy = FALSE]
         \/ DashboardChainEnds(s) /\ net[s].live
  PROVE  Receives(s)
<1> USE DEF Settles, Loads, Saves, Occupies, Keeps
<1>1. ui \in PageState
  BY DEF UiInv, UiTypes
<1>2. CASE OnFailure(s, "postSync") /\ ui' = [ui EXCEPT !.busy = FALSE]
  <2>1. OnAnswer(s, "postSync") /\ net[s].call = "postSync" /\ net[s].live
    BY <1>2 DEF OnFailure, OnAnswer, Live
  <2>2. Untouched /\ ~ui'.busy /\ ui'.loading = ui.loading
    BY <1>1, <1>2 DEF Untouched, PageState
  <2> QED
    BY <2>1, <2>2, Taken DEF Untouched
<1>3. CASE DashboardChainEnds(s) /\ net[s].live
  <2>1. Moves /\ ui' = ui
    BY <1>3 DEF DashboardChainEnds, Moves, shell, session, UiInv, UiTypes
  <2> QED
    BY <1>1, <1>3, <2>1 DEF Receives, DashboardChainEnds
<1> QED
  BY <1>2, <1>3

\* A line more: the command that is under way gets it, and no other is.
LEMMA ConsoleReceives ==
  ASSUME UiInv, NEW s \in Slots, ConsoleAnswer(s)
  PROVE  Receives(s)
<1> DEFINE a == net[s].arg
           n == Len(ui.log)
<1>1. /\ ui \in PageState /\ n \in Nat /\ a \in Texts /\ n <= MaxLines /\ MaxLines \in Nat
      /\ ui.log \in Seq([by : Texts, of : Texts])
  BY InvestigateAssumption DEF UiInv, UiTypes, PageState, Requests, ConsoleInv
<1>2. PICK b \in {"out", "err"} : ui' = [ui EXCEPT !.busy = FALSE, !.log = Append(ui.log, Line(b, a))]
  BY DEF ConsoleAnswer
<1>3. OnAnswer(s, "command") /\ net[s].call = "command" /\ net[s].live
  BY DEF ConsoleAnswer, OnSuccess, OnFailure, OnAnswer, Live
<1> HIDE DEF a
<1>4. Line(b, a) \in [by : Texts, of : Texts] /\ Line(b, a).by = b /\ Line(b, a).of = a
  BY <1>1, Known DEF Line
<1>5. /\ ui' \in PageState /\ ~ui'.busy /\ ui'.loading = ui.loading /\ ui'.rows = ui.rows
      /\ ui'.log = Append(ui.log, Line(b, a)) /\ UNCHANGED <<ui.draft, ui.sent, ui.store>>
  <2>1. Append(ui.log, Line(b, a)) \in Seq([by : Texts, of : Texts])
    BY <1>1, <1>4
  <2> QED
    BY <1>1, <1>2, <2>1 DEF PageState
<1>6. /\ Len(ui'.log) = n + 1
      /\ \A i \in 1..n : ui'.log[i] = ui.log[i]
      /\ ui'.log[n + 1].by = b /\ ui'.log[n + 1].of = a
  BY <1>1, <1>4, <1>5
<1>7. n + 1 <= MaxLines /\ \A i \in 1..n : LastCommand(i) => ui.log[i].of = a
  BY <1>1, <1>3 DEF UiInv, ConsoleInv, a
<1>8. ConsoleInOrder'
  <2> SUFFICES ASSUME NEW i \in 1..(n + 1), NEW j \in 1..(n + 1), i < j, ui'.log[i].by = "cmd",
                      \A k \in (i + 1)..j : ui'.log[k].by # "cmd"
               PROVE  ui'.log[j].of = ui'.log[i].of
    BY <1>6 DEF ConsoleInOrder
  <2> HIDE DEF n
  <2>1. CASE j \in 1..n
    <3>1. i \in 1..n /\ \A k \in (i + 1)..j : k \in 1..n
      BY <1>1, <2>1
    <3>2. ui.log[i].by = "cmd" /\ \A k \in (i + 1)..j : ui.log[k].by # "cmd"
      BY <1>6, <3>1
    <3> QED
      BY <1>6, <2>1, <3>1, <3>2 DEF UiInv, ConsoleInv, ConsoleInOrder, n
  <2>2. CASE j = n + 1
    <3>1. i \in 1..n /\ \A k \in (i + 1)..n : k \in (i + 1)..j /\ k \in 1..n
      BY <1>1, <2>2
    <3>2. LastCommand(i)
      BY <1>6, <3>1 DEF LastCommand, n
    <3> QED
      BY <1>6, <1>7, <2>2, <3>1, <3>2
  <2> QED
    BY <1>1, <2>1, <2>2
<1>9. ConsoleInv'
  <2>1. ASSUME NEW t \in Slots, net'[t].live, net'[t].call = "command" PROVE FALSE
    <3>1. net'[t] = net[t] /\ t # s
      BY <1>3, <2>1 DEF OnAnswer, Answered, Idle, UiInv, UiTypes
    <3>2. Occupies(net[s]) /\ Occupies(net[t])
      BY <1>3, <2>1, <3>1 DEF Occupies
    <3> QED
      BY <1>3, <3>1, <3>2 DEF UiInv, BusyInv
  <2> QED
    BY <1>6, <1>7, <1>8, <2>1 DEF ConsoleInv
<1>10. Settles(s, "command")
  BY <1>3, <1>5, <1>9 DEF Settles, Keeps, Loads, Saves, Occupies
<1> QED
  BY <1>3, <1>10, Taken

--------------------------------------------------------------------------------
\* The invariant, one effect after the other.

\* A request that is answered makes room.
LEMMA Leaves ==
  ASSUME UiInv, NEW s \in Slots, net' = Answered(s)
  PROVE  /\ net' \in [Slots -> Requests]
         /\ ~net'[s].live /\ net'[s].call = "none"
         /\ \A t \in Slots : t # s => net'[t] = net[t]
<1>1. Idle \in Requests /\ ~Idle.live /\ Idle.call = "none"
  BY Known DEF Idle, Requests
<1> QED
  BY <1>1 DEF UiInv, UiTypes, Answered

\* The console prints nothing, and waits for no other command.
LEMMA LinesStay ==
  ASSUME ConsoleInv, ui'.log = ui.log,
         \A t \in Slots : net'[t].live /\ net'[t].call = "command" =>
           net[t].live /\ net[t].call = "command" /\ net[t].arg = net'[t].arg
  PROVE  ConsoleInv'
<1>1. ConsoleInOrder'
  BY DEF ConsoleInv, ConsoleInOrder
<1>2. \A i \in 1..Len(ui.log) : LastCommand(i)' => LastCommand(i)
  BY DEF LastCommand
<1> QED
  BY <1>1, <1>2 DEF ConsoleInv

\* An answer that is waited for.
LEMMA ReceivesKeeps ==
  ASSUME UiInv, NEW s \in Slots, Receives(s)
  PROVE  UiInv'
<1>1. /\ net' \in [Slots -> Requests]
      /\ ~net'[s].live /\ net'[s].call = "none"
      /\ \A t \in Slots : t # s => net'[t] = net[t]
  BY Leaves DEF Receives
<1>2. /\ net[s].live /\ Moves /\ Settles(s, net[s].call) /\ mounted' = mounted /\ auth' = auth
      /\ storage' = storage /\ AsksFor(mounted, net[s].call)
  BY DEF Receives, Moves, session, UiInv, Belongs
<1>3. UiTypes'
  BY <1>1, <1>2 DEF UiInv, UiTypes, Moves, Settles
<1>4. Belongs'
  BY <1>1, <1>2 DEF UiInv, Belongs, AsksFor
<1>5. GuestHasNoToken'
  BY <1>2 DEF UiInv, GuestHasNoToken
<1>6. LoginInv'
  BY <1>1, <1>2 DEF UiInv, LoginInv, Settles
<1>7. LoadingInv'
  <2>1. ui'.loading => \E t \in Slots : net'[t].live /\ net'[t].call \in Loads
    BY <1>1, <1>2 DEF UiInv, LoadingInv, Settles
  <2>2. ASSUME NEW t \in Slots, net'[t].live, net'[t].call \in Saves
        PROVE  ui'.loading
    <3>1. t # s /\ net[t].live /\ net[t].call \in Saves
      BY <1>1, <2>2
    <3>2. AsksFor(mounted, net[t].call) /\ ui.loading
      BY <3>1 DEF UiInv, Belongs, LoadingInv
    <3>3. net[s].call # "getProfile" /\ net[s].call \notin Saves
      BY <1>2, <3>1 DEF UiInv, LoadingInv
    <3>4. net[s].call \notin Loads \cup {"getAlerts", "getVulnerabilities", "getCloud", "getProfile"}
      BY <1>2, <3>1, <3>2, <3>3 DEF AsksFor, Loads, Saves
    <3> QED
      BY <1>2, <3>2, <3>4 DEF Settles
  <2>3. ASSUME NEW t \in Slots, net'[t].live, net'[t].call = "getProfile"
        PROVE  FALSE
    <3>1. t # s /\ net[t].live /\ net[t].call = "getProfile"
      BY <1>1, <2>3
    <3> QED
      BY <1>2, <3>1 DEF UiInv, LoadingInv
  <2> QED
    BY <1>1, <2>1, <2>2, <2>3 DEF UiInv, LoadingInv
<1>8. BusyInv'
  BY <1>1, <1>2 DEF UiInv, BusyInv, Settles, Occupies
<1>9. ToldInv'
  BY <1>2 DEF UiInv, ToldInv, Settles, AsksFor
<1>10. SettingsInv'
  BY <1>2 DEF UiInv, SettingsInv, Settles, Keeps
<1>11. ConsoleInv'
  <2>1. ui'.log = ui.log => ConsoleInv'
    BY <1>1, LinesStay DEF UiInv
  <2> QED
    BY <1>2, <2>1 DEF Settles, Keeps
<1>12. GuestInv'
  <2> SUFFICES ASSUME storage = "none", location' = mounted, mounted \in Watched
               PROVE  /\ ui'.rows # "some"
                      /\ \A t \in Slots : net'[t].live => net'[t].tok = "none"
    BY <1>2 DEF GuestInv
  <2>1. location = mounted
    BY <1>2 DEF Moves
  <2>2. ui.rows # "some" /\ \A t \in Slots : net[t].live => net[t].tok = "none"
    BY <2>1 DEF UiInv, GuestInv
  <2>3. ~Accepts(s)
    BY <1>2, <2>2 DEF Accepts, AsksFor, Watched, Open, Plain
  <2> QED
    BY <1>1, <1>2, <2>2, <2>3 DEF Settles
<1> QED
  BY <1>3, <1>4, <1>5, <1>6, <1>7, <1>8, <1>9, <1>10, <1>11, <1>12 DEF UiInv

\* An answer nobody waits for.
LEMMA VanishesKeeps ==
  ASSUME UiInv, NEW s \in Slots, Vanishes(s)
  PROVE  UiInv'
<1>1. /\ net' \in [Slots -> Requests]
      /\ ~net'[s].live /\ net'[s].call = "none"
      /\ \A t \in Slots : t # s => net'[t] = net[t]
  BY Leaves DEF Vanishes
<1>2. /\ ~net[s].live /\ net[s].call # "login" /\ mounted' = mounted /\ auth' = auth /\ ui' = ui
      /\ storage' \in {storage, "none"}
  BY DEF Vanishes, Moves, session
<1>3. UiTypes'
  BY <1>1, <1>2 DEF UiInv, UiTypes, Vanishes, Moves
<1>4. Belongs' /\ GuestHasNoToken' /\ LoginInv' /\ LoadingInv'
  BY <1>1, <1>2 DEF UiInv, Belongs, AsksFor, GuestHasNoToken, LoginInv, LoadingInv
<1>5. BusyInv' /\ ToldInv' /\ SettingsInv'
  BY <1>1, <1>2 DEF UiInv, BusyInv, Occupies, ToldInv, SettingsInv
<1>6. ConsoleInv'
  BY <1>1, <1>2, LinesStay DEF UiInv
<1>7. GuestInv'
  <2> SUFFICES ASSUME storage' = "none", location' = mounted, mounted \in Watched
               PROVE  /\ ui.rows # "some"
                      /\ \A t \in Slots : net'[t].live => net'[t].tok = "none"
    BY <1>2 DEF GuestInv
  <2>1. Moves
    BY DEF Vanishes, Watched, PublicPages
  <2>2. location = mounted /\ storage = "none"
    BY <2>1 DEF Moves, session
  <2> QED
    BY <1>1, <2>2 DEF UiInv, GuestInv
<1> QED
  BY <1>3, <1>4, <1>5, <1>6, <1>7 DEF UiInv

\* A request in the place of another.
LEMMA FollowsKeeps ==
  ASSUME UiInv, NEW s \in Slots, NEW c, NEW a, Follows(s, c, a)
  PROVE  UiInv'
<1> DEFINE r == [Request(c, a) EXCEPT !.live = net[s].live]
<1>1. /\ r \in Requests /\ (r.live <=> net[s].live) /\ r.call = c /\ r.arg = a
      /\ storage = "none" => r.tok = "none"
  <2>1. c \in Calls /\ a \in Texts
    BY Known DEF Follows, Calls, Lasting
  <2>2. net[s].live \in BOOLEAN /\ storage \in {"none", "good", "expired"}
    BY DEF UiInv, UiTypes, Requests
  <2> QED
    BY <2>1, <2>2 DEF Requests, Request
<1>2. /\ net' \in [Slots -> Requests] /\ net'[s] = r
      /\ \A t \in Slots : t # s => net'[t] = net[t]
  BY <1>1 DEF UiInv, UiTypes, Follows
<1> HIDE DEF r
<1>3. /\ UNCHANGED <<storage, auth, location, mounted>>
      /\ c \notin Loads \cup {"login", "getProfile", "command"}
      /\ net[s].call \notin Loads \cup {"login", "getProfile", "command"}
      /\ net[s].live => AsksFor(mounted, net[s].call) /\ AsksFor(mounted, c)
      /\ Occupies(r) <=> Occupies(net[s])
      /\ r.call = "analyze" <=> net[s].call = "analyze"
  BY <1>1 DEF Follows, shell, Loads, Saves, UiInv, Belongs, AsksFor, Occupies
<1>4. UiTypes'
  BY <1>2, <1>3 DEF UiInv, UiTypes, Follows
<1>5. Belongs' /\ GuestHasNoToken'
  BY <1>1, <1>2, <1>3 DEF UiInv, Belongs, GuestHasNoToken
<1>6. LoginInv'
  BY <1>1, <1>2, <1>3 DEF UiInv, LoginInv
<1>7. LoadingInv'
  <2>1. ui'.loading = ui.loading /\ ui'.rows \in {ui.rows, "none"}
    BY DEF Follows
  <2>2. Saves \subseteq Loads
    BY DEF Loads
  <2> QED
    BY <1>1, <1>2, <1>3, <2>1, <2>2 DEF UiInv, LoadingInv
<1>8. BusyInv'
  <2>1. ui'.busy = ui.busy
    BY DEF Follows
  <2>2. \A t \in Slots : /\ Occupies(net'[t]) <=> Occupies(net[t])
                         /\ net'[t].call = "analyze" <=> net[t].call = "analyze"
    BY <1>1, <1>2, <1>3
  <2> QED
    BY <2>1, <2>2 DEF UiInv, BusyInv, Occupies
<1>9. ToldInv' /\ SettingsInv'
  <2>1. ui' = ui \/ mounted = "dashboard"
    BY <1>3 DEF Follows, AsksFor
  <2> QED
    BY <1>3, <2>1 DEF UiInv, ToldInv, SettingsInv
<1>10. ConsoleInv'
  BY <1>1, <1>2, <1>3, LinesStay DEF UiInv, Follows
<1>11. GuestInv'
  BY <1>1, <1>2, <1>3 DEF UiInv, GuestInv, Follows
<1> QED
  BY <1>4, <1>5, <1>6, <1>7, <1>8, <1>9, <1>10, <1>11 DEF UiInv

\* A request of the page.
LEMMA SendsKeeps ==
  ASSUME UiInv, NEW c, NEW a, Sends(c, a)
  PROVE  UiInv'
<1> DEFINE r == Request(c, a)
<1>1. /\ r \in Requests /\ r.live /\ r.call = c /\ r.arg = a
      /\ storage = "none" => r.tok = "none"
  BY DEF Sends, UiInv, UiTypes, Requests, Request
<1>2. PICK s \in Slots : net[s] = Idle /\ net' = [net EXCEPT ![s] = r]
  BY DEF Sends, Free
<1>3. /\ net' \in [Slots -> Requests] /\ net'[s] = r /\ ~net[s].live /\ net[s].call = "none"
      /\ \A t \in Slots : t # s => net'[t] = net[t]
  BY <1>1, <1>2 DEF UiInv, UiTypes, Idle
<1> HIDE DEF r
<1>4. /\ UNCHANGED <<storage, auth, location, mounted>>
      /\ AsksFor(mounted, c)
      /\ c \notin {"login", "getProfile", "getAgents", "getPlaybooks"}
  BY DEF Sends, shell
<1>5. /\ ui'.loading <=> ui.loading \/ c \in Loads
      /\ ui'.busy <=> ui.busy \/ Occupies(r)
      /\ Occupies(r) => ~ui.busy
      /\ ui'.rows = ui.rows
  BY DEF Sends, r
<1>6. UiTypes'
  BY <1>3, <1>4 DEF UiInv, UiTypes, Sends
<1>7. Belongs' /\ GuestHasNoToken'
  BY <1>1, <1>3, <1>4 DEF UiInv, Belongs, GuestHasNoToken
<1>8. LoginInv'
  BY <1>1, <1>3, <1>4 DEF UiInv, LoginInv
<1>9. LoadingInv'
  <2>1. ui'.loading => \E t \in Slots : net'[t].live /\ net'[t].call \in Loads
    <3>1. CASE c \in Loads
      BY <1>1, <1>3, <3>1
    <3>2. CASE c \notin Loads /\ ui.loading
      BY <1>3, <3>2 DEF UiInv, LoadingInv
    <3> QED
      BY <1>5, <3>1, <3>2
  <2>2. \A t \in Slots : net'[t].live /\ net'[t].call \in Saves => ui'.loading
    BY <1>1, <1>3, <1>5 DEF UiInv, LoadingInv, Loads
  <2>3. c \in Saves => \A t \in Slots : ~(net[t].live /\ net[t].call \in Saves)
    BY DEF Sends, UiInv, LoadingInv
  <2>4. \A t \in Slots : ~(net'[t].live /\ net'[t].call = "getProfile")
    <3> SUFFICES ASSUME NEW t \in Slots, net'[t].live, net'[t].call = "getProfile"
                 PROVE  FALSE
      OBVIOUS
    <3>1. net[t].live /\ net[t].call = "getProfile"
      BY <1>1, <1>3, <1>4
    <3>2. mounted = "profile" /\ ui.rows = "none"
      BY <3>1 DEF UiInv, Belongs, AsksFor, LoadingInv
    <3> QED
      BY <3>2 DEF Sends
  <2> QED
    BY <1>1, <1>3, <2>1, <2>2, <2>3, <2>4 DEF UiInv, LoadingInv
<1>10. BusyInv'
  <2>1. ui'.busy => \E t \in Slots : Occupies(net'[t])
    BY <1>3, <1>5 DEF UiInv, BusyInv, Occupies
  <2>2. ASSUME NEW t \in Slots, Occupies(net'[t]), net'[t].call # "analyze"
        PROVE  ui'.busy /\ \A u \in Slots : Occupies(net'[u]) => t = u
    <3>1. CASE t = s
      <4>1. Occupies(r) /\ r.call # "analyze" /\ ~ui.busy /\ ui'.busy
        BY <1>3, <1>5, <2>2, <3>1
      <4>2. ASSUME NEW u \in Slots, u # s, Occupies(net[u]) PROVE FALSE
        <5>1. net[u].call = "analyze" /\ net[u].live
          BY <4>1, <4>2 DEF UiInv, BusyInv, Occupies
        <5> QED
          BY <1>1, <1>4, <4>1, <5>1 DEF UiInv, Belongs, AsksFor, Occupies
      <4> QED
        BY <1>3, <3>1, <4>1, <4>2
    <3>2. CASE t # s
      <4>1. ui.busy /\ \A u \in Slots : Occupies(net[u]) => t = u
        BY <1>3, <2>2, <3>2 DEF UiInv, BusyInv
      <4> QED
        BY <1>3, <1>5, <4>1
    <3> QED
      BY <3>1, <3>2
  <2> QED
    BY <2>1, <2>2 DEF BusyInv
<1>11. ToldInv'
  BY <1>4 DEF ToldInv, AsksFor
<1>12. SettingsInv'
  BY <1>4 DEF UiInv, SettingsInv, Sends, Keeps
<1>13. ConsoleInv'
  <2>1. ui'.log = ui.log /\ c # "command" => ConsoleInv'
    BY <1>1, <1>3, LinesStay DEF UiInv
  <2> QED
    BY <2>1 DEF Sends, Keeps
<1>14. GuestInv'
  BY <1>1, <1>3, <1>4, <1>5 DEF UiInv, GuestInv
<1> QED
  BY <1>6, <1>7, <1>8, <1>9, <1>10, <1>11, <1>12, <1>13, <1>14 DEF UiInv

\* Work on the page itself.
LEMMA WorksKeeps ==
  ASSUME UiInv, Works
  PROVE  UiInv'
<1>1. /\ net' = net /\ UNCHANGED <<storage, auth, mounted>>
      /\ ui'.loading <=> ui.loading
      /\ (ui'.busy <=> ui.busy) \/ (mounted = "incidents" /\ ~ui'.busy)
      /\ ui'.rows = ui.rows \/ mounted = "dashboard"
  BY DEF Works, Moves, session
<1>2. UiTypes'
  BY <1>1 DEF UiInv, UiTypes, Works, Moves
<1>3. Belongs' /\ GuestHasNoToken' /\ LoginInv'
  BY <1>1 DEF UiInv, Belongs, GuestHasNoToken, LoginInv
<1>4. LoadingInv'
  BY <1>1 DEF UiInv, LoadingInv, Belongs, AsksFor
<1>5. BusyInv'
  <2>1. CASE ui'.busy <=> ui.busy
    BY <1>1, <2>1 DEF UiInv, BusyInv
  <2>2. CASE mounted = "incidents" /\ ~ui'.busy
    BY <1>1, <2>2 DEF UiInv, BusyInv, Belongs, AsksFor, Occupies
  <2> QED
    BY <1>1, <2>1, <2>2
<1>6. ToldInv' /\ SettingsInv'
  BY <1>1 DEF UiInv, ToldInv, SettingsInv, Works, Keeps
<1>7. ConsoleInv'
  <2>1. ui'.log = ui.log => ConsoleInv'
    BY <1>1, LinesStay DEF UiInv
  <2> QED
    BY <2>1 DEF Works, Keeps
<1>8. GuestInv'
  BY <1>1 DEF UiInv, GuestInv, Works, Moves, session, Watched
<1> QED
  BY <1>2, <1>3, <1>4, <1>5, <1>6, <1>7, <1>8 DEF UiInv

\* The program as it is loaded.
Fresh ==
  /\ storage \in {"none", "good", "expired"}
  /\ auth = Signed(storage)
  /\ location \in Pages
  /\ mounted = "none"
  /\ net = [s \in Slots |-> Idle]
  /\ ui = Blank

\* The invariant holds when the program is loaded,
LEMMA FreshHolds ==
  ASSUME Fresh
  PROVE  UiInv
<1>1. \A s \in Slots : net[s] = Idle /\ ~Idle.live /\ Idle.call = "none"
  BY DEF Fresh, Idle
<1>2. /\ ~ui.loading /\ ~ui.busy /\ ui.log = <<>> /\ Len(ui.log) = 0
  BY DEF Fresh, Blank
<1>3. UiTypes
  <2>1. Idle \in Requests
    BY Known DEF Idle, Requests
  <2>2. Unset \in Settings /\ <<>> \in Seq([by : Texts, of : Texts])
    BY Known DEF Unset, Settings
  <2>3. ui \in PageState
    BY <2>2, Known DEF Fresh, Blank, PageState
  <2> QED
    BY <2>1, <2>3 DEF Fresh, UiTypes, Signed
<1>4. Belongs /\ GuestHasNoToken /\ LoginInv
  BY <1>1 DEF Belongs, GuestHasNoToken, LoginInv, Fresh, Signed
<1>5. LoadingInv /\ BusyInv
  BY <1>1, <1>2 DEF LoadingInv, BusyInv, Occupies
<1>6. ToldInv /\ SettingsInv /\ GuestInv
  BY DEF Fresh, ToldInv, SettingsInv, GuestInv, Watched
<1>7. ConsoleInv
  BY <1>1, <1>2, InvestigateAssumption DEF ConsoleInv, ConsoleInOrder
<1> QED
  BY <1>3, <1>4, <1>5, <1>6, <1>7 DEF UiInv

\* and so whenever it is loaded anew.
LEMMA FreshAgain == Fresh' => UiInv'
<1>1. Fresh => UiInv
  BY FreshHolds
<1> QED
  BY <1>1, PTL

\* The steps of the session.

\* The button does not wait for a login of its own page only: none is under way.
LEMMA LoginSubmitKeeps ==
  ASSUME UiInv, LoginSubmit
  PROVE  UiInv'
<1> DEFINE r == Request("login", "none")
<1>1. /\ r \in Requests /\ r.live /\ r.call = "login" /\ r.arg = "none" /\ r.tok = "none"
  BY Known DEF Requests, Request, Open, Calls
<1>2. PICK s \in Slots : net[s] = Idle /\ net' = [net EXCEPT ![s] = r]
  BY DEF LoginSubmit, Free
<1>3. /\ net' \in [Slots -> Requests] /\ net'[s] = r /\ ~net[s].live /\ net[s].call = "none"
      /\ \A t \in Slots : t # s => net'[t] = net[t]
  BY <1>1, <1>2 DEF UiInv, UiTypes, Idle
<1> HIDE DEF r
<1>4. /\ UNCHANGED <<storage, location, mounted, ui>> /\ mounted = "login"
      /\ ~auth.loading /\ auth'.loading /\ (auth'.in <=> auth.in)
      /\ auth' \in [in : BOOLEAN, loading : BOOLEAN]
  BY DEF LoginSubmit, LoginShows, When, At, UiInv, UiTypes
<1>5. UiTypes' /\ Belongs' /\ GuestHasNoToken'
  BY <1>1, <1>3, <1>4 DEF UiInv, UiTypes, Belongs, AsksFor, GuestHasNoToken
<1>6. LoginInv'
  BY <1>1, <1>3, <1>4 DEF UiInv, LoginInv
<1>7. LoadingInv' /\ BusyInv'
  BY <1>1, <1>3, <1>4 DEF UiInv, LoadingInv, Loads, Saves, BusyInv, Occupies, Belongs, AsksFor
<1>8. ToldInv' /\ SettingsInv' /\ GuestInv'
  BY <1>4 DEF ToldInv, SettingsInv, GuestInv, Watched
<1>9. ConsoleInv'
  BY <1>1, <1>3, <1>4, LinesStay DEF UiInv
<1> QED
  BY <1>5, <1>6, <1>7, <1>8, <1>9 DEF UiInv

\* A login ends, on whatever page the user is by then.
LEMMA LoginEndsKeeps ==
  ASSUME UiInv, NEW s \in Slots, LoginAccepted(s) \/ LoginFails(s)
  PROVE  UiInv'
<1>1. /\ net' \in [Slots -> Requests]
      /\ ~net'[s].live /\ net'[s].call = "none"
      /\ \A t \in Slots : t # s => net'[t] = net[t]
  BY Leaves DEF LoginAccepted, LoginFails
<1>2. /\ net[s].call = "login" /\ UNCHANGED <<mounted, ui>>
      /\ ~auth'.loading /\ auth' \in [in : BOOLEAN, loading : BOOLEAN]
      /\ \/ storage' = "good" /\ location' = "dashboard" /\ auth'.in
         \/ storage' = storage /\ location' = location /\ (auth'.in <=> auth.in)
         \/ /\ storage' = "none" /\ location' = location /\ location \in PublicPages
            /\ (auth'.in <=> auth.in)
  BY DEF LoginAccepted, LoginFails, GoTo, When, UiInv, UiTypes
<1>3. UiTypes' /\ Belongs' /\ GuestHasNoToken'
  BY <1>1, <1>2 DEF UiInv, UiTypes, Belongs, AsksFor, GuestHasNoToken, Pages, ProtectedPages
<1>4. LoginInv'
  BY <1>1, <1>2 DEF UiInv, LoginInv
<1>5. LoadingInv' /\ BusyInv'
  BY <1>1, <1>2 DEF UiInv, LoadingInv, Loads, Saves, BusyInv, Occupies
<1>6. ToldInv' /\ SettingsInv' /\ GuestInv'
  BY <1>1, <1>2 DEF UiInv, ToldInv, SettingsInv, GuestInv, Watched, PublicPages
<1>7. ConsoleInv'
  BY <1>1, <1>2, LinesStay DEF UiInv
<1> QED
  BY <1>3, <1>4, <1>5, <1>6, <1>7 DEF UiInv

\* The logout leaves the page for one that shows nothing of the API's.
LEMMA NavbarLogoutKeeps ==
  ASSUME UiInv, NavbarLogout
  PROVE  UiInv'
<1>1. /\ UNCHANGED <<net, mounted, ui>> /\ storage' = "none" /\ location' = "home" /\ mounted \in PublicPages
      /\ (auth'.loading <=> auth.loading) /\ auth' \in [in : BOOLEAN, loading : BOOLEAN]
  BY DEF NavbarLogout, GoTo, UiInv, UiTypes
<1>2. UiTypes' /\ Belongs' /\ GuestHasNoToken' /\ LoginInv'
  BY <1>1 DEF UiInv, UiTypes, Belongs, GuestHasNoToken, LoginInv, Pages, PublicPages
<1>3. LoadingInv' /\ BusyInv' /\ ToldInv' /\ SettingsInv' /\ GuestInv'
  BY <1>1 DEF UiInv, LoadingInv, BusyInv, ToldInv, SettingsInv, GuestInv, PublicPages, Watched
<1>4. ConsoleInv'
  BY <1>1, LinesStay DEF UiInv
<1> QED
  BY <1>2, <1>3, <1>4 DEF UiInv

\* The requests that are under way keep everything but the worth of their token.
LEMMA ExpireKeeps ==
  ASSUME UiInv, Expire
  PROVE  UiInv'
<1>1. /\ UNCHANGED <<auth, location, mounted, ui>> /\ storage = "good" /\ storage' = "expired"
  BY DEF Expire
<1>2. ASSUME NEW s \in Slots
      PROVE  /\ net'[s] \in Requests /\ (net'[s].live <=> net[s].live) /\ net'[s].call = net[s].call
             /\ net'[s].arg = net[s].arg
  BY DEF Expire, UiInv, UiTypes, Requests
<1>3. net' \in [Slots -> Requests]
  <2>1. net' = [s \in Slots |-> net'[s]]
    BY DEF Expire
  <2> QED
    BY <1>2, <2>1
<1>4. UiTypes' /\ Belongs' /\ GuestHasNoToken' /\ LoginInv'
  BY <1>1, <1>2, <1>3 DEF UiInv, UiTypes, Belongs, GuestHasNoToken, LoginInv
<1>5. LoadingInv' /\ ToldInv' /\ SettingsInv' /\ GuestInv'
  BY <1>1, <1>2 DEF UiInv, LoadingInv, ToldInv, SettingsInv, GuestInv
<1>6. BusyInv'
  BY <1>1, <1>2 DEF UiInv, BusyInv, Occupies
<1>7. ConsoleInv'
  BY <1>1, <1>2, LinesStay DEF UiInv
<1> QED
  BY <1>4, <1>5, <1>6, <1>7 DEF UiInv

\* Nothing but the token survives a reload.
LEMMA ReloadKeeps ==
  ASSUME NEW p \in Pages, NEW t \in {"none", "good", "expired"}, Reload(p, t)
  PROVE  UiInv'
BY FreshAgain DEF Fresh, Reload

--------------------------------------------------------------------------------
\* Rendering.

\* What a page starts with: the flag loading only with a request that takes it back,
\* and nothing of what the page before it had.
Begins(p, u, c) ==
  /\ u \in PageState
  /\ u.log = <<>> /\ ~u.busy /\ u.rows # "some"
  /\ c \notin Saves \cup {"login", "postSync", "putSettings", "upload", "command", "analyze"}
  /\ u.loading => c \in Loads
  /\ p \in {"agents", "playbooks"} => u.loading
  /\ c = "getProfile" => u.rows = "none"
  /\ c # "none" => AsksFor(p, c) /\ c \in Calls
  /\ p = "settings" => /\ u.store = [plain |-> "old", secret |-> "old"]
                       /\ u.draft = Unset /\ u.sent = Unset

\* Every page of the router begins so.
LEMMA OpensAs ==
  ASSUME NEW p \in Pages
  PROVE  Begins(p, OpensOf(p).ui, OpensOf(p).call)
<1> DEFINE Bare(u, l) == u \in PageState /\ u.log = <<>> /\ ~u.busy /\ (u.loading <=> l)
<1>1. Unset \in Settings /\ <<>> \in Seq([by : Texts, of : Texts]) /\ [plain |-> "old", secret |-> "old"] \in Settings
  BY Known DEF Unset, Settings
<1>2. Bare(Blank, FALSE) /\ Blank.rows = "none"
  BY <1>1, Known DEF Blank, PageState
<1>3. Bare([Blank EXCEPT !.loading = TRUE], TRUE) /\ [Blank EXCEPT !.loading = TRUE].rows = "none"
  BY <1>1, Known DEF Blank, PageState
<1> HIDE DEF Bare
<1>4. ASSUME NEW c \in {"getAgents", "getTraffic", "getTopology", "getPlaybooks", "getEvents", "getIncidents",
                        "findPlaybook"},
             AsksFor(p, c), p # "settings"
      PROVE  Begins(p, Opens([Blank EXCEPT !.loading = TRUE], c).ui, Opens([Blank EXCEPT !.loading = TRUE], c).call)
  <2>1. c \in Loads /\ c \in Calls
    BY <1>4 DEF Loads, Calls, Open, Plain
  <2> QED
    BY <1>3, <1>4, <2>1 DEF Begins, Opens, Bare, Saves
<1>5. ASSUME NEW c \in {"none", "getStats", "getAlerts", "getVulnerabilities", "getCloud"},
             c # "none" => AsksFor(p, c), p \notin {"agents", "playbooks", "settings"}
      PROVE  Begins(p, Opens(Blank, c).ui, Opens(Blank, c).call)
  <2>1. c # "none" => c \in Calls
    BY <1>5 DEF Calls, Open, Plain, Lasting
  <2> QED
    BY <1>2, <1>5, <2>1 DEF Begins, Opens, Bare, Saves
<1>6. CASE p = "forensics"
  <2>1. Bare([Blank EXCEPT !.rows = "sample"], FALSE) /\ [Blank EXCEPT !.rows = "sample"].rows = "sample"
    BY <1>1, Known DEF Blank, PageState, Bare
  <2> QED
    BY <1>6, <2>1 DEF Begins, OpensOf, ForensicsOpens, Opens, Bare, Saves
<1>7. CASE p = "newPlaybook"
  <2>1. Bare([Blank EXCEPT !.form = "new"], FALSE) /\ [Blank EXCEPT !.form = "new"].rows = "none"
    BY <1>1, Known DEF Blank, PageState, Bare
  <2> QED
    BY <1>7, <2>1 DEF Begins, OpensOf, NewPlaybookOpens, Opens, Bare, Saves
<1>8. CASE p = "profile"
  <2>1. Bare([Blank EXCEPT !.pick = "personal"], FALSE) /\ [Blank EXCEPT !.pick = "personal"].rows = "none"
    BY <1>1, Known DEF Blank, PageState, Bare
  <2> QED
    BY <1>8, <2>1 DEF Begins, OpensOf, ProfileOpens, Opens, Bare, Saves, Calls, AsksFor
<1>9. CASE p = "host"
  <2>1. "processes" \in Texts
    BY Known DEF HostTabs
  <2>2. /\ Bare([Blank EXCEPT !.loading = TRUE, !.pick = "processes"], TRUE)
        /\ [Blank EXCEPT !.loading = TRUE, !.pick = "processes"].rows = "none"
    BY <1>1, <2>1, Known DEF Blank, PageState, Bare
  <2> QED
    BY <1>9, <2>2 DEF Begins, OpensOf, HostOpens, Opens, Bare, Saves, Loads, Calls, AsksFor
<1>10. CASE p = "settings"
  <2> DEFINE u == [Blank EXCEPT !.loading = TRUE, !.store = [plain |-> "old", secret |-> "old"]]
  <2>1. /\ Bare(u, TRUE) /\ u.rows = "none" /\ u.store = [plain |-> "old", secret |-> "old"]
        /\ u.draft = Unset /\ u.sent = Unset
    BY <1>1, Known DEF Blank, PageState, Bare
  <2> HIDE DEF u
  <2>2. SettingsOpens = Opens(u, "getSettings") /\ OpensOf(p) = SettingsOpens
    BY <1>10 DEF SettingsOpens, OpensOf, u
  <2> QED
    BY <1>10, <2>1, <2>2 DEF Begins, Opens, Bare, Saves, Loads, Calls, AsksFor
<1>11. CASE p \in {"agents", "network", "topology", "playbooks", "explorer", "incidents", "editor"}
  <2>1. \E c \in {"getAgents", "getTraffic", "getTopology", "getPlaybooks", "getEvents", "getIncidents",
                  "findPlaybook"} :
          AsksFor(p, c) /\ OpensOf(p) = Opens([Blank EXCEPT !.loading = TRUE], c)
    BY <1>11 DEF OpensOf, AgentsOpens, NetworkOpens, TopologyOpens, PlaybooksOpens, ExplorerOpens, IncidentsOpens,
                 EditorOpens, AsksFor
  <2> QED
    BY <1>4, <1>11, <2>1
<1>12. CASE p \notin {"agents", "network", "topology", "playbooks", "explorer", "incidents", "editor", "forensics",
                     "newPlaybook", "profile", "host", "settings"}
  <2>1. \E c \in {"none", "getStats", "getAlerts", "getVulnerabilities", "getCloud"} :
          (c # "none" => AsksFor(p, c)) /\ OpensOf(p) = Opens(Blank, c)
    BY <1>12 DEF OpensOf, DashboardOpens, AlertsOpens, VulnerabilitiesOpens, CloudOpens, AsksFor
  <2> QED
    BY <1>5, <1>12, <2>1
<1> QED
  BY <1>6, <1>7, <1>8, <1>9, <1>10, <1>11, <1>12

\* Nobody waits for an answer to a request of the page that goes.
LEMMA LeftBehind ==
  ASSUME UiInv, NEW s \in Slots
  PROVE  /\ Abandoned(net[s]) \in Requests /\ ~Abandoned(net[s]).live
         /\ Abandoned(net[s]).call = "login" <=> net[s].call = "login"
<1>1. net[s] \in Requests
  BY DEF UiInv, UiTypes
<1>2. "none" \in Texts /\ "forgotten" \in Calls
  BY Known DEF Calls
<1>3. CASE net[s].call \in Lasting
  <2>1. Abandoned(net[s]) = [net[s] EXCEPT !.live = FALSE, !.arg = "none"]
    BY <1>3 DEF Abandoned
  <2> QED
    BY <1>1, <1>2, <2>1 DEF Requests
<1>4. CASE net[s].call \notin Lasting
  <2>1. \/ Abandoned(net[s]) = Idle
        \/ \E k \in {"good", "expired"} :
             Abandoned(net[s]) = [call |-> "forgotten", live |-> FALSE, arg |-> "none", tok |-> k]
    BY <1>4 DEF Abandoned
  <2>2. net[s].call # "login"
    BY <1>4 DEF Lasting
  <2>3. CASE Abandoned(net[s]) = Idle
    <3>1. Idle \in Requests /\ ~Idle.live /\ Idle.call # "login"
      BY <1>2 DEF Requests, Idle
    <3> QED
      BY <2>2, <2>3, <3>1
  <2>4. CASE \E k \in {"good", "expired"} :
               Abandoned(net[s]) = [call |-> "forgotten", live |-> FALSE, arg |-> "none", tok |-> k]
    BY <1>2, <2>2, <2>4 DEF Requests
  <2> QED
    BY <2>1, <2>3, <2>4
<1> QED
  BY <1>3, <1>4

\* A page begins while answers to the page before it are on their way.
LEMMA MountKeeps ==
  ASSUME UiInv, Mount, mounted' = location, UNCHANGED <<session, location>>
  PROVE  UiInv'
<1> DEFINE c == OpensOf(location).call
           r == Request(c, "none")
<1>1. /\ storage' = storage /\ auth' = auth /\ location' = location /\ location \in Pages
  BY DEF session, UiInv, UiTypes
<1>2. Begins(location, ui', c)
  BY <1>1, OpensAs DEF Mount
<1>3. /\ r.live /\ r.call = c /\ r.arg = "none" /\ (storage = "none" => r.tok = "none")
      /\ c # "none" => r \in Requests
  BY <1>2, Known DEF Request, Requests, Begins, UiInv, UiTypes
<1>4. /\ net' \in [Slots -> Requests]
      /\ \A s \in Slots : net'[s].call = "login" <=> net[s].call = "login"
      /\ \A s \in Slots : net'[s].live => net'[s] = r
      /\ \A s, t \in Slots : net'[s].live /\ net'[t].live => s = t
      /\ c # "none" <=> \E s \in Slots : net'[s].live
  <2> DEFINE left == [s \in Slots |-> Abandoned(net[s])]
  <2>1. \A s \in Slots : /\ left[s] \in Requests /\ ~left[s].live
                         /\ left[s].call = "login" <=> net[s].call = "login"
    BY LeftBehind
  <2>2. left \in [Slots -> Requests]
    BY <2>1
  <2>3. CASE c = "none"
    <3>1. net' = left
      BY <2>3 DEF Mount
    <3> HIDE DEF left, c, r
    <3> QED
      BY <2>1, <2>2, <2>3, <3>1
  <2>4. CASE c # "none"
    <3>1. PICK s \in Slots : left[s] = Idle /\ net' = [left EXCEPT ![s] = r]
      BY <2>4 DEF Mount
    <3>2. c # "login" /\ Idle.call # "login"
      BY <1>2 DEF Begins, Idle
    <3> HIDE DEF left, c, r
    <3>3. /\ net' \in [Slots -> Requests] /\ net'[s] = r /\ \A t \in Slots : t # s => net'[t] = left[t]
      BY <1>3, <2>2, <2>4, <3>1
    <3> QED
      BY <1>3, <2>1, <2>4, <3>1, <3>2, <3>3
  <2> QED
    BY <2>3, <2>4
<1> HIDE DEF c, r
<1>5. UiTypes'
  BY <1>1, <1>2, <1>4 DEF UiInv, UiTypes, Begins
<1>6. Belongs' /\ GuestHasNoToken'
  BY <1>1, <1>2, <1>3, <1>4 DEF UiInv, Belongs, GuestHasNoToken, Begins
<1>7. LoginInv'
  BY <1>1, <1>4 DEF UiInv, LoginInv
<1>8. LoadingInv'
  <2>1. ui'.loading => \E s \in Slots : net'[s].live /\ net'[s].call \in Loads
    <3>1. "none" \notin Loads
      BY DEF Loads, Saves
    <3> QED
      BY <1>2, <1>3, <1>4, <3>1 DEF Begins
  <2>2. \A s \in Slots : net'[s].live => net'[s].call \notin Saves
    BY <1>2, <1>3, <1>4 DEF Begins
  <2> QED
    BY <1>2, <1>3, <1>4, <2>1, <2>2 DEF LoadingInv, Begins
<1>9. BusyInv'
  BY <1>2, <1>3, <1>4 DEF BusyInv, Occupies, Begins
<1>10. ToldInv'
  BY <1>2 DEF ToldInv, Begins
<1>11. SettingsInv'
  BY <1>2 DEF SettingsInv, Begins, Unset
<1>12. ConsoleInv'
  <2>1. Len(ui'.log) = 0
    BY <1>2 DEF Begins
  <2>2. \A s \in Slots : net'[s].live => net'[s].call # "command"
    BY <1>2, <1>3, <1>4 DEF Begins
  <2> QED
    BY <2>1, <2>2, InvestigateAssumption DEF ConsoleInv, ConsoleInOrder
<1>13. GuestInv'
  BY <1>1, <1>2, <1>3, <1>4 DEF GuestInv, Begins
<1> QED
  BY <1>5, <1>6, <1>7, <1>8, <1>9, <1>10, <1>11, <1>12, <1>13 DEF UiInv

\* React replaces the page, or keeps the editor for the new playbook.
LEMMA RenderKeeps ==
  ASSUME UiInv, Render
  PROVE  UiInv'
<1>1. CASE mounted = "editor" /\ location = "newPlaybook"
  <2>1. /\ UNCHANGED <<storage, auth, location, net>> /\ mounted' = "newPlaybook"
        /\ ui' = [ui EXCEPT !.loading = FALSE, !.form = "new", !.pick = "none"]
    BY <1>1 DEF Render, session, NewPlaybookTakesOver
  <2>2. /\ ui' \in PageState /\ ~ui'.loading /\ ui'.busy = ui.busy /\ ui'.log = ui.log
    BY <2>1, Known DEF UiInv, UiTypes, PageState
  <2>3. \A s \in Slots : net[s].live => net[s].call \in {"findPlaybook", "savePlaybook"}
    BY <1>1 DEF UiInv, Belongs, AsksFor
  <2>4. UiTypes' /\ Belongs' /\ GuestHasNoToken' /\ LoginInv'
    BY <1>1, <2>1, <2>2, <2>3 DEF UiInv, UiTypes, Pages, ProtectedPages, Belongs, AsksFor, GuestHasNoToken, LoginInv
  <2>5. LoadingInv' /\ BusyInv'
    BY <2>1, <2>2, <2>3 DEF UiInv, LoadingInv, Saves, BusyInv, Occupies
  <2>6. ToldInv' /\ SettingsInv' /\ GuestInv'
    BY <2>1 DEF ToldInv, SettingsInv, GuestInv, Watched
  <2>7. ConsoleInv'
    BY <2>1, <2>2, LinesStay DEF UiInv
  <2> QED
    BY <2>4, <2>5, <2>6, <2>7 DEF UiInv
<1>2. CASE ~(mounted = "editor" /\ location = "newPlaybook")
  BY <1>2, MountKeeps DEF Render
<1> QED
  BY <1>1, <1>2

--------------------------------------------------------------------------------
\* The steps of the user.

\* A page changes a text of its own.
LEMMA OneText ==
  ASSUME ui \in PageState, NEW t \in Texts,
         \/ ui' = [ui EXCEPT !.pick = t] \/ ui' = [ui EXCEPT !.form = t]
         \/ ui' = [ui EXCEPT !.note = t] \/ ui' = [ui EXCEPT !.of = t]
  PROVE  /\ Untouched
         /\ UNCHANGED <<ui.loading, ui.busy, ui.told, ui.error>>
BY DEF PageState, Untouched

\* A page that stays where it is, and whose flags and list do not change.
LEMMA StaysWorking ==
  ASSUME UiInv, Untouched, UNCHANGED <<ui.loading, ui.busy, ui.told, ui.error>>,
         UNCHANGED <<shell, net>>
  PROVE  Works
BY DEF Works, Moves, Keeps, Untouched, shell, session, UiInv, UiTypes

\* A link changes the location, and the page is still there.
LEMMA LinksWork ==
  ASSUME UiInv, NEW p \in Pages, Follow(p)
  PROVE  Works
BY DEF Follow, GoTo, Works, Moves, Keeps, session, UiInv, UiTypes

\* Tabs, drawers and forms.
LEMMA TextsWork ==
  ASSUME UiInv,
         \/ \E t \in {"personal", "security", "activity"} : ProfileTab(t)
         \/ \E form \in {"blank", "match", "mismatch"} : ProfileType(form)
         \/ ProfileDismiss
         \/ ProfileSavePassword /\ ui.form # "match"
         \/ AgentsPick \/ AgentsClose \/ DashboardPick \/ DashboardClose
         \/ \E t \in HostTabs : HostTab(t)
         \/ ExplorerPivot \/ PivotClose \/ ForensicsFile \/ IntegrationOpen \/ EditorChange
  PROVE  Works
<1>1. ui \in PageState
  BY DEF UiInv, UiTypes
<1>2. UNCHANGED <<shell, net>>
  BY DEF ProfileTab, ProfileType, ProfileDismiss, ProfileSavePassword, AgentsPick, AgentsClose, DashboardPick,
         DashboardClose, HostTab, ExplorerPivot, PivotClose, ForensicsFile, IntegrationOpen, EditorChange, Locally
<1>3. \E t \in Texts : \/ ui' = [ui EXCEPT !.pick = t] \/ ui' = [ui EXCEPT !.form = t]
                       \/ ui' = [ui EXCEPT !.note = t] \/ ui' = [ui EXCEPT !.of = t]
  <2>1. CASE \/ \E t \in {"personal", "security", "activity"} : ProfileTab(t)
             \/ \E form \in {"blank", "match", "mismatch"} : ProfileType(form)
    BY <2>1, Known DEF ProfileTab, ProfileType
  <2>2. CASE ProfileDismiss \/ (ProfileSavePassword /\ ui.form # "match")
    BY <2>2, Known DEF ProfileDismiss, ProfileSavePassword
  <2>3. CASE AgentsPick \/ AgentsClose \/ DashboardPick \/ DashboardClose
    BY <2>3, Known DEF AgentsPick, AgentsClose, DashboardPick, DashboardClose, Locally
  <2>4. CASE \E t \in HostTabs : HostTab(t)
    BY <2>4, Known DEF HostTab, Locally
  <2>5. CASE ExplorerPivot \/ PivotClose \/ ForensicsFile \/ IntegrationOpen \/ EditorChange
    BY <2>5, Known DEF ExplorerPivot, PivotClose, ForensicsFile, IntegrationOpen, EditorChange, Locally
  <2> QED
    BY <2>1, <2>2, <2>3, <2>4, <2>5
<1> QED
  BY <1>1, <1>2, <1>3, OneText, StaysWorking

\* The other steps of a page that ask for nothing.
LEMMA PagesWork ==
  ASSUME UiInv,
         \/ RegisterSubmit(FALSE) \/ DashboardEvent
         \/ \E i \in Incidents : IncidentsPick(i)
         \/ IncidentsClose \/ SettingsTimer
  PROVE  Works
<1>1. ui \in PageState /\ location \in Pages
  BY DEF UiInv, UiTypes
<1>2. CASE RegisterSubmit(FALSE)
  <2>1. ui' = [ui EXCEPT !.error = TRUE] /\ UNCHANGED <<shell, net>> /\ mounted = "register"
    BY <1>2 DEF RegisterSubmit, At
  <2>2. Untouched /\ UNCHANGED <<ui.loading, ui.busy>>
    BY <1>1, <2>1 DEF Untouched, PageState
  <2> QED
    BY <1>1, <2>1, <2>2 DEF Works, Moves, Keeps, Untouched, shell, session
<1>3. CASE DashboardEvent
  <2>1. ui' = [ui EXCEPT !.rows = "some"] /\ UNCHANGED <<shell, net>> /\ mounted = "dashboard"
    BY <1>3 DEF DashboardEvent
  <2>2. ui' \in PageState /\ UNCHANGED <<ui.loading, ui.busy, ui.log, ui.draft, ui.sent, ui.store>>
    BY <1>1, <2>1 DEF PageState
  <2> QED
    BY <1>1, <2>1, <2>2 DEF Works, Moves, Keeps, shell, session
<1>4. CASE IncidentsClose \/ \E i \in Incidents : IncidentsPick(i) /\ ui.form = "declared"
  <2>1. PICK i \in Texts : /\ ui' = [ui EXCEPT !.pick = i, !.busy = FALSE, !.note = "none", !.of = "none"]
                           /\ UNCHANGED <<shell, net>> /\ mounted = "incidents"
    BY <1>4, Known DEF IncidentsClose, IncidentsPick, Selected, Locally, At
  <2>2. Untouched /\ ~ui'.busy /\ UNCHANGED ui.loading
    BY <1>1, <2>1, Known DEF Untouched, PageState
  <2> QED
    BY <1>1, <2>1, <2>2 DEF Works, Moves, Keeps, Untouched, shell, session
<1>5. CASE \E i \in Incidents : IncidentsPick(i) /\ ui.form # "declared"
  BY <1>1, <1>5 DEF IncidentsPick, GoTo, Works, Moves, Keeps, session, Watched, Pages
<1>6. CASE SettingsTimer
  <2>1. ui' = [ui EXCEPT !.error = FALSE, !.hiding = FALSE] /\ UNCHANGED <<shell, net>> /\ mounted = "settings"
    BY <1>6 DEF SettingsTimer
  <2>2. Untouched /\ UNCHANGED <<ui.loading, ui.busy>>
    BY <1>1, <2>1 DEF Untouched, PageState
  <2> QED
    BY <1>1, <2>1, <2>2 DEF Works, Moves, Keeps, Untouched, shell, session
<1> QED
  BY <1>2, <1>3, <1>4, <1>5, <1>6

\* What is typed into the settings.
LEMMA DraftsWork ==
  ASSUME UiInv, SettingsChange \/ IntegrationSave
  PROVE  Works
<1>1. ui \in PageState /\ location \in Pages /\ SettingsInv /\ mounted = "settings" /\ UNCHANGED <<shell, net>>
  BY DEF UiInv, UiTypes, SettingsChange, IntegrationSave, Locally, At
<1>2. \E d \in Settings :
        /\ d.plain \in {"none", "old", "new"} /\ d.secret \in {"none", "mask", "empty", "new"}
        /\ \/ ui' = [ui EXCEPT !.draft = d]
           \/ ui' = [ui EXCEPT !.of = "none", !.draft = d]
  <2>1. ui.draft \in Settings
    BY <1>1 DEF PageState
  <2>2. CASE SettingsChange
    <3> DEFINE d == [ui.draft EXCEPT !.plain = "new"]
    <3>1. d \in Settings /\ d.plain = "new" /\ d.secret = ui.draft.secret
      BY <2>1, Known DEF Settings
    <3>2. ui' = [ui EXCEPT !.draft = d]
      BY <2>2 DEF SettingsChange, Locally
    <3> QED
      BY <1>1, <3>1, <3>2 DEF SettingsInv
  <2>3. CASE IntegrationSave
    <3>1. PICK v \in {ui.draft.secret, "empty", "new"} : ui' = [ui EXCEPT !.of = "none", !.draft.secret = v]
      BY <2>3 DEF IntegrationSave, Locally
    <3> DEFINE d == [ui.draft EXCEPT !.secret = v]
    <3>2. v \in Texts /\ v \in {"none", "mask", "empty", "new"}
      BY <1>1, Known DEF SettingsInv
    <3>3. d \in Settings /\ d.secret = v /\ d.plain = ui.draft.plain
      BY <2>1, <3>2 DEF Settings
    <3>4. ui' = [ui EXCEPT !.of = "none", !.draft = d]
      BY <1>1, <3>1 DEF PageState
    <3> QED
      BY <1>1, <3>2, <3>3, <3>4 DEF SettingsInv
  <2> QED
    BY <2>2, <2>3
<1>3. PICK d \in Settings :
        /\ d.plain \in {"none", "old", "new"} /\ d.secret \in {"none", "mask", "empty", "new"}
        /\ \/ ui' = [ui EXCEPT !.draft = d]
           \/ ui' = [ui EXCEPT !.of = "none", !.draft = d]
  BY <1>2
<1>4. /\ ui' \in PageState /\ ui'.draft = d
      /\ UNCHANGED <<ui.loading, ui.busy, ui.rows, ui.log, ui.sent, ui.store>>
  BY <1>1, <1>3, Known DEF PageState
<1>5. SettingsInv'
  BY <1>1, <1>3, <1>4 DEF SettingsInv, shell
<1> QED
  BY <1>1, <1>4, <1>5 DEF Works, Moves, Keeps, shell, session

\* What the console prints before it waits: the command, and perhaps a line for it.
LEMMA Prints ==
  ASSUME UiInv, NEW c, Len(ui.log) + 3 <= MaxLines, UNCHANGED mounted,
         Len(ui'.log) \in {Len(ui.log) + 1, Len(ui.log) + 2},
         \A i \in 1..Len(ui.log) : ui'.log[i] = ui.log[i],
         ui'.log[Len(ui.log) + 1].by = "cmd", ui'.log[Len(ui.log) + 1].of = c,
         Len(ui'.log) = Len(ui.log) + 2 =>
           ui'.log[Len(ui.log) + 2].by # "cmd" /\ ui'.log[Len(ui.log) + 2].of = c,
         \A s \in Slots : net'[s].live /\ net'[s].call = "command" => net'[s].arg = c
  PROVE  ConsoleInv'
<1> DEFINE n == Len(ui.log)
           m == Len(ui'.log)
<1>1. n \in Nat /\ m \in Nat /\ MaxLines \in Nat /\ m \in {n + 1, n + 2} /\ n + 3 <= MaxLines
  BY InvestigateAssumption DEF UiInv, UiTypes, PageState
<1>2. ConsoleInOrder'
  <2> SUFFICES ASSUME NEW i \in 1..m, NEW j \in 1..m, i < j, ui'.log[i].by = "cmd",
                      \A k \in (i + 1)..j : ui'.log[k].by # "cmd"
               PROVE  ui'.log[j].of = ui'.log[i].of
    BY DEF ConsoleInOrder
  <2>1. CASE j \in 1..n
    <3> HIDE DEF m
    <3>1. i \in 1..n /\ \A k \in (i + 1)..j : k \in 1..n
      BY <1>1, <2>1 DEF n
    <3>2. ui.log[i].by = "cmd" /\ \A k \in (i + 1)..j : ui.log[k].by # "cmd"
      BY <3>1
    <3> QED
      BY <2>1, <3>1, <3>2 DEF UiInv, ConsoleInv, ConsoleInOrder
  <2>2. CASE j > n
    <3> HIDE DEF n, m
    <3>1. n + 1 \notin (i + 1)..j
      BY DEF n
    <3>2. i = n + 1 /\ j = n + 2 /\ m = n + 2
      BY <1>1, <2>2, <3>1
    <3> QED
      BY <3>2 DEF n, m
  <2> HIDE DEF n, m
  <2> QED
    BY <1>1, <2>1, <2>2
<1>3. ASSUME NEW i \in 1..m, LastCommand(i)' PROVE ui'.log[i].of = c
  <2> HIDE DEF n
  <2>1. n + 1 \notin (i + 1)..m
    BY <1>3 DEF LastCommand, n
  <2>2. i = n + 1 \/ (i = n + 2 /\ m = n + 2)
    <3> HIDE DEF m
    <3> QED
      BY <1>1, <2>1
  <2>3. ui'.log[i].by = "cmd"
    BY <1>3 DEF LastCommand
  <2> QED
    BY <2>2, <2>3 DEF n
<1>4. m <= MaxLines /\ m + 1 <= MaxLines
  <2> HIDE DEF n, m
  <2> QED
    BY <1>1
<1> QED
  BY <1>2, <1>3, <1>4 DEF ConsoleInv

\* A prompt that is shown has no command under way.
LEMMA NobodyCommands ==
  ASSUME UiInv, ~ui.busy, NEW s \in Slots, net[s].live, net[s].call = "command"
  PROVE  FALSE
BY DEF UiInv, BusyInv, Occupies

\* The commands that ask the API for nothing.
LEMMA ConsoleWorks ==
  ASSUME UiInv, ConsoleRun("local") \/ ConsoleClear
  PROVE  Works
<1> DEFINE Lines == [by : Texts, of : Texts]
<1>1. /\ ui \in PageState /\ location \in Pages /\ ui.log \in Seq(Lines) /\ UNCHANGED <<shell, net>>
      /\ mounted = "console"
  BY DEF UiInv, UiTypes, PageState, ConsoleRun, ConsoleClear, Locally, At, Asking
<1>2. \E l \in Seq(Lines) : ui' = [ui EXCEPT !.log = l] /\ (ui'.log = l => ConsoleInv')
  <2>1. CASE ConsoleClear
    <3>1. ui' = [ui EXCEPT !.log = <<>>] /\ <<>> \in Seq(Lines)
      BY <2>1 DEF ConsoleClear, Locally
    <3>2. ASSUME ui'.log = <<>> PROVE ConsoleInv'
      <4>1. Len(ui'.log) = 0 /\ Len(ui.log) \in Nat /\ MaxLines \in Nat
        BY <1>1, <3>2, InvestigateAssumption
      <4> QED
        BY <1>1, <4>1 DEF ConsoleInv, ConsoleInOrder, UiInv
    <3> QED
      BY <3>1, <3>2
  <2>2. CASE ConsoleRun("local")
    <3> DEFINE l == ui.log \o <<Line("cmd", "local"), Line("out", "local")>>
    <3>1. ui' = [ui EXCEPT !.log = l] /\ ~ui.busy /\ Len(ui.log) + 3 <= MaxLines
      BY <2>2 DEF ConsoleRun, ConsoleShows, When, Asking
    <3>2. /\ Line("cmd", "local") \in Lines /\ Line("out", "local") \in Lines
          /\ Line("cmd", "local").by = "cmd" /\ Line("cmd", "local").of = "local"
          /\ Line("out", "local").by # "cmd" /\ Line("out", "local").of = "local"
      BY Known DEF Line
    <3>3. /\ l \in Seq(Lines) /\ Len(l) = Len(ui.log) + 2
          /\ \A i \in 1..Len(ui.log) : l[i] = ui.log[i]
          /\ l[Len(ui.log) + 1] = Line("cmd", "local") /\ l[Len(ui.log) + 2] = Line("out", "local")
      <4> HIDE DEF Lines
      <4> QED
        BY <1>1, <3>2
    <3> HIDE DEF l
    <3>4. \A s \in Slots : ~(net'[s].live /\ net'[s].call = "command")
      BY <1>1, <3>1, NobodyCommands
    <3>5. ASSUME ui'.log = l PROVE ConsoleInv'
      BY <1>1, <3>1, <3>2, <3>3, <3>4, <3>5, Prints DEF shell
    <3> QED
      BY <3>1, <3>3, <3>5
  <2> QED
    BY <2>1, <2>2
<1>3. PICK l \in Seq(Lines) : ui' = [ui EXCEPT !.log = l] /\ (ui'.log = l => ConsoleInv')
  BY <1>2
<1>4. /\ ui' \in PageState /\ ui'.log = l
      /\ UNCHANGED <<ui.loading, ui.busy, ui.rows, ui.told, ui.error, ui.draft, ui.sent, ui.store>>
  BY <1>1, <1>3 DEF PageState
<1> QED
  BY <1>1, <1>3, <1>4 DEF Works, Moves, Keeps, shell, session

\* Those that do.
LEMMA ConsoleSends ==
  ASSUME UiInv, NEW c \in Asking, ConsoleRun(c)
  PROVE  Sends("command", c)
<1> DEFINE Lines == [by : Texts, of : Texts]
           l == ui.log \o <<Line("cmd", c)>> \o Announced(c)
<1>1. ui \in PageState /\ ui.log \in Seq(Lines) /\ c \in Texts /\ c # "local"
  BY Known DEF UiInv, UiTypes, PageState, Asking
<1>2. /\ Send("command", c) /\ ui' = [ui EXCEPT !.busy = TRUE, !.log = l] /\ ~ui.busy /\ mounted = "console"
      /\ Len(ui.log) + 3 <= MaxLines
  BY <1>1 DEF ConsoleRun, ConsoleShows, When, At
<1>3. /\ Line("cmd", c) \in Lines /\ Line("out", c) \in Lines
      /\ Line("cmd", c).by = "cmd" /\ Line("cmd", c).of = c
      /\ Line("out", c).by # "cmd" /\ Line("out", c).of = c
  BY <1>1, Known DEF Line
<1>4. /\ l \in Seq(Lines) /\ Len(l) \in {Len(ui.log) + 1, Len(ui.log) + 2}
      /\ \A i \in 1..Len(ui.log) : l[i] = ui.log[i]
      /\ l[Len(ui.log) + 1] = Line("cmd", c)
      /\ Len(l) = Len(ui.log) + 2 => l[Len(ui.log) + 2] = Line("out", c)
  <2> HIDE DEF Lines
  <2>1. CASE Announced(c) = <<Line("out", c)>>
    BY <1>1, <1>3, <2>1
  <2>2. CASE Announced(c) = <<>>
    BY <1>1, <1>3, <2>2
  <2> QED
    BY <2>1, <2>2 DEF Announced
<1> HIDE DEF l
<1>5. /\ ui' \in PageState /\ ui'.log = l /\ ui'.busy
      /\ UNCHANGED <<ui.loading, ui.rows, ui.draft, ui.sent, ui.store>>
  BY <1>1, <1>2, <1>4 DEF PageState
<1>6. \A s \in Slots : net'[s].live /\ net'[s].call = "command" => net'[s].arg = c
  <2>1. PICK s \in Slots : net' = [net EXCEPT ![s] = Request("command", c)]
    BY <1>2 DEF Send, Free
  <2>2. Request("command", c).arg = c /\ \A t \in Slots : t # s => net'[t] = net[t]
    BY <2>1 DEF Request, UiInv, UiTypes
  <2>3. net'[s] = Request("command", c)
    BY <2>1 DEF UiInv, UiTypes
  <2> QED
    BY <1>2, <2>2, <2>3, NobodyCommands
<1>7. ConsoleInv'
  BY <1>2, <1>3, <1>4, <1>5, <1>6, Prints DEF Send, shell
<1> QED
  BY <1>1, <1>2, <1>5, <1>7 DEF Sends, Send, AsksFor, Calls, Open, Loads, Saves, Occupies, Request, Keeps

\* A request whose page sets a flag for it.
LEMMA FlagsSend ==
  ASSUME UiInv,
         \/ RegisterSubmit(TRUE) \/ ProfileSaveInfo \/ (ProfileSavePassword /\ ui.form = "match")
         \/ TopologyRefresh \/ HostRefresh \/ SettingsRefresh
         \/ \E q \in Queries : ExplorerSearch(q)
  PROVE  \E c, a : Sends(c, a)
<1> USE DEF Loads, Saves, Occupies, Request, Keeps, Calls, Pauses, Open, Plain, AsksFor, At
<1>1. ui \in PageState
  BY DEF UiInv, UiTypes
<1>2. CASE RegisterSubmit(TRUE)
  <2>1. /\ Send("register", "none") /\ ~ui.loading /\ mounted = "register"
        /\ ui' = [ui EXCEPT !.error = FALSE, !.loading = TRUE]
    BY <1>2 DEF RegisterSubmit, RegisterShows, When
  <2>2. Untouched /\ ui'.loading /\ ui'.busy = ui.busy
    BY <1>1, <2>1 DEF Untouched, PageState
  <2>3. Sends("register", "none")
    BY <2>1, <2>2, Known DEF Sends, Send, Untouched
  <2> QED
    BY <2>3
<1>3. CASE ProfileSaveInfo
  <2>1. PICK c \in {"pause", "putProfile"} : Send(c, "none") /\ ui' = [ui EXCEPT !.loading = TRUE] /\ mounted = "profile"
    BY <1>3 DEF ProfileSaveInfo
  <2>2. ui.pick # "saveInfo"
    BY <1>1 DEF PageState, Texts, HostTabs, Queries, Incidents, Asking
  <2>3. ui.rows # "none" /\ ~ui.loading
    BY <1>3, <2>2 DEF ProfileSaveInfo, ProfileShows, When
  <2>4. Untouched /\ ui'.loading /\ ui'.busy = ui.busy
    BY <1>1, <2>1 DEF Untouched, PageState
  <2>5. Sends(c, "none")
    BY <2>1, <2>3, <2>4, Known DEF Sends, Send, Untouched
  <2> QED
    BY <2>5
<1>4. CASE ProfileSavePassword /\ ui.form = "match"
  <2>1. PICK c \in {"pause", "putPassword"} :
          Send(c, "password") /\ ui' = [ui EXCEPT !.loading = TRUE] /\ mounted = "profile"
    BY <1>4 DEF ProfileSavePassword
  <2>2. ui.pick # "savePassword"
    BY <1>1 DEF PageState, Texts, HostTabs, Queries, Incidents, Asking
  <2>3. ui.rows # "none" /\ ~ui.loading
    BY <1>4, <2>2 DEF ProfileSavePassword, ProfileShows, When
  <2>4. Untouched /\ ui'.loading /\ ui'.busy = ui.busy
    BY <1>1, <2>1 DEF Untouched, PageState
  <2>5. Sends(c, "password")
    BY <2>1, <2>3, <2>4, Known DEF Sends, Send, Untouched
  <2> QED
    BY <2>5
<1>5. CASE TopologyRefresh \/ HostRefresh \/ SettingsRefresh
  <2>1. PICK c \in {"getTopology", "getHost", "getSettings"} :
          Send(c, "none") /\ ui' = [ui EXCEPT !.loading = TRUE] /\ AsksFor(mounted, c)
    BY <1>5 DEF TopologyRefresh, HostRefresh, SettingsRefresh
  <2>2. Untouched /\ ui'.loading /\ ui'.busy = ui.busy
    BY <1>1, <2>1 DEF Untouched, PageState
  <2>3. Sends(c, "none")
    BY <2>1, <2>2, Known DEF Sends, Send, Untouched
  <2> QED
    BY <2>3
<1>6. CASE \E q \in Queries : ExplorerSearch(q)
  <2>1. PICK q \in Texts : Send("getEvents", q) /\ ui' = [ui EXCEPT !.loading = TRUE, !.form = q] /\ mounted = "explorer"
    BY <1>6, Known DEF ExplorerSearch
  <2>2. Untouched /\ ui'.loading /\ ui'.busy = ui.busy
    BY <1>1, <2>1 DEF Untouched, PageState
  <2>3. Sends("getEvents", q)
    BY <2>1, <2>2 DEF Sends, Send, Untouched
  <2> QED
    BY <2>3
<1> QED
  BY <1>2, <1>3, <1>4, <1>5, <1>6

\* The buttons that wait.
LEMMA ButtonsSend ==
  ASSUME UiInv,
         CloudSync \/ IncidentsAnalyze \/ ForensicsUpload \/ SettingsSave
  PROVE  \E c, a : Sends(c, a)
<1> USE DEF Loads, Saves, Occupies, Request, Calls, Open, Plain, AsksFor, At
<1>1. ui \in PageState
  BY DEF UiInv, UiTypes
<1>2. CASE CloudSync \/ ForensicsUpload
  <2>1. PICK c \in {"postSync", "upload"} :
          Send(c, "none") /\ ui' = [ui EXCEPT !.busy = TRUE] /\ ~ui.busy /\ AsksFor(mounted, c)
    BY <1>2 DEF CloudSync, CloudShows, ForensicsUpload, ForensicsShows, When
  <2>2. Untouched /\ ui'.busy /\ ui'.loading = ui.loading
    BY <1>1, <2>1 DEF Untouched, PageState
  <2>3. Sends(c, "none")
    BY <2>1, <2>2, Known DEF Sends, Send, Untouched, Keeps
  <2> QED
    BY <2>3
<1>3. CASE IncidentsAnalyze
  <2>1. PICK i \in Texts : /\ Send("analyze", i) /\ ui' = [ui EXCEPT !.busy = TRUE, !.note = "none"] /\ ~ui.busy
                           /\ mounted = "incidents"
    <3>1. ui.pick \in Texts
      BY <1>1 DEF PageState
    <3>2. ~ui.busy
      BY <1>3 DEF IncidentsAnalyze, IncidentDrawerShows
    <3> QED
      BY <1>3, <3>1, <3>2 DEF IncidentsAnalyze
  <2>2. Untouched /\ ui'.busy /\ ui'.loading = ui.loading
    BY <1>1, <2>1, Known DEF Untouched, PageState
  <2>3. Sends("analyze", i)
    BY <2>1, <2>2 DEF Sends, Send, Untouched, Keeps
  <2> QED
    BY <2>3
<1>4. CASE SettingsSave
  <2>1. /\ Send("putSettings", "none") /\ ui' = [ui EXCEPT !.busy = TRUE, !.sent = ui.draft] /\ mounted = "settings"
    BY <1>4 DEF SettingsSave
  <2>2. ~ui.busy
    BY <1>4 DEF SettingsSave, SettingsShows, When
  <2>3. /\ ui' \in PageState /\ ui'.busy /\ ui'.sent = ui.draft
        /\ UNCHANGED <<ui.loading, ui.rows, ui.log, ui.draft, ui.store>>
    BY <1>1, <2>1 DEF PageState
  <2>4. SettingsInv'
    BY <2>1, <2>3 DEF UiInv, SettingsInv, Send, shell
  <2>5. Sends("putSettings", "none")
    BY <2>1, <2>2, <2>3, <2>4, Known DEF Sends, Send, Keeps
  <2> QED
    BY <2>5
<1> QED
  BY <1>2, <1>3, <1>4

\* The requests that set no flag.
LEMMA TimersSend ==
  ASSUME UiInv, DashboardPoll \/ EditorSave
  PROVE  \E c, a : Sends(c, a)
<1>1. ui \in PageState /\ ui' = ui
  BY DEF UiInv, UiTypes, DashboardPoll, EditorSave
<1>2. \/ Send("getMetrics", "none") /\ mounted = "dashboard"
      \/ \E a \in Texts : Send("savePlaybook", a) /\ mounted \in EditorPages
  BY Known DEF DashboardPoll, EditorSave
<1>3. PICK c \in {"getMetrics", "savePlaybook"}, a \in Texts : Send(c, a) /\ AsksFor(mounted, c)
  BY <1>2, Known DEF AsksFor, EditorPages
<1>4. Sends(c, a)
  BY <1>1, <1>3 DEF Sends, Send, Loads, Saves, Occupies, Request, Keeps, Calls, Open, Plain, AsksFor
<1> QED
  BY <1>4

--------------------------------------------------------------------------------
\* The answers that no page waits for, and those that another request follows.

\* The page has gone, or never asked.
LEMMA NobodyWaits ==
  ASSUME UiInv, NEW s \in Slots,
         \/ (RegisterAnswer(s) \/ EditorSaved(s) \/ DashboardChainEnds(s)) /\ ~net[s].live
         \/ Forgotten(s) \/ DeniedHere(s)
  PROVE  Vanishes(s)
<1>1. location \in Pages
  BY DEF UiInv, UiTypes
<1>2. CASE RegisterAnswer(s) /\ ~net[s].live
  BY <1>1, <1>2 DEF Vanishes, RegisterAnswer, Moves, session, Watched, Pages, PublicPages
<1>3. CASE EditorSaved(s) /\ ~net[s].live
  BY <1>1, <1>3 DEF Vanishes, EditorSaved, GoTo, Moves, session, Watched, Pages, ProtectedPages
<1>4. CASE DashboardChainEnds(s) /\ ~net[s].live
  BY <1>1, <1>4 DEF Vanishes, DashboardChainEnds, Moves, shell, session
<1>5. CASE Forgotten(s)
  <2>1. ~net[s].live
    BY <1>5 DEF Forgotten, UiInv, Belongs, AsksFor
  <2> QED
    BY <1>1, <1>5, <2>1 DEF Vanishes, Forgotten, Moves, shell, session
<1>6. CASE DeniedHere(s)
  BY <1>6 DEF Vanishes, DeniedHere
<1> QED
  BY <1>2, <1>3, <1>4, <1>5, <1>6

\* The dashboard's chain, and the fetch after a sync.
LEMMA ChainsFollow ==
  ASSUME UiInv, NEW s \in Slots,
         \/ DashboardChain(s)
         \/ CloudSynced(s) /\ ~(OnFailure(s, "postSync") /\ ui' = [ui EXCEPT !.busy = FALSE])
  PROVE  \E c, a : Follows(s, c, a)
<1>1. ui \in PageState
  BY DEF UiInv, UiTypes
<1>2. CASE DashboardChain(s)
  <2>1. \/ ChainGoesOn(s, "getStats", "getFeedAgents") \/ ChainGoesOn(s, "getFeedAgents", "getFeedEvents")
        \/ ChainGoesOn(s, "getFeedEvents", "getMetrics")
    BY <1>2 DEF DashboardChain
  <2>2. PICK c \in {"getFeedAgents", "getFeedEvents", "getMetrics"} :
          /\ net[s].call \in {"getStats", "getFeedAgents", "getFeedEvents"}
          /\ net' = [net EXCEPT ![s] = [Request(c, "none") EXCEPT !.live = net[s].live]]
          /\ UNCHANGED shell
    BY <2>1 DEF ChainGoesOn
  <2>3. /\ ui' = ui \/ ui' = [ui EXCEPT !.told = TRUE] \/ ui' = [ui EXCEPT !.rows = "none"]
        /\ net[s].live \/ ui' = ui
    BY <1>2 DEF DashboardChain
  <2>4. /\ ui' \in PageState
        /\ UNCHANGED <<ui.loading, ui.busy, ui.log, ui.draft, ui.sent, ui.store>>
        /\ ui'.rows \in {ui.rows, "none"}
    BY <1>1, <2>3 DEF PageState
  <2>5. Follows(s, c, "none")
    BY <2>2, <2>3, <2>4 DEF Follows
  <2> QED
    BY <2>5
<1>3. CASE CloudSynced(s) /\ ~(OnFailure(s, "postSync") /\ ui' = [ui EXCEPT !.busy = FALSE])
  <2>1. /\ net[s].live /\ net[s].call = "postSync"
        /\ net' = [net EXCEPT ![s] = Request("getCloud", "sync")] /\ UNCHANGED <<shell, ui>>
    BY <1>3 DEF CloudSynced, Live
  <2>2. Request("getCloud", "sync") = [Request("getCloud", "sync") EXCEPT !.live = net[s].live]
    <3>1. net[s].live = TRUE
      BY <2>1 DEF UiInv, UiTypes, Requests
    <3> DEFINE r == Request("getCloud", "sync")
    <3>2. r = [call |-> "getCloud", live |-> TRUE, tok |-> r.tok, arg |-> "sync"]
      BY DEF Request
    <3>3. r = [r EXCEPT !.live = TRUE]
      <4> HIDE DEF r
      <4> QED
        BY <3>2
    <3> QED
      BY <3>1, <3>3
  <2>3. Follows(s, "getCloud", "sync")
    BY <1>1, <2>1, <2>2 DEF Follows
  <2> QED
    BY <2>3
<1> QED
  BY <1>2, <1>3

--------------------------------------------------------------------------------
\* The invariant, of every step.

\* Every answer,
LEMMA AnswerKeeps ==
  ASSUME UiInv, NEW s \in Slots, Answer(s)
  PROVE  UiInv'
<1>1. CASE AccountAnswer(s)
  <2>1. CASE LoginAccepted(s) \/ LoginFails(s)
    BY <2>1, LoginEndsKeeps
  <2>2. CASE RegisterAnswer(s) /\ ~net[s].live
    BY <2>2, NobodyWaits, VanishesKeeps
  <2>3. CASE \/ RegisterAnswer(s) /\ net[s].live
             \/ ProfileAnswer(s) \/ ProfileInfoSaved(s) \/ ProfilePasswordSaved(s)
    BY <2>3, AccountReceives, ReceivesKeeps
  <2> QED
    BY <1>1, <2>1, <2>2, <2>3 DEF AccountAnswer
<1>2. CASE MonitorAnswer(s)
  <2>1. CASE \/ AgentsAnswer(s) \/ AlertsAnswer(s) \/ VulnerabilitiesAnswer(s) \/ NetworkAnswer(s)
             \/ CloudAnswer(s) \/ TopologyAnswer(s) \/ PlaybooksAnswer(s)
    BY <2>1, MonitorReceives, ReceivesKeeps
  <2>2. CASE \/ OnFailure(s, "postSync") /\ ui' = [ui EXCEPT !.busy = FALSE]
             \/ DashboardChainEnds(s) /\ net[s].live
    BY <2>2, QuietReceives, ReceivesKeeps
  <2>3. CASE DashboardChainEnds(s) /\ ~net[s].live
    BY <2>3, NobodyWaits, VanishesKeeps
  <2>4. CASE \/ DashboardChain(s)
             \/ CloudSynced(s) /\ ~(OnFailure(s, "postSync") /\ ui' = [ui EXCEPT !.busy = FALSE])
    BY <2>4, ChainsFollow, FollowsKeeps
  <2> QED
    BY <1>2, <2>1, <2>2, <2>3, <2>4 DEF MonitorAnswer
<1>3. CASE InvestigateAnswer(s)
  BY <1>3, InvestigateReceives, ConsoleReceives, ReceivesKeeps DEF InvestigateAnswer
<1>4. CASE EditAnswer(s)
  <2>1. CASE EditorSaved(s) /\ ~net[s].live
    BY <2>1, NobodyWaits, VanishesKeeps
  <2>2. CASE \/ SettingsAnswer(s) \/ SettingsSaved(s) \/ EditorAnswer(s)
             \/ EditorSaved(s) /\ net[s].live
    BY <2>2, EditReceives, ReceivesKeeps
  <2> QED
    BY <1>4, <2>1, <2>2 DEF EditAnswer
<1>5. CASE Forgotten(s) \/ DeniedHere(s)
  BY <1>5, NobodyWaits, VanishesKeeps
<1>6. CASE DeniedAway(s)
  BY <1>6, ReloadKeeps DEF DeniedAway, Pages, PublicPages
<1> QED
  BY <1>1, <1>2, <1>3, <1>4, <1>5, <1>6 DEF Answer

\* every step of the user,
LEMMA UserKeeps ==
  ASSUME UiInv, UserStep
  PROVE  UiInv'
<1>1. CASE AccountStep
  <2>1. CASE \/ \E t \in {"personal", "security", "activity"} : ProfileTab(t)
             \/ \E form \in {"blank", "match", "mismatch"} : ProfileType(form)
             \/ ProfileDismiss
             \/ ProfileSavePassword /\ ui.form # "match"
    BY <2>1, TextsWork, WorksKeeps
  <2>2. CASE LogoutLink \/ \E p \in Pages : FollowPublic(p) \/ FollowSidebar(p)
    BY <2>2, LinksWork, WorksKeeps DEF LogoutLink, FollowPublic, FollowSidebar, Pages, PublicPages
  <2>3. CASE RegisterSubmit(TRUE) \/ ProfileSaveInfo \/ (ProfileSavePassword /\ ui.form = "match")
    BY <2>3, FlagsSend, SendsKeeps
  <2>4. CASE RegisterSubmit(FALSE)
    BY <2>4, PagesWork, WorksKeeps
  <2>5. CASE LoginSubmit \/ NavbarLogout
    BY <2>5, LoginSubmitKeeps, NavbarLogoutKeeps
  <2>6. \A b \in BOOLEAN : RegisterSubmit(b) => RegisterSubmit(TRUE) \/ RegisterSubmit(FALSE)
    OBVIOUS
  <2> QED
    BY <1>1, <2>1, <2>2, <2>3, <2>4, <2>5, <2>6 DEF AccountStep
<1>2. CASE MonitorStep
  <2>1. CASE AgentsPick \/ AgentsClose \/ DashboardPick \/ DashboardClose
    BY <2>1, TextsWork, WorksKeeps
  <2>2. CASE CloudSync \/ TopologyRefresh \/ DashboardPoll
    BY <2>2, ButtonsSend, FlagsSend, TimersSend, SendsKeeps
  <2>3. CASE PlaybooksRetry
    <3>1. storage \in {"none", "good", "expired"} /\ "playbooks" \in Pages /\ Reload("playbooks", storage)
      BY <2>3 DEF PlaybooksRetry, UiInv, UiTypes, Pages, ProtectedPages
    <3> QED
      BY <3>1, ReloadKeeps
  <2>4. CASE DashboardEvent
    BY <2>4, PagesWork, WorksKeeps
  <2> QED
    BY <1>2, <2>1, <2>2, <2>3, <2>4 DEF MonitorStep
<1>3. CASE InvestigateStep
  <2>1. CASE (\E t \in HostTabs : HostTab(t)) \/ ExplorerPivot \/ PivotClose \/ ForensicsFile
    BY <2>1, TextsWork, WorksKeeps
  <2>2. CASE HostRefresh \/ (\E q \in Queries : ExplorerSearch(q)) \/ IncidentsAnalyze \/ ForensicsUpload
    BY <2>2, ButtonsSend, FlagsSend, SendsKeeps
  <2>3. CASE HostBack
    BY <2>3, LinksWork, WorksKeeps DEF HostBack, Pages, ProtectedPages
  <2>4. CASE (\E i \in Incidents : IncidentsPick(i)) \/ IncidentsClose
    BY <2>4, PagesWork, WorksKeeps
  <2>5. CASE ConsoleClear \/ \E c \in Asking \cup {"local"} : ConsoleRun(c)
    BY <2>5, ConsoleWorks, WorksKeeps, ConsoleSends, SendsKeeps
  <2> QED
    BY <1>3, <2>1, <2>2, <2>3, <2>4, <2>5 DEF InvestigateStep
<1>4. CASE EditStep
  <2>1. CASE IntegrationOpen \/ EditorChange
    BY <2>1, TextsWork, WorksKeeps
  <2>2. CASE SettingsRefresh \/ SettingsSave \/ EditorSave
    BY <2>2, ButtonsSend, FlagsSend, TimersSend, SendsKeeps
  <2>3. CASE SettingsChange \/ IntegrationSave
    BY <2>3, DraftsWork, WorksKeeps
  <2>4. CASE SettingsTimer
    BY <2>4, PagesWork, WorksKeeps
  <2>5. CASE EditorBack
    BY <2>5, LinksWork, WorksKeeps DEF EditorBack, Pages, ProtectedPages
  <2> QED
    BY <1>4, <2>1, <2>2, <2>3, <2>4, <2>5 DEF EditStep
<1>5. CASE \E p \in Pages \ {"crashed"} : TypedUrl(p)
  <2>1. storage \in {"none", "good", "expired"}
    BY DEF UiInv, UiTypes
  <2> QED
    BY <1>5, <2>1, ReloadKeeps DEF TypedUrl
<1> QED
  BY <1>1, <1>2, <1>3, <1>4, <1>5 DEF UserStep

\* and so every behaviour of the user interface.
LEMMA Invariance == Spec => []UiInv
<1>1. Init => UiInv
  BY FreshHolds DEF Init, Fresh
<1>2. UiInv /\ [Next]_vars => UiInv'
  <2> SUFFICES ASSUME UiInv, [Next]_vars PROVE UiInv'
    OBVIOUS
  <2>1. CASE Render
    BY <2>1, RenderKeeps
  <2>2. CASE Expire
    BY <2>2, ExpireKeeps
  <2>3. CASE \E s \in Slots : Answer(s)
    BY <2>3, AnswerKeeps
  <2>4. CASE UserStep
    BY <2>4, UserKeeps
  <2>5. CASE UNCHANGED vars
    <3>1. Works
      BY <2>5 DEF vars, Works, Moves, Keeps, session, UiInv, UiTypes
    <3> QED
      BY <3>1, WorksKeeps
  <2> QED
    BY <2>1, <2>2, <2>3, <2>4, <2>5 DEF Next
<1> QED
  BY <1>1, <1>2, PTL DEF Spec

--------------------------------------------------------------------------------
\* What follows from it.

\* A set without two members has at most one.
LEMMA AtMostOne ==
  ASSUME NEW S, \A x, y \in S : x = y
  PROVE  Cardinality(S) <= 1
<1>1. CASE S = {}
  BY <1>1, FS_EmptySet
<1>2. CASE S # {}
  <2>1. PICK x : S = {x}
    BY <1>2
  <2> QED
    BY <2>1, FS_Singleton
<1> QED
  BY <1>1, <1>2

\* The session, the router, the requests and the page keep their types, and the console
\* its bound.
THEOREM TypeCorrect == Spec => []TypeOK
<1>1. UiInv => TypeOK
  <2> SUFFICES ASSUME UiInv PROVE TypeOK
    OBVIOUS
  <2>1. DOMAIN ui = DOMAIN Blank
    BY DEF UiInv, UiTypes, PageState, Blank
  <2>2. \A s \in Slots : /\ net[s].call \in Calls \cup Pauses \cup {"none"}
                         /\ net[s].live \in BOOLEAN
                         /\ net[s].tok \in {"none", "good", "expired"}
    BY DEF UiInv, UiTypes, Requests
  <2>3. ui.loading \in BOOLEAN /\ ui.busy \in BOOLEAN /\ Len(ui.log) <= MaxLines
    BY DEF UiInv, UiTypes, PageState, ConsoleInv
  <2> QED
    BY <2>1, <2>2, <2>3 DEF UiInv, UiTypes, TypeOK
<1> QED
  BY <1>1, Invariance, PTL

\* Store and local storage agree on who is a guest, after any sequence of logins, logouts,
\* refusals and reloads.
THEOREM NoTokenWithoutUser == Spec => []GuestHasNoToken
<1>1. UiInv => GuestHasNoToken
  BY DEF UiInv
<1> QED
  BY <1>1, Invariance, PTL

\* Whoever has no token sees nothing of what the API gave to the user before, on any page
\* and with any number of requests under way.
THEOREM NothingForGuests == Spec => []GuestSeesNothing
<1> DEFINE Secret == {"row", "entity", "charts", "map", "tabs", "cell"}
<1>1. ASSUME UiInv, storage = "none", location = mounted, ui.rows # "sample"
      PROVE  Shown \cap Secret = {}
  <2>1. ui.rows \in {"none", "some", "sample"}
    BY <1>1 DEF UiInv, UiTypes, PageState
  <2>2. CASE mounted \in Watched
    <3>1. ui.rows = "none"
      BY <1>1, <2>1, <2>2 DEF UiInv, GuestInv
    <3>2. CASE mounted \in {"agents", "alerts", "vulnerabilities", "network", "cloud"}
      BY <3>1, <3>2 DEF Shown, AgentsShows, AlertsShows, RiskyEntities, VulnerabilitiesShows, NetworkShows, CloudShows,
                        When
    <3>3. CASE mounted \in {"topology", "host", "explorer", "incidents", "profile"}
      BY <3>1, <3>3 DEF Shown, TopologyShows, TopologyDrawn, HostShows, ExplorerShows, IncidentsShows, ProfileShows,
                        When
    <3> QED
      BY <2>2, <3>2, <3>3 DEF Watched
  <2>3. CASE mounted \notin Watched
    BY <2>3 DEF Shown, Watched
  <2> QED
    BY <2>2, <2>3
<1>2. UiInv => GuestSeesNothing
  BY <1>1 DEF GuestSeesNothing
<1> QED
  BY <1>2, Invariance, PTL

\* On the pages of the agents and of the playbooks, which tell a failure from an empty
\* list, the notice of an empty one is the API's answer, whatever failed before and however
\* many requests are under way.  (Other pages show their notice after a failure as well.)
THEOREM EmptyIsTold == Spec => []EmptyNoticeIsTrue
<1>1. UiInv => EmptyNoticeIsTrue
  BY DEF UiInv, ToldInv, EmptyNoticeIsTrue, AgentsShows, PlaybooksShows
<1> QED
  BY <1>1, Invariance, PTL

\* Eight of the nine calls by which a user changes something have a button that waits for the
\* answer: none of them is under way twice, also not for a page that was left and come back
\* to.  It does not hold of the ninth, savePlaybook, whose button goes on sending.
THEOREM WaitingButtonsSendOnce == Spec => []SubmittedOnce
<1>1. ASSUME UiInv PROVE SubmittedOnce
  <2>1. \A s, t \in UnderWay("login") : s = t
    BY <1>1 DEF UiInv, LoginInv, UnderWay
  <2>2. ASSUME NEW c \in {"register", "putProfile", "putPassword", "putSettings", "postSync", "upload", "command"},
               NEW s \in Awaited({c}), NEW t \in Awaited({c})
        PROVE  s = t
    <3>1. /\ s \in Slots /\ net[s].live /\ net[s].call = c
          /\ t \in Slots /\ net[t].live /\ net[t].call = c
      BY <2>2 DEF Awaited
    <3>2. CASE c \in {"register", "putProfile", "putPassword"}
      BY <1>1, <3>1, <3>2 DEF UiInv, LoadingInv, Saves
    <3>3. CASE c \in {"putSettings", "postSync", "upload", "command"}
      BY <1>1, <3>1, <3>3 DEF UiInv, BusyInv, Occupies
    <3> QED
      BY <3>2, <3>3
  <2> QED
    BY <2>1, <2>2, AtMostOne DEF SubmittedOnce
<1>2. UiInv => SubmittedOnce
  BY <1>1
<1> QED
  BY <1>2, Invariance, PTL

\* Every flag that is set has the request whose answer takes it back, through failures and changes of the page.
THEOREM NoFlagAlone == Spec => []FlagHasItsRequest
<1>1. ASSUME UiInv PROVE FlagHasItsRequest
  <2>1. auth.loading <=> UnderWay("login") # {}
    BY <1>1 DEF UiInv, LoginInv, UnderWay
  <2>2. ui.loading => Awaited(Loads) # {}
    BY <1>1 DEF UiInv, LoadingInv, Awaited
  <2>3. ui.busy => \E s \in Slots : Occupies(net[s])
    BY <1>1 DEF UiInv, BusyInv
  <2> QED
    BY <2>1, <2>2, <2>3 DEF FlagHasItsRequest
<1>2. UiInv => FlagHasItsRequest
  BY <1>1
<1> QED
  BY <1>2, Invariance, PTL

\* No sequence of loading, typing, saving and failing puts a mask or an empty text in the
\* place of a secret.
THEOREM SecretsAreKept == Spec => []SecretsSurvive
<1>1. UiInv => SecretsSurvive
  BY DEF UiInv, SettingsInv, SecretsSurvive
<1> QED
  BY <1>1, Invariance, PTL

\* Whatever the console prints belongs to the command above it.
THEOREM AnswersFollowCommands == Spec => []ConsoleInOrder
<1>1. UiInv => ConsoleInOrder
  BY DEF UiInv, ConsoleInv
<1> QED
  BY <1>1, Invariance, PTL

================================================================================
