------------------------------- MODULE UiMonitor -------------------------------
(***************************************************************************)
(* The pages that show what the API knows: each sends its request when it  *)
(* is mounted and sets its list and its flags when the answer is there.    *)
(* They differ in what they make of a failure.                             *)
(***************************************************************************)
EXTENDS UiShell

--------------------------------------------------------------------------------
\* The agents.  A failure is shown as one.

AgentsOpens == Opens([Blank EXCEPT !.loading = TRUE], "getAgents")

\* A failure that ends in an empty list, as on other pages.
AgentsAnswerQuietly(s) ==
  \/ OnSuccess(s, "getAgents") /\ \E r \in Lengths : ui' = Lists(r)
  \/ OnFailure(s, "getAgents") /\ ui' = Fills("none")

\* A failure after which the flag stays.
AgentsAnswerHanging(s) ==
  \/ OnSuccess(s, "getAgents") /\ \E r \in Lengths : ui' = Lists(r)
  \/ OnFailure(s, "getAgents") /\ ui' = [ui EXCEPT !.error = TRUE]

AgentsAnswer(s) ==
  \/ OnSuccess(s, "getAgents") /\ \E r \in Lengths : ui' = Lists(r)
  \/ OnFailure(s, "getAgents") /\ ui' = [ui EXCEPT !.loading = FALSE, !.error = TRUE]

AgentsShows ==
  IF ui.loading THEN {"spinner"}
  ELSE IF ui.error THEN {"error"}
  ELSE IF ui.rows = "none" THEN {"emptyNotice"} ELSE {"row"}

AgentDrawerShows == When(ui.pick = "row", "close")

AgentsPick == Locally("agents", "row", AgentsShows, [ui EXCEPT !.pick = "row"])

AgentsClose == Locally("agents", "close", AgentDrawerShows, [ui EXCEPT !.pick = "none"])

--------------------------------------------------------------------------------
\* The alerts.  The API passes on the search engine's answer, whose hits are an
\* object: mapping them throws, and the handler of the exception clears the list.

AlertsOpens == Opens(Blank, "getAlerts")

AlertsAnswer(s) ==
  \/ OnSuccess(s, "getAlerts") /\ \E r \in Lengths : ui' = [Lists("none") EXCEPT !.told = (r = "none")]
  \/ OnFailure(s, "getAlerts") /\ ui' = Fills("none")

RiskyEntities == When(ui.rows = "some", "entity")

AlertsShows ==
  When(ui.rows = "some", "row") \cup RiskyEntities \cup When(RiskyEntities = {}, "emptyNotice")

--------------------------------------------------------------------------------
\* The vulnerabilities.  There is no sign of loading, and none of a failure.

VulnerabilitiesOpens == Opens(Blank, "getVulnerabilities")

VulnerabilitiesAnswer(s) ==
  \/ OnSuccess(s, "getVulnerabilities") /\ \E r \in Lengths : ui' = Lists(r)
  \/ OnFailure(s, "getVulnerabilities") /\ ui' = Fills("none")

\* The three charts never get any data.
VulnerabilitiesShows ==
  {"emptyCharts"} \cup (IF ui.rows = "none" THEN {"emptyNotice"} ELSE {"row"})

--------------------------------------------------------------------------------
\* The network: traffic and protocols are asked for together, and fail together.

NetworkOpens == Opens([Blank EXCEPT !.loading = TRUE], "getTraffic")

NetworkAnswer(s) ==
  \/ OnSuccess(s, "getTraffic") /\ \E r \in Lengths : ui' = Lists(r)
  \/ OnFailure(s, "getTraffic") /\ ui' = Fills("none")

NetworkShows ==
  {"emptyFlows"}
  \cup (IF ui.loading THEN {"spinner"} ELSE IF ui.rows = "none" THEN {"emptyNotice"} ELSE {"charts"})

--------------------------------------------------------------------------------
\* The cloud: instances and pods are asked for together.  The flag is the sync's.

CloudOpens == Opens(Blank, "getCloud")

\* fetchData, of the first effect or of handleSync, which then ends.
CloudAnswer(s) ==
  LET done(u) == IF net[s].arg = "sync" THEN [u EXCEPT !.busy = FALSE] ELSE u
  IN  \/ OnSuccess(s, "getCloud") /\ \E r \in Lengths : ui' = done(Lists(r))
      \/ OnFailure(s, "getCloud") /\ ui' = done(Fills("none"))

CloudShows ==
  {"emptyCharts"} \cup (IF ui.rows = "none" THEN {"emptyNotice"} ELSE {"row"})
  \cup When(~ui.busy, "sync")

\* handleSync: sync, then fetch again; a failed sync is not mentioned.
CloudSync ==
  /\ At("cloud")
  /\ "sync" \in CloudShows
  /\ Send("postSync", "none")
  /\ ui' = [ui EXCEPT !.busy = TRUE]

\* Without the finally clause.
CloudSyncedOrStuck(s) ==
  \/ /\ Live(s, "postSync")
     /\ Accepts(s)
     /\ net' = [net EXCEPT ![s] = Request("getCloud", "sync")]
     /\ UNCHANGED <<shell, ui>>
  \/ OnFailure(s, "postSync") /\ UNCHANGED ui

CloudSynced(s) ==
  \/ /\ Live(s, "postSync")
     /\ Accepts(s)
     /\ net' = [net EXCEPT ![s] = Request("getCloud", "sync")]
     /\ UNCHANGED <<shell, ui>>
  \/ OnFailure(s, "postSync") /\ ui' = [ui EXCEPT !.busy = FALSE]

--------------------------------------------------------------------------------
\* The topology.  An answer of another shape is drawn as a sample, and so is a failure.

TopologyOpens == Opens([Blank EXCEPT !.loading = TRUE], "getTopology")

TopologyAnswer(s) ==
  \/ OnSuccess(s, "getTopology") /\ (ui' = Lists("some") \/ ui' = Fills("sample"))
  \/ OnFailure(s, "getTopology") /\ ui' = Fills("sample")

\* The effect that draws: nothing without data, and anew with every answer.
TopologyDrawn == When(ui.rows # "none", "map")

TopologyShows == {"refresh"} \cup When(ui.loading, "spinner") \cup TopologyDrawn

TopologyRefresh ==
  /\ At("topology")
  /\ "refresh" \in TopologyShows
  /\ Send("getTopology", "none")
  /\ ui' = [ui EXCEPT !.loading = TRUE]

--------------------------------------------------------------------------------
\* The playbooks, from the policy engine.

PlaybooksOpens == Opens([Blank EXCEPT !.loading = TRUE], "getPlaybooks")

PlaybooksAnswer(s) ==
  \/ OnSuccess(s, "getPlaybooks") /\ \E r \in Lengths : ui' = Lists(r)
  \/ OnFailure(s, "getPlaybooks") /\ ui' = [ui EXCEPT !.loading = FALSE, !.error = TRUE]

PlaybooksShows ==
  IF ui.loading THEN {"spinner"}
  ELSE IF ui.error THEN {"error", "retry"}
  ELSE IF ui.rows = "none" THEN {"emptyNotice"} ELSE {"row"}

PlaybooksRetry ==
  /\ At("playbooks")
  /\ "retry" \in PlaybooksShows
  /\ Reload("playbooks", storage)

--------------------------------------------------------------------------------
\* The dashboard asks for four things one after the other, and for the last of them
\* every five seconds again.

DashboardOpens == Opens(Blank, "getStats")

\* The next request of the chain goes out when the one before is answered, also when
\* the page is gone by then.
ChainGoesOn(s, c, next) ==
  /\ net[s].call = c
  /\ Accepts(s)
  /\ net' = [net EXCEPT ![s] = [Request(next, "none") EXCEPT !.live = net[s].live]]
  /\ UNCHANGED shell

\* The answer to the third is an object, not a list: the list becomes empty.
DashboardChain(s) ==
  \/ /\ ChainGoesOn(s, "getStats", "getFeedAgents")
     /\ ui' = IF net[s].live THEN [ui EXCEPT !.told = TRUE] ELSE ui
  \/ ChainGoesOn(s, "getFeedAgents", "getFeedEvents") /\ UNCHANGED ui
  \/ /\ ChainGoesOn(s, "getFeedEvents", "getMetrics")
     /\ ui' = IF net[s].live THEN [ui EXCEPT !.rows = "none"] ELSE ui

\* The catch clause ends the chain; the poll's answer only adds a point to a chart.
DashboardChainEnds(s) ==
  /\ net[s].call \in {"getStats", "getFeedAgents", "getFeedEvents", "getMetrics"}
  /\ net' = Answered(s)
  /\ UNCHANGED <<shell, ui>>

\* An interval that is started by the answer to the first request.
DashboardPollLater ==
  /\ mounted = "dashboard"
  /\ ui.told
  /\ Send("getMetrics", "none")
  /\ UNCHANGED ui

\* The interval, which is cleared when the page goes.
DashboardPoll ==
  /\ mounted = "dashboard"
  /\ Send("getMetrics", "none")
  /\ UNCHANGED ui

\* The effect of the hook's lastMessage (LiveFeed has the hub behind it).
DashboardEvent ==
  /\ mounted = "dashboard"
  /\ ui' = [ui EXCEPT !.rows = "some"]
  /\ UNCHANGED <<shell, net>>

DashboardShows == (IF ui.rows = "none" THEN {} ELSE {"row"}) \cup When(ui.told, "posture")

EventDrawerShows == When(ui.pick = "row", "close")

DashboardPick == Locally("dashboard", "row", DashboardShows, [ui EXCEPT !.pick = "row"])

DashboardClose == Locally("dashboard", "close", EventDrawerShows, [ui EXCEPT !.pick = "none"])

--------------------------------------------------------------------------------

MonitorAnswer(s) ==
  \/ AgentsAnswer(s)
  \/ AlertsAnswer(s)
  \/ VulnerabilitiesAnswer(s)
  \/ NetworkAnswer(s)
  \/ CloudAnswer(s)
  \/ CloudSynced(s)
  \/ TopologyAnswer(s)
  \/ PlaybooksAnswer(s)
  \/ DashboardChain(s)
  \/ DashboardChainEnds(s)

MonitorStep ==
  \/ AgentsPick
  \/ AgentsClose
  \/ CloudSync
  \/ TopologyRefresh
  \/ PlaybooksRetry
  \/ DashboardPoll
  \/ DashboardEvent
  \/ DashboardPick
  \/ DashboardClose

================================================================================
