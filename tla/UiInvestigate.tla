----------------------------- MODULE UiInvestigate -----------------------------
(***************************************************************************)
(* The pages on which a user asks again and again: one host, the event     *)
(* explorer, the incidents, the console, the forensics laboratory.         *)
(***************************************************************************)
EXTENDS UiShell, Naturals, Sequences

CONSTANTS
  IncidentKeys,  \* how the API spells the fields of an incident: "declared" or "lower"
  MaxLines       \* bound: lines of the console

ASSUME InvestigateAssumption == IncidentKeys \subseteq {"declared", "lower"} /\ MaxLines \in Nat

--------------------------------------------------------------------------------
\* One host.  Without data there is a spinner, also after a failure.

HostOpens == Opens([Blank EXCEPT !.loading = TRUE, !.pick = "processes"], "getHost")

HostTabs == {"processes", "network", "disks", "users"}

HostAnswer(s) ==
  \/ OnSuccess(s, "getHost") /\ ui' = Lists("some")
  \/ OnFailure(s, "getHost") /\ ui' = [ui EXCEPT !.loading = FALSE]

HostShows ==
  IF ui.loading \/ ui.rows = "none" THEN {"spinner"}
  ELSE {"back", "refresh", "tabs", ui.pick}

HostRefresh ==
  /\ At("host")
  /\ "refresh" \in HostShows
  /\ Send("getHost", "none")
  /\ ui' = [ui EXCEPT !.loading = TRUE]

HostTab(t) == Locally("host", "tabs", HostShows, [ui EXCEPT !.pick = t])

HostBack ==
  /\ At("host")
  /\ "back" \in HostShows
  /\ Follow("agents")

--------------------------------------------------------------------------------
\* The event explorer.  Any number of searches may be under way; the list is the one
\* that came last, not the one asked for last.  A failure lists sample events.

Queries == {"first", "second"}

ExplorerOpens == Opens([Blank EXCEPT !.loading = TRUE], "getEvents")

\* fetchEvents, after its await.
ExplorerAnswer(s) ==
  LET listed(u) == [u EXCEPT !.of = net[s].arg]
  IN  \/ OnSuccess(s, "getEvents") /\ \E r \in Lengths : ui' = listed(Lists(r))
      \/ OnFailure(s, "getEvents") /\ ui' = listed(Fills("sample"))

ExplorerShows ==
  {"search"} \cup When(ui.loading, "spinner") \cup When(ui.rows # "none", "cell")

\* handleSearch: the form can be submitted at any time.
ExplorerSearch(q) ==
  /\ At("explorer")
  /\ "search" \in ExplorerShows
  /\ Send("getEvents", q)
  /\ ui' = [ui EXCEPT !.loading = TRUE, !.form = q]

\* handlePivot: the distribution of one field over the events listed now.
ExplorerPivot == Locally("explorer", "cell", ExplorerShows, [ui EXCEPT !.pick = "pivot"])

PivotShows == When(ui.pick = "pivot", "close")

PivotClose == Locally("explorer", "close", PivotShows, [ui EXCEPT !.pick = "none"])

--------------------------------------------------------------------------------
\* The incidents.

Incidents == {"A", "B"}

IncidentsOpens == Opens([Blank EXCEPT !.loading = TRUE], "getIncidents")

\* The fields of the rows are spelt as the API spells them (form).
IncidentsAnswer(s) ==
  \/ OnSuccess(s, "getIncidents")
     /\ \/ ui' = Lists("none")
        \/ \E k \in IncidentKeys : ui' = [Lists("some") EXCEPT !.form = k]
  \/ OnFailure(s, "getIncidents") /\ ui' = Fills("none")

IncidentsShows ==
  IF ui.loading THEN {"spinner"} ELSE IF ui.rows = "none" THEN {} ELSE {"row"}

\* The drawer of the selected incident: its analysis is shown, on its way, or offered.
IncidentDrawerShows ==
  IF ui.pick = "none" THEN {}
  ELSE {"close"} \cup (IF ui.note # "none" THEN {"analysis"} ELSE {})
       \cup (IF ui.busy THEN {"analyzing"} ELSE {})
       \cup (IF ui.note = "none" /\ ~ui.busy THEN {"analyze"} ELSE {})

\* The effect of selectedIncident: "Reset analysis when selecting a new incident".
Selected(i) == [ui EXCEPT !.pick = i, !.busy = FALSE, !.note = "none", !.of = "none"]

\* Without a field of the declared name the drawer throws while it is rendered, and
\* the router shows its error screen instead of everything.
IncidentsPick(i) ==
  /\ At("incidents")
  /\ "row" \in IncidentsShows
  /\ i # ui.pick
  /\ IF ui.form = "declared"
     THEN ui' = Selected(i) /\ UNCHANGED shell
     ELSE GoTo("crashed") /\ UNCHANGED session
  /\ UNCHANGED net

IncidentsClose == Locally("incidents", "close", IncidentDrawerShows, Selected("none"))

\* handleAnalyze, up to its await.
IncidentsAnalyze ==
  /\ At("incidents")
  /\ "analyze" \in IncidentDrawerShows
  /\ Send("analyze", ui.pick)
  /\ ui' = [ui EXCEPT !.busy = TRUE, !.note = "none"]

\* The rest of it: the answer goes to whichever incident is selected by then.
AnalysisAnswer(s) ==
  LET shown(n) == [ui EXCEPT !.busy = FALSE, !.note = n, !.of = net[s].arg]
  IN  \/ OnSuccess(s, "analyze") /\ ui' = shown("good")
      \/ OnFailure(s, "analyze") /\ ui' = shown("bad")

--------------------------------------------------------------------------------
\* The console: a command that asks the API keeps the prompt until it is answered.

Asking == {"status", "agents", "scan"}

Line(by, c) == [by |-> by, of |-> c]

\* What executeCommand prints before its first await.
Announced(c) == IF c \in {"agents", "scan"} THEN <<Line("out", c)>> ELSE <<>>

\* A prompt that does not wait.
ConsoleShowsPrompt == {"clear", "prompt"}

ConsoleShows == {"clear"} \cup When(~ui.busy, "prompt")

\* handleKeyDown and executeCommand, up to the await: "local" is a command that only
\* prints.
ConsoleRun(c) ==
  /\ At("console")
  /\ "prompt" \in ConsoleShows
  /\ Len(ui.log) + 3 <= MaxLines
  /\ \/ /\ c \in Asking
        /\ Send("command", c)
        /\ ui' = [ui EXCEPT !.busy = TRUE, !.log = @ \o <<Line("cmd", c)>> \o Announced(c)]
     \/ /\ c = "local"
        /\ ui' = [ui EXCEPT !.log = @ \o <<Line("cmd", c), Line("out", c)>>]
        /\ UNCHANGED <<shell, net>>

\* The rest of executeCommand, with the finally clause.
ConsoleAnswer(s) ==
  LET printed(by) == [ui EXCEPT !.busy = FALSE, !.log = Append(@, Line(by, net[s].arg))]
  IN  \/ OnSuccess(s, "command") /\ ui' = printed("out")
      \/ OnFailure(s, "command") /\ ui' = printed("err")

\* The button, and the command "clear", which needs the prompt.
ConsoleClear == Locally("console", "clear", ConsoleShows, [ui EXCEPT !.log = <<>>])

--------------------------------------------------------------------------------
\* The forensics laboratory: the tasks it lists are two samples.

ForensicsOpens == Opens([Blank EXCEPT !.rows = "sample"], "none")

ForensicsShows == {"file"} \cup When(ui.form = "file" /\ ~ui.busy, "upload")

ForensicsFile == Locally("forensics", "file", ForensicsShows, [ui EXCEPT !.form = "file"])

\* handleUpload, up to its await: fetch, with the token set by hand.
ForensicsUpload ==
  /\ At("forensics")
  /\ "upload" \in ForensicsShows
  /\ Send("upload", "none")
  /\ ui' = [ui EXCEPT !.busy = TRUE]

\* fetch fulfils its promise whatever the status is: a refusal is told as a success
\* and drops the file, as does a file chosen meanwhile.  Only the network can fail.
ForensicsAnswer(s) ==
  \/ OnAnswer(s, "upload") /\ ui' = [ui EXCEPT !.busy = FALSE, !.form = "blank", !.note = "good"]
  \/ OnAnswer(s, "upload") /\ ui' = [ui EXCEPT !.busy = FALSE]

--------------------------------------------------------------------------------

InvestigateAnswer(s) ==
  \/ HostAnswer(s)
  \/ ExplorerAnswer(s)
  \/ IncidentsAnswer(s)
  \/ AnalysisAnswer(s)
  \/ ConsoleAnswer(s)
  \/ ForensicsAnswer(s)

InvestigateStep ==
  \/ HostRefresh
  \/ \E t \in HostTabs : HostTab(t)
  \/ HostBack
  \/ \E q \in Queries : ExplorerSearch(q)
  \/ ExplorerPivot
  \/ PivotClose
  \/ \E i \in Incidents : IncidentsPick(i)
  \/ IncidentsClose
  \/ IncidentsAnalyze
  \/ \E c \in Asking \cup {"local"} : ConsoleRun(c)
  \/ ConsoleClear
  \/ ForensicsFile
  \/ ForensicsUpload

================================================================================
