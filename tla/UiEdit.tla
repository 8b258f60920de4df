--------------------------------- MODULE UiEdit --------------------------------
(***************************************************************************)
(* The pages that edit what is stored: the settings, with the handlers of  *)
(* the API behind them, and the playbook editor.                           *)
(***************************************************************************)
EXTENDS UiShell

--------------------------------------------------------------------------------
\* The settings in the API.

\* GetSettings: a secret leaves the API as a mask.
Masked(stored) == [stored EXCEPT !.secret = "mask"]

\* An update that takes over whatever it is sent.
UpdatedBlindly(stored, input) ==
  [plain  |-> IF input.plain = "none" THEN stored.plain ELSE input.plain,
   secret |-> IF input.secret = "none" THEN stored.secret ELSE input.secret]

\* UpdateSettings: all in one transaction; a secret that is the mask, or empty, is
\* skipped, and so is what the list does not have.
Updated(stored, input) ==
  [plain  |-> IF input.plain = "none" THEN stored.plain ELSE input.plain,
   secret |-> IF input.secret \in {"none", "mask", "empty"} THEN stored.secret ELSE input.secret]

--------------------------------------------------------------------------------
\* The settings page.

SettingsOpens ==
  Opens([Blank EXCEPT !.loading = TRUE, !.store = [plain |-> "old", secret |-> "old"]],
        "getSettings")

\* fetchSettings, after its await: what was typed and not saved is lost.
SettingsAnswer(s) ==
  \/ /\ OnSuccess(s, "getSettings")
     /\ ui' = [ui EXCEPT !.loading = FALSE, !.error = FALSE, !.draft = Masked(ui.store)]
  \/ /\ OnFailure(s, "getSettings")
     /\ ui' = [ui EXCEPT !.loading = FALSE, !.error = TRUE]

\* Two of the four tabs hold something that can be changed, and are always a click
\* away; the dialog covers the page.
SettingsShows ==
  IF ui.of = "dialog" THEN {"saveDialog"}
  ELSE {"general", "integrations"}
       \cup When(~ui.loading, "refresh")
       \cup When(~ui.busy, "save")
       \cup When(ui.error, "error")

SettingsRefresh ==
  /\ At("settings")
  /\ "refresh" \in SettingsShows
  /\ Send("getSettings", "none")
  /\ ui' = [ui EXCEPT !.loading = TRUE]

\* handleChange of a plain setting: a key the list does not have is not changed.
SettingsChange ==
  /\ ui.draft.plain # "none"
  /\ Locally("settings", "general", SettingsShows, [ui EXCEPT !.draft.plain = "new"])

\* openIntegrationEdit: the dialog starts from what the list has, at first the mask.
IntegrationOpen ==
  /\ ui.draft.secret # "none"
  /\ Locally("settings", "integrations", SettingsShows, [ui EXCEPT !.of = "dialog"])

\* saveIntegrationEdit: the field was left alone, emptied or filled.
IntegrationSave ==
  \E v \in {ui.draft.secret, "empty", "new"} :
    Locally("settings", "saveDialog", SettingsShows,
            [ui EXCEPT !.of = "none", !.draft.secret = v])

\* handleSave, up to its await: the whole list is sent, a list that never came included.
SettingsSave ==
  /\ At("settings")
  /\ "save" \in SettingsShows
  /\ Send("putSettings", "none")
  /\ ui' = [ui EXCEPT !.busy = TRUE, !.sent = ui.draft]

\* The rest of it.  An update may have been made although its answer is lost.
SettingsSaved(s) ==
  LET saved(u) == [u EXCEPT !.busy = FALSE, !.sent = Unset]
      updated  == Updated(ui.store, ui.sent)
  IN  \/ /\ OnSuccess(s, "putSettings")
         /\ ui' = saved([ui EXCEPT !.store = updated])
      \/ /\ OnFailure(s, "putSettings")
         /\ \E kept \in {ui.store} \cup When(Accepts(s), updated) :
              ui' = saved([ui EXCEPT !.error = TRUE, !.hiding = TRUE, !.store = kept])

\* A timer of three seconds, which nothing cancels, takes the error of a failed save
\* away, also when it is the error of a later refresh by then.
SettingsTimer ==
  /\ mounted = "settings"
  /\ ui.hiding
  /\ ui' = [ui EXCEPT !.error = FALSE, !.hiding = FALSE]
  /\ UNCHANGED <<shell, net>>

--------------------------------------------------------------------------------
\* The playbook editor, on two paths: with an id, and for a new playbook.  The form
\* holds nothing ("blank"), a new playbook, or a stored one ("saved").

EditorOpens == Opens([Blank EXCEPT !.loading = TRUE], "findPlaybook")

NewPlaybookOpens == Opens([Blank EXCEPT !.form = "new"], "none")

\* From the one path to the other the component stays: its effect runs again and
\* fills the form, but the request of its first run is not forgotten.
NewPlaybookTakesOver == [ui EXCEPT !.loading = FALSE, !.form = "new", !.pick = "none"]

\* loadData, after its await: found, not found, not to be parsed, or failed.
EditorAnswer(s) ==
  \/ /\ OnSuccess(s, "findPlaybook")
     /\ ui' = [ui EXCEPT !.loading = FALSE, !.form = "saved", !.pick = "none"]
  \/ /\ OnFailure(s, "findPlaybook")
     /\ ui' = [ui EXCEPT !.loading = FALSE, !.error = TRUE]

EditorPages == {"editor", "newPlaybook"}

EditorShows ==
  IF ui.loading THEN {"spinner"} ELSE {"back", "save", "change"} \cup When(ui.error, "error")

\* addAction, removeAction, updateAction and the fields.
EditorChange ==
  \E p \in EditorPages : Locally(p, "change", EditorShows, [ui EXCEPT !.pick = "changed"])

\* handleSave, up to its await.  The button stays enabled.  Without a stored playbook
\* the id of the path is not used: the number of an empty string is zero.
EditorSave ==
  /\ mounted \in EditorPages
  /\ At(mounted)
  /\ "save" \in EditorShows
  /\ Send("savePlaybook", IF mounted = "newPlaybook" THEN "create"
                          ELSE IF ui.form = "saved" THEN "update" ELSE "zero")
  /\ UNCHANGED ui

\* The rest of it: the router goes to the list, wherever the user is by then.
EditorSaved(s) ==
  /\ net[s].call = "savePlaybook"
  /\ net' = Answered(s)
  /\ \/ /\ Accepts(s)
        /\ GoTo("playbooks")
     \/ /\ ui' = IF net[s].live THEN [ui EXCEPT !.error = TRUE] ELSE ui
        /\ UNCHANGED <<location, mounted>>
  /\ UNCHANGED session

EditorBack ==
  /\ mounted \in EditorPages
  /\ "back" \in EditorShows
  /\ Follow("playbooks")

--------------------------------------------------------------------------------

EditAnswer(s) ==
  \/ SettingsAnswer(s)
  \/ SettingsSaved(s)
  \/ EditorAnswer(s)
  \/ EditorSaved(s)

EditStep ==
  \/ SettingsRefresh
  \/ SettingsChange
  \/ IntegrationOpen
  \/ IntegrationSave
  \/ SettingsSave
  \/ SettingsTimer
  \/ EditorChange
  \/ EditorSave
  \/ EditorBack

================================================================================
