------------------------------- MODULE UiAccount -------------------------------
(***************************************************************************)
(* Logging in and out, registering, and the page of one's own profile.     *)
(***************************************************************************)
EXTENDS UiShell

--------------------------------------------------------------------------------
\* The login page keeps its flag, and an error it shows, in the store.

\* A button that does not wait.
LoginShowsAlways == {"register", "submit"}

LoginShows == {"register"} \cup When(~auth.loading, "submit")

\* handleLogin, up to its await: the thunk's pending case.
LoginSubmit ==
  /\ At("login")
  /\ "submit" \in LoginShows
  /\ \E s \in Free : net' = [net EXCEPT ![s] = Request("login", "none")]
  /\ auth' = [auth EXCEPT !.loading = TRUE]
  /\ UNCHANGED <<storage, location, mounted, ui>>

\* The rest of handleLogin, also when the page is gone: the store and local storage
\* take the token, and the router goes to the dashboard.
LoginAccepted(s) ==
  /\ net[s].call = "login"
  /\ Accepts(s)
  /\ net' = Answered(s)
  /\ storage' = "good"
  /\ auth' = [auth EXCEPT !.in = TRUE, !.loading = FALSE]
  /\ GoTo("dashboard")

\* A wrong password is a 401: the interceptor has thrown away a token that was there.
LoginFails(s) ==
  /\ net[s].call = "login"
  /\ net' = Answered(s)
  /\ storage' \in {storage} \cup When(Rejects(s) /\ location \in PublicPages, "none")
  /\ auth' = [auth EXCEPT !.loading = FALSE]
  /\ UNCHANGED <<location, mounted, ui>>

--------------------------------------------------------------------------------

RegisterShows ==
  {"login"} \cup When(ui.error, "error") \cup When(~ui.loading, "submit")

\* handleRegister, up to its await.
RegisterSubmit(repeated) ==
  /\ At("register")
  /\ "submit" \in RegisterShows
  /\ IF repeated
     THEN Send("register", "none") /\ ui' = [ui EXCEPT !.error = FALSE, !.loading = TRUE]
     ELSE ui' = [ui EXCEPT !.error = TRUE] /\ UNCHANGED <<shell, net>>

\* The rest of it.  The router goes to the login page wherever the user is by then.
RegisterAnswer(s) ==
  /\ net[s].call = "register"
  /\ net' = Answered(s)
  /\ \/ /\ Accepts(s)
        /\ location' = "login"
        /\ ui' = IF net[s].live THEN [ui EXCEPT !.loading = FALSE] ELSE ui
     \/ /\ ui' = IF net[s].live THEN [ui EXCEPT !.loading = FALSE, !.error = TRUE] ELSE ui
        /\ UNCHANGED location
  /\ UNCHANGED <<session, mounted>>

--------------------------------------------------------------------------------
\* Two things are called "Logout".

\* A reducer that forgets local storage.
StoreLogout ==
  /\ mounted \in PublicPages
  /\ mounted = location
  /\ auth.in
  /\ auth' = [auth EXCEPT !.in = FALSE]
  /\ GoTo("home")
  /\ UNCHANGED <<storage, net>>

\* The navigation bar of the public pages.
NavbarLogout ==
  /\ mounted \in PublicPages
  /\ mounted = location
  /\ auth.in
  /\ storage' = "none"
  /\ auth' = [auth EXCEPT !.in = FALSE]
  /\ GoTo("home")
  /\ UNCHANGED net

\* The user menu of the protected pages is a link to a path without a route, from
\* where the router goes to the landing page.
LogoutLink ==
  /\ mounted \in ProtectedPages
  /\ Follow("home")

\* The links of the public pages: the bar shows either the account or the way in, the
\* landing page always shows the way in.
PublicLinks(p) ==
  {"home"} \cup (IF auth.in THEN {"dashboard", "profile", "settings"} ELSE {"login", "register"})
  \cup (CASE p = "home" -> {"login", "register"}
          [] p = "login" -> {"register"}
          [] OTHER -> {"login"})

FollowPublic(p) ==
  /\ mounted \in PublicPages
  /\ p \in PublicLinks(mounted)
  /\ Follow(p)

FollowSidebar(p) ==
  /\ mounted \in ProtectedPages
  /\ p \in Sidebar
  /\ Follow(p)

--------------------------------------------------------------------------------
\* The profile.  Without an answer the page goes on with the data of a demo user, and
\* its buttons then only pretend.

ProfileOpens == Opens([Blank EXCEPT !.pick = "personal"], "getProfile")

ProfileAnswer(s) ==
  \/ /\ OnSuccess(s, "getProfile")
     /\ ui' = Lists("some")
  \/ /\ OnFailure(s, "getProfile")
     /\ ui' = Fills("sample")

ProfileShows ==
  IF ui.rows = "none" THEN {"spinner"}
  ELSE {"tabs", ui.pick}
       \cup When(ui.rows = "sample", "demoBanner")
       \cup When(ui.note # "none", "message")
       \cup When(ui.pick = "personal" /\ ~ui.loading, "saveInfo")
       \cup When(ui.pick = "security" /\ ~ui.loading /\ ui.form # "blank", "savePassword")

ProfileTab(t) ==
  /\ At("profile")
  /\ "tabs" \in ProfileShows
  /\ ui' = [ui EXCEPT !.pick = t]
  /\ UNCHANGED <<shell, net>>

\* The three fields of the password form: the repetition is right or wrong.
ProfileType(form) ==
  /\ At("profile")
  /\ "security" \in ProfileShows
  /\ ui' = [ui EXCEPT !.form = form]
  /\ UNCHANGED <<shell, net>>

ProfileDismiss ==
  /\ At("profile")
  /\ "message" \in ProfileShows
  /\ ui' = [ui EXCEPT !.note = "none"]
  /\ UNCHANGED <<shell, net>>

\* What a save waits for when the profile is the demo user's: a second.
Pretended(s, what) == OnAnswer(s, "pause") /\ net[s].arg = what

\* handleUpdateInfo, and after its await.
ProfileSaveInfo ==
  /\ At("profile")
  /\ "saveInfo" \in ProfileShows
  /\ Send(IF ui.rows = "sample" THEN "pause" ELSE "putProfile", "none")
  /\ ui' = [ui EXCEPT !.loading = TRUE]

ProfileInfoSaved(s) ==
  \/ /\ OnSuccess(s, "putProfile") \/ Pretended(s, "none")
     /\ ui' = [ui EXCEPT !.loading = FALSE, !.note = "good"]
  \/ /\ OnFailure(s, "putProfile")
     /\ ui' = [ui EXCEPT !.loading = FALSE, !.note = "bad"]

\* handleUpdatePassword, and after its await.  The answer 401 for a wrong old password
\* does not get here: the interceptor has left the page.
ProfileSavePassword ==
  /\ At("profile")
  /\ "savePassword" \in ProfileShows
  /\ IF ui.form = "match"
     THEN /\ Send(IF ui.rows = "sample" THEN "pause" ELSE "putPassword", "password")
          /\ ui' = [ui EXCEPT !.loading = TRUE]
     ELSE ui' = [ui EXCEPT !.note = "bad"] /\ UNCHANGED <<shell, net>>

ProfilePasswordSaved(s) ==
  \/ /\ OnSuccess(s, "putPassword") \/ Pretended(s, "password")
     /\ ui' = [ui EXCEPT !.loading = FALSE, !.note = "good", !.form = "blank"]
  \/ /\ OnFailure(s, "putPassword")
     /\ ui' = [ui EXCEPT !.loading = FALSE, !.note = "bad"]

--------------------------------------------------------------------------------

AccountAnswer(s) ==
  \/ LoginAccepted(s)
  \/ LoginFails(s)
  \/ RegisterAnswer(s)
  \/ ProfileAnswer(s)
  \/ ProfileInfoSaved(s)
  \/ ProfilePasswordSaved(s)

AccountStep ==
  \/ LoginSubmit
  \/ \E repeated \in BOOLEAN : RegisterSubmit(repeated)
  \/ NavbarLogout
  \/ LogoutLink
  \/ \E p \in Pages : FollowPublic(p) \/ FollowSidebar(p)
  \/ \E t \in {"personal", "security", "activity"} : ProfileTab(t)
  \/ \E form \in {"blank", "match", "mismatch"} : ProfileType(form)
  \/ ProfileDismiss
  \/ ProfileSaveInfo
  \/ ProfileSavePassword

================================================================================
