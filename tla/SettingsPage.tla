---------------------------- MODULE SettingsPage ----------------------------
(***************************************************************************)
(* The settings: the form of src/views/src/pages/Settings.tsx, the switch  *)
(* of the dark mode, which Layout.tsx has too, the store with the key, the *)
(* mode and the theme of the browser (store.ts), and the server, which     *)
(* checks the key of a request and then writes one setting after the other *)
(* (internal/api).                                                         *)
(***************************************************************************)
EXTENDS MountedPage

CONSTANTS
    Keys,           \* access keys
    Blank,          \* a key of spaces only
    Colors,         \* theme colors, which stand for the other settings too
    Defaults,       \* setting -> what the form begins with
    DEFAULT_GREEN, DEFAULT_RED

(* What a setting can be.                                                  *)
Values == [auth_key |-> Keys \cup {Blank}, theme_color |-> Colors,
           dark_mode |-> BOOLEAN]

SettingValues == UNION {Values[f] : f \in DOMAIN Values}

ASSUME DefaultsAssumption ==
    /\ Defaults \in [DOMAIN Values -> SettingValues]
    /\ \A f \in DOMAIN Values : Defaults[f] \in Values[f]
    /\ Defaults.auth_key # Blank
ASSUME BlankAssumption == Blank \notin Keys /\ None \notin Keys
ASSUME ColorsAssumption == {DEFAULT_GREEN, DEFAULT_RED} \subseteq Colors

VARIABLES
    settings,       \* the settings in the database
    store,          \* [key, darkMode, themeColor]
    smooth          \* history: no save has failed, and none overlapped another

OnSettings == On("settings")

Fields == DOMAIN Defaults
FormFields == Fields \ {"dark_mode"}

(* The requests that read and write settings: `body` is written, `done` are*)
(* the fields already written; `touched` and `fresh` are histories.        *)
SettingsRequests ==
    [kind : {"form", "save", "dark", "app"},
     body : UNION {[fields -> SettingValues] : fields \in SUBSET Fields},
     done : SUBSET Fields, key : Keys \cup {Blank}, touched : SUBSET Fields,
     fresh : BOOLEAN, mounted : BOOLEAN, status : {"sent", "ok", "failed"},
     answer : [Fields -> SettingValues] \cup {None}]

ASSUME NoRequestAssumption == None \notin SettingsRequests

(* The form holds defaults until the settings arrive.  `edited` and `fresh`*)
(* are histories: the fields the user has changed, and whether the form    *)
(* shows what the server has: nothing else was being written when it was   *)
(* read, and nothing but the form itself has written since.                *)
MountedSettings ==
    [route |-> "settings", form |-> [f \in FormFields |-> IF f = "auth_key" THEN Blank
                                                          ELSE Defaults[f]],
     edited |-> {}, fresh |-> FALSE]

SettingsRequest(kind, body) ==
    [kind |-> kind, body |-> body, done |-> {}, key |-> store.key, touched |-> {},
     fresh |-> FALSE, mounted |-> TRUE, status |-> "sent", answer |-> None]

NoBody == [f \in {} |-> None]

(* The requests of SettingsPage that change the store or the server.       *)
Unsettled(used) == {k \in Slots : used[k] # None /\ used[k].kind \in {"save", "dark", "app"}}

(* Those that are still to write.                                          *)
Writing == {k \in Unsettled(requests) : Waiting(k) /\ requests[k].kind # "app"}

(* A request that writes settings is sent.                                 *)
SendSave(r) ==
    /\ Free(requests) # {} /\ Click
    /\ requests' = Put(requests, r)
    /\ smooth' = (smooth /\ Unsettled(requests) = {})

-----------------------------------------------------------------------------
(* The user.                                                               *)

EditForm(f, v) ==
    /\ v # page.form[f] /\ Click
    /\ page' = [page EXCEPT !.form[f] = v, !.edited = @ \cup {f}]
    /\ store' = IF f = "theme_color" THEN [store EXCEPT !.themeColor = v] ELSE store
    /\ UNCHANGED <<requests, settings, smooth>>

(* toggleDark of the store: the default color goes with the mode.          *)
toggleDark ==
    LET next == ~store.darkMode
    IN  [store EXCEPT !.darkMode = next,
            !.themeColor = IF @ = DEFAULT_GREEN /\ ~next THEN DEFAULT_RED
                           ELSE IF @ = DEFAULT_RED /\ next THEN DEFAULT_GREEN ELSE @]

(* The switch, there and in the bar of every page: the mode is saved alone.*)
ToggleDark ==
    /\ store' = toggleDark
    /\ SendSave([SettingsRequest("dark", [dark_mode |-> ~store.darkMode])
                     EXCEPT !.touched = {"dark_mode"}, !.fresh = TRUE])
    /\ UNCHANGED <<page, settings>>

(* What onSave sends: the form and the mode, without a blank key.          *)
Body == [f \in {g \in Fields : g # "auth_key" \/ page.form.auth_key # Blank} |->
            IF f = "dark_mode" THEN store.darkMode ELSE page.form[f]]

onSave ==
    /\ SendSave([SettingsRequest("save", Body)
                     EXCEPT !.touched = page.edited \cup {"dark_mode"}, !.fresh = page.fresh])
    /\ UNCHANGED <<page, settings, store>>

SettingsUser ==
    \/ ToggleDark
    \/ OnSettings /\ \E f \in FormFields : \E v \in Values[f] : EditForm(f, v)
    \/ OnSettings /\ onSave

-----------------------------------------------------------------------------
(* The callbacks.                                                          *)

(* Mutation of FormOf: one of the settings is not taken over.              *)
FormOfNoColor(s) == [f \in FormFields |-> IF f = "theme_color" THEN Defaults[f] ELSE s[f]]

(* The form shows the answer.                                              *)
FormOf(s) == [f \in FormFields |-> s[f]]

TakeSettings(k) ==
    /\ Answered(k) /\ requests[k].kind = "form"
    /\ page' = [page EXCEPT !.form = FormOf(requests[k].answer), !.edited = {},
                            !.fresh = requests[k].fresh]
    /\ requests' = Dropped(k)
    /\ UNCHANGED <<settings, store, smooth, clicks>>

(* The effect of App on a new key asks for the settings as well.           *)
TakeAppSettings(k) ==
    /\ Answered(k) /\ requests[k].kind = "app"
    /\ store' = [store EXCEPT !.darkMode = requests[k].answer.dark_mode,
                              !.themeColor = requests[k].answer.theme_color]
    /\ requests' = Dropped(k)
    /\ UNCHANGED <<page, settings, smooth, clicks>>

(* Mutation of NewKey: the browser goes on with the key it has.            *)
NewKeyNever(r) == None

(* The key to go on with, if the request has changed it.                   *)
NewKey(r) ==
    IF "auth_key" \in DOMAIN r.body /\ r.body.auth_key # r.key THEN r.body.auth_key ELSE None

(* The form was saved; the store takes over the color and the key, also    *)
(* when another page is open by now.                                       *)
Saved(k) ==
    LET r == requests[k]
    IN  /\ Answered(k) /\ r.kind = "save" /\ r.mounted
        /\ store' = [store EXCEPT !.themeColor = r.body.theme_color,
                                  !.key = IF NewKey(r) # None THEN NewKey(r) ELSE @]
        /\ requests' = IF NewKey(r) = None THEN Dropped(k)
                       ELSE [requests EXCEPT ![k] =
                                [SettingsRequest("app", NoBody) EXCEPT !.key = NewKey(r)]]
        /\ UNCHANGED <<page, settings, smooth, clicks>>

(* The end of the switch's request, and every failure, change nothing.     *)
SettingsIgnored(k) ==
    /\ \/ Answered(k) /\ requests[k].kind = "dark"
       \/ Refused(k) /\ requests[k].kind \in {"form", "app", "save", "dark"}
    /\ requests' = Dropped(k)
    /\ UNCHANGED <<page, settings, store, smooth, clicks>>

-----------------------------------------------------------------------------
(* The server.                                                             *)

(* validKey.                                                               *)
validKey(r) == r.key = settings.auth_key

ServeSettings(k) ==
    /\ Waiting(k) /\ requests[k].kind \in {"form", "app"}
    /\ requests' = IF validKey(requests[k])
                   THEN [Answers(k, settings) EXCEPT ![k].fresh = (Writing = {})] ELSE Refuses(k)
    /\ UNCHANGED <<page, settings, store, smooth, clicks>>

(* History: what requests of these kinds know of the settings is old.      *)
Outdated(kinds) == [k \in Slots |->
    IF requests[k] # None /\ requests[k].kind \in kinds
    THEN [requests[k] EXCEPT !.fresh = FALSE] ELSE requests[k]]

Accepts(f, v) == ~(f = "auth_key" /\ v = Blank)

(* saveSettings, one setting after the other, in any order.                *)
WriteSetting(k, f) ==
    LET r == requests[k]
    IN  /\ Waiting(k) /\ r.kind \in {"save", "dark"}
        /\ r.done = {} => validKey(r)
        /\ f \in DOMAIN r.body \ r.done
        /\ settings' = IF Accepts(f, r.body[f]) THEN [settings EXCEPT ![f] = r.body[f]]
                       ELSE settings
        /\ requests' =
               LET kinds == IF r.kind = "dark" THEN {"form"} ELSE {"form", "save"}
                   written == [Outdated(kinds) EXCEPT ![k] = [r EXCEPT !.done = @ \cup {f}]]
               IN  IF written[k].done = DOMAIN r.body
                   THEN [written EXCEPT ![k].status = "ok"] ELSE written
        /\ page' = IF OnSettings /\ ~r.fresh THEN [page EXCEPT !.fresh = FALSE] ELSE page
        /\ UNCHANGED <<store, smooth, clicks>>

RefuseSave(k) ==
    /\ Waiting(k) /\ requests[k].kind \in {"save", "dark"} /\ requests[k].done = {}
    /\ ~validKey(requests[k])
    /\ requests' = Refuses(k)
    /\ smooth' = FALSE
    /\ UNCHANGED <<page, settings, store, clicks>>

(* Another client of the API writes a setting: what forms and requests of  *)
(* this browser know is old.                                               *)
WriteElsewhere(f, v) ==
    /\ Accepts(f, v) /\ v # settings[f]
    /\ settings' = [settings EXCEPT ![f] = v]
    /\ page' = IF OnSettings THEN [page EXCEPT !.fresh = FALSE] ELSE page
    /\ requests' = Outdated({"form", "save"})
    /\ smooth' = (smooth /\ f \notin {"auth_key", "dark_mode"})
    /\ UNCHANGED <<store, clicks>>
-----------------------------------------------------------------------------
SettingsTypeOK ==
    /\ \A f \in Fields : settings[f] \in Values[f]
    /\ store \in [key : Keys, darkMode : BOOLEAN, themeColor : Colors]

(* Saving the form changes only what the user has edited in it, if the form*)
(* shows the settings and no other save has overtaken this one: the others *)
(* go back as they came, through a form that holds defaults until the      *)
(* answer is there and a body written one setting after the other          *)
(* (Settings.tsx:51-97, api.go:740-757).                                   *)
Writes(k) == requests[k] # None /\ requests'[k] # None
             /\ "done" \in DOMAIN requests[k] /\ "done" \in DOMAIN requests'[k]
             /\ requests'[k].done # requests[k].done

SaveChangesOnlyEdits ==
    [][\A k \in Slots : Writes(k) /\ requests[k].fresh =>
          \A f \in Fields : settings'[f] # settings[f] => f \in requests[k].touched
      ]_<<settings, requests>>

(* Once everything is answered the browser's key is the server's, and its  *)
(* mode is the one it will have after a reload, if saves were not sent at  *)
(* the same time and none has failed (Settings.tsx:81-97,233-238,          *)
(* Layout.tsx:158-163).                                                    *)
BrowserInStep ==
    smooth /\ Unsettled(requests) = {} =>
        store.key = settings.auth_key /\ store.darkMode = settings.dark_mode
=============================================================================
