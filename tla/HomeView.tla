-------------------------------- MODULE HomeView ------------------------------
(***************************************************************************)
(* The account list of the web app in one tab: HomeView, its dialog, the   *)
(* demo accounts in localStorage and the loads from the API.  An action is *)
(* one event; a load is answered later, whatever the user did meanwhile.   *)
(* Other tabs of the browser share localStorage: they change the settings  *)
(* and save lists of their own.  Lists are sets: order is display only.    *)
(***************************************************************************)
EXTENDS ExpiryDay, FiniteSets

CONSTANTS Ids,        \* ids of accounts
          RealIds,    \* those the database gave
          Names,      \* stand for name, KIT and serial number, which searches match
          Queries,    \* what the user searches for
          NewNames,   \* what the user types into the dialog
          Dates,      \* dates of accounts
          NearDates,  \* those daysRemainingNumber puts at most three days from today
          Picks,      \* dates the date input of the dialog gives
          Fallback,   \* demoAccounts of demoData.ts
          Servers,    \* lists the API may have
          OtherLists, \* lists another tab in demo mode may save
          Null

Account == [id : Ids, name : Names, date : Dates]
RealAccount(a) == a.id \in RealIds

Held(S) == {a.id : a \in S}
UniqueIds(S) == \A a, b \in S : a.id = b.id => a = b
List(S) == S \subseteq Account /\ UniqueIds(S)

ASSUME HomeAssumption ==
  /\ Dates \subseteq Date /\ NearDates \subseteq Dates /\ Picks \subseteq Dates
  /\ Queries \subseteq Names /\ NewNames \subseteq Names
  /\ Null \notin Names \union Ids
  /\ List(Fallback) /\ \A a \in Fallback : ~RealAccount(a)
  /\ \A S \in Servers : List(S) /\ \A a \in S : RealAccount(a)
  /\ \A S \in OtherLists : List(S) /\ \A a \in S : ~RealAccount(a)

VARIABLES
  onDevice,   \* localStorage: what saveDemoAccounts wrote, Null at first
  mode,     \* settings: "demo" (no server address), "signedOut", "signedIn"
  remote,   \* the accounts the API lists
  data,     \* dataState, "closed" while HomeView is not mounted
  accounts, \* the state of that name
  asked,    \* the query of the load in flight, "refused" if it found no server or tokens
  query,    \* Null while the search field is empty
  day,      \* selectedDay, NoDay while none is
  all,      \* showAll
  dialog,   \* the dialog, Null while it is closed
  current,  \* history: no other tab saved since this one read or saved
  carried   \* history: the account being edited when the load was answered

outside == <<onDevice, mode, remote>>
filters == <<query, day, all>>
history == <<current, carried>>
homeVars == <<outside, data, accounts, asked, filters, dialog, history>>

\* The draft of a new account has no name and date yet that could be submitted.
Dialog == [edits : BOOLEAN, draft : Account] \union [edits : {TRUE}, draft : [id : Ids]]

HomeTypeOK ==
  /\ onDevice # Null => List(onDevice)
  /\ mode \in {"demo", "signedOut", "signedIn"}
  /\ List(remote)
  /\ data \in {"closed", "demo", "loading", "loaded", "error"}
  /\ List(accounts)
  /\ asked \in Names \union {Null, "refused"}
  /\ query \in Names \union {Null}
  /\ day \in 0..31
  /\ all \in BOOLEAN
  /\ dialog # Null => dialog \in Dialog
  /\ current \in BOOLEAN
  /\ carried \in Ids \union {Null}

HomeInit ==
  /\ onDevice = Null /\ mode = "demo" /\ remote \in Servers
  /\ data = "closed" /\ accounts = {} /\ asked = Null
  /\ query = Null /\ day = NoDay /\ all = FALSE /\ dialog = Null
  /\ current = FALSE /\ carried = Null

-----------------------------------------------------------------------------
(* What the page shows                                                      *)

DayOf == [d \in Dates |-> expiryDay(Written(d))]
OnDay(S, d) == {a \in S : DayOf[a.date] = d}
Matches(S, q) == IF q = Null THEN S ELSE {a \in S : a.name = q}

Filtered == Matches(IF day = NoDay THEN accounts ELSE OnDay(accounts, day), query)

Visible ==
  IF all \/ query # Null \/ day # NoDay
    THEN Filtered ELSE {a \in accounts : a.date \in NearDates}

loadDemoAccounts == IF onDevice = Null THEN Fallback ELSE onDevice

-----------------------------------------------------------------------------
(* Plausible bugs, each of which one of the properties below excludes.       *)

SavesWhatItShowed(list) == IF data = "demo" THEN accounts ELSE onDevice
SavesAlways(list) == list
AddsAlways(id) == accounts
-----------------------------------------------------------------------------
(* Mounting and loading                                                     *)

\* The effect of the first render.  Until real accounts are there the page keeps
\* showing the demo accounts it was rendered with.
Mount ==
  /\ data = "closed"
  /\ data' = CASE mode = "demo" -> "demo"
               [] mode = "signedOut" -> "error"
               [] mode = "signedIn" -> "loading"
  /\ accounts' = IF mode = "demo" THEN loadDemoAccounts ELSE Fallback
  /\ current' = (mode = "demo")
  /\ UNCHANGED <<outside, asked, filters, dialog, carried>>

Replaced(list) == list

LoadAnswers ==
  /\ data = "loading" /\ asked # "refused"
  /\ data' = "loaded"
  /\ accounts' = Replaced(Matches(remote, asked))
  /\ carried' = IF dialog = Null THEN Null ELSE dialog.draft.id
  /\ asked' = Null
  /\ UNCHANGED <<outside, filters, dialog, current>>

LoadFails ==
  /\ data = "loading"
  /\ data' = "error"
  /\ asked' = Null
  /\ UNCHANGED <<outside, accounts, filters, dialog, history>>

\* loadRealAccounts again, with what the search field and the settings hold by now.
Retry ==
  /\ data = "error" /\ dialog = Null
  /\ data' = "loading"
  /\ asked' = IF mode = "signedIn" THEN query ELSE "refused"
  /\ UNCHANGED <<outside, accounts, filters, dialog, history>>

\* Another page, or the tab is closed: an answer on its way finds nobody.
Leaves ==
  /\ data' = "closed" /\ accounts' = {} /\ asked' = Null
  /\ query' = Null /\ day' = NoDay /\ all' = FALSE /\ dialog' = Null
  /\ current' = FALSE /\ carried' = Null
  /\ UNCHANGED outside

Unmount == data # "closed" /\ Leaves

-----------------------------------------------------------------------------
(* Filters: behind the backdrop of a dialog nothing is clicked.             *)

Clicks ==
  /\ data # "closed" /\ dialog = Null
  /\ UNCHANGED <<outside, data, accounts, asked, history>>

Type(q) == Clicks /\ query' = q /\ UNCHANGED <<day, all, dialog>>

\* The circle of the selected day clears the selection.
PickDay(d) ==
  /\ Clicks
  /\ day' = IF day = d THEN NoDay ELSE d
  /\ UNCHANGED <<query, all, dialog>>

ToggleAll ==
  /\ Clicks
  /\ query = Null /\ day = NoDay
  /\ all' = ~all
  /\ UNCHANGED <<query, day, dialog>>

-----------------------------------------------------------------------------
(* The dialog                                                               *)

\* createBlankAccount: a random id nobody has.
OpenAdd(i) ==
  /\ Clicks
  /\ i \notin Held(accounts) \union RealIds \union {carried}
  /\ \A S \in {Fallback} \union OtherLists : i \notin Held(S)
  /\ onDevice # Null => i \notin Held(onDevice)
  /\ dialog' = [edits |-> TRUE, draft |-> [id |-> i]]
  /\ UNCHANGED filters

OpenCard(a, edits) ==
  /\ Clicks
  /\ a \in Visible
  /\ dialog' = [edits |-> edits, draft |-> a]
  /\ UNCHANGED filters

CloseDialog ==
  /\ dialog # Null
  /\ dialog' = Null
  /\ UNCHANGED <<outside, data, accounts, asked, filters, history>>

\* The input of type date only takes and shows yyyy-mm-dd: a date in another form
\* shows as empty, and the form is not submitted before one was chosen.
Choices(draft) ==
  Picks \union (IF "date" \in DOMAIN draft /\ draft.date.form = "yearFirst" /\ draft.date.padded
                  THEN {draft.date} ELSE {})

Saved(list) == IF data = "demo" THEN list ELSE onDevice

ShowsAll == all' = TRUE /\ day' = NoDay /\ query' = Null

Others(id) == {a \in accounts : a.id # id}

\* submit and saveAccount: replaces the account with the same id or adds it.
Submit(name) ==
  /\ dialog # Null /\ dialog.edits
  /\ \E date \in Choices(dialog.draft) :
       LET id == dialog.draft.id
           next == Others(id) \union {[id |-> id, name |-> name, date |-> date]}
       IN accounts' = next /\ onDevice' = Saved(next)
  /\ current' = (data = "demo")
  /\ ShowsAll
  /\ dialog' = Null
  /\ UNCHANGED <<mode, remote, data, asked, carried>>

\* localStorage is full or blocked: the updater throws and the page is gone.
SubmitThrows == dialog # Null /\ dialog.edits /\ data = "demo" /\ Leaves

-----------------------------------------------------------------------------
(* Other tabs                                                               *)

OtherTabSaves(S) ==
  /\ onDevice' = S
  /\ current' = FALSE
  /\ UNCHANGED <<mode, remote, data, accounts, asked, filters, dialog, carried>>

\* The page that is open does not notice.
Settings(m) ==
  /\ m # mode
  /\ mode' = m
  /\ UNCHANGED <<onDevice, remote, data, accounts, asked, filters, dialog, history>>

HomeNext ==
  \/ Mount \/ LoadAnswers \/ LoadFails \/ Retry \/ Unmount
  \/ \E q \in Queries \union {Null} : Type(q)
  \/ \E d \in {p.day : p \in Picks} : PickDay(d)
  \/ ToggleAll
  \/ \E i \in Ids : OpenAdd(i)
  \/ \E a \in accounts, edits \in BOOLEAN : OpenCard(a, edits)
  \/ CloseDialog
  \/ \E name \in NewNames : Submit(name)
  \/ SubmitThrows
  \/ \E S \in OtherLists : OtherTabSaves(S)
  \/ \E m \in {"demo", "signedOut", "signedIn"} : Settings(m)

HomeSpec == HomeInit /\ [][HomeNext]_homeVars
-----------------------------------------------------------------------------
(* Properties                                                               *)

\* "Any account you add is saved on this device": in demo mode the page shows what it
\* would show after a reload, unless another tab saved its own list meanwhile.
StoredIsShown == data = "demo" /\ current => accounts = loadDemoAccounts

\* Real and demo accounts are kept apart, although the page shows demo accounts until
\* the real ones are there: a loaded list has no demo account but the one that
\* was being edited when the answer came, and no real account is ever stored on the
\* device.
KeptApart ==
  /\ data = "loaded" => Held(accounts) \intersect Held(Fallback) \subseteq {carried}
  /\ onDevice # Null => \A a \in onDevice : ~RealAccount(a)

\* An account whose date is in one of the forms the comment of expiryDay lists is
\* counted and found under the circle of its day, wherever the date comes from.
FiledUnderItsDay ==
  \A a \in accounts : Legible(a.date) => a \in OnDay(accounts, a.date.day)
=============================================================================
