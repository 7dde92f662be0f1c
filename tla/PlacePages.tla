----------------------------- MODULE PlacePages -----------------------------
(***************************************************************************)
(* The pages with a map: the owner picks where the business is, and the    *)
(* customer finds businesses nearby and opens one.  Maps are scripts of    *)
(* others, loaded when a page mounts; places are searched and customers    *)
(* located by calls whose answers nobody puts in order.                    *)
(***************************************************************************)
EXTENDS SetupPages, CustomerPages

Maps == {"loading", "ready", "failed"}

\* A call that every answer of is used, whatever was asked since.
Ask(i, op, arg) == calls' = [calls EXCEPT ![i] = [NoCall EXCEPT !.op = op, !.at = "map", !.arg = arg]]

-----------------------------------------------------------------------------
(* The place of the business *)

Found == 1..2      \* bound: the places a search can find, each by its own words
Elsewhere == 0     \* any other place, the city centre too

\* `start` is where the picker was mounted: before the business has loaded, at
\* the city centre.  Bound: saving is on the settings page.
ContactInit ==
    /\ page = "contact"
    /\ srv = [place |-> 1, address |-> 1]
    /\ \E loaded \in BOOLEAN : \E provider \in {"google", "osm"} :
        /\ seen = [me |-> IF loaded THEN Cached(srv) ELSE Fetching(None)]
        /\ ui = [draft |-> IF loaded THEN srv ELSE [place |-> None, address |-> None],
                 filled |-> loaded, typed |-> [place |-> None, address |-> None],
                 provider |-> provider, map |-> "loading", start |-> IF loaded THEN 1 ELSE Elsewhere,
                 marker |-> None, query |-> 0, timer |-> None, results |-> None, searching |-> FALSE]
    /\ calls = NoCalls

\* A picked place takes its address along only when it was found by a search.
onChange(p, address, u) ==
    LET v == Typed("place", p, u) IN IF address = None THEN v ELSE Typed("address", address, v)

\* The map and its marker are made once, where the picker was mounted.
PickerLoads ==
    /\ ui.map = "loading"
    /\ \/ Ui([ui EXCEPT !.map = "ready", !.marker = ui.start])
       \/ Ui([ui EXCEPT !.map = "failed"])

DragOrClick ==
    /\ ui.map = "ready"
    /\ \E p \in Found \union {Elsewhere} : Ui(onChange(p, None, [ui EXCEPT !.marker = p]))

\* Google searches in its own field, and refuses a bad key later on.
GooglePicker ==
    /\ ui.provider = "google"
    /\ \/ ui.map = "ready" /\ \E p \in Found : Ui(onChange(p, p, [ui EXCEPT !.marker = p]))
       \/ ui.map = "ready" /\ Ui([ui EXCEPT !.map = "failed"])

\* Typing restarts the timer; of words that are too short (0) none is started.
handleQueryChange ==
    \E q \in (Found \union {0}) \ {ui.query} :
        Ui([ui EXCEPT !.query = q, !.results = None, !.timer = IF q = 0 THEN None ELSE q])

runNominatimSearch(q) ==
    /\ \E i \in Unused : Ask(i, "search", q)
    /\ ui' = [ui EXCEPT !.timer = None, !.searching = TRUE]
    /\ UNCHANGED <<page, srv, seen>>

\* The map follows, if there is one yet; a timer that runs goes on.
selectResult ==
    /\ ui.results # None
    /\ Ui(onChange(ui.results, ui.results,
                   [ui EXCEPT !.query = ui.results, !.results = None,
                              !.marker = IF ui.map = "ready" THEN ui.results ELSE @]))

\* Without the map there is no search either.
OsmPicker ==
    /\ ui.provider = "osm" /\ ui.map # "failed"
    /\ \/ handleQueryChange
       \/ selectResult
       \/ ui.query # 0 /\ runNominatimSearch(ui.query)

DebounceTimer == ui.timer # None /\ runNominatimSearch(ui.timer)

LocationPicker == PickerLoads \/ DragOrClick \/ GooglePicker \/ OsmPicker \/ DebounceTimer

search(i) == calls[i].op = "search" /\ ServedWith(i, srv, calls[i].arg)

\* Every answer fills the list; the first one ends the notice of a search.
ContactAnswer(i, ok) ==
    /\ calls' = Dropped(i)
    /\ ui' = [ui EXCEPT !.searching = FALSE, !.results = IF ok THEN calls[i].row ELSE @]
    /\ UNCHANGED <<page, srv, seen>>

-----------------------------------------------------------------------------
(* Businesses nearby *)

\* One query for each filter, far or around the customer.
\* Bound: the words searched for and the category are one filter.
NearbyKeys == {"all", "some", "allNear", "someNear"}

\* Bound: two businesses, one of them without coordinates, one in the category.
PublicBusinessListView(k) ==
    {b \in srv : (k \in {"some", "someNear"} => b = "cafe") /\ (k \in {"allNear", "someNear"} => b = "cafe")}

nearbyKey(u) == CASE ~u.filter /\ ~u.loc -> "all" [] u.filter /\ ~u.loc -> "some"
                  [] ~u.filter /\ u.loc -> "allNear" [] OTHER -> "someNear"

\* Opens asking for the customer's location.  `drawn`: the page was rendered
\* since the map was ready.
NearbyInit ==
    /\ page = "nearby"
    /\ srv = {"cafe", "barber"}
    /\ seen = [k \in NearbyKeys |-> IF k = "all" THEN Fetching(None) ELSE [Cached(None) EXCEPT !.stale = TRUE]]
    /\ ui = [filter |-> FALSE, loc |-> FALSE, msg |-> "allow", map |-> "loading", drawn |-> FALSE,
             list |-> FALSE, sheet |-> FALSE]
    /\ \E i \in CallIds : calls = [NoCalls EXCEPT ![i] = [NoCall EXCEPT !.op = "locate", !.at = "map"]]

\* The page is rendered: a map that is ready gets its pins.
Rendered(u) == [u EXCEPT !.drawn = u.map = "ready"]

\* With other parameters it uses another query.
NearbyUses(u) == IF nearbyKey(u) = nearbyKey(ui) THEN seen ELSE Used(nearbyKey(u), seen)

NearbyUi(u) ==
    ui' = Rendered(u) /\ seen' = NearbyUses(u) /\ UNCHANGED <<page, srv, calls>>

\* A business without coordinates has a place on the drawn map only.
PlacedPins ==
    LET list == IF seen[nearbyKey(ui)].data = None THEN {} ELSE seen[nearbyKey(ui)].data
    IN  IF ui.map = "failed" THEN list ELSE IF ui.drawn THEN list \ {"barber"} ELSE {}

Overlaid == ui.list \/ ui.sheet

\* A map that becomes ready renders nothing; one that fails is drawn instead.
MapBody ==
    /\ ui.map = "loading"
    /\ \/ Ui([ui EXCEPT !.map = "ready"])
       \/ Ui([ui EXCEPT !.map = "failed"])

\* The button asks again, while an older request may still be answered.
requestLocation ==
    /\ ~Overlaid
    /\ \E i \in Unused : Ask(i, "locate", None)
    /\ ui' = Rendered([ui EXCEPT !.msg = "allow"])
    /\ UNCHANGED <<page, srv, seen>>

\* Opening a business closes the list.
openDetail == NearbyUi([ui EXCEPT !.list = FALSE, !.sheet = TRUE])

MiniMap ==
    /\ ~Overlaid
    /\ \/ PlacedPins # {} /\ openDetail
       \/ ui.map = "ready" /\ NearbyUi([ui EXCEPT !.list = TRUE])

CategoryChips == ~Overlaid /\ NearbyUi([ui EXCEPT !.filter = ~@])

NearbyCard == ui.list /\ Has(nearbyKey(ui)) /\ seen[nearbyKey(ui)].data # {} /\ openDetail

NearbyPage ==
    \/ MapBody \/ requestLocation \/ MiniMap \/ CategoryChips \/ NearbyCard
    \/ ~Overlaid /\ seen[nearbyKey(ui)].data \notin {None, {}} /\ NearbyUi([ui EXCEPT !.list = TRUE])
    \/ ui.list /\ NearbyUi([ui EXCEPT !.list = FALSE])
    \/ ui.sheet /\ NearbyUi([ui EXCEPT !.sheet = FALSE])

locate(i) == calls[i].op = "locate" /\ Served(i, srv)

\* Refused or timed out, it says so, even if the customer was located before.
NearbyAnswer(i, ok) ==
    /\ calls' = Dropped(i)
    /\ LET u == Rendered(IF ok THEN [ui EXCEPT !.loc = TRUE, !.msg = "centered"] ELSE [ui EXCEPT !.msg = "denied"])
       IN  ui' = u /\ seen' = NearbyUses(u)
    /\ UNCHANGED <<page, srv>>

\* Only the query in use renders the page.
NearbyArrives(k) == ui' = IF k = nearbyKey(ui) THEN Rendered(ui) ELSE ui

-----------------------------------------------------------------------------
(* One business *)

BusinessInit ==
    /\ page = "business"
    /\ \E cards \in {0, 1} : srv = [open |-> TRUE, cards |-> cards]
    /\ seen = [business |-> Fetching(None), bloyalty |-> Fetching(None)]
    /\ ui = [wallet |-> FALSE] /\ calls = NoCalls

\* The owner changes the profile.
OwnerChanges == Meanwhile([srv EXCEPT !.open = ~@])

\* Its cards open in the wallet's sheet, whose rewards do nothing here.
BusinessDetailsContent ==
    /\ Has("business") /\ ~ui.wallet
    /\ seen.bloyalty.data \notin {None, 0} /\ Ui([ui EXCEPT !.wallet = TRUE])

BusinessSheet ==
    \/ BusinessDetailsContent
    \/ ui.wallet /\ Has("business") /\ Ui([ui EXCEPT !.wallet = FALSE])
    \/ ~ui.wallet /\ page' = "left" /\ UNCHANGED <<ui, srv, seen, calls>>

BusinessProfilePage == BusinessSheet \/ OwnerChanges

-----------------------------------------------------------------------------
(* Properties *)

\* The list of places answers the words in the field.  Refuted: an older search
\* is answered later, or after the words were changed.
ResultsMatchQuery == page = "contact" /\ ui.results # None => ui.results = ui.query

\* The marker is where the business is.  Refuted: the map was mounted before the
\* business had loaded.
MarkerShowsPlace == page = "contact" /\ ui.map = "ready" /\ ui.filled => ui.marker = ui.draft.place

\* A map that is ready shows the businesses that were found.  Refuted: nothing
\* renders the page when its map is ready.
PinsShown ==
    page = "nearby" /\ ui.map = "ready" /\ Quiet /\ Calm =>
        (Has(nearbyKey(ui)) /\ "cafe" \in seen[nearbyKey(ui)].data => "cafe" \in PlacedPins)

=============================================================================
