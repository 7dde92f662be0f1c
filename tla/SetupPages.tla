----------------------------- MODULE SetupPages -----------------------------
(***************************************************************************)
(* The steps of the wizard that set a business up - its catalog and its    *)
(* photos, and its staff - and the overview of the settings, from which    *)
(* the owner submits it.                                                   *)
(***************************************************************************)
EXTENDS OwnerPages

CONSTANT TeamLimit   \* members the wizard lets an owner have

ASSUME SetupPagesAssumption == TeamLimit \in Nat \ {0}

-----------------------------------------------------------------------------
(* The catalog and the photos *)

\* The wizard keeps the draft of an item, and all of its calls, from step to
\* step.  Bound: the owner works on the catalog or on the photos.
SetupInit ==
    /\ page = "setup"
    /\ \/ srv = [items |-> 0, images |-> 0] /\ seen = [catalog |-> Fetching(None)]
       \/ srv = [photos |-> 0] /\ seen = [gallery |-> Fetching(None)]
    /\ ui = [named |-> FALSE, priced |-> FALSE] /\ calls = NoCalls

\* An item needs a name and a price; one that is listed may be sent away, or a
\* picture of it, at any time.
SetupCatalog ==
    \/ Ui([ui EXCEPT !.named = ~@]) \/ Ui([ui EXCEPT !.priced = ~@])
    \/ ui.named /\ ui.priced /\ ~IsBusy("addItem", "page") /\ SendOnly("addItem", "page", None)
    \/ /\ seen.catalog.data # None /\ seen.catalog.data.items > 0
       /\ SendOnly("removeItem", "page", None) \/ SendOnly("itemImage", "page", None)

\* All files picked are sent, however many the gallery still takes.
handleGalleryPick ==
    /\ galleryImages < GalleryLimit /\ ~IsBusy("addPhoto", "page")
    /\ \E picked \in SUBSET Unused \ {{}} : SendPhotos(picked)

StageSetup ==
    \/ "catalog" \in DOMAIN seen /\ SetupCatalog
    \/ /\ "gallery" \in DOMAIN seen
       /\ handleGalleryPick \/ (galleryImages > 0 /\ SendOnly("deletePhoto", "page", None))

\* A new item clears the draft, whatever it has become.
SetupAnswer(i, ok) ==
    /\ calls' = Dropped(i)
    /\ seen' = IF ok THEN Invalidated(DOMAIN seen, DOMAIN seen, seen) ELSE Missed(i)
    /\ ui' = IF ok /\ Here(i) /\ calls[i].op = "addItem" THEN [named |-> FALSE, priced |-> FALSE] ELSE ui
    /\ UNCHANGED <<page, srv>>

-----------------------------------------------------------------------------
(* The staff *)

Phones == 1..(TeamLimit + 1)   \* bound: the people an owner may invite

\* `password` is the account whose one-time password is on display.
StaffingInit ==
    /\ page = "staffing"
    /\ \E hired \in {{}, {1}} : srv = [accounts |-> hired]
    /\ seen = [team |-> Fetching(None)]
    /\ ui = [phone |-> None, password |-> None] /\ calls = NoCalls

\* A team that has not loaded counts as empty.
staffUsed == IF seen.team.data = None THEN 0 ELSE Cardinality(seen.team.data.accounts)

doCreateStaff ==
    /\ staffUsed < TeamLimit /\ ui.phone # None
    /\ ~IsBusy("createStaff", "page") /\ SendOnly("createStaff", "page", ui.phone)

StageStaff ==
    \/ \E p \in Phones \ {ui.phone} : Ui([ui EXCEPT !.phone = p])
    \/ doCreateStaff
    \/ ui.password # None /\ Ui([ui EXCEPT !.password = None])

\* A phone has one account; the server does not count them.
createAccount(i) ==
    /\ calls[i].op = "createStaff" /\ calls[i].arg \notin srv.accounts
    /\ Served(i, [accounts |-> srv.accounts \union {calls[i].arg}])

StaffingAnswer(i, ok) ==
    /\ calls' = Dropped(i)
    /\ seen' = IF ok THEN Invalidated({"team"}, {"team"}, seen) ELSE Missed(i)
    /\ ui' = IF ok /\ Here(i) THEN [phone |-> None, password |-> calls[i].arg] ELSE ui
    /\ UNCHANGED <<page, srv>>

-----------------------------------------------------------------------------
(* The overview *)

missingFields(row) ==
    {s \in {"profile"} : row.profile = 0} \union {s \in {"brand"} : row.image = 0}

\* The overview and the sections it leads to are mounted together; `active` is
\* the one in front.  Opens loaded: the business says what is missing before the
\* completion state does.  Bound: texts and logo are what may be missing, and no
\* text is taken back.
OverviewInit ==
    /\ page = "overview"
    /\ \E p, l \in {0, 1} : \E st \in {"in_progress", "published"} :
        /\ st = "published" => p = 1 /\ l = 1
        /\ srv = [profile |-> p, image |-> l, status |-> st]
        /\ ui = [text |-> p, active |-> "overview"]
    /\ seen = [state |-> Fetching(missingFields(srv))]
    /\ calls = NoCalls

missing == seen.state.data

\* Each missing field leads to its section.
CompletionBanner == \E s \in missing \ {ui.active} : Ui([ui EXCEPT !.active = s])

SettingsNav == \E s \in {"overview", "profile", "brand"} \ {ui.active} : Ui([ui EXCEPT !.active = s])

\* It may be submitted again, whatever its status.
OverviewSection ==
    /\ ui.active = "overview"
    /\ missing = {} /\ ~IsBusy("submit", "page") /\ SendOnly("submit", "page", None)

\* The texts are filled in and saved, or a logo is picked.
SectionInFront ==
    \/ ui.active = "profile" /\ ui.text = 0 /\ Ui([ui EXCEPT !.text = 1])
    \/ ui.active = "profile" /\ ~IsBusy("updateMe", "profile") /\ SendOnly("updateMe", "profile", ui.text)
    \/ ui.active = "brand" /\ ~IsBusy("brandImage", "brand") /\ SendOnly("brandImage", "brand", None)

BusinessSettingsPage == CompletionBanner \/ SettingsNav \/ OverviewSection \/ SectionInFront

\* A submission takes a published business back to a draft.
submitForReview(i) ==
    /\ calls[i].op = "submit" /\ missingFields(srv) = {}
    /\ Served(i, [srv EXCEPT !.status = "submitted"])

\* Every hook refreshes what is missing.
OverviewAnswer(i, ok) ==
    /\ calls' = Dropped(i)
    /\ seen' = IF ok THEN Invalidated({"state"}, {"state"}, seen) ELSE Missed(i)
    /\ UNCHANGED <<page, ui, srv>>

-----------------------------------------------------------------------------
(* Properties *)

\* A one-time password stays on display until the owner is done with it.
\* Refuted: the next account's password takes its place.
PasswordKept ==
    [][page = "staffing" /\ ui.password # None => ui'.password \in {ui.password, None}]_pageVars

\* The team stays within its limit.  Refuted: the wizard counts the cached team,
\* and the server does not count.
TeamCap == page = "staffing" => Cardinality(srv.accounts) <= TeamLimit

\* A submitted business stays submitted.  Refuted: a section saved at the same
\* time writes the status it had loaded.
SubmissionKept ==
    [][page = "overview" /\ srv.status = "submitted" => srv'.status = "submitted"]_pageVars

=============================================================================
