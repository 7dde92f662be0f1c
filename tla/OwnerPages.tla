------------------------------ MODULE OwnerPages ------------------------------
(***************************************************************************)
(* The owner's pages of the business itself: the onboarding wizard with    *)
(* its autosave, the settings in sections that each save their own fields, *)
(* the gallery and the team.                                               *)
(***************************************************************************)
EXTENDS WebPage

CONSTANT GalleryLimit   \* photos a gallery may hold

ASSUME OwnerPagesAssumption == GalleryLimit \in Nat \ {0}

-----------------------------------------------------------------------------
(* The onboarding wizard *)

\* A form is 0 while a required text of the first step is missing, 1 when none
\* is, and 2 when a business type is chosen too.  Bound: with a type chosen no
\* text is taken back.
Forms == 0..2

\* What the server still misses.
required_fields(s) ==
    {field \in {"profile"} : s.form = 0} \union {field \in {"type"} : s.form < 2}
    \union {field \in {"logo"} : s.logo = 0}

\* The page asks of it whether anything is missing.
OnboardingState(s) == [complete |-> required_fields(s) = {}, status |-> s.status]

\* Where the form finds a business once it has loaded.
hydrate(s) == IF s.status \in {"submitted", "completed"} THEN 6 ELSE 1

\* Opens loaded and hydrated, on a business nothing is known of or on one that
\* was asked for changes.  `logo` of the cached business is all that is read
\* later.  Bound: the catalog has an item.  `late` remembers that the save served
\* last was not the one sent last, `failed` that the last save was reported lost.
OnboardingInit ==
    /\ page = "onboarding"
    /\ srv \in {[form |-> 0, logo |-> 0, status |-> "in_progress", late |-> FALSE],
                [form |-> 2, logo |-> 1, status |-> "changes_requested", late |-> FALSE]}
    /\ ui = [stage |-> hydrate(srv), form |-> srv.form, timer |-> None, failed |-> FALSE,
             preview |-> FALSE, asking |-> FALSE]
    /\ seen = [me |-> Cached(srv.logo), state |-> Cached(OnboardingState(srv))]
    /\ calls = NoCalls

\* Mutant: the autosave takes the form as it was before the edit.
persist_Slip(next) == ui.form

\* An edit restarts the timer with the whole form.
persist(next) == next

setForm(f) == Ui([ui EXCEPT !.form = f, !.timer = persist(f)])

\* The timer sends the form; the wizard follows the last save only.
AutoSave ==
    /\ ui.timer # None
    /\ Call("save", "page", ui.timer)
    /\ ui' = [ui EXCEPT !.timer = None, !.failed = FALSE]
    /\ UNCHANGED <<page, srv, seen>>

validateStage(s) ==
    /\ s = 1 => ui.form > 0 /\ (seen.me.data = 1 \/ ui.preview)
    /\ s = 2 => ui.form = 2

\* Reaching the review asks the server what is missing.
GoStage(s) ==
    /\ ui' = [ui EXCEPT !.stage = s]
    /\ seen' = IF s = 5 THEN [seen EXCEPT !.state.fetch = "sent", !.state.got = None] ELSE seen
    /\ UNCHANGED <<page, srv, calls>>

\* Bound: the steps of the catalog and of the staff, which change nothing of
\* this, are one: there is no step 4.
Steps == {1, 2, 3, 5}

goNext ==
    /\ ui.stage < 5 /\ validateStage(ui.stage)
    /\ \E s \in Steps : s > ui.stage /\ (\A r \in Steps : r > ui.stage => r >= s) /\ GoStage(s)

\* The back button, the steps passed, and the review's links to the steps.
goBack == ui.stage \in 2..5 /\ ~ui.asking /\ \E s \in Steps : s < ui.stage /\ GoStage(s)

StageIdentity ==
    /\ ui.stage = 1
    /\ ui.form < 2 /\ setForm(1 - ui.form)

StageType == ui.stage = 2 /\ ui.form = 1 /\ setForm(2)

\* The logo is shown before it is uploaded, and counts as one.
onLogoPick ==
    /\ ui.stage = 1
    /\ Call("logo", "page", None)
    /\ ui' = [ui EXCEPT !.preview = TRUE]
    /\ UNCHANGED <<page, srv, seen>>

canSubmit == seen.state.data.complete /\ ui.form = 2 /\ ~seen.state.bad

StageReview == ui.stage = 5 /\ canSubmit /\ ~IsBusy("submit", "page") /\ ~ui.asking /\ Ui([ui EXCEPT !.asking = TRUE])

OnboardSubmitDialog ==
    /\ ui.asking
    /\ \/ Ui([ui EXCEPT !.asking = FALSE])
       \/ Call("submit", "page", None) /\ ui' = [ui EXCEPT !.asking = FALSE] /\ UNCHANGED <<page, srv, seen>>

Pending ==
    /\ ui.stage = 6
    /\ \/ seen' = [seen EXCEPT !.state.fetch = "sent", !.state.got = None] /\ UNCHANGED <<page, ui, srv, calls>>
       \/ seen.state.data.status = "changes_requested" /\ GoStage(1)

\* While the onboarding state cannot be read, an error replaces the wizard;
\* its state stays.
OnboardingFlow ==
    \/ AutoSave
    \/ /\ ~seen.state.bad
       /\ \/ goNext \/ goBack \/ StageIdentity \/ StageType \/ onLogoPick
          \/ StageReview \/ OnboardSubmitDialog \/ Pending

\* The row is loaded, changed and saved with every column.
saveOnboarding(i) ==
    /\ calls[i].op = "save"
    /\ \/ Loaded(i, [logo |-> srv.logo, status |-> srv.status])
       \/ /\ calls[i].phase = "row"
          /\ LET row == calls[i].row
             IN  ServedWith(i, [form |-> calls[i].arg, logo |-> row.logo, status |-> row.status, late |-> ~Here(i)],
                            row.logo)

uploadLogo(i) == calls[i].op = "logo" /\ ServedWith(i, [srv EXCEPT !.logo = 1], 1)

submitOnboarding(i) ==
    calls[i].op = "submit" /\ required_fields(srv) = {} /\ Served(i, [srv EXCEPT !.status = "submitted"])

\* An administrator looks at a submission.  Bound: approval, which ends the
\* wizard, is left out.
AdminReviews ==
    /\ page = "onboarding" /\ srv.status = "submitted"
    /\ srv' = [srv EXCEPT !.status = "changes_requested"]
    /\ seen' = [seen EXCEPT !.state.missed = TRUE]
    /\ UNCHANGED <<page, ui, calls>>

\* Every hook refreshes the onboarding state; saves and uploads write the
\* business they are answered with.
OnboardingHooks(i) ==
    Invalidated({"state"}, {"state"},
                IF calls[i].op = "submit" THEN seen ELSE WrittenTo("me", calls[i].row, seen))

OnboardingAnswer(i, ok) ==
    /\ calls' = Dropped(i)
    /\ seen' = IF ok THEN OnboardingHooks(i) ELSE Missed(i)
    /\ ui' = CASE Here(i) /\ calls[i].op = "logo" -> [ui EXCEPT !.preview = FALSE]
               [] Here(i) /\ calls[i].op = "submit" /\ ok -> [ui EXCEPT !.stage = 6]
               [] Here(i) /\ calls[i].op = "save" /\ ~ok -> [ui EXCEPT !.failed = TRUE]
               [] OTHER -> ui
    /\ UNCHANGED <<page, srv>>

-----------------------------------------------------------------------------
(* The settings: sections of one business *)

Sections == {"profile", "brand", "contact", "wallet"}

\* Bound: the owner works on two sections, or on one and its images; a section
\* holds one value.  `typed` remembers what the owner typed last since
\* the form was filled.
SettingsInit ==
    /\ page = "settings"
    /\ \E open \in {{"profile", "wallet"}, {"brand"}, {"contact"}} :
        /\ srv = [f \in open \union (IF "brand" \in open THEN {"image"} ELSE {}) |-> 0]
        /\ ui = [draft |-> [s \in open |-> 0], filled |-> FALSE, typed |-> [s \in open |-> None]]
    /\ seen = [me |-> Fetching(None)]
    /\ calls = NoCalls

Filled(me) == [ui EXCEPT !.draft = [f \in DOMAIN @ |-> me[f]], !.filled = TRUE]

\* Mutant: every answer fills the form again.
useHydratedForm_Slip(me) == Filled(me)

\* The form is filled once, by the first answer.
useHydratedForm(me) == IF ui.filled THEN ui ELSE Filled(me)

\* What is typed before the form is filled is lost.
Typed(f, v, u) == [u EXCEPT !.draft[f] = v, !.typed[f] = IF u.filled THEN v ELSE None]

\* Every section has its own form, save button and mutation, which sends the
\* fields of this section; before the business has loaded it sends blanks.
SaveButton(s) == ~IsBusy("updateMe", s) /\ SendOnly("updateMe", s, ui.draft[s])

Section(s) ==
    /\ s \in DOMAIN ui.draft
    /\ \/ \E v \in {0, 1} \ {ui.draft[s]} : Ui(Typed(s, v, ui))
       \/ SaveButton(s)

ProfileSection == Section("profile")
WalletSection == Section("wallet")
ContactSection == Section("contact")

\* A logo or a cover is saved as soon as it is picked.
BrandSection ==
    \/ Section("brand")
    \/ "brand" \in DOMAIN ui.draft /\ ~IsBusy("brandImage", "brand") /\ SendOnly("brandImage", "brand", None)

\* All sections stay mounted, so switching between them changes nothing.
SettingsSections == ProfileSection \/ WalletSection \/ ContactSection \/ BrandSection

\* The row is loaded, changed and saved with every column.
updateMe(i) ==
    /\ calls[i].op = "updateMe"
    /\ \/ Loaded(i, srv)
       \/ /\ calls[i].phase = "row"
          /\ LET row == [calls[i].row EXCEPT ![calls[i].at] = calls[i].arg] IN ServedWith(i, row, row)

\* The image alone is saved; the answer is the row as it was loaded.
set_business_image(i) ==
    /\ calls[i].op = "brandImage"
    /\ \/ Loaded(i, srv)
       \/ /\ calls[i].phase = "row"
          /\ ServedWith(i, [srv EXCEPT !.image = 1], [calls[i].row EXCEPT !.image = 1])

SettingsAnswer(i, ok) ==
    /\ calls' = Dropped(i)
    /\ seen' = IF ok THEN WrittenTo("me", calls[i].row, seen) ELSE Missed(i)
    /\ ui' = IF ok THEN useHydratedForm(calls[i].row) ELSE ui
    /\ UNCHANGED <<page, srv>>

-----------------------------------------------------------------------------
(* The catalog *)

MenuInit ==
    /\ page = "menu"
    /\ srv = [items |-> 0, images |-> 0]
    /\ seen = [catalog |-> Fetching(None)]
    /\ ui = [named |-> FALSE, file |-> FALSE] /\ calls = NoCalls

\* The draft is not locked while the item is being added.
MenuSection ==
    \/ Ui([ui EXCEPT !.named = ~ui.named])
    \/ ~ui.file /\ Ui([ui EXCEPT !.file = TRUE])
    \/ ui.named /\ ~IsBusy("addItem", "page") /\ SendOnly("addItem", "page", ui.file)
    \/ seen.catalog.data # None /\ seen.catalog.data.items > 0 /\ SendOnly("removeItem", "page", None)
    \/ seen.catalog.data # None /\ seen.catalog.data.items > 0 /\ SendOnly("itemImage", "page", None)

\* Bound: two items.
addCatalogItem(i) ==
    calls[i].op = "addItem" /\ srv.items < 2 /\ Served(i, [srv EXCEPT !.items = @ + 1])
removeCatalogItem(i) ==
    /\ calls[i].op = "removeItem" /\ srv.items > 0
    /\ \E n \in 0..(srv.items - 1) : n \in {srv.images, srv.images - 1} /\ Served(i, [items |-> srv.items - 1, images |-> n])
uploadCatalogItemImage(i) ==
    /\ calls[i].op = "itemImage" /\ srv.items > 0
    /\ \E n \in {srv.images, srv.images + 1} : n <= srv.items /\ Served(i, [srv EXCEPT !.images = n])

\* An item that was added with an image uploads it now; the draft is cleared,
\* whatever it has become.
MenuAnswer(i, ok) ==
    /\ seen' = IF ok THEN Invalidated({"catalog"}, {"catalog"}, seen) ELSE Missed(i)
    /\ IF ok /\ Here(i) /\ calls[i].op = "addItem"
       THEN /\ ui' = [named |-> FALSE, file |-> FALSE]
            /\ calls' = IF calls[i].arg THEN Called(i, "itemImage", "page", None, calls) ELSE Dropped(i)
       ELSE ui' = ui /\ calls' = Dropped(i)
    /\ UNCHANGED <<page, srv>>

-----------------------------------------------------------------------------
(* The gallery *)

GalleryInit ==
    /\ page = "gallery"
    /\ \E n \in 0..GalleryLimit : srv = [photos |-> n]
    /\ seen = [gallery |-> Fetching(None)]
    /\ ui = None /\ calls = NoCalls

\* A gallery that has not loaded counts as empty.
galleryImages == IF seen.gallery.data = None THEN 0 ELSE seen.gallery.data

\* One upload for each file picked; the page follows one of them.
SendPhotos(picked) ==
    LET last == CHOOSE i \in picked : TRUE
    IN  /\ calls' = [i \in CallIds |->
            IF i \notin picked THEN calls[i]
            ELSE [NoCall EXCEPT !.op = "addPhoto", !.at = IF i = last THEN "page" ELSE "gone"]]
        /\ UNCHANGED <<page, ui, srv, seen>>

\* As many as fit are sent.
onPick ==
    /\ galleryImages < GalleryLimit /\ ~IsBusy("addPhoto", "page")
    /\ \E picked \in SUBSET Unused \ {{}} :
        Cardinality(picked) <= GalleryLimit - galleryImages /\ SendPhotos(picked)

GallerySection ==
    \/ onPick
    \/ galleryImages > 0 /\ ~IsBusy("deletePhoto", "page") /\ SendOnly("deletePhoto", "page", None)

\* The photos are counted, compressed, and then one is added.
add_gallery_image(i) ==
    /\ calls[i].op = "addPhoto"
    /\ \/ srv.photos < GalleryLimit /\ Loaded(i, None)
       \/ calls[i].phase = "row" /\ Served(i, [photos |-> srv.photos + 1])

remove_gallery_image(i) ==
    calls[i].op = "deletePhoto" /\ srv.photos > 0 /\ Served(i, [photos |-> srv.photos - 1])

GalleryAnswer(i, ok) ==
    /\ calls' = Dropped(i)
    /\ seen' = IF ok THEN Invalidated({"gallery"}, {"gallery"}, seen) ELSE Missed(i)
    /\ UNCHANGED <<page, ui, srv>>

-----------------------------------------------------------------------------
(* The team *)

\* One member; `pw` and `given` are passwords on display.
TeamInit ==
    /\ page = "team"
    /\ srv = [status |-> "active", role |-> "cashier"]
    /\ seen = [team |-> Fetching(None)]
    /\ ui = [drawer |-> FALSE, asking |-> FALSE, pw |-> FALSE, modal |-> FALSE, given |-> FALSE]
    /\ calls = NoCalls

MemberOps == {"role", "suspend", "reactivate", "removeMember"}

DrawerClosed == [ui EXCEPT !.drawer = FALSE, !.asking = FALSE, !.pw = FALSE]

CloseDrawer ==
    ui.drawer /\ ui' = DrawerClosed /\ calls' = Gone({"drawer"}) /\ UNCHANGED <<page, srv, seen>>

\* The drawer reads the row of the cached list, and is empty without one.
MemberDetail ==
    /\ ui.drawer /\ seen.team.data.status # "removed"
    /\ LET busy == AnyBusy(MemberOps, "drawer")
           status == seen.team.data.status
       IN  \/ ~busy /\ \E r \in {"cashier", "manager"} :
                r # seen.team.data.role /\ SendOnly("role", "drawer", r)
           \/ ~IsBusy("reset", "drawer") /\ SendOnly("reset", "drawer", None)
           \/ ~busy /\ SendOnly(IF status = "suspended" THEN "reactivate" ELSE "suspend", "drawer", None)
           \/ ~busy /\ ~ui.asking /\ Ui([ui EXCEPT !.asking = TRUE])
           \/ ui.asking /\ Ui([ui EXCEPT !.asking = FALSE])
           \/ /\ ui.asking /\ Call("removeMember", "drawer", None)
              /\ ui' = [ui EXCEPT !.asking = FALSE] /\ UNCHANGED <<page, srv, seen>>

\* A password on display is not dismissed by a click beside it; while the
\* account is being created the form may be closed.
CreateStaffModal ==
    /\ ui.modal
    /\ \/ ~ui.given /\ ~IsBusy("createStaff", "modal") /\ SendOnly("createStaff", "modal", None)
       \/ /\ ui' = [ui EXCEPT !.modal = FALSE, !.given = FALSE]
          /\ calls' = Gone({"modal"}) /\ UNCHANGED <<page, srv, seen>>

ManageStaffPage ==
    \/ ~ui.drawer /\ ~ui.modal /\ seen.team.data # None /\ ~seen.team.bad
       /\ seen.team.data.status # "removed" /\ Ui([ui EXCEPT !.drawer = TRUE])
    \/ ~ui.drawer /\ ~ui.modal /\ Ui([ui EXCEPT !.modal = TRUE])
    \/ CloseDrawer \/ MemberDetail \/ CreateStaffModal

staffMember(i) ==
    LET op == calls[i].op
    IN  /\ srv.status # "removed"
        /\ \/ op = "role" /\ Served(i, [srv EXCEPT !.role = calls[i].arg])
           \/ op = "suspend" /\ Served(i, [srv EXCEPT !.status = "suspended"])
           \/ op = "reactivate" /\ Served(i, [srv EXCEPT !.status = "active"])
           \/ op = "removeMember" /\ Served(i, [srv EXCEPT !.status = "removed"])
           \/ op = "reset" /\ Served(i, srv)

\* Another member's account: nothing of this one's.
createStaffAccount(i) == calls[i].op = "createStaff" /\ Served(i, srv)

TeamAnswer(i, ok) ==
    /\ seen' = IF ok THEN Invalidated({"team"}, {"team"}, seen) ELSE Missed(i)
    /\ IF ok /\ Here(i) /\ calls[i].op = "removeMember"
       THEN ui' = DrawerClosed /\ calls' = [Gone({"drawer"}) EXCEPT ![i] = NoCall]
       ELSE /\ calls' = Dropped(i)
            /\ ui' = CASE ok /\ Here(i) /\ calls[i].op = "reset" -> [ui EXCEPT !.pw = TRUE]
                       [] ok /\ Here(i) /\ calls[i].op = "createStaff" -> [ui EXCEPT !.given = TRUE]
                       [] OTHER -> ui
    /\ UNCHANGED <<page, srv>>

-----------------------------------------------------------------------------
(* Properties *)

\* The last autosave carries the form the owner sees, and the server ends up with
\* it: once no timer runs and the save sent last was answered, the server holds
\* what the wizard shows, unless that save was reported as failed or one sent
\* before it was served after it (saves are not held back for each other).
AutosaveSendsForm ==
    page = "onboarding" =>
        /\ ui.timer \in {None, ui.form}
        /\ ui.timer = None => \A i \in CallIds : calls[i].op = "save" /\ Here(i) => calls[i].arg = ui.form
        /\ ui.timer = None /\ ~IsBusy("save", "page") /\ ~ui.failed /\ ~srv.late => srv.form = ui.form

\* What the owner has typed into a section or picked on its map stays there,
\* whatever is fetched, found or saved meanwhile by this section or another.  What
\* is typed before the form is filled for the first time is not part of it: that
\* fill overwrites it, and `typed` does not remember it.
TypedStays ==
    page \in {"settings", "contact"} =>
        \A f \in DOMAIN ui.typed : ui.typed[f] \in {None, ui.draft[f]}

\* The owner never passes a step of the wizard only to be blocked by it later.
\* Refuted: a chosen logo lets the step pass before its upload has failed.
NeverBlockedLater ==
    page = "onboarding" /\ ui.stage = 5 /\ ui.timer = None /\ Quiet /\ Calm => seen.state.data.complete

\* A business has at most as many gallery images as the limit allows.  Refuted:
\* two uploads are counted before either image exists.
GalleryCap == page = "gallery" => srv.photos <= GalleryLimit

=============================================================================
