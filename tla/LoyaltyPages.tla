---------------------------- MODULE LoyaltyPages ----------------------------
(***************************************************************************)
(* The owner's pages of loyalty programs: the wizard that creates one, and *)
(* the page of one program with its lifecycle buttons (twice: in the hero  *)
(* and in the settings) and its settings form, which is seeded from the    *)
(* cached program and saves every field.                                   *)
(***************************************************************************)
EXTENDS WebPage, SequencesExt

CONSTANTS
    TierNames,   \* bound: texts of a level's name; "" is empty
    Lower,       \* each trimmed and in lower case
    LongNames,   \* those of more than 60 letters
    Number,      \* bound: texts of a level's numbers, and what Number() makes of each,
                 \* in thousandths (bound: nothing finer); None for no number
    Integer,     \* the same, in ones, where it is a whole number; None elsewhere
    MaxLevels,   \* the editor's and the server's cap on levels
    Visitors     \* bound: lifetime visits of the members of a program

ASSUME LoyaltyPagesAssumption ==
    /\ "" \in TierNames
    /\ DOMAIN Lower = TierNames
    /\ \A n \in TierNames : Lower[n] = "" <=> n = ""
    /\ LongNames \subseteq TierNames
    /\ {"0", "5"} \subseteq DOMAIN Number /\ DOMAIN Integer = DOMAIN Number
    /\ Integer["0"] = 0 /\ Integer["5"] = 5
    /\ \A x \in DOMAIN Number : Integer[x] # None => Number[x] = 1000 * Integer[x]
    /\ MaxLevels \in Nat \ {0}
    /\ IsFiniteSet(DOMAIN Visitors)
    /\ \A m \in DOMAIN Visitors : Visitors[m] \in Nat

-----------------------------------------------------------------------------
(* The ladder editor *)

Texts == DOMAIN Number

LastOf(rows) == rows[Len(rows)]

HundredPercent == 100000

\* Where the editor starts a new level: five visits after the last, or at five.
NextVisits(rows) ==
    LET last == Number[LastOf(rows).visits]
    IN  (IF last \in Int THEN last ELSE 0) + 5000

\* What a row is sent as: its texts read as numbers.
Level(row) ==
    [name |-> row.name, min_visits |-> Integer[row.visits], cashback_percent |-> Number[row.percent]]

\* Mutant: levels may share a name.
draftsToTiers_Slip(rows) ==
    IF /\ rows # <<>>
       /\ \A i \in DOMAIN rows :
            /\ Lower[rows[i].name] # ""
            /\ Number[rows[i].percent] \in 1..HundredPercent
            /\ Integer[rows[i].visits] \in Nat
            /\ IF i = 1 THEN Integer[rows[i].visits] = 0
               ELSE Integer[rows[i].visits] > Integer[rows[i - 1].visits]
    THEN [i \in DOMAIN rows |-> Level(rows[i])] ELSE None

\* A valid draft as the levels it is sent as, None for an invalid one.  A name may be
\* of any length, a percentage any number up to 100.
draftsToTiers(rows) ==
    IF /\ rows # <<>>
       /\ \A i \in DOMAIN rows :
            /\ Lower[rows[i].name] # ""
            /\ \A j \in 1..(i - 1) : Lower[rows[j].name] # Lower[rows[i].name]
            /\ Number[rows[i].percent] \in 1..HundredPercent
            /\ Integer[rows[i].visits] \in Nat
            /\ IF i = 1 THEN Integer[rows[i].visits] = 0
               ELSE Integer[rows[i].visits] > Integer[rows[i - 1].visits]
    THEN [i \in DOMAIN rows |-> Level(rows[i])] ELSE None

\* LoyaltyTierSerializer: the shape of each level, two decimals of a percentage.
serializerAccepts(tiers) ==
    \A i \in DOMAIN tiers :
        /\ Lower[tiers[i].name] # "" /\ tiers[i].name \notin LongNames
        /\ tiers[i].min_visits \in Nat
        /\ tiers[i].cashback_percent % 10 = 0

\* LoyaltyProgramService: the rules of the ladder as a whole.
validateTiers(tiers) ==
    /\ Len(tiers) <= MaxLevels
    /\ tiers # <<>> => tiers[1].min_visits = 0
    /\ Cardinality({Lower[tiers[i].name] : i \in DOMAIN tiers} \ {""}) = Len(tiers)
    /\ \A i \in 2..Len(tiers) : tiers[i].min_visits > tiers[i - 1].min_visits
    /\ \A i \in DOMAIN tiers : tiers[i].cashback_percent \in 1..HundredPercent

-----------------------------------------------------------------------------
(* The wizard *)

DefaultForm ==
    [type |-> "points", named |-> FALSE, basis |-> "spend", reward |-> FALSE,
     itemMode |-> "customer", tiersEnabled |-> FALSE,
     tiers |-> <<[name |-> "", visits |-> "0", percent |-> "5"]>>]

NewLoyaltyInit ==
    /\ page = "loyaltyNew"
    /\ ui = [step |-> 0, form |-> DefaultForm, leaving |-> FALSE]
    /\ srv = [programs |-> 0, ladder |-> <<>>]
    /\ seen = <<>> /\ calls = NoCalls

tiersActive(f) == f.tiersEnabled /\ f.type = "points" /\ f.basis = "spend"

validateForm(f) ==
    /\ f.named
    /\ f.type # "points" => f.reward /\ f.itemMode # "fixed"
    /\ tiersActive(f) => draftsToTiers(f.tiers) # None

\* The payload is taken when the form is sent: what is edited while a call is
\* under way changes nothing, and is left out.
SetForm(f) == Quiet /\ ~ui.leaving /\ Ui([ui EXCEPT !.form = f])

StepType == ui.step = 0 /\ \E t \in {"points", "stamp", "visit"} : SetForm([ui.form EXCEPT !.type = t])

\* The first level starts at 0 and stays.
TierEditor ==
    LET rows == ui.form.tiers
        Edited(new) == SetForm([ui.form EXCEPT !.tiers = new])
    IN  \/ \E i \in DOMAIN rows, n \in TierNames : Edited([rows EXCEPT ![i].name = n])
        \/ \E i \in DOMAIN rows, x \in Texts : Edited([rows EXCEPT ![i].percent = x])
        \/ \E i \in DOMAIN rows \ {1}, x \in Texts : Edited([rows EXCEPT ![i].visits = x])
        \/ \E i \in DOMAIN rows \ {1} : Edited(RemoveAt(rows, i))
        \/ /\ Len(rows) < MaxLevels
           /\ \E x \in Texts :
                /\ Number[x] = NextVisits(rows)
                /\ Edited(Append(rows, [name |-> "", visits |-> x, percent |-> LastOf(rows).percent]))

\* The switch and the levels are shown for points earned by spending.
StepMechanics ==
    /\ ui.step = 1
    /\ LET f == ui.form
       IN  \/ \E b \in BOOLEAN : SetForm([f EXCEPT !.named = b])
           \/ /\ f.type = "points"
              /\ \E b \in {"visit", "spend"} : SetForm([f EXCEPT !.basis = b])
           \/ /\ f.type = "points" /\ f.basis = "spend"
              /\ \/ SetForm([f EXCEPT !.tiersEnabled = ~f.tiersEnabled])
                 \/ f.tiersEnabled /\ TierEditor

\* "fixed" is a fixed item that is not chosen yet.
StepReward ==
    /\ ui.step = 2
    /\ LET f == ui.form
       IN  \/ \E b \in BOOLEAN : SetForm([f EXCEPT !.reward = b])
           \/ /\ f.type # "points"
              /\ \E m \in {"customer", "fixed", "fixedItem"} : SetForm([f EXCEPT !.itemMode = m])

\* Steps ahead are not checked; the form is, before it is sent.
Stepper ==
    /\ ~ui.leaving
    /\ \/ ui.step < 3 /\ Ui([ui EXCEPT !.step = ui.step + 1])
       \/ \E i \in 0..ui.step : i # ui.step /\ Ui([ui EXCEPT !.step = i])

\* The levels that are sent; the other fields are the form's.
Payload(f) == IF tiersActive(f) THEN draftsToTiers(f.tiers) ELSE <<>>

StepReview ==
    /\ ui.step = 3 /\ validateForm(ui.form) /\ ~IsBusy("create", "page")
    /\ SendOnly("create", "page", Payload(ui.form))

\* The server has rules of its own for the levels and for the other numbers.
createProgram(i) ==
    /\ calls[i].op = "create" /\ srv.programs < 2
    /\ serializerAccepts(calls[i].arg) /\ validateTiers(calls[i].arg)
    /\ Served(i, [programs |-> srv.programs + 1, ladder |-> calls[i].arg])

\* The answer starts the navigation to the new program; until it is over the
\* page works on, its create button too.
NewLoyaltyAnswer(i, ok) ==
    /\ ui' = IF ok /\ Here(i) THEN [ui EXCEPT !.leaving = TRUE] ELSE ui
    /\ calls' = Dropped(i)
    /\ UNCHANGED <<page, srv, seen>>

NewLoyaltyLeft ==
    /\ ui.leaving
    /\ page' = "left" /\ ui' = None /\ calls' = Gone({"page"})
    /\ UNCHANGED <<srv, seen>>

NewLoyaltyPage ==
    StepType \/ StepMechanics \/ StepReward \/ StepReview \/ Stepper \/ NewLoyaltyLeft

-----------------------------------------------------------------------------
(* One program: the hero and the settings *)

LifecycleOps == {"pause", "activate", "archive"}
StatusAfter == [pause |-> "paused", activate |-> "active", archive |-> "archived"]

DetailTabs == {"overview", "settings"}

\* Open on a program in any state.
LoyaltyDetailInit ==
    /\ page = "loyaltyDetail"
    /\ \E st \in {"active", "paused", "archived"} :
        /\ srv = [status |-> st, cfg |-> 0]
        /\ seen = [program |-> Fetching(None)]
    /\ ui = [tab |-> "overview", draft |-> None]
    /\ calls = NoCalls

\* What the boundary around the page lets through.
LoyaltyShown == seen.program.data # None /\ ~seen.program.bad

\* The buttons a part of the page offers; it disables them all while one of
\* its own calls is under way, and knows nothing of the other part's.
Lifecycle(at) ==
    /\ LoyaltyShown /\ ~AnyBusy(LifecycleOps, at)
    /\ LET st == seen.program.data.status
       IN  \/ st = "active" /\ SendOnly("pause", at, None)
           \/ st # "active" /\ SendOnly("activate", at, None)
           \/ st # "archived" /\ SendOnly("archive", at, None)

LoyaltyHero == Lifecycle("hero")
LoyaltyTabBar ==
    /\ LoyaltyShown
    /\ \E t \in DetailTabs \ {ui.tab} :
        /\ ui' = [tab |-> t, draft |-> IF t = "settings" THEN seen.program.data.cfg ELSE None]
        /\ calls' = Gone({"settings"})
        /\ UNCHANGED <<page, srv, seen>>

\* The draft is seeded when the tab opens and never again.
LoyaltySettingsTab ==
    /\ LoyaltyShown /\ ui.tab = "settings"
    /\ \/ Lifecycle("settings")
       \/ \E d \in 0..1 : d # ui.draft /\ Ui([ui EXCEPT !.draft = d])
       \/ ~IsBusy("update", "settings") /\ SendOnly("update", "settings", ui.draft)

\* The row is loaded, changed and saved with every column.
updateProgram(i) ==
    /\ calls[i].op = "update"
    /\ \/ Loaded(i, srv.status)
       \/ calls[i].phase = "row" /\ Served(i, [srv EXCEPT !.cfg = calls[i].arg, !.status = calls[i].row])

\* Any status may follow any other.
programAction(i) ==
    /\ calls[i].op \in LifecycleOps
    /\ Served(i, [srv EXCEPT !.status = StatusAfter[calls[i].op]])

\* Mutant: saving the settings does not refresh the program.
LifecycleInvalidates_Slip(op) == IF op = "update" THEN {} ELSE {"program"}

\* The hooks refresh the program and the list of programs.
LifecycleInvalidates(op) == {"program"}

LoyaltyProgramDetailPage == LoyaltyHero \/ LoyaltyTabBar \/ LoyaltySettingsTab

LoyaltyDetailAnswer(i, ok) ==
    /\ calls' = Dropped(i)
    /\ seen' = IF ok THEN Invalidated(LifecycleInvalidates(calls[i].op), {"program"}, seen) ELSE Missed(i)
    /\ UNCHANGED <<page, ui, srv>>

\* A failed refresh takes the page down, with the draft in it.
LoyaltyUnmounted ==
    /\ ui' = [tab |-> "overview", draft |-> None]
    /\ calls' = Gone({"hero", "settings"})

-----------------------------------------------------------------------------
(* What the tabs compute *)

\* Mutant: a member on the threshold of a level has not reached it.
TierLadderCard_Slip(tiers) ==
    [i \in DOMAIN tiers |->
        Cardinality({m \in DOMAIN Visitors :
            /\ Visitors[m] > tiers[i].min_visits
            /\ i < Len(tiers) => Visitors[m] < tiers[i + 1].min_visits})]

\* Members are counted on the last level whose threshold they have passed.
TierLadderCard(tiers) ==
    [i \in DOMAIN tiers |->
        Cardinality({m \in DOMAIN Visitors :
            /\ Visitors[m] >= tiers[i].min_visits
            /\ i < Len(tiers) => Visitors[m] < tiers[i + 1].min_visits})]

-----------------------------------------------------------------------------
(* Properties *)

\* Every ladder the wizard sends, whatever rows were added, removed and retyped
\* before it, keeps the rules of LoyaltyProgramService, which draftsToTiers and the
\* editor's cap say again in their own words.  The shape of a level, which
\* LoyaltyTierSerializer looks at before them, is not part of it.
LadderKeepsRules ==
    \A i \in CallIds : calls[i].op = "create" => validateTiers(calls[i].arg)

\* The editor leaves nothing in a ladder for the server to refuse.  Refuted: a name
\* of more than 60 letters and a third decimal of a percentage pass draftsToTiers.
LadderAccepted ==
    \A i \in CallIds : calls[i].op = "create" =>
        serializerAccepts(calls[i].arg) /\ validateTiers(calls[i].arg)

\* The levels of a program count every member once.
LadderCountsMembers ==
    page = "loyaltyNew" /\ srv.ladder # <<>> =>
            FoldFunction(+, 0, TierLadderCard(srv.ladder)) = Cardinality(DOMAIN Visitors)

=============================================================================
