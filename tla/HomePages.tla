------------------------------ MODULE HomePages ------------------------------
(***************************************************************************)
(* The cards of the home page: which of a customer's cards and campaigns   *)
(* it puts in front, the carousel that holds them, and the list of the     *)
(* others.  The queries it is made of may still be missing or have failed. *)
(***************************************************************************)
EXTENDS PlacePages, SequencesExt

CONSTANT HeroLimit   \* cards in front

ASSUME HomePagesAssumption == HeroLimit \in Nat \ {0}

\* Bound: three cards of two businesses and one campaign, each complete at two;
\* only the first card is scanned while the page is open.
Cards == {"stampA", "visitA", "stampB"}
Required == 2
BusinessOf(c) == IF c = "stampB" THEN "B" ELSE "A"

NoCards == [c \in Cards |-> None]

\* Two of its queries; nothing is won, and no business is suggested.
HomeKeys == {"homeCards", "homeFeed"}

\* `shut`: business A is closed now.
HeroesInit ==
    /\ page = "heroes"
    /\ \E a, v \in {None, 1} : \E b, c \in {None, 2} : \E shut \in BOOLEAN :
        srv = [count |-> ("stampA" :> a) @@ ("visitA" :> v) @@ ("stampB" :> b), campaign |-> c, shut |-> shut]
    /\ ui = [slide |-> 0, target |-> None, pointer |-> "up"]
    /\ calls = NoCalls
    /\ seen = [k \in HomeKeys |-> Fetching(None)]

StaffStamps ==
    /\ srv.count["stampA"] \in 0..Required
    /\ Meanwhile([srv EXCEPT !.count["stampA"] = @ + 1])

\* What the page has, a query without an answer counting as empty.
HomeCards == IF seen.homeCards.data = None THEN NoCards ELSE seen.homeCards.data
Followed == seen.homeFeed.data
JoinedCards == {c \in Cards : HomeCards[c] # None}

\* The first answer of each is awaited; a failed one is not.
HomeIsLoading ==
    \E k \in HomeKeys : seen[k].data = None /\ seen[k].fetch # "no"

isNewCustomer == ~HomeIsLoading /\ JoinedCards = {} /\ Followed = None

-----------------------------------------------------------------------------
(* The cards in front *)

HeroCount(h) == IF h = "campaign" THEN Followed ELSE HomeCards[h]

\* Cards that have gone past their goal are not in front.
HeroCandidates ==
    {c \in JoinedCards : HomeCards[c] <= Required}
    \union {h \in {"campaign"} : Followed # None /\ Followed <= Required}

HeroOpen(h) == h = "campaign" \/ BusinessOf(h) # "A" \/ ~srv.shut

\* Campaigns before stamps, stamps before visits, and of the stamps the last used.
HeroRank == ("campaign" :> 0) @@ ("stampA" :> 1) @@ ("stampB" :> 2) @@ ("visitA" :> 3)

\* Open ones first, then the nearest to its goal.
HeroBefore(g, h) ==
    \/ HeroOpen(g) /\ ~HeroOpen(h)
    \/ /\ HeroOpen(g) <=> HeroOpen(h)
       /\ \/ HeroCount(g) > HeroCount(h)
          \/ HeroCount(g) = HeroCount(h) /\ HeroRank[g] < HeroRank[h]

\* Vouchers and cashback never get there: only progress is kept.
pickHomeHeroes ==
    LET ranked == SetToSortSeq(HeroCandidates, HeroBefore)
    IN  SubSeq(ranked, 1, IF Len(ranked) < HeroLimit THEN Len(ranked) ELSE HeroLimit)

\* The stamp card of the first one's business, even when that one is a visit card.
heroProgramId ==
    IF pickHomeHeroes = <<>> \/ pickHomeHeroes[1] = "campaign" THEN {}
    ELSE {c \in JoinedCards : c # "visitA" /\ BusinessOf(c) = BusinessOf(pickHomeHeroes[1])}

CollectingList == {c \in JoinedCards : HomeCards[c] < Required} \ heroProgramId

-----------------------------------------------------------------------------
(* The carousel *)

HomeShown == ~HomeIsLoading /\ ~isNewCustomer

collectingCount == Cardinality(JoinedCards) + (IF Followed = None THEN 0 ELSE 1)

\* Without a card in front there is one that invites; the wallet comes last.
slideCount ==
    LET n == Len(pickHomeHeroes)  shown == IF n = 0 THEN 1 ELSE n
    IN  IF collectingCount > shown THEN shown + 1 ELSE shown

carouselIndex(slide) == IF slide < slideCount THEN slide ELSE slideCount - 1

\* The timer of an earlier drag runs on.
startDrag == ui.pointer = "up" /\ Ui([ui EXCEPT !.pointer = "down"])

\* Past six pixels the rail follows the pointer.
moveDrag ==
    /\ ui.pointer \in {"down", "moved"}
    /\ \E n \in 0..(slideCount - 1) : Ui([ui EXCEPT !.pointer = "moved", !.slide = n])

\* The rail goes to the nearest card; the click that ends a drag is suppressed
\* until the next frame.
endDrag ==
    \/ ui.pointer = "down" /\ Ui([ui EXCEPT !.pointer = "up"])
    \/ /\ ui.pointer = "moved"
       /\ LET n == carouselIndex(ui.slide)
          IN  Ui([slide |-> n, target |-> n, pointer |-> "settling"])

NextFrame == ui.pointer = "settling" /\ Ui([ui EXCEPT !.pointer = "up"])

\* The timer puts the rail where the last drag left it, wherever it is by now.
SnapTimer == ui.target # None /\ Ui([ui EXCEPT !.slide = carouselIndex(ui.target), !.target = None])

\* A click: a complete one leads to the rewards, the others to their card.
HeroCard == ui.pointer = "up" /\ page' = "left" /\ UNCHANGED <<ui, srv, seen, calls>>

\* Bound: it is dragged while nothing is fetched.
HomeHeroCarousel ==
    /\ HomeShown /\ Calm
    /\ startDrag \/ moveDrag \/ endDrag \/ NextFrame \/ HeroCard

NewCustomerHome == isNewCustomer /\ page' = "left" /\ UNCHANGED <<ui, srv, seen, calls>>

HeroesPage == HomeHeroCarousel \/ SnapTimer \/ NewCustomerHome \/ StaffStamps \/ Poll("homeFeed")

HomeView(k) == IF k = "homeCards" THEN srv.count ELSE srv.campaign

-----------------------------------------------------------------------------
(* Properties *)

\* The home of a new customer is for those who follow and collect nothing.
\* Refuted: it is also what a customer sees whose queries failed.
NewHomeForNew ==
    page = "heroes" /\ isNewCustomer => srv.campaign = None /\ \A c \in Cards : srv.count[c] = None

\* The card in front is not repeated among the others.  Refuted: of a visit card
\* the stamp card of the same business is left out.
HeroNotRepeated ==
    page = "heroes" /\ pickHomeHeroes # <<>> => pickHomeHeroes[1] \notin CollectingList

=============================================================================
