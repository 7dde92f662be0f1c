---------------------------- MODULE CustomerPages ----------------------------
(***************************************************************************)
(* The customer's pages of campaigns: the notices on the home page, the    *)
(* campaigns tab, the offer of one campaign, the group session and one     *)
(* voucher.  Most of them poll, because what they show is changed by       *)
(* others: the staff scans and redeems, friends join, campaigns end.       *)
(***************************************************************************)
EXTENDS WebPage

-----------------------------------------------------------------------------
(* Changes by others, and polling *)

\* The rows become s; no query of the page has seen it.
Meanwhile(s) ==
    /\ srv' = s
    /\ seen' = MissedBy(seen)
    /\ UNCHANGED <<page, ui, calls>>

\* A query with an interval is fetched again whatever its age.
Poll(k) ==
    /\ seen[k].fetch = "no"
    /\ seen' = [seen EXCEPT ![k].fetch = "sent"]
    /\ UNCHANGED <<page, ui, srv, calls>>

Has(k) == seen[k].data # None /\ ~seen[k].bad

-----------------------------------------------------------------------------
(* Home: notices of new campaigns *)

\* Bound: two notices, the second published later.
HomeInit ==
    /\ page = "home"
    /\ srv = [notices |-> {1}, published |-> 1]
    /\ seen \in {[notices |-> Fetching(None)], [notices |-> Fetching({1})]}
    /\ ui = None /\ calls = NoCalls

CampaignPublished ==
    srv.published = 1 /\ Meanwhile([notices |-> srv.notices \union {2}, published |-> 2])

\* One notice at a time, until the answer says it is gone; the buttons stay live.
CampaignNoticeBanner ==
    /\ seen.notices.data # None
    /\ \E n \in seen.notices.data :
        /\ \A m \in seen.notices.data : n <= m
        /\ SendOnly("noticeSeen", "page", n)

AuthedHome == CampaignNoticeBanner \/ CampaignPublished

markCampaignNoticesSeen(i) ==
    calls[i].op = "noticeSeen" /\ Served(i, [srv EXCEPT !.notices = @ \ {calls[i].arg}])

\* The notice is taken out of the cache; a fetch under way brings it back.
HomeAnswer(i, ok) ==
    /\ calls' = Dropped(i)
    /\ seen' = IF ok THEN WrittenTo("notices", seen.notices.data \ {calls[i].arg}, seen) ELSE Missed(i)
    /\ UNCHANGED <<page, ui, srv>>

-----------------------------------------------------------------------------
(* The campaigns tab *)

Target == 2   \* bound: visits that complete the campaign

JoinedStatuses == {"joined", "in_progress"}

\* A participant of one campaign; `wins` counts the completions (bound: one).
\* `told` is what the first answer said of them and `moments` the overlays.
TabInit ==
    /\ page = "tab"
    /\ \E repeat \in BOOLEAN : \E st \in {"none", "joined"} :
        srv = [status |-> st, count |-> 0, wins |-> 0, repeat |-> repeat]
    /\ seen = [feed |-> Fetching(None), summary |-> Fetching(None)]
    /\ ui = [picked |-> FALSE, joined |-> FALSE, prev |-> FALSE, win |-> FALSE,
             told |-> None, moments |-> FALSE]
    /\ calls = NoCalls

\* The participant as the page reads it.
CampaignProgress(s) == [completed |-> s.status \in {"completed", "redeemed"}, count |-> s.count]

\* The feed: the campaign is followed, or else may be joined.
feed_for_customer(listed) ==
    [followed |-> IF listed THEN CampaignProgress(srv) ELSE None,
     discover |-> ~listed /\ srv.status = "none", wins |-> srv.wins]

FeedView == feed_for_customer(srv.status \in JoinedStatuses)

\* The followed campaigns are listed first, their participants read later.
FeedListed ==
    /\ page = "tab" /\ seen.feed.fetch = "sent"
    /\ seen' = [seen EXCEPT !.feed.fetch = "listed", !.feed.missed = FALSE,
                            !.feed.got = srv.status \in JoinedStatuses]
    /\ UNCHANGED <<page, ui, srv, calls>>

FeedRead ==
    /\ page = "tab" /\ seen.feed.fetch = "listed"
    /\ seen' = [seen EXCEPT !.feed.fetch = "read", !.feed.got = feed_for_customer(seen.feed.got)]
    /\ UNCHANGED <<page, ui, srv, calls>>

\* A scan counts a visit; the last one completes the campaign, and one that may
\* be repeated starts over.
StaffCountsVisit ==
    /\ srv.status \in JoinedStatuses
    /\ \/ srv.count + 1 < Target /\ Meanwhile([srv EXCEPT !.count = @ + 1, !.status = "in_progress"])
       \/ /\ srv.count + 1 = Target /\ srv.wins = 0
          /\ Meanwhile([srv EXCEPT !.wins = 1, !.count = IF srv.repeat THEN 0 ELSE Target,
                                   !.status = IF srv.repeat THEN "in_progress" ELSE "completed"])

StaffRedeemsReward ==
    srv.wins = 1 /\ srv.status # "redeemed" /\ Meanwhile([srv EXCEPT !.status = "redeemed"])

\* A customer without rewards who follows nothing, as far as the page knows.
isNew(queries) ==
    /\ queries.summary.data \in {None, 0}
    /\ queries.feed.data # None => queries.feed.data.followed = None

StarterMission ==
    /\ isNew(seen) /\ ~ui.joined
    /\ seen.feed.data # None /\ seen.feed.data.discover
    /\ \/ ~ui.picked /\ Ui([ui EXCEPT !.picked = TRUE])
       \/ ui.picked /\ ~IsBusy("join", "starter") /\ SendOnly("join", "starter", None)

WinOverlay == ui.win /\ Ui([ui EXCEPT !.win = FALSE])

CampaignsPage ==
    \/ StarterMission \/ WinOverlay
    \/ StaffCountsVisit \/ StaffRedeemsReward
    \/ Poll("feed")

\* A followed campaign that has become completed since the last answer.
DetectWin(data, u) ==
    LET done == data.followed # None /\ data.followed.completed
    IN  [u EXCEPT !.prev = done, !.win = @ \/ (done /\ ~u.prev), !.moments = @ \/ (done /\ ~u.prev),
                  !.told = IF @ = None THEN data.wins ELSE @]

\* With a campaign followed or a reward earned the starter is gone, and with it
\* the way to the QR code that it offers after a join.
StarterLeft(u, queries) == IF isNew(queries) THEN u ELSE [u EXCEPT !.picked = FALSE, !.joined = FALSE]

TabArrives(k) ==
    /\ ui' = StarterLeft(IF k = "feed" THEN DetectWin(seen.feed.got, ui) ELSE ui, Arrived(k))
    /\ calls' = IF isNew(Arrived(k)) THEN calls ELSE Gone({"starter"})

joinCampaign(i) ==
    /\ calls[i].op = "join"
    /\ \/ page = "tab" /\ Served(i, [srv EXCEPT !.status = IF @ = "none" THEN "joined" ELSE @])
       \/ page = "offer" /\ srv.live /\ Served(i, [srv EXCEPT !.joined = TRUE])

\* A join refreshes the feed, every campaign and every loyalty query.
TabAnswer(i, ok) ==
    /\ calls' = Dropped(i)
    /\ seen' = IF ok THEN Invalidated({"feed", "summary"}, {"feed", "summary"}, seen) ELSE Missed(i)
    /\ ui' = IF ok /\ Here(i) THEN [ui EXCEPT !.joined = TRUE] ELSE ui
    /\ UNCHANGED <<page, srv>>

-----------------------------------------------------------------------------
(* The offer of a campaign that is not for groups *)

OfferInit ==
    /\ page = "offer"
    /\ \E j \in BOOLEAN : srv = [live |-> TRUE, joined |-> j, done |-> FALSE]
    /\ seen = [offer |-> Fetching(None)]
    /\ ui = None /\ calls = NoCalls

StaffCompletes == srv.live /\ srv.joined /\ ~srv.done /\ Meanwhile([srv EXCEPT !.done = TRUE])
CampaignEnds == srv.live /\ Meanwhile([srv EXCEPT !.live = FALSE])

\* An ended campaign shows a notice instead; the other buttons only navigate.
CtaBar ==
    LET c == seen.offer.data
    IN  ~c.done /\ ~c.joined /\ c.live /\ ~IsBusy("join", "cta") /\ SendOnly("join", "cta", None)

CampaignDetailSheet ==
    \/ Has("offer") /\ CtaBar
    \/ Poll("offer") \/ StaffCompletes \/ CampaignEnds

\* The answer is the campaign, and refreshes it too.
OfferAnswer(i, ok) ==
    /\ calls' = Dropped(i)
    /\ seen' = IF ok THEN Invalidated({"offer"}, {"offer"}, seen) ELSE Missed(i)
    /\ UNCHANGED <<page, ui, srv>>

-----------------------------------------------------------------------------
(* The group of a campaign, as its leader sees it *)

OpenGroup == {"forming", "full"}

\* The leader's groups that are not over, and the row of one session; "closed"
\* is a list without a group of this campaign.
MyGroupsView == IF srv.status \in OpenGroup THEN srv.status ELSE "closed"

\* Reached by its address ("route") or as a row of the campaigns tab ("row"),
\* where the groups are polled and the session only while its sheet is open.
\* Bound: groups of two, so that one friend fills a group, and two groups, which
\* are numbered; `started` remembers which one a start was answered with.
GroupInit ==
    /\ page = "group"
    /\ srv \in {[status |-> "none", nth |-> 0], [status |-> "forming", nth |-> 1]}
    /\ \E list \in {None, "closed"} :
        seen = [mygroups |-> Fetching(list), session |-> [Cached(None) EXCEPT !.stale = TRUE]]
    /\ \E place \in {"route", "row"} :
        ui = [place |-> place, sheet |-> FALSE, started |-> None, left |-> FALSE]
    /\ calls = NoCalls

\* What the answer of the customer's groups makes of the page.
GroupBody(queries) ==
    IF queries.mygroups.data = None \/ (ui.place = "route" /\ queries.mygroups.bad) THEN "nothing"
    ELSE IF queries.mygroups.data \in OpenGroup THEN "session"
    ELSE IF ui.place = "route" THEN "form" ELSE "nothing"

CreateGroupForm ==
    GroupBody(seen) = "form" /\ ~IsBusy("start", "form") /\ SendOnly("start", "form", None)

\* The route shows no session it cannot read and ends with it; the row does
\* not look.
GroupSessionView ==
    /\ GroupBody(seen) = "session" /\ seen.session.data # None
    /\ ui.place = "route" => ~seen.session.bad /\ seen.session.data # "completed"
    /\ ui.place = "row" => ui.sheet

\* The sheet of invitations covers the buttons of the route.
LeaveGroup ==
    /\ GroupSessionView /\ (ui.place = "route" => ~ui.sheet)
    /\ ~IsBusy("leave", "session") /\ SendOnly("leave", "session", None)

\* For development: friends are simulated.
DemoFill ==
    /\ ui.place = "route" /\ GroupSessionView /\ ~ui.sheet
    /\ ~IsBusy("demoFill", "session") /\ SendOnly("demoFill", "session", None)

InviteSheet == ui.place = "route" /\ GroupSessionView /\ Ui([ui EXCEPT !.sheet = ~@])

\* The session is fetched once its group is known, and then polled; in the row
\* only while its sheet is open.  Bound: neither poll starts during a fetch.
PollSession ==
    /\ GroupBody(seen) = "session"
    /\ ui.place = "row" => ui.sheet \/ seen.session.data = None
    /\ seen.session.data = None \/ Calm
    /\ Poll("session")

GroupProgressRow ==
    /\ ui.place = "row"
    /\ \/ Ui([ui EXCEPT !.sheet = ~@])
       \/ Calm /\ Poll("mygroups")

\* Friends join by their links, the staff confirm a full group, time runs out.
OthersInGroup ==
    \/ srv.status = "forming" /\ Meanwhile([srv EXCEPT !.status = "full"])
    \/ srv.status = "full" /\ Meanwhile([srv EXCEPT !.status = "completed"])
    \/ srv.status \in OpenGroup /\ Meanwhile([srv EXCEPT !.status = "expired"])

GroupSessionPage ==
    \/ /\ ~ui.left
       /\ \/ CreateGroupForm \/ LeaveGroup \/ DemoFill \/ InviteSheet
          \/ PollSession \/ GroupProgressRow
    \/ OthersInGroup

\* A leader with an open group is answered with that one.
start_group_session(i) ==
    /\ calls[i].op = "start"
    /\ \/ srv.status \in OpenGroup /\ ServedWith(i, srv, srv)
       \/ /\ srv.status \notin OpenGroup /\ srv.nth < 2
          /\ LET s == [status |-> "forming", nth |-> srv.nth + 1] IN ServedWith(i, s, s)

\* The leader cancels a forming group, and may not leave a full one.
leave_group_session(i) ==
    calls[i].op = "leave" /\ srv.status = "forming" /\ Served(i, [srv EXCEPT !.status = "cancelled"])

demo_fill_group(i) ==
    /\ calls[i].op = "demoFill" /\ srv.status = "forming"
    /\ LET s == [srv EXCEPT !.status = "full"] IN ServedWith(i, s, s)

\* Mutant: the new group is written into the list, which is not refreshed.
startInvalidates_Slip == {}

\* What a started group refreshes, once it is written into the list.
startInvalidates == {"mygroups"}

GroupHooks(i) ==
    CASE calls[i].op = "start" ->
           Invalidated(startInvalidates, {"mygroups"},
                       WrittenTo("mygroups", calls[i].row.status, WrittenTo("session", calls[i].row.status, seen)))
      [] calls[i].op = "demoFill" ->
           Invalidated({"mygroups"}, {"mygroups"}, WrittenTo("session", calls[i].row.status, seen))
      [] OTHER ->
           Invalidated({"mygroups"}, {"mygroups"}, [seen EXCEPT !.session = [Cached(None) EXCEPT !.stale = TRUE]])

\* The parts of the route that are no longer there hear no answer.
GroupUnmounted(queries) ==
    IF ui.place = "row" THEN {} ELSE {"form", "session"} \ {GroupBody(queries)}

GroupAnswer(i, ok) ==
    LET queries == IF ok THEN GroupHooks(i) ELSE Missed(i)
    IN  /\ seen' = queries
        /\ ui' = CASE ok /\ calls[i].op = "start" -> [ui EXCEPT !.started = calls[i].row.nth]
                   [] ok /\ Here(i) /\ calls[i].op = "leave" ->
                        [ui EXCEPT !.sheet = FALSE, !.left = ui.place = "route"]
                   [] OTHER -> ui
        /\ calls' = [Gone(GroupUnmounted(queries)) EXCEPT ![i] = NoCall]
        /\ UNCHANGED <<page, srv>>

\* A list without the group, or one that cannot be read, takes the session's
\* view away, a group the form.
GroupArrives(queries) ==
    /\ ui' = IF GroupBody(queries) = "session" \/ ui.place = "row" THEN ui ELSE [ui EXCEPT !.sheet = FALSE]
    /\ calls' = Gone(GroupUnmounted(queries))

-----------------------------------------------------------------------------
(* Properties *)

\* A group that was started here, and is still open, is what its leader sees:
\* the form to create one does not come back.
LeaderSeesGroup ==
    page = "group" /\ ui.started = srv.nth /\ srv.status \in OpenGroup =>
        GroupBody(seen) # "form"

\* A scan that completes the campaign while the tab is open is celebrated, as
\* soon as the tab has an answer that counts it.
WinMomentFires ==
    page = "tab" /\ seen.feed.data # None => (seen.feed.data.wins > ui.told => ui.moments)

=============================================================================
