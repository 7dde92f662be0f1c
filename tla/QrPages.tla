------------------------------ MODULE QrPages ------------------------------
(***************************************************************************)
(* The customer's QR code: a sheet over any page, or the page that also    *)
(* lists the campaigns a visit counts for.  While it shows, the screen is  *)
(* kept awake, which the browser grants later.                             *)
(***************************************************************************)
EXTENDS CustomerPages

\* One campaign, not for groups.  `asked` counts the requests nobody has
\* answered, `lock` is the one granted to what shows now, and `stray` one
\* granted to what no longer shows.
QrInit ==
    /\ page = "qr"
    /\ \E j, d \in BOOLEAN : (d => j) /\ srv = [status |-> "active", joined |-> j, done |-> d]
    /\ \E place \in {"sheet", "route"} :
        /\ ui = [place |-> place, shown |-> TRUE, asked |-> 1, late |-> 0, lock |-> FALSE, stray |-> FALSE]
        /\ seen = [k \in {"qr"} \union (IF place = "route" THEN {"visits"} ELSE {}) |-> Fetching(None)]
    /\ calls = NoCalls

\* Refused or not, it is answered once; what shows no more does not release it.
WakeLock(granted) ==
    \/ ui.asked > 0 /\ Ui([ui EXCEPT !.asked = 0, !.lock = granted])
    \/ ui.late > 0 /\ Ui([ui EXCEPT !.late = @ - 1, !.stray = @ \/ granted])

\* Closed, the sheet releases the lock it has.  Bound: two requests are late.
CloseQr ==
    /\ ui.shown /\ ui.late + ui.asked <= 2
    /\ Ui([ui EXCEPT !.shown = FALSE, !.lock = FALSE, !.late = @ + ui.asked, !.asked = 0])

\* The sheet opens again from the page beneath it.
MyQrSheet ==
    \/ CloseQr
    \/ /\ ui.place = "sheet" /\ ~ui.shown
       /\ ui' = [ui EXCEPT !.shown = TRUE, !.asked = 1]
       /\ seen' = Used("qr", seen) /\ UNCHANGED <<page, srv, calls>>

\* Staff count the last visit, or the campaign ends.
VisitCounted == srv.joined /\ ~srv.done /\ srv.status = "active" /\ Meanwhile([srv EXCEPT !.done = TRUE])
VisitsEnd == srv.status = "active" /\ Meanwhile([srv EXCEPT !.status = "ended"])

VisitQrPage ==
    /\ ui.place = "route"
    /\ \/ ui.shown /\ Poll("visits")
       \/ CloseQr

QrPage ==
    \/ ui.place = "sheet" /\ MyQrSheet
    \/ VisitQrPage
    \/ VisitCounted \/ VisitsEnd
    \/ \E granted \in BOOLEAN : WakeLock(granted)

-----------------------------------------------------------------------------
(* Properties *)

\* The screen is kept awake for a code that shows.  Refuted: a lock granted
\* after the code was closed is never released.
AwakeWhileShown == page = "qr" /\ ~ui.shown => ~ui.lock /\ ~ui.stray

=============================================================================
