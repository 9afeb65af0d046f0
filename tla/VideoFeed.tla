----------------------------- MODULE VideoFeed -----------------------------
(***************************************************************************)
(* The paged feed of finished videos (video-feed.tsx).  A page change asks *)
(* for the page from a timer of 0 ms; the refresh button asks at once.  Of *)
(* a page only its number and its length matter.                           *)
(***************************************************************************)
EXTENDS Naturals

CONSTANTS
    FeedPageSize,   \* PAGE_SIZE
    MaxDone,        \* bound on the finished videos
    FeedLoads,      \* bound on the list requests under way
    PromptTimers    \* does the timer of a page fire before the next click?

ASSUME FeedAssumption ==
    FeedPageSize \in Nat \ {0} /\ MaxDone \in Nat /\ PromptTimers \in BOOLEAN

VARIABLES
    finished,      \* how many videos are done
    feedPage,      \* page
    feedTimer,     \* is the timer of the last page change pending?
    feedLoading,   \* isLoading
    feedShown,     \* the page and the number of the videos shown
    feedLoad,      \* the list requests under way
    feedFailed     \* has a request failed? (history)

feedVars == <<finished, feedPage, feedTimer, feedLoading, feedShown, feedLoad, feedFailed>>

MaxPage == MaxDone \div FeedPageSize + 1

NoLoad == [stage |-> "idle", page |-> 0, count |-> 0]

\* VideoFeed is mounted on however many videos are done by now; its effect
\* has set the timer of page 1.
FeedMount ==
    /\ feedPage' = 1 /\ feedTimer' = TRUE /\ feedLoading' = TRUE
    /\ feedShown' = [page |-> 0, count |-> 0]
    /\ feedLoad' = [l \in FeedLoads |-> NoLoad]
    /\ feedFailed' = FALSE
    /\ finished' \in 0..MaxDone

\* Answers that are still under way find nothing to update.  The
\* number of the videos is of no matter until the feed is mounted again.
FeedUnmount ==
    /\ feedPage' = 1 /\ feedTimer' = FALSE /\ feedLoading' = TRUE
    /\ feedShown' = [page |-> 0, count |-> 0]
    /\ feedLoad' = [l \in FeedLoads |-> NoLoad]
    /\ feedFailed' = FALSE
    /\ finished' = 0

FeedAbsent ==
    /\ finished = 0
    /\ feedPage = 1 /\ feedTimer = FALSE /\ feedLoading = TRUE
    /\ feedShown = [page |-> 0, count |-> 0]
    /\ feedLoad = [l \in FeedLoads |-> NoLoad]
    /\ feedFailed = FALSE

FeedInit ==
    /\ finished = 0
    /\ feedPage = 1 /\ feedTimer = TRUE /\ feedLoading = TRUE
    /\ feedShown = [page |-> 0, count |-> 0]
    /\ feedLoad = [l \in FeedLoads |-> NoLoad]
    /\ feedFailed = FALSE

-----------------------------------------------------------------------------
VideoFinishes ==
    /\ finished < MaxDone
    /\ finished' = finished + 1
    /\ UNCHANGED <<feedPage, feedTimer, feedLoading, feedShown, feedLoad, feedFailed>>

\* How many finished videos page p holds.
PageLength(p) ==
    LET before == (p - 1) * FeedPageSize
        after  == IF finished > before THEN finished - before ELSE 0
    IN  IF after > FeedPageSize THEN FeedPageSize ELSE after

\* loadVideos, up to its request.
StartFeedLoad ==
    \E l \in FeedLoads :
       /\ feedLoad[l].stage = "idle"
       /\ feedLoad' = [feedLoad EXCEPT ![l] = [stage |-> "sent", page |-> feedPage, count |-> 0]]
       /\ feedLoading' = TRUE

FeedTimerFires ==
    /\ feedTimer /\ feedTimer' = FALSE
    /\ StartFeedLoad
    /\ UNCHANGED <<finished, feedPage, feedShown, feedFailed>>

Clickable == PromptTimers => ~feedTimer

\* What is below the header: a skeleton while loading, a notice if there is
\* nothing, or the cards and the pager.
FeedIsListed == ~feedLoading /\ feedShown.count > 0

RefreshFeed ==
    /\ Clickable /\ ~feedLoading
    /\ StartFeedLoad
    /\ UNCHANGED <<finished, feedPage, feedTimer, feedShown, feedFailed>>

\* Mutant of TurnFeedPage: the pager does not wait for the page it turned to.
TurnFeedPageAnyTime ==
    /\ Clickable /\ feedShown.count > 0
    /\ \/ feedShown.count = FeedPageSize /\ feedPage < MaxPage /\ feedPage' = feedPage + 1
       \/ feedPage # 1 /\ feedPage' = feedPage - 1
    /\ feedTimer' = TRUE
    /\ UNCHANGED <<finished, feedLoading, feedShown, feedLoad, feedFailed>>

\* The pager, shown below a page that is loaded and has videos.  A full page
\* is taken to have a successor.  Going on from a page whose load failed is
\* bounded by MaxPage.
TurnFeedPage ==
    /\ Clickable /\ FeedIsListed
    /\ \/ feedShown.count = FeedPageSize /\ feedPage < MaxPage /\ feedPage' = feedPage + 1
       \/ feedPage # 1 /\ feedPage' = feedPage - 1
    /\ feedTimer' = TRUE
    /\ UNCHANGED <<finished, feedLoading, feedShown, feedLoad, feedFailed>>

FeedAnswered(l) ==
    /\ feedLoad[l].stage = "sent"
    /\ feedLoad' = [feedLoad EXCEPT ![l].stage = "answered",
                                    ![l].count = PageLength(feedLoad[l].page)]
    /\ UNCHANGED <<finished, feedPage, feedTimer, feedLoading, feedShown, feedFailed>>

ShowFeed(l) ==
    /\ feedLoad[l].stage = "answered"
    /\ feedShown' = [page |-> feedLoad[l].page, count |-> feedLoad[l].count]
    /\ feedLoad' = [feedLoad EXCEPT ![l] = NoLoad]
    /\ feedLoading' = FALSE
    /\ UNCHANGED <<finished, feedPage, feedTimer, feedFailed>>

\* A failed load leaves the videos of the page before under the new number.
FeedFails(l) ==
    /\ ~feedFailed /\ feedLoad[l].stage = "sent"
    /\ feedLoad' = [feedLoad EXCEPT ![l] = NoLoad]
    /\ feedLoading' = FALSE /\ feedFailed' = TRUE
    /\ UNCHANGED <<finished, feedPage, feedTimer, feedShown>>

FeedServes ==
    \/ FeedTimerFires
    \/ \E l \in FeedLoads : FeedAnswered(l) \/ ShowFeed(l)

FeedStep ==
    \/ VideoFinishes \/ RefreshFeed \/ TurnFeedPage \/ FeedServes
    \/ \E l \in FeedLoads : FeedFails(l)

-----------------------------------------------------------------------------
\* Whenever the feed is not loading, the videos under "Page n" are those of
\* page n, whatever refreshes and page changes went before, unless a load
\* failed (loadVideos, the disabled states of the pager).
FeedShowsItsPage ==
    ~feedLoading /\ ~feedTimer /\ ~feedFailed => feedShown.page = feedPage
=============================================================================
