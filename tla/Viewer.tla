------------------------------- MODULE Viewer -------------------------------
(***************************************************************************)
(* Watching: the feed, the page of one video opened from it or by its URL, *)
(* the player that appears there once the video is done, and the player's  *)
(* quality menu.                                                           *)
(***************************************************************************)
EXTENDS VideoFeed, VideoDetail, HlsPlayer, MenuHighlight

CONSTANT Browsers   \* how a browser may play HLS

VARIABLES
    route,     \* "feed", "video" or "uploads"
    browser    \* how this one does

vars == <<route, browser, feedVars, detailVars, playerVars, menuVars>>

otherThanFeed   == <<route, browser, detailVars, playerVars, menuVars>>
otherThanDetail == <<route, browser, feedVars, playerVars, menuVars>>
otherThanPlayer == <<route, browser, feedVars, menuVars>>

Init ==
    /\ browser \in Browsers
    /\ PlayerInit /\ MenuInit
    /\ \/ route = "feed" /\ FeedInit /\ DetailAbsent
       \/ route = "video" /\ DetailInit /\ FeedAbsent

-----------------------------------------------------------------------------
\* Links: a card of the feed, its Upload button, the arrows of the other two
\* pages, and Open in the table of uploads, whatever the video's status.

OpenVideo ==
    /\ route = "feed" /\ FeedIsListed
    /\ route' = "video"
    /\ FeedUnmount /\ DetailMount("done")
    /\ UNCHANGED <<browser, playerVars, menuVars>>

GoBack ==
    /\ route = "video" /\ route' = "feed"
    /\ FeedMount /\ DetailUnmount /\ PlayerUnmount /\ MenuUnmount
    /\ UNCHANGED browser

OpenUploads ==
    /\ route = "feed" /\ route' = "uploads"
    /\ FeedUnmount
    /\ UNCHANGED <<browser, detailVars, playerVars, menuVars>>

LeaveUploads ==
    /\ route = "uploads" /\ route' = "feed"
    /\ FeedMount
    /\ UNCHANGED <<browser, detailVars, playerVars, menuVars>>

OpenFromTable ==
    /\ route = "uploads" /\ route' = "video"
    /\ \E s \in DbStatus : DetailMount(s)
    /\ UNCHANGED <<browser, feedVars, playerVars, menuVars>>

-----------------------------------------------------------------------------
OnFeed(step) == route = "feed" /\ step /\ UNCHANGED otherThanFeed

OnDetail(step) == route = "video" /\ step /\ UNCHANGED otherThanDetail

\* The first playback mounts the player.  Where nothing can play it, the
\* player asks for the playback again at once.
PlaybackArrives(l) ==
    /\ route = "video" /\ ShowPlayback(l)
    /\ IF playback THEN UNCHANGED playerVars ELSE PlayerMount(browser)
    /\ IF ~playback /\ browser = "unsupported" THEN Reload ELSE UNCHANGED reload
    /\ UNCHANGED <<route, browser, feedVars, menuVars>>

\* Mutant of PlaybackIsReloaded: the player starts over with every playback.
PlaybackRestarts ==
    /\ route = "video" /\ ShowReload
    /\ PlayerMount(browser)
    /\ UNCHANGED <<route, browser, feedVars, menuVars>>

\* The source is the same, so the effect of the player does not run again.
PlaybackIsReloaded == OnDetail(ShowReload)

PlayerStep ==
    /\ \/ ManifestParsed /\ UNCHANGED detailVars
       \/ /\ NetworkError /\ Reload
          /\ UNCHANGED <<dbStatus, shownStatus, stateLoad, playback, detailLoading,
                         detailStuck, detailFailures>>
    /\ UNCHANGED otherThanPlayer

\* The menu of the player, there once the levels are known.
OnMenu(step) ==
    /\ parsed /\ step
    /\ UNCHANGED <<route, browser, feedVars, detailVars, playerVars>>

\* The focused row is selected: the menu closes.
Select(i) ==
    /\ parsed /\ content /\ focus = i
    /\ IF i = AutoLevel THEN ChooseQuality(AutoLevel, 0)
       ELSE \E m \in MenuLevels : m.value = i /\ ChooseQuality(i, m.label)
    /\ \/ CloseMenu
       \/ ~menuOpen /\ UNCHANGED menuVars
    /\ UNCHANGED <<route, browser, feedVars, detailVars>>

LoadStep(l) ==
    OnDetail(StateAnswered(l)) \/ OnDetail(ShowState(l)) \/ PlaybackArrives(l)

Next ==
    \/ OpenVideo \/ GoBack \/ OpenUploads \/ LeaveUploads \/ OpenFromTable
    \/ OnFeed(FeedStep)
    \/ OnDetail(EncoderFinishes) \/ OnDetail(PollState) \/ OnDetail(ClickRefresh)
    \/ OnDetail(ReloadFails) \/ PlaybackIsReloaded
    \/ \E l \in StateLoads : LoadStep(l) \/ OnDetail(StateFails(l))
    \/ PlayerStep
    \/ OnMenu(MenuStep)
    \/ \E i \in Items : Select(i)

\* Requests are answered, timers fire, observers and effects run.
Spec ==
    /\ Init /\ [][Next]_vars
    /\ WF_vars(OnDetail(PollState))
    /\ \A l \in StateLoads : WF_vars(LoadStep(l))
    /\ WF_vars(OnMenu(MenuRenders))
    /\ \A i \in Items : WF_vars(OnMenu(Observe(i)))

-----------------------------------------------------------------------------
\* A video that gets done while its page is open is played there, without a
\* click, whatever answers overtake each other: unless its first state or a
\* playback could not be had, or the page is left (loadVideo, the interval).
PlayerAppears ==
    (route = "video" /\ dbStatus = "done")
        ~> (engine # "none" \/ detailStuck \/ route = "feed")

\* The quality a viewer chose stays: neither a playback that is loaded again
\* nor an error nor the answer of a request that came late resets it
\* (the dependencies of the player's effect, setPlayback).
QualityIsKept ==
    [][(quality' # quality) => (route' = "feed" \/ (content /\ focus = quality'))]_vars
=============================================================================
