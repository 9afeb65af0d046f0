---------------------------- MODULE ViewerProofs ----------------------------
(***************************************************************************)
(* Proofs about Viewer: every manifest, every menu, every number of videos *)
(* and of overlapping requests.  The pages of Viewer share few variables,  *)
(* so each step is first seen from one part (FeedMoves, PlayerMoves,       *)
(* MenuMoves), and each part has an inductive invariant of its own.        *)
(***************************************************************************)
EXTENDS Viewer, TLAPS

USE FeedAssumption, DetailAssumption, MenuAssumption

-----------------------------------------------------------------------------
\* The steps as the parts see them.

\* What the player does when the viewer chooses row i of the menu.
Choose(i) ==
    /\ parsed /\ content /\ focus = i
    /\ IF i = AutoLevel THEN ChooseQuality(AutoLevel, 0)
       ELSE \E m \in MenuLevels : m.value = i /\ ChooseQuality(i, m.label)

LEMMA FeedMoves ==
  ASSUME [Next]_vars
  PROVE  FeedMount \/ FeedUnmount \/ FeedStep \/ UNCHANGED feedVars
  BY DEF Next, vars, otherThanDetail, otherThanPlayer, OpenVideo, GoBack, OpenUploads,
         LeaveUploads, OpenFromTable, OnFeed, OnDetail, PlaybackArrives,
         PlaybackIsReloaded, PlayerStep, OnMenu, Select, LoadStep

LEMMA MenuMoves ==
  ASSUME [Next]_vars
  PROVE  MenuUnmount \/ MenuStep \/ UNCHANGED menuVars
  BY DEF Next, vars, otherThanDetail, otherThanPlayer, otherThanFeed, OpenVideo, GoBack, OpenUploads,
         LeaveUploads, OpenFromTable, OnFeed, OnDetail, PlaybackArrives,
         PlaybackIsReloaded, PlayerStep, OnMenu, Select, LoadStep, MenuStep

LEMMA PlayerMoves ==
  ASSUME [Next]_vars
  PROVE  \/ route' = "feed" /\ PlayerUnmount
         \/ ~playback /\ PlayerMount(browser)
         \/ ManifestParsed \/ NetworkError
         \/ \E i \in Items : Choose(i)
         \/ UNCHANGED playerVars
  BY DEF Next, vars, otherThanDetail, otherThanPlayer, otherThanFeed, OpenVideo, GoBack, OpenUploads,
         LeaveUploads, OpenFromTable, OnFeed, OnDetail, PlaybackArrives,
         PlaybackIsReloaded, PlayerStep, OnMenu, Select, LoadStep, Choose

-----------------------------------------------------------------------------
\* The feed.

Pages == 1 .. MaxPage

FeedLoad == [stage : {"idle", "sent", "answered"},
             page : Pages \cup {0}, count : 0 .. FeedPageSize]

FeedTypes ==
    /\ finished \in 0 .. MaxDone
    /\ feedPage \in Pages
    /\ feedTimer \in BOOLEAN /\ feedLoading \in BOOLEAN /\ feedFailed \in BOOLEAN
    /\ feedShown \in [page : Pages \cup {0}, count : 0 .. FeedPageSize]
    /\ feedLoad \in [FeedLoads -> FeedLoad]

Quiet == \A l \in FeedLoads : feedLoad[l].stage = "idle"

\* As long as no request has failed: one list request at most is under way,
\* none while a page change still waits for its timer, and it is about the
\* page that is chosen, which cannot change before its answer is shown.
FeedInv ==
    ~feedFailed =>
        /\ feedTimer \/ ~feedLoading => Quiet
        /\ \A l, m \in FeedLoads :
              feedLoad[l].stage # "idle" /\ feedLoad[m].stage # "idle" => l = m
        /\ \A l \in FeedLoads : feedLoad[l].stage # "idle" => feedLoad[l].page = feedPage
        /\ ~feedLoading /\ ~feedTimer => feedShown.page = feedPage

LEMMA PagesExist == MaxPage \in Nat \ {0} /\ 1 \in Pages
  BY DEF MaxPage, Pages

\* What a page of the feed may hold.
LEMMA PageIsBounded ==
  ASSUME FeedTypes, NEW p \in Pages \cup {0}
  PROVE  PageLength(p) \in 0 .. FeedPageSize
  <1> DEFINE before == (p - 1) * FeedPageSize
             after  == IF finished > before THEN finished - before ELSE 0
  <1>1. before \in Int
    <2>1. p - 1 \in Int
      BY PagesExist DEF Pages
    <2> QED
      BY <2>1
  <1>2. after \in Nat
    <2> HIDE DEF before
    <2> QED
      BY <1>1 DEF FeedTypes
  <1>3. PageLength(p) = IF after > FeedPageSize THEN FeedPageSize ELSE after
    BY DEF PageLength
  <1> HIDE DEF after
  <1> QED
    BY <1>2, <1>3

LEMMA NoLoadIsLoad ==
  /\ NoLoad \in FeedLoad
  /\ NoLoad.stage = "idle"
  /\ \A p \in Pages : [stage |-> "sent", page |-> p, count |-> 0] \in FeedLoad
  BY DEF NoLoad, FeedLoad

LEMMA FeedTypesStep ==
  ASSUME FeedTypes, FeedStep
  PROVE  FeedTypes'
  <1>1. CASE VideoFinishes
    BY <1>1 DEF VideoFinishes, FeedTypes
  <1>2. StartFeedLoad => feedLoad' \in [FeedLoads -> FeedLoad]
    BY NoLoadIsLoad DEF StartFeedLoad, FeedTypes
  <1>3. CASE RefreshFeed
    BY <1>2, <1>3 DEF RefreshFeed, StartFeedLoad, FeedTypes
  <1>4. CASE TurnFeedPage
    BY <1>4, PagesExist DEF TurnFeedPage, FeedTypes, Pages
  <1>5. CASE FeedTimerFires
    BY <1>2, <1>5 DEF FeedTimerFires, StartFeedLoad, FeedTypes
  <1>6. ASSUME NEW l \in FeedLoads, FeedAnswered(l) PROVE FeedTypes'
    <2>1. PageLength(feedLoad[l].page) \in 0 .. FeedPageSize
      BY PageIsBounded DEF FeedTypes, FeedLoad
    <2>2. [feedLoad[l] EXCEPT !.stage = "answered", !.count = PageLength(feedLoad[l].page)] \in FeedLoad
      BY <2>1 DEF FeedTypes, FeedLoad
    <2>3. feedLoad' \in [FeedLoads -> FeedLoad]
      BY <1>6, <2>2 DEF FeedAnswered, FeedTypes
    <2> QED
      BY <1>6, <2>3 DEF FeedAnswered, FeedTypes
  <1>7. ASSUME NEW l \in FeedLoads, ShowFeed(l) PROVE FeedTypes'
    <2>1. feedLoad' \in [FeedLoads -> FeedLoad]
      BY <1>7, NoLoadIsLoad DEF ShowFeed, FeedTypes
    <2>2. feedShown' \in [page : Pages \cup {0}, count : 0 .. FeedPageSize]
      BY <1>7 DEF ShowFeed, FeedTypes, FeedLoad
    <2> QED
      BY <1>7, <2>1, <2>2 DEF ShowFeed, FeedTypes
  <1>8. ASSUME NEW l \in FeedLoads, FeedFails(l) PROVE FeedTypes'
    <2>1. feedLoad' \in [FeedLoads -> FeedLoad]
      BY <1>8, NoLoadIsLoad DEF FeedFails, FeedTypes
    <2> QED
      BY <1>8, <2>1 DEF FeedFails, FeedTypes
  <1> QED
    BY <1>1, <1>3, <1>4, <1>5, <1>6, <1>7, <1>8 DEF FeedStep, FeedServes

\* Only PromptTimers keeps Refresh from asking for a page that the pending
\* timer asks for as well.
LEMMA FeedInvStep ==
  ASSUME PromptTimers, FeedTypes, FeedInv, FeedStep
  PROVE  FeedInv'
  <1> USE DEF FeedTypes, FeedInv, Quiet
  <1>1. CASE VideoFinishes
    BY <1>1 DEF VideoFinishes
  <1>2. CASE RefreshFeed
    BY <1>2 DEF RefreshFeed, StartFeedLoad, Clickable
  <1>3. CASE TurnFeedPage
    BY <1>3 DEF TurnFeedPage, FeedIsListed
  <1>4. CASE FeedTimerFires
    BY <1>4 DEF FeedTimerFires, StartFeedLoad
  <1>5. ASSUME NEW l \in FeedLoads, FeedAnswered(l) PROVE FeedInv'
    BY <1>5 DEF FeedAnswered
  <1>6. ASSUME NEW l \in FeedLoads, ShowFeed(l) PROVE FeedInv'
    <2>1. /\ feedLoad' = [feedLoad EXCEPT ![l] = NoLoad]
          /\ feedShown'.page = feedLoad[l].page
          /\ UNCHANGED <<feedPage, feedTimer, feedFailed>>
      BY <1>6 DEF ShowFeed
    <2>2. ~feedFailed => (Quiet /\ feedShown.page = feedPage)'
      BY <1>6, <2>1, NoLoadIsLoad DEF ShowFeed
    <2>3. ~feedFailed => \A m \in FeedLoads : feedLoad'[m].stage = "idle"
      BY <2>2
    <2> QED
      BY <2>1, <2>2, <2>3
  <1>7. ASSUME NEW l \in FeedLoads, FeedFails(l) PROVE FeedInv'
    BY <1>7 DEF FeedFails
  <1> QED
    BY <1>1, <1>2, <1>3, <1>4, <1>5, <1>6, <1>7 DEF FeedStep, FeedServes

LEMMA FeedBegins ==
  /\ FeedInit \/ FeedAbsent => FeedTypes /\ FeedInv
  /\ FeedMount \/ FeedUnmount => (FeedTypes /\ FeedInv)'
  <1>1. /\ FeedInit \/ FeedAbsent => FeedTypes
        /\ FeedMount \/ FeedUnmount => FeedTypes'
    <2>1. [page |-> 0, count |-> 0] \in [page : Pages \cup {0}, count : 0 .. FeedPageSize]
      OBVIOUS
    <2>2. [l \in FeedLoads |-> NoLoad] \in [FeedLoads -> FeedLoad]
      BY NoLoadIsLoad
    <2>3. 0 \in 0 .. MaxDone
      OBVIOUS
    <2>4. FeedInit \/ FeedAbsent => FeedTypes
      BY <2>1, <2>2, <2>3, PagesExist DEF FeedInit, FeedAbsent, FeedTypes
    <2>5. FeedMount \/ FeedUnmount => FeedTypes'
      BY <2>1, <2>2, <2>3, PagesExist DEF FeedMount, FeedUnmount, FeedTypes
    <2> QED
      BY <2>4, <2>5
  <1>2. /\ FeedInit \/ FeedAbsent => FeedInv
        /\ FeedMount \/ FeedUnmount => FeedInv'
    <2>1. FeedInit \/ FeedAbsent => Quiet /\ feedLoading
      BY NoLoadIsLoad DEF FeedInit, FeedAbsent, Quiet
    <2>2. FeedMount \/ FeedUnmount => (Quiet /\ feedLoading)'
      BY NoLoadIsLoad DEF FeedMount, FeedUnmount, Quiet
    <2> QED
      BY <2>1, <2>2 DEF FeedInv, Quiet
  <1> QED
    BY <1>1, <1>2

LEMMA FeedTypesKept == Spec => []FeedTypes
  <1>1. Init => FeedTypes
    BY FeedBegins DEF Init
  <1>2. FeedTypes /\ [Next]_vars => FeedTypes'
    BY FeedMoves, FeedBegins, FeedTypesStep DEF feedVars, FeedTypes
  <1> QED
    BY <1>1, <1>2, PTL DEF Spec

\* Under a page number are the videos of that page, whatever pages were
\* turned, refreshed, left and opened before: any page size, any number of
\* videos, which may be finished meanwhile.
THEOREM FeedTheorem == PromptTimers => (Spec => []FeedShowsItsPage)
  <1> SUFFICES ASSUME PromptTimers PROVE Spec => []FeedShowsItsPage
    OBVIOUS
  <1>1. Init => FeedInv
    BY FeedBegins DEF Init
  <1>2. FeedTypes /\ FeedInv /\ [Next]_vars => FeedInv'
    <2> SUFFICES ASSUME FeedTypes, FeedInv, [Next]_vars PROVE FeedInv'
      OBVIOUS
    <2>1. CASE UNCHANGED feedVars
      BY <2>1 DEF feedVars, FeedInv, Quiet
    <2> QED
      BY <2>1, FeedMoves, FeedBegins, FeedInvStep
  <1>3. FeedInv => FeedShowsItsPage
    BY DEF FeedInv, FeedShowsItsPage
  <1> QED
    BY <1>1, <1>2, <1>3, FeedTypesKept, PTL DEF Spec

-----------------------------------------------------------------------------
\* The page of a video and its player.

DetailTypes ==
    /\ dbStatus \in DbStatus /\ shownStatus \in DbStatus \cup {"null"}
    /\ stateLoad \in [StateLoads -> {"idle", "sent", "playback"} \cup DbStatus]
    /\ playback \in BOOLEAN /\ reload \in BOOLEAN
    /\ detailLoading \in BOOLEAN /\ detailStuck \in BOOLEAN
    /\ detailFailures \in 0 .. MaxDetailFailures

PlayerTypes ==
    /\ engine \in Browsers \cup {"none"}
    /\ parsed \in BOOLEAN /\ dead \in BOOLEAN
    /\ quality \in Level \cup {AutoLevel} /\ pinned \in Level \cup {AutoLevel}
    /\ labelled \in Nat

\* The page of a video is there with all it holds, or nothing of it is: no
\* player before a playback, no menu before the levels are known.
PlayerInv ==
    /\ playback => route = "video"
    /\ ~playback => engine = "none" /\ ~parsed /\ quality = AutoLevel
    /\ ~parsed => ~content

\* What is selected is what hls.js was told, by the level's own label.
ChoiceInv ==
    /\ quality = pinned
    /\ quality # AutoLevel => quality \in Level /\ labelled = Manifest[quality]

\* A row of the menu carries the label of its own level.
LEMMA LevelsAreLabelled ==
  ASSUME NEW m \in MenuLevels
  PROVE  /\ m.value \in Level /\ m.label = Manifest[m.value]
         /\ m.label \in Nat
  BY PlayerAssumption DEF MenuLevels, Level

\* The label found by a level's value is the only one there is.
LEMMA ShownIsLabel ==
  ASSUME quality \in Level
  PROVE  ShownHeight = Manifest[quality]
  <1> DEFINE chosen == {m \in MenuLevels : m.value = quality}
  <1>1. chosen # {}
    <2>1. [value |-> quality, label |-> Manifest[quality]] \in chosen
      BY DEF MenuLevels
    <2> QED
      BY <2>1
  <1>2. \A m \in chosen : m.label = Manifest[quality]
    BY LevelsAreLabelled
  <1>3. ShownHeight = (CHOOSE m \in chosen : TRUE).label
    BY <1>1 DEF ShownHeight
  <1> HIDE DEF chosen
  <1> QED
    BY <1>1, <1>2, <1>3

LEMMA PlayerTypesStep ==
  ASSUME PlayerTypes, browser \in Browsers, [Next]_vars
  PROVE  PlayerTypes'
  <1>1. CASE PlayerUnmount \/ PlayerMount(browser)
    <2>1. parsed' \in BOOLEAN /\ dead' \in BOOLEAN
      BY <1>1 DEF PlayerUnmount, PlayerMount, PlayerReset
    <2>2. /\ engine' \in Browsers \cup {"none"}
          /\ quality' = AutoLevel /\ pinned' = AutoLevel /\ labelled' = 0
      BY <1>1 DEF PlayerUnmount, PlayerMount, PlayerReset
    <2> QED
      BY <2>1, <2>2 DEF PlayerTypes
  <1>2. CASE ManifestParsed \/ NetworkError
    BY <1>2 DEF ManifestParsed, NetworkError, PlayerTypes
  <1>3. ASSUME NEW i \in Items, Choose(i) PROVE PlayerTypes'
    <2>1. CASE i = AutoLevel
      BY <1>3, <2>1 DEF Choose, ChooseQuality, PlayerTypes
    <2>2. CASE i # AutoLevel
      BY <1>3, <2>2, LevelsAreLabelled DEF Choose, ChooseQuality, PlayerTypes
    <2> QED
      BY <2>1, <2>2
  <1> QED
    BY <1>1, <1>2, <1>3, PlayerMoves DEF playerVars, PlayerTypes

LEMMA ChoiceInvStep ==
  ASSUME ChoiceInv, [Next]_vars
  PROVE  ChoiceInv'
  <1>1. CASE PlayerUnmount \/ PlayerMount(browser)
    BY <1>1 DEF PlayerUnmount, PlayerMount, PlayerReset, ChoiceInv
  <1>2. CASE ManifestParsed \/ NetworkError
    BY <1>2 DEF ManifestParsed, NetworkError, ChoiceInv
  <1>3. ASSUME NEW i \in Items, Choose(i) PROVE ChoiceInv'
    <2>1. CASE i = AutoLevel
      BY <1>3, <2>1 DEF Choose, ChooseQuality, ChoiceInv
    <2>2. CASE i # AutoLevel
      BY <1>3, <2>2, LevelsAreLabelled DEF Choose, ChooseQuality, ChoiceInv
    <2> QED
      BY <2>1, <2>2
  <1> QED
    BY <1>1, <1>2, <1>3, PlayerMoves DEF playerVars, ChoiceInv

\* The level a viewer chose by its label is the one hls.js was told to play
\* and the one named beside the menu: any manifest, in any order of heights,
\* with any number of levels of one height.
THEOREM PlayedTheorem == Spec => []QualityIsPlayed
  <1>1. Init => ChoiceInv
    BY DEF Init, PlayerInit, ChoiceInv
  <1>2. ChoiceInv /\ [Next]_vars => ChoiceInv'
    BY ChoiceInvStep
  <1>3. ChoiceInv => QualityIsPlayed
    BY ShownIsLabel DEF ChoiceInv, QualityIsPlayed
  <1> QED
    BY <1>1, <1>2, <1>3, PTL DEF Spec

\* The steps that change what is there of the page of a video: a playback
\* brings its player, leaving takes all away, and nothing else takes either.
LEMMA PlayerInvStep ==
  ASSUME PlayerInv, [Next]_vars
  PROVE  PlayerInv'
  <1> USE DEF PlayerInv
  <1>1. CASE OpenVideo \/ OpenFromTable
    BY <1>1 DEF OpenVideo, OpenFromTable, DetailMount, playerVars, menuVars
  <1>2. CASE OpenUploads \/ LeaveUploads
    BY <1>2 DEF OpenUploads, LeaveUploads, detailVars, playerVars, menuVars
  <1>3. CASE GoBack
    BY <1>3 DEF GoBack, DetailUnmount, PlayerUnmount, PlayerReset, MenuUnmount, NoContent
  <1>4. CASE OnFeed(FeedStep)
    BY <1>4 DEF OnFeed, otherThanFeed, detailVars, playerVars, menuVars
  <1>5. CASE \/ OnDetail(EncoderFinishes) \/ OnDetail(PollState) \/ OnDetail(ClickRefresh)
             \/ OnDetail(ReloadFails) \/ PlaybackIsReloaded
             \/ \E l \in StateLoads : \/ OnDetail(StateAnswered(l)) \/ OnDetail(ShowState(l))
                                     \/ OnDetail(StateFails(l))
    <2>1. UNCHANGED <<route, playback, playerVars, menuVars>>
      BY <1>5 DEF OnDetail, otherThanDetail, EncoderFinishes, PollState, ClickRefresh, StartStateLoad,
                  ReloadFails, PlaybackIsReloaded, ShowReload, StateAnswered, ShowState, StateFails
    <2> QED
      BY <2>1 DEF playerVars, menuVars
  <1>6. ASSUME NEW l \in StateLoads, PlaybackArrives(l) PROVE PlayerInv'
    BY <1>6 DEF PlaybackArrives, ShowPlayback, PlayerMount, PlayerReset, playerVars, menuVars
  <1>7. CASE PlayerStep
    BY <1>7 DEF PlayerStep, ManifestParsed, NetworkError, otherThanPlayer, detailVars, menuVars
  <1>8. CASE OnMenu(MenuStep)
    BY <1>8 DEF OnMenu, detailVars, playerVars
  <1>9. ASSUME NEW i \in Items, Select(i) PROVE PlayerInv'
    BY <1>9 DEF Select, ChooseQuality, detailVars, CloseMenu, menuVars
  <1>10. CASE UNCHANGED vars
    BY <1>10 DEF vars, detailVars, playerVars, menuVars
  <1> QED
    BY <1>1, <1>2, <1>3, <1>4, <1>5, <1>6, <1>7, <1>8, <1>9, <1>10 DEF Next, LoadStep

LEMMA PlayerInvKept == Spec => []PlayerInv
  <1>1. Init => PlayerInv
    BY DEF Init, PlayerInit, MenuInit, DetailAbsent, DetailInit, PlayerInv
  <1> QED
    BY <1>1, PlayerInvStep, PTL DEF Spec

\* A quality that was chosen is only changed by another choice or by leaving
\* the page: no playback that comes, comes late or comes again resets it.
THEOREM KeptTheorem == Spec => QualityIsKept
  <1>1. PlayerInv /\ [Next]_vars
          => [(quality' # quality) => (route' = "feed" \/ (content /\ focus = quality'))]_vars
    <2> SUFFICES ASSUME PlayerInv, [Next]_vars, quality' # quality
                 PROVE  route' = "feed" \/ (content /\ focus = quality')
      OBVIOUS
    <2>1. ~(~playback /\ PlayerMount(browser))
      BY DEF PlayerInv, PlayerMount, PlayerReset
    <2>2. ~ManifestParsed /\ ~NetworkError /\ ~UNCHANGED playerVars
      BY DEF ManifestParsed, NetworkError, playerVars
    <2> QED
      BY <2>1, <2>2, PlayerMoves DEF Choose, ChooseQuality
  <1> QED
    BY <1>1, PlayerInvKept, PTL DEF Spec, QualityIsKept

-----------------------------------------------------------------------------
\* The menu.

\* The ids that have been given out since the menu was mounted.
Ids == (0 .. mounts) \X (Items \cup {Nothing})

MenuFlags ==
    /\ menuOpen \in BOOLEAN /\ content \in BOOLEAN
    /\ stale \in BOOLEAN /\ touched \in BOOLEAN

MenuTypes ==
    /\ mounts \in 0 .. MaxMounts
    /\ focus \in Items \cup {Nothing} /\ snapshot \in SUBSET Items
    /\ highlighted \in Ids /\ active \in Ids

\* Until an item has been focused none has seen itself highlighted, and
\* neither the menu nor the Highlight knows an id of the present mount.
MenuInv ==
    /\ ~content => ~touched
    /\ ~touched => focus = Nothing /\ snapshot = {}
    /\ content /\ ~touched => highlighted[1] # mounts /\ active[1] # mounts

\* Ids that were given out remain so while the menu is mounted.
LEMMA IdsGrow ==
  /\ mounts = 0 => Null \in Ids
  /\ mounts' \in Nat => Null \in Ids'
  /\ mounts \in Nat /\ mounts' \in {mounts, mounts + 1} => Ids \subseteq Ids'
  /\ mounts \in Nat => \A i \in Items : IdOf(i) \in Ids
  BY DEF Ids, Null, IdOf

LEMMA MenuFlagsStep ==
  ASSUME MenuFlags, [Next]_vars
  PROVE  MenuFlags'
  <1>1. ASSUME NEW i \in Items, Observe(i) PROVE MenuFlags'
    BY <1>1 DEF Observe, MenuFlags
  <1>2. ASSUME NEW i \in Items \cup {Nothing}, MoveFocus(i) PROVE MenuFlags'
    BY <1>2 DEF MoveFocus, MenuFlags
  <1>3. CASE MenuRenders
    BY <1>3 DEF MenuRenders, MenuFlags
  <1>4. CASE MenuUnmount \/ OpenMenu \/ CloseMenu \/ ContentGone
    BY <1>4 DEF MenuUnmount, NoContent, OpenMenu, CloseMenu, ContentGone, MenuFlags
  <1>5. CASE UNCHANGED menuVars
    BY <1>5 DEF menuVars, MenuFlags
  <1> QED
    BY <1>1, <1>2, <1>3, <1>4, <1>5, MenuMoves DEF MenuStep

LEMMA MenuTypesStep ==
  ASSUME MenuTypes, [Next]_vars
  PROVE  MenuTypes'
  <1> USE DEF MenuTypes
  <1>1. mounts \in Nat
    OBVIOUS
  <1>2. ASSUME NEW R \in SUBSET Items, Report(R) PROVE highlighted' \in Ids
    BY <1>2, <1>1, IdsGrow DEF Report
  <1>3. CASE MenuUnmount
    BY <1>3, <1>1, IdsGrow DEF MenuUnmount, NoContent
  <1>4. CASE OpenMenu
    BY <1>4, <1>1, IdsGrow DEF OpenMenu, Value
  <1>5. CASE CloseMenu
    BY <1>5, <1>1, IdsGrow DEF CloseMenu
  <1>6. CASE ContentGone
    BY <1>6, <1>1, IdsGrow DEF ContentGone, NoContent
  <1>7. CASE MenuRenders
    <2>1. snapshot' \in SUBSET Items /\ Report(snapshot')
      BY <1>7 DEF MenuRenders, ItemsRender
    <2>2. highlighted' \in Ids
      BY <1>2, <2>1
    <2> QED
      BY <1>7, <2>1, <2>2, <1>1, IdsGrow DEF MenuRenders, HighlightEffect, Value
  <1>8. ASSUME NEW i \in Items, Observe(i) PROVE MenuTypes'
    <2>1. snapshot' \in SUBSET Items
      BY <1>8 DEF Observe
    <2>2. highlighted' \in Ids
      BY <1>2, <1>8 DEF Observe
    <2> QED
      BY <1>8, <2>1, <2>2, <1>1, IdsGrow DEF Observe
  <1>9. ASSUME NEW i \in Items \cup {Nothing}, MoveFocus(i) PROVE MenuTypes'
    BY <1>9, <1>1, IdsGrow DEF MoveFocus
  <1>10. CASE UNCHANGED menuVars
    BY <1>10, <1>1, IdsGrow DEF menuVars
  <1> QED
    BY <1>3, <1>4, <1>5, <1>6, <1>7, <1>8, <1>9, <1>10, MenuMoves DEF MenuStep

LEMMA MenuInvStep ==
  ASSUME MenuTypes, MenuInv, [Next]_vars
  PROVE  MenuInv'
  <1> USE DEF MenuTypes, MenuInv, Ids
  <1>1. CASE MenuUnmount
    BY <1>1 DEF MenuUnmount, NoContent
  <1>2. CASE OpenMenu
    BY <1>2 DEF OpenMenu, Value
  <1>3. CASE CloseMenu
    BY <1>3 DEF CloseMenu
  <1>4. CASE ContentGone
    BY <1>4 DEF ContentGone, NoContent
  <1>5. CASE MenuRenders
    <2>1. ~touched => snapshot' = {} /\ highlighted' = highlighted
      BY <1>5 DEF MenuRenders, ItemsRender, Report
    <2> QED
      BY <1>5, <2>1 DEF MenuRenders, HighlightEffect, Value
  <1>6. ASSUME NEW i \in Items, Observe(i) PROVE MenuInv'
    <2>1. touched
      BY <1>6 DEF Observe
    <2> QED
      BY <1>6, <2>1 DEF Observe
  <1>7. ASSUME NEW i \in Items \cup {Nothing}, MoveFocus(i) PROVE MenuInv'
    BY <1>7 DEF MoveFocus
  <1>8. CASE UNCHANGED menuVars
    BY <1>8 DEF menuVars
  <1> QED
    BY <1>1, <1>2, <1>3, <1>4, <1>5, <1>6, <1>7, <1>8, MenuMoves DEF MenuStep

LEMMA MenuBegins == Init => MenuFlags /\ MenuTypes /\ MenuInv
  <1>1. Init => MenuFlags /\ MenuInv
    BY DEF Init, MenuInit, MenuFlags, MenuInv
  <1>2. Init => MenuTypes
    BY IdsGrow DEF Init, MenuInit, MenuTypes
  <1> QED
    BY <1>1, <1>2

LEMMA MenuKept == Spec => [](MenuTypes /\ MenuInv)
  <1>1. MenuTypes /\ MenuInv /\ [Next]_vars => (MenuTypes /\ MenuInv)'
    BY MenuTypesStep, MenuInvStep
  <1> QED
    BY <1>1, MenuBegins, PTL DEF Spec

\* A menu opened anew marks no item before one has been focused, whatever an
\* earlier opening left behind: any rows, any number of openings.
THEOREM HighlightTheorem == Spec => []HighlightIsNew
  <1>1. MenuTypes /\ MenuInv => HighlightIsNew
    BY DEF MenuTypes, MenuInv, HighlightIsNew, Drawn, IsActive, IdOf
  <1> QED
    BY <1>1, MenuKept, PTL

-----------------------------------------------------------------------------
\* Every variable keeps its type, whatever pages are opened and left.
ViewerTypes ==
    /\ route \in {"feed", "video", "uploads"} /\ browser \in Browsers
    /\ FeedTypes /\ DetailTypes /\ PlayerTypes /\ MenuFlags /\ MenuTypes

LEMMA LoadsBegin ==
  /\ NewLoads \in [StateLoads -> {"idle", "sent", "playback"} \cup DbStatus]
  /\ [l \in StateLoads |-> "idle"] \in [StateLoads -> {"idle", "sent", "playback"} \cup DbStatus]
  /\ 0 \in 0 .. MaxDetailFailures
  BY DEF NewLoads

\* A load begins, ends or goes on; the flags of the page are true or false.
LEMMA DetailTypesStep ==
  ASSUME DetailTypes, [Next]_vars
  PROVE  DetailTypes'
  <1> USE DEF DetailTypes, DbStatus
  <1>1. ASSUME NEW s \in DbStatus, DetailMount(s) PROVE DetailTypes'
    BY <1>1, LoadsBegin DEF DetailMount
  <1>2. CASE DetailUnmount
    BY <1>2, LoadsBegin DEF DetailUnmount
  <1>3. CASE EncoderFinishes
    BY <1>3 DEF EncoderFinishes
  <1>4. CASE PollState \/ ClickRefresh
    BY <1>4 DEF PollState, ClickRefresh, StartStateLoad
  <1>5. CASE ReloadFails \/ ShowReload
    BY <1>5 DEF ReloadFails, ShowReload
  <1>6. ASSUME NEW l \in StateLoads, StateAnswered(l) PROVE DetailTypes'
    BY <1>6 DEF StateAnswered
  <1>7. ASSUME NEW l \in StateLoads, ShowState(l) PROVE DetailTypes'
    BY <1>7 DEF ShowState, EndLoading
  <1>8. ASSUME NEW l \in StateLoads, PlaybackArrives(l) PROVE DetailTypes'
    <2>1. /\ stateLoad' = [stateLoad EXCEPT ![l] = "idle"]
          /\ detailFailures' = 0 /\ UNCHANGED <<dbStatus, shownStatus>>
      BY <1>8 DEF PlaybackArrives, ShowPlayback
    <2>2. /\ playback' \in BOOLEAN /\ reload' \in BOOLEAN
          /\ detailLoading' \in BOOLEAN /\ detailStuck' \in BOOLEAN
      BY <1>8 DEF PlaybackArrives, ShowPlayback, EndLoading, Reload
    <2> QED
      BY <2>1, <2>2
  <1>9. ASSUME NEW l \in StateLoads, StateFails(l) PROVE DetailTypes'
    <2>1. /\ stateLoad' = [stateLoad EXCEPT ![l] = "idle"]
          /\ detailFailures' \in 0 .. MaxDetailFailures
          /\ UNCHANGED <<dbStatus, shownStatus, playback, reload>>
      BY <1>9 DEF StateFails
    <2>2. detailLoading' \in BOOLEAN /\ detailStuck' \in BOOLEAN
      BY <1>9 DEF StateFails, EndLoading
    <2> QED
      BY <2>1, <2>2
  <1>10. CASE PlayerStep
    BY <1>10 DEF PlayerStep, Reload, detailVars
  <1>11. CASE UNCHANGED detailVars
    BY <1>11 DEF detailVars
  <1> QED
    BY <1>1, <1>2, <1>3, <1>4, <1>5, <1>6, <1>7, <1>8, <1>9, <1>10, <1>11
    DEF Next, vars, otherThanFeed, OpenVideo, GoBack, OpenUploads, LeaveUploads, OpenFromTable, OnFeed,
        OnDetail, PlaybackIsReloaded, LoadStep, OnMenu, Select

THEOREM ViewerTypeTheorem == Spec => []ViewerTypes
  <1>1. Init => ViewerTypes
    <2>1. Init => FeedTypes
      BY FeedBegins DEF Init
    <2>2. Init => DetailTypes
      BY LoadsBegin DEF Init, DetailInit, DetailAbsent, DetailTypes, DbStatus
    <2>3. Init => PlayerTypes
      <3>1. Init => parsed \in BOOLEAN /\ dead \in BOOLEAN
        BY DEF Init, PlayerInit
      <3> QED
        BY <3>1 DEF Init, PlayerInit, PlayerTypes
    <2> QED
      BY <2>1, <2>2, <2>3, MenuBegins DEF Init, ViewerTypes
  <1>2. ViewerTypes /\ [Next]_vars => ViewerTypes'
    <2> SUFFICES ASSUME ViewerTypes, [Next]_vars PROVE ViewerTypes'
      OBVIOUS
    <2>1. FeedTypes'
      BY FeedMoves, FeedBegins, FeedTypesStep DEF ViewerTypes, FeedTypes, feedVars
    <2>2. route' \in {"feed", "video", "uploads"} /\ browser' \in Browsers
      BY DEF ViewerTypes, Next, vars, otherThanFeed, otherThanDetail, otherThanPlayer, OpenVideo,
             GoBack, OpenUploads, LeaveUploads, OpenFromTable, OnFeed, OnDetail, PlaybackArrives,
             PlaybackIsReloaded, PlayerStep, OnMenu, Select, LoadStep
    <2> QED
      BY <2>1, <2>2, DetailTypesStep, PlayerTypesStep, MenuFlagsStep, MenuTypesStep DEF ViewerTypes
  <1> QED
    BY <1>1, <1>2, PTL DEF Spec
=============================================================================
