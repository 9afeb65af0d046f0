---------------------------- MODULE VideoDetail ----------------------------
(***************************************************************************)
(* The page of one video (video-detail.tsx): it asks for the video's state *)
(* when it is mounted, every five seconds until the video is done, and     *)
(* when Refresh is clicked; an answer that says done is followed by a      *)
(* request for the playback.  Requests may overtake each other.            *)
(***************************************************************************)
EXTENDS Naturals

CONSTANTS
    StateLoads,        \* the runs of loadVideo that may overlap
    Initial,           \* the one started by the first effect
    MaxDetailFailures  \* bound on the loads that fail before there is a playback

ASSUME DetailAssumption == Initial \in StateLoads /\ MaxDetailFailures \in Nat

VARIABLES
    dbStatus,        \* videos.status
    shownStatus,     \* videoState.status, or "null"
    stateLoad,       \* the runs of loadVideo: what they await, what they read
    playback,        \* has setPlayback been called?
    reload,          \* is a request of reloadPlayback under way?
    detailLoading,   \* isLoading
    detailStuck,     \* has the first state or the playback failed? (history)
    detailFailures

detailVars == <<dbStatus, shownStatus, stateLoad, playback, reload,
                detailLoading, detailStuck, detailFailures>>

\* Of the statuses of a video only done is playable; the others, "unfinished",
\* differ in what is written above the player.
DbStatus == {"unfinished", "done"}

NewLoads == [l \in StateLoads |-> IF l = Initial THEN "sent" ELSE "idle"]

DetailAbsent ==
    /\ dbStatus = "unfinished"
    /\ shownStatus = "null" /\ stateLoad = [l \in StateLoads |-> "idle"]
    /\ playback = FALSE /\ reload = FALSE
    /\ detailLoading = TRUE /\ detailStuck = FALSE /\ detailFailures = 0

DetailInit ==
    /\ dbStatus = "unfinished"
    /\ shownStatus = "null" /\ stateLoad = NewLoads
    /\ playback = FALSE /\ reload = FALSE
    /\ detailLoading = TRUE /\ detailStuck = FALSE /\ detailFailures = 0

\* The page is opened for a video whose status is s.
DetailMount(s) ==
    /\ dbStatus' = s
    /\ shownStatus' = "null" /\ stateLoad' = NewLoads
    /\ playback' = FALSE /\ reload' = FALSE
    /\ detailLoading' = TRUE /\ detailStuck' = FALSE /\ detailFailures' = 0

\* Answers that are still under way find nothing to update.
DetailUnmount ==
    /\ dbStatus' = "unfinished"
    /\ shownStatus' = "null" /\ stateLoad' = [l \in StateLoads |-> "idle"]
    /\ playback' = FALSE /\ reload' = FALSE
    /\ detailLoading' = TRUE /\ detailStuck' = FALSE /\ detailFailures' = 0

-----------------------------------------------------------------------------
\* The encoder: done is final (module VideoFinalize).
EncoderFinishes ==
    /\ dbStatus # "done" /\ dbStatus' = "done"
    /\ UNCHANGED <<shownStatus, stateLoad, playback, reload, detailLoading,
                   detailStuck, detailFailures>>

Polling == shownStatus \notin {"null", "done"}

StartStateLoad ==
    /\ \E l \in StateLoads :
          stateLoad[l] = "idle" /\ stateLoad' = [stateLoad EXCEPT ![l] = "sent"]
    /\ UNCHANGED <<dbStatus, shownStatus, playback, reload, detailLoading,
                   detailStuck, detailFailures>>

\* The interval, restarted by every state that arrives.
PollState == Polling /\ StartStateLoad

ClickRefresh == ~playback /\ ~detailLoading /\ StartStateLoad

StateAnswered(l) ==
    /\ stateLoad[l] = "sent"
    /\ stateLoad' = [stateLoad EXCEPT ![l] = dbStatus]
    /\ UNCHANGED <<dbStatus, shownStatus, playback, reload, detailLoading,
                   detailStuck, detailFailures>>

\* The end of a load.  No other load runs besides the first.
EndLoading == detailLoading' = FALSE

\* Mutant of ShowState: a video that is done is shown so, and that is all.
ShowStateOnly(l) ==
    /\ stateLoad[l] \in DbStatus
    /\ shownStatus' = stateLoad[l]
    /\ stateLoad' = [stateLoad EXCEPT ![l] = "idle"] /\ EndLoading
    /\ UNCHANGED <<dbStatus, playback, reload, detailStuck, detailFailures>>

\* setVideoState, and loadPlayback if the video is playable.
ShowState(l) ==
    /\ stateLoad[l] \in DbStatus
    /\ shownStatus' = stateLoad[l]
    /\ IF stateLoad[l] = "done"
       THEN stateLoad' = [stateLoad EXCEPT ![l] = "playback"] /\ UNCHANGED detailLoading
       ELSE stateLoad' = [stateLoad EXCEPT ![l] = "idle"] /\ EndLoading
    /\ UNCHANGED <<dbStatus, playback, reload, detailStuck, detailFailures>>

\* The playback of a video that is done, which never changes, is answered:
\* setPlayback.  The player it mounts may set reload.
ShowPlayback(l) ==
    /\ stateLoad[l] = "playback" /\ dbStatus = "done"
    /\ playback' = TRUE
    /\ stateLoad' = [stateLoad EXCEPT ![l] = "idle"] /\ EndLoading
    /\ detailStuck' = FALSE /\ detailFailures' = 0
    /\ UNCHANGED <<dbStatus, shownStatus>>

\* A request of loadVideo fails.  The interval asks again, unless there is
\* no state yet or the state shown is done: then only Refresh does.
StateFails(l) ==
    /\ stateLoad[l] \in {"sent", "playback"}
    /\ IF playback THEN UNCHANGED <<detailStuck, detailFailures>>
       ELSE /\ detailFailures < MaxDetailFailures /\ detailFailures' = detailFailures + 1
            /\ detailStuck' = (detailStuck \/ stateLoad[l] = "playback" \/ shownStatus = "null")
    /\ stateLoad' = [stateLoad EXCEPT ![l] = "idle"] /\ EndLoading
    /\ UNCHANGED <<dbStatus, shownStatus, playback, reload>>

\* reloadPlayback, called by the player.  Reloads that overlap are one.
Reload == reload' = TRUE

ReloadFails ==
    /\ reload /\ reload' = FALSE
    /\ UNCHANGED <<dbStatus, shownStatus, stateLoad, playback, detailLoading,
                   detailStuck, detailFailures>>

\* setPlayback gives the player an object that is new and says the same.
ShowReload ==
    /\ reload /\ reload' = FALSE
    /\ UNCHANGED <<dbStatus, shownStatus, stateLoad, playback, detailLoading, detailStuck,
                   detailFailures>>
=============================================================================
