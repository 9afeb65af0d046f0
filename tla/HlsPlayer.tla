----------------------------- MODULE HlsPlayer -----------------------------
(***************************************************************************)
(* The player of a video that is done (hls-player.tsx): which engine plays *)
(* it, the quality levels its menu offers and the one that is chosen.      *)
(* Levels are numbered as hls.js numbers them, and AutoLevel is the -1 by  *)
(* which hls.js knows "Auto".  The source is the API's path of the master  *)
(* playlist: it never changes, so a reload leaves the player alone.        *)
(***************************************************************************)
EXTENDS Integers, Sequences, SequencesExt, FiniteSetsExt

CONSTANT
    Manifest   \* the height of each level, in the order of hls.js

ASSUME PlayerAssumption ==
    /\ DOMAIN Manifest = 0 .. Cardinality(DOMAIN Manifest) - 1
    /\ \A l \in DOMAIN Manifest : Manifest[l] \in Nat \ {0}

VARIABLES
    engine,      \* what the browser plays HLS with; "none" while not mounted
    parsed,      \* has the manifest been parsed?
    quality,     \* selectedQuality
    pinned,      \* hls.currentLevel
    labelled,    \* the height on the label that was chosen (history)
    dead         \* has hls.js given up?

playerVars == <<engine, parsed, quality, pinned, labelled, dead>>

AutoLevel == -1
Level == DOMAIN Manifest

\* A level of the menu has a label and the value that choosing it sets.
\* Mutant of MenuLevels: the values are given out after sorting.
MenuLevelsBySortedPlace ==
    LET byHeight == SetToSortSeq(Level, LAMBDA a, b : Manifest[a] > Manifest[b])
    IN  {[value |-> i - 1, label |-> Manifest[byHeight[i]]] : i \in DOMAIN byHeight}

\* The order of the rows is layout: what matters is each row's value.
MenuLevels == {[value |-> l, label |-> Manifest[l]] : l \in Level}

\* The state the effect starts from.
PlayerReset ==
    /\ parsed' = FALSE /\ quality' = AutoLevel /\ pinned' = AutoLevel
    /\ labelled' = 0 /\ dead' = FALSE

PlayerInit ==
    /\ engine = "none" /\ parsed = FALSE
    /\ quality = AutoLevel /\ pinned = AutoLevel
    /\ labelled = 0 /\ dead = FALSE

\* The effect: the browser's own HLS, nothing at all, or hls.js.
PlayerMount(browser) ==
    engine' = browser /\ PlayerReset

PlayerUnmount ==
    engine' = "none" /\ PlayerReset

-----------------------------------------------------------------------------
\* The height beside the menu when a level is chosen (selectedQualityLabel).
\* Which level hls.js has switched to by itself is only shown, and left out.
ShownHeight ==
    LET chosen == {m \in MenuLevels : m.value = quality}
    IN  IF chosen = {} THEN 0 ELSE (CHOOSE m \in chosen : TRUE).label

ManifestParsed ==
    /\ engine = "hls" /\ ~dead /\ ~parsed /\ parsed' = TRUE
    /\ UNCHANGED <<engine, quality, pinned, labelled, dead>>

\* handleQualityChange.
ChooseQuality(value, label) ==
    /\ quality' = value /\ pinned' = value /\ labelled' = label
    /\ UNCHANGED <<engine, parsed, dead>>

\* A fatal error.  hls.js recovers from one of the media, which changes
\* nothing here, and stops at any other: that one asks for the playback again.
NetworkError ==
    /\ engine = "hls" /\ ~dead /\ dead' = TRUE
    /\ UNCHANGED <<engine, parsed, quality, pinned, labelled>>

-----------------------------------------------------------------------------
\* A level that is chosen by its label is the one hls.js is told to play, and
\* the one named beside the menu (the order of hls.js against that of the
\* menu: MANIFEST_PARSED, handleQualityChange, selectedQualityLabel).
QualityIsPlayed ==
    quality # AutoLevel => Manifest[pinned] = labelled /\ ShownHeight = labelled
=============================================================================
