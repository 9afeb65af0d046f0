--------------------------- MODULE MenuHighlight ---------------------------
(***************************************************************************)
(* A dropdown menu and the highlight that follows the focus in it          *)
(* (animate-ui's dropdown-menu, highlight, use-data-state).                *)
(*                                                                         *)
(* Radix moves the focus and marks the focused item data-highlighted; an   *)
(* observer of that attribute renders the item again; the effect of that   *)
(* render tells the menu which item it is; the menu renders, and the       *)
(* effect of that render tells the Highlight, whose item draws the mark.   *)
(* The mark may thus lag behind the focus, which may move on at each step. *)
(* A render and its effects are one step: the effects use what the render  *)
(* saw, and React runs them before it renders again.                       *)
(***************************************************************************)
EXTENDS Naturals

CONSTANTS
    Items,      \* the rows of the menu
    Nothing,    \* no row
    MaxMounts   \* bound on the times its content is mounted

ASSUME MenuAssumption == Nothing \notin Items /\ MaxMounts \in Nat

VARIABLES
    menuOpen,     \* isOpen
    content,      \* is the content mounted?  It stays so while it fades out.
    mounts,       \* how often the content has been mounted
    focus,        \* the item that is data-highlighted
    snapshot,     \* the items whose last render saw them highlighted
    stale,        \* does the menu have state it has not rendered?
    highlighted,  \* highlightedValue of the DropdownMenu
    active,       \* activeValue of the Highlight
    touched       \* has an item been focused since the content was mounted? (history)

menuVars == <<menuOpen, content, mounts, focus, snapshot, stale,
              highlighted, active, touched>>

\* The id of an item is the useId of its HighlightItem: new with each mount.
Null == <<0, Nothing>>

\* Mutant of IdOf: an item is known by its value, which every mount shares.
IdOfByValue(i) == <<1, i>>

IdOf(i) == <<mounts, i>>

MenuInit ==
    /\ menuOpen = FALSE /\ content = FALSE /\ mounts = 0
    /\ focus = Nothing /\ snapshot = {} /\ touched = FALSE
    /\ stale = FALSE
    /\ highlighted = Null /\ active = Null

\* The value that the menu hands to its Highlight.
Value == highlighted

NoContent ==
    /\ content' = FALSE
    /\ focus' = Nothing /\ snapshot' = {} /\ touched' = FALSE
    /\ stale' = FALSE /\ active' = Null

\* The menu is gone with everything it knew.
MenuUnmount ==
    /\ NoContent
    /\ menuOpen' = FALSE /\ highlighted' = Null /\ mounts' = 0

-----------------------------------------------------------------------------
\* Radix opens the menu.  Content that is still fading out comes back as it
\* is; content mounted anew starts from the highlightedValue left behind.
OpenMenu ==
    /\ ~menuOpen /\ menuOpen' = TRUE
    /\ IF content
       THEN stale' = TRUE /\ UNCHANGED <<content, mounts, focus, snapshot, active, touched>>
       ELSE /\ mounts < MaxMounts /\ mounts' = mounts + 1
            /\ content' = TRUE /\ active' = Value
            /\ UNCHANGED <<focus, snapshot, stale, touched>>
    /\ UNCHANGED highlighted

CloseMenu ==
    /\ menuOpen /\ menuOpen' = FALSE
    /\ stale' = TRUE
    /\ UNCHANGED <<content, mounts, focus, snapshot, highlighted, active, touched>>

\* The exit animation has ended.
ContentGone ==
    /\ content /\ ~menuOpen
    /\ NoContent
    /\ UNCHANGED <<menuOpen, mounts, highlighted>>

\* The pointer or a key moves the focus to an item, or off the items.
MoveFocus(i) ==
    /\ content /\ focus # i
    /\ focus' = i
    /\ touched' = (touched \/ i \in Items)
    /\ UNCHANGED <<menuOpen, content, mounts, snapshot, stale, highlighted, active>>

\* The effects of items that rendered: one that saw itself focused says so.
\* An item of either kind, with or without a radio button, does the same.
Report(reports) ==
    highlighted' \in IF reports = {} THEN {highlighted} ELSE {IdOf(i) : i \in reports}

\* The observer of one item calls back, and the item renders.
Observe(i) ==
    /\ content /\ (i \in snapshot) # (focus = i)
    /\ snapshot' = IF focus = i THEN snapshot \cup {i} ELSE snapshot \ {i}
    /\ Report(snapshot' \cap {i})
    /\ stale' = (stale \/ highlighted' # highlighted)
    /\ UNCHANGED <<menuOpen, content, mounts, focus, active, touched>>

\* Mutant of HighlightEffect: the Highlight keeps the value it was born with.
HighlightEffectNone == active' = active

\* The effect of the Highlight.
HighlightEffect == active' = Value

\* Every item renders with the menu, and looks whether it is focused.
ItemsRender == snapshot' = {focus} \cap Items

\* The menu renders, and with it the Highlight and the items.
MenuRenders ==
    /\ content /\ stale
    /\ ItemsRender
    /\ Report(snapshot') /\ HighlightEffect
    /\ stale' = (highlighted' # highlighted)
    /\ UNCHANGED <<menuOpen, content, mounts, focus, touched>>

IsActive(i) == active = IdOf(i)

\* The item that draws the mark.
Drawn(i) == content /\ IsActive(i)

MenuStep ==
    \/ OpenMenu \/ CloseMenu \/ ContentGone \/ MenuRenders
    \/ \E i \in Items : Observe(i)
    \/ \E i \in Items \cup {Nothing} : MoveFocus(i)

-----------------------------------------------------------------------------
\* A menu that is opened anew marks nothing before an item has been focused:
\* what is left of an earlier opening marks no item (the ids of
\* HighlightItem, highlightedValue, the first state of Highlight).
HighlightIsNew ==
    \A i \in Items : Drawn(i) => touched

\* The mark catches up with a focus that comes to rest, whatever order observers
\* and effects run in (useDataState, the effects of the item and the Highlight).
HighlightCatchesUp ==
    \/ []<>(~content \/ focus = Nothing \/ Drawn(focus))
    \/ []<><<focus' # focus>>_focus
=============================================================================
