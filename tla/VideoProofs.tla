---------------------------- MODULE VideoProofs ----------------------------
(***************************************************************************)
(* Proofs about VideoFinalize and VideoProgress.  The first part is about  *)
(* the transactions, for every set of renditions, every bound on attempts, *)
(* and whether or not transactions overlap.  The second is about the       *)
(* reader, for every finite set of renditions: what is known of the        *)
(* transactions is kept, since the reader changes nothing they use; and    *)
(* what a page shows is tied to renditions that no transaction can change  *)
(* any more.                                                               *)
(***************************************************************************)
EXTENDS VideoProgress, FiniteSetTheorems, TLAPS

-----------------------------------------------------------------------------
\* What derive_video_status says.

\* It is a video status.
LEMMA DerivedIsStatus ==
  ASSUME NEW st
  PROVE  DeriveVideoStatus(st) \in VideoStatus
  BY DEF DeriveVideoStatus, VideoStatus

\* It says done only if every rendition is done or skipped, and one is done.
LEMMA DerivedDone ==
  ASSUME NEW st, DeriveVideoStatus(st) = "done"
  PROVE  /\ \A r \in DOMAIN st : st[r] \in {"done", "skipped"}
         /\ \E r \in DOMAIN st : st[r] = "done"
  <1>1. Available(st) = {"done"}
    BY DEF DeriveVideoStatus
  <1> QED
    BY <1>1 DEF Available, StatusesOf

\* Renditions that are all pending make a pending video.
LEMMA DerivedPending ==
  ASSUME NEW S, S # {}
  PROVE  DeriveVideoStatus([r \in S |-> "pending"]) = "pending"
  <1> DEFINE st == [r \in S |-> "pending"]
  <1>1. StatusesOf(st) = {"pending"} /\ Available(st) = {"pending"}
    BY DEF StatusesOf, Available
  <1> QED
    BY <1>1 DEF DeriveVideoStatus

-----------------------------------------------------------------------------
\* Type correctness.

\* TypeOK without the bound on attempts, which takes more to show.
TypeInv ==
    /\ rendition \in [Renditions -> RenditionStatus]
    /\ attempts \in [Renditions -> Nat]
    /\ video \in VideoRow
    /\ master \subseteq Renditions
    /\ tx \in [Transactions -> TxRecord]

\* The records of the open transactions, field by field.
LEMMA TxRecordIs ==
  ASSUME NEW p \in {"closed", "begun", "derived"},
         NEW S \in SUBSET Renditions, NEW rows \in [S -> RenditionStatus],
         NEW b \in BOOLEAN, NEW seen \in VideoRow, NEW new \in VideoRow
  PROVE  [phase |-> p, rows |-> rows, publishes |-> b, seen |-> seen, new |-> new]
           \in TxRecord
  <1>1. rows \in UNION {[T -> RenditionStatus] : T \in SUBSET Renditions}
    OBVIOUS
  <1> QED
    BY <1>1 DEF TxRecord

\* What is known of the rows of a transaction.
LEMMA RowsAre ==
  ASSUME TypeInv, NEW t \in Transactions
  PROVE  /\ DOMAIN tx[t].rows \subseteq Renditions
         /\ \A r \in DOMAIN tx[t].rows : tx[t].rows[r] \in RenditionStatus
         /\ tx[t].publishes \in BOOLEAN
         /\ tx[t].seen \in VideoRow /\ tx[t].new \in VideoRow
  <1>1. tx[t] \in TxRecord
    BY DEF TypeInv
  <1>2. PICK S \in SUBSET Renditions : tx[t].rows \in [S -> RenditionStatus]
    BY <1>1 DEF TxRecord
  <1> QED
    BY <1>1, <1>2 DEF TxRecord

LEMMA ViewIs ==
  ASSUME TypeInv, NEW t \in Transactions
  PROVE  View(t) \in [Renditions -> RenditionStatus]
  BY RowsAre DEF View, TypeInv

LEMMA ClosedIsRecord == Closed \in TxRecord
  <1>1. NoRows \in [{} -> RenditionStatus]
    BY DEF NoRows
  <1>2. Fresh \in VideoRow
    BY DEF Fresh, VideoRow, VideoStatus
  <1> QED
    BY <1>1, <1>2, TxRecordIs DEF Closed

\* The row a transaction wants.
NewRow(t) ==
    [status   |-> DeriveVideoStatus(View(t)),
     playback |-> IF tx[t].publishes
                  THEN PlaybackAfter(View(t), tx[t].seen.playback)
                  ELSE tx[t].seen.playback]

LEMMA NewRowIs ==
  ASSUME TypeInv, NEW t \in Transactions
  PROVE  NewRow(t) \in VideoRow
  <1>1. tx[t].seen.playback \in BOOLEAN
    BY RowsAre DEF VideoRow
  <1>2. PlaybackAfter(View(t), tx[t].seen.playback) \in BOOLEAN
    BY <1>1 DEF PlaybackAfter
  <1>3. (IF tx[t].publishes THEN PlaybackAfter(View(t), tx[t].seen.playback)
         ELSE tx[t].seen.playback) \in BOOLEAN
    BY <1>1, <1>2
  <1> QED
    BY <1>3, DerivedIsStatus DEF NewRow, VideoRow

\* The record after each of the four kinds of step, and what stays.
Begun(y, rows, b) ==
    y = [phase |-> "begun", rows |-> rows, publishes |-> b,
         seen |-> video, new |-> video]

LEMMA BeginTx ==
  ASSUME TypeInv, NEW t \in Transactions, NEW rows, NEW b, Begin(t, rows, b)
  PROVE  /\ Begun(tx'[t], rows, b)
         /\ \A u \in Transactions \ {t} : tx'[u] = tx[u]
  BY DEF TypeInv, Begin, Begun

LEMMA BegunFields ==
  ASSUME NEW y, NEW rows, NEW b, Begun(y, rows, b)
  PROVE  /\ y.phase = "begun" /\ y.rows = rows
         /\ y.publishes = b /\ y.seen = video /\ y.new = video
  BY DEF Begun

Derived(y, x, n) ==
    /\ y \in TxRecord
    /\ y.phase = "derived" /\ y.new = n /\ y.rows = x.rows
    /\ y.publishes = x.publishes /\ y.seen = x.seen

LEMMA TxUpdate ==
  ASSUME NEW x \in TxRecord, NEW n \in VideoRow
  PROVE  Derived([x EXCEPT !.phase = "derived", !.new = n], x, n)
  BY DEF TxRecord, Derived

LEMMA DeriveTx ==
  ASSUME TypeInv, NEW t \in Transactions, Derive(t)
  PROVE  /\ Derived(tx'[t], tx[t], NewRow(t))
         /\ \A u \in Transactions \ {t} : tx'[u] = tx[u]
  <1>1. tx[t] \in TxRecord /\ NewRow(t) \in VideoRow
    BY NewRowIs DEF TypeInv
  <1>2. tx' = [tx EXCEPT ![t].phase = "derived", ![t].new = NewRow(t)]
    BY DEF Derive, NewRow
  <1>3. tx'[t] = [tx[t] EXCEPT !.phase = "derived", !.new = NewRow(t)]
    BY <1>2 DEF TypeInv
  <1>4. \A u \in Transactions \ {t} : tx'[u] = tx[u]
    BY <1>2 DEF TypeInv
  <1> QED
    BY <1>1, <1>3, <1>4, TxUpdate

LEMMA CloseTx ==
  ASSUME TypeInv, NEW t \in Transactions, Commit(t) \/ Rollback(t)
  PROVE  /\ tx'[t] = Closed
         /\ \A u \in Transactions \ {t} : tx'[u] = tx[u]
  BY DEF TypeInv, Commit, Rollback

\* A status that the job of a rendition may get next.
Due(r, s) ==
    \/ s = "running" /\ rendition[r] = "pending" /\ MayRetry(r)
    \/ s \in {"done", "skipped"} /\ rendition[r] = "running"
    \/ s = "pending" /\ rendition[r] = "running" /\ MayRetry(r)
    \/ s = "failed" /\ rendition[r] \in Active /\ ~MayRetry(r)

\* A transaction that opens: the rows it locks are active and nobody else's;
\* if it finishes a rendition, all its rows get a terminal status, and
\* otherwise it leaves some rendition without one that is done or skipped.
Opening(t, rows, b) ==
    /\ Begin(t, rows, b)
    /\ b \in BOOLEAN
    /\ \E S \in SUBSET Renditions : S # {} /\ rows \in [S -> RenditionStatus]
    /\ \A r \in DOMAIN rows : rendition[r] \in Active /\ ~Locked(r)
    /\ \A r \in DOMAIN rows : Due(r, rows[r])
    /\ ~b => \A r \in DOMAIN rows : rows[r] \notin {"done", "skipped"}

LEMMA Steps ==
  ASSUME TypeInv, Next
  PROVE  \/ \E t \in Transactions : \E rows, b : Opening(t, rows, b)
         \/ \E t \in Transactions : Derive(t)
         \/ \E t \in Transactions : Commit(t)
         \/ \E t \in Transactions : Rollback(t)
  <1> USE DEF Active, RenditionStatus
  <1>1. ASSUME NEW r \in Renditions, NEW status \in RenditionStatus, NEW b \in BOOLEAN,
               rendition[r] \in Active, ~Locked(r),
               Begin(r, [q \in {r} |-> status], b),
               Due(r, status),
               ~b => status \notin {"done", "skipped"}
        PROVE  \E t \in Transactions : \E rows, c : Opening(t, rows, c)
    <2> DEFINE rows == [q \in {r} |-> status]
    <2>1. {r} \in SUBSET Renditions /\ {r} # {} /\ rows \in [{r} -> RenditionStatus]
      OBVIOUS
    <2>2. \E S \in SUBSET Renditions : S # {} /\ rows \in [S -> RenditionStatus]
      BY <2>1
    <2>3. \A q \in DOMAIN rows : rendition[q] \in Active /\ ~Locked(q)
      BY <1>1
    <2>4. ~b => \A q \in DOMAIN rows : rows[q] \notin {"done", "skipped"}
      BY <1>1
    <2>5. \A q \in DOMAIN rows : Due(q, rows[q])
      BY <1>1
    <2>6. Begin(r, rows, b)
      BY <1>1
    <2> HIDE DEF rows
    <2>7. Opening(r, rows, b)
      BY <2>2, <2>3, <2>4, <2>5, <2>6 DEF Opening
    <2> QED
      BY <2>7 DEF Transactions
  <1>2. ASSUME NEW r \in Renditions,
               \/ BeginClaim(r) \/ BeginRetry(r) \/ BeginFail(r)
               \/ BeginFinish(r, "done") \/ BeginFinish(r, "skipped")
        PROVE  \E t \in Transactions : \E rows, c : Opening(t, rows, c)
    <2>1. CASE BeginClaim(r)
      <3> DEFINE status == IF MayRetry(r) THEN "running" ELSE "failed"
      <3>1. Begin(r, [q \in {r} |-> status], FALSE) /\ rendition[r] = "pending" /\ ~Locked(r)
        BY <2>1 DEF BeginClaim
      <3>2. status \in RenditionStatus /\ Due(r, status) /\ status \notin {"done", "skipped"}
        BY <3>1 DEF Due
      <3> HIDE DEF status
      <3> QED
        BY <3>1, <3>2, <1>1
    <2>2. CASE BeginRetry(r)
      BY <2>2, <1>1 DEF BeginRetry, Due
    <2>3. CASE BeginFail(r)
      BY <2>3, <1>1 DEF BeginFail, BeginFinish, Due
    <2>4. CASE BeginFinish(r, "done")
      BY <2>4, <1>1 DEF BeginFinish, Due
    <2>5. CASE BeginFinish(r, "skipped")
      BY <2>5, <1>1 DEF BeginFinish, Due
    <2> QED
      BY <1>2, <2>1, <2>2, <2>3, <2>4, <2>5
  <1>3. ASSUME NEW S \in SUBSET Renditions, BeginReap(S)
        PROVE  \E t \in Transactions : \E rows, c : Opening(t, rows, c)
    <2> DEFINE rows == [r \in S |-> IF MayRetry(r) THEN "pending" ELSE "failed"]
    <2>1. rows \in [S -> RenditionStatus] /\ S # {}
      BY <1>3 DEF BeginReap
    <2>2. \A r \in DOMAIN rows : rendition[r] \in Active /\ ~Locked(r)
      BY <1>3 DEF BeginReap
    <2>3. \A r \in DOMAIN rows : rows[r] \notin {"done", "skipped"} /\ Due(r, rows[r])
      BY <1>3 DEF BeginReap, Due
    <2>4. Begin(Reaper, rows, FALSE)
      BY <1>3 DEF BeginReap
    <2> HIDE DEF rows
    <2>5. Opening(Reaper, rows, FALSE)
      BY <2>1, <2>2, <2>3, <2>4 DEF Opening
    <2> QED
      BY <2>5 DEF Transactions
  <1> QED
    BY <1>2, <1>3 DEF Next
\* Committed columns are columns.
LEMMA WrittenRow ==
  ASSUME TypeInv, NEW t \in Transactions
  PROVE  [status   |-> Written(tx[t].seen.status, tx[t].new.status, video.status),
          playback |-> Written(tx[t].seen.playback, tx[t].new.playback, video.playback)]
            \in VideoRow
  BY RowsAre DEF Written, VideoRow, TypeInv

LEMMA TypeInit == Init => TypeInv
  <1> SUFFICES ASSUME Init PROVE TypeInv
    OBVIOUS
  <1>1. Fresh \in VideoRow
    BY DEF Fresh, VideoRow, VideoStatus
  <1> QED
    BY <1>1, ClosedIsRecord, FinalizeAssumption DEF Init, TypeInv, RenditionStatus

LEMMA TypeStep == TypeInv /\ [Next]_vars => TypeInv'
  <1> SUFFICES ASSUME TypeInv, [Next]_vars PROVE TypeInv'
    OBVIOUS
  <1>1. ASSUME NEW t \in Transactions, NEW rows, NEW b, Opening(t, rows, b)
        PROVE  TypeInv'
    <2>1. PICK S \in SUBSET Renditions : rows \in [S -> RenditionStatus]
      BY <1>1 DEF Opening
    <2>2. [phase |-> "begun", rows |-> rows, publishes |-> b,
           seen |-> video, new |-> video] \in TxRecord
      BY <1>1, <2>1, TxRecordIs DEF Opening, TypeInv
    <2> QED
      BY <1>1, <2>2 DEF Opening, Begin, TypeInv
  <1>2. ASSUME NEW t \in Transactions, Derive(t) PROVE TypeInv'
    <2>1. tx' \in [Transactions -> TxRecord]
      <3>1. \A u \in Transactions : tx'[u] \in TxRecord
        BY <1>2, DeriveTx DEF TypeInv, Derived
      <3>2. tx' = [tx EXCEPT ![t].phase = "derived", ![t].new = NewRow(t)]
        BY <1>2 DEF Derive, NewRow
      <3>3. tx' = [u \in Transactions |-> tx'[u]]
        BY <3>2 DEF TypeInv
      <3> QED
        BY <3>1, <3>3
    <2>2. CompletedRenditions(View(t)) \subseteq Renditions
      BY DEF CompletedRenditions, View
    <2> QED
      BY <1>2, <2>1, <2>2 DEF Derive, TypeInv
  <1>3. ASSUME NEW t \in Transactions, Commit(t) PROVE TypeInv'
    <2>1. rendition' \in [Renditions -> RenditionStatus]
      BY <1>3, ViewIs DEF Commit
    <2>2. video' \in VideoRow
      BY <1>3, WrittenRow DEF Commit
    <2>3. tx' \in [Transactions -> TxRecord]
      BY <1>3, ClosedIsRecord DEF Commit, TypeInv
    <2>4. attempts' \in [Renditions -> Nat]
      BY <1>3 DEF Commit, TypeInv
    <2> QED
      BY <1>3, <2>1, <2>2, <2>3, <2>4 DEF Commit, TypeInv
  <1>4. ASSUME NEW t \in Transactions, Rollback(t) PROVE TypeInv'
    BY <1>4, ClosedIsRecord DEF Rollback, TypeInv
  <1>5. CASE UNCHANGED vars
    BY <1>5 DEF vars, TypeInv
  <1> QED
    BY <1>1, <1>2, <1>3, <1>4, <1>5, Steps

-----------------------------------------------------------------------------
\* Row locks.

\* What an open transaction holds: some active renditions, nobody else's, to
\* which it gives a status that is due.
Holds(t) ==
    /\ DOMAIN tx[t].rows # {}
    /\ \A r \in DOMAIN tx[t].rows :
          /\ rendition[r] \in Active
          /\ Due(r, tx[t].rows[r])
          /\ tx[t].publishes = FALSE => tx[t].rows[r] \notin {"done", "skipped"}

LocksInv ==
    /\ \A r \in Renditions : attempts[r] <= MaxAttempts
    /\ \A t \in Transactions : Open(t) => Holds(t)
    /\ \A t, u \in Transactions :
          t # u /\ Open(t) /\ Open(u) =>
              DOMAIN tx[t].rows \cap DOMAIN tx[u].rows = {}

\* What a commit does to a rendition.
LEMMA CommitRendition ==
  ASSUME TypeInv, NEW t \in Transactions, Commit(t), NEW r \in Renditions
  PROVE  /\ r \notin DOMAIN tx[t].rows =>
               rendition'[r] = rendition[r] /\ attempts'[r] = attempts[r]
         /\ r \in DOMAIN tx[t].rows =>
               /\ rendition'[r] = tx[t].rows[r]
               /\ tx[t].rows[r] # "running" => attempts'[r] = attempts[r]
               /\ tx[t].rows[r] = "running" => attempts'[r] = attempts[r] + 1
  BY DEF Commit, View, TypeInv

LEMMA LocksStep == TypeInv /\ LocksInv /\ [Next]_vars => LocksInv'
  <1> SUFFICES ASSUME TypeInv, LocksInv, [Next]_vars PROVE LocksInv'
    OBVIOUS
  <1>1. ASSUME NEW t \in Transactions, NEW rows, NEW b, Opening(t, rows, b)
        PROVE  LocksInv'
    <2>0. Begun(tx'[t], rows, b)
      BY <1>1, BeginTx DEF Opening
    <2>1. /\ UNCHANGED <<rendition, attempts>>
          /\ tx'[t].rows = rows /\ tx'[t].publishes = b
          /\ \A u \in Transactions \ {t} : tx'[u] = tx[u]
      BY <1>1, <2>0, BeginTx, BegunFields DEF Opening, Begin
    <2>2. DOMAIN rows # {} /\ DOMAIN rows \subseteq Renditions
      BY <1>1 DEF Opening
    <2>3. b = FALSE => \A r \in DOMAIN rows : rows[r] \notin {"done", "skipped"}
      BY <1>1 DEF Opening
    <2>4. \A r \in DOMAIN rows :
             /\ rendition[r] \in Active /\ ~Locked(r)
             /\ Due(r, rows[r])
      BY <1>1 DEF Opening
    <2>5. Holds(t)'
      BY <2>1, <2>2, <2>3, <2>4 DEF Holds, Due, MayRetry
    <2>6. \A u \in Transactions \ {t} : (Open(u)' <=> Open(u)) /\ (Holds(u) => Holds(u)')
      BY <2>1 DEF Holds, Open, Due, MayRetry
    <2>7. \A u \in Transactions \ {t} : Open(u) => DOMAIN rows \cap DOMAIN tx[u].rows = {}
      BY <2>4 DEF Locked
    <2> QED
      BY <2>1, <2>5, <2>6, <2>7 DEF LocksInv
  <1>2. ASSUME NEW t \in Transactions, Derive(t) PROVE LocksInv'
    <2>1. /\ UNCHANGED <<rendition, attempts>>
          /\ tx[t].phase = "begun" /\ tx'[t].phase = "derived"
          /\ tx'[t].rows = tx[t].rows
          /\ \A u \in Transactions \ {t} : tx'[u] = tx[u]
      BY <1>2, DeriveTx DEF Derive, Derived
    <2>2. tx'[t].publishes = tx[t].publishes
      BY <1>2, DeriveTx DEF Derived
    <2>3. \A u \in Transactions : Open(u)' <=> Open(u)
      BY <2>1 DEF Open
    <2>4. \A u \in Transactions : tx'[u].rows = tx[u].rows
      BY <2>1
    <2>5. \A u \in Transactions : tx'[u].publishes = tx[u].publishes
      BY <2>1, <2>2
    <2>6. \A u \in Transactions : Holds(u) => Holds(u)'
      BY <2>1, <2>4, <2>5 DEF Holds, Due, MayRetry
    <2> QED
      BY <2>1, <2>3, <2>4, <2>6 DEF LocksInv
  <1>3. ASSUME NEW t \in Transactions, Commit(t) PROVE LocksInv'
    <2>1. tx'[t] = Closed /\ \A u \in Transactions \ {t} : tx'[u] = tx[u]
      BY <1>3, CloseTx
    <2>2. Open(t)
      BY <1>3 DEF Commit, Open
    <2>3. ~Open(t)'
      BY <2>1 DEF Open, Closed
    <2>4. ASSUME NEW u \in Transactions, u # t, Open(u)
          PROVE  Holds(u)'
      <3>1. DOMAIN tx[u].rows \subseteq Renditions
        BY RowsAre
      <3>2. \A r \in DOMAIN tx[u].rows :
               rendition'[r] = rendition[r] /\ attempts'[r] = attempts[r]
        BY <1>3, <2>2, <2>4, <3>1, CommitRendition DEF LocksInv
      <3>3. Holds(u) /\ tx'[u] = tx[u]
        BY <2>1, <2>4 DEF LocksInv
      <3> QED
        BY <3>2, <3>3 DEF Holds, Due, MayRetry
    <2>5. \A r \in Renditions : attempts'[r] <= MaxAttempts
      <3> SUFFICES ASSUME NEW r \in Renditions PROVE attempts'[r] <= MaxAttempts
        OBVIOUS
      <3>1. attempts[r] \in Nat /\ attempts[r] <= MaxAttempts /\ MaxAttempts \in Nat
        BY FinalizeAssumption DEF TypeInv, LocksInv
      <3>2. r \in DOMAIN tx[t].rows /\ tx[t].rows[r] = "running" => attempts[r] < MaxAttempts
        BY <2>2 DEF LocksInv, Holds, Due, MayRetry
      <3> QED
        BY <1>3, <3>1, <3>2, CommitRendition
    <2>6. \A u \in Transactions \ {t} : Open(u)' <=> Open(u)
      BY <2>1 DEF Open
    <2> QED
      BY <2>1, <2>3, <2>4, <2>5, <2>6 DEF LocksInv
  <1>4. ASSUME NEW t \in Transactions, Rollback(t) PROVE LocksInv'
    <2>1. tx'[t] = Closed /\ \A u \in Transactions \ {t} : tx'[u] = tx[u]
      BY <1>4, CloseTx
    <2>2. UNCHANGED <<rendition, attempts>> /\ ~Open(t)'
      BY <1>4, <2>1 DEF Rollback, Open, Closed
    <2>3. \A u \in Transactions \ {t} : (Open(u)' <=> Open(u)) /\ (Holds(u) => Holds(u)')
      BY <2>1, <2>2 DEF Open, Holds, Due, MayRetry
    <2> QED
      BY <2>1, <2>2, <2>3 DEF LocksInv
  <1>5. CASE UNCHANGED vars
    BY <1>5 DEF vars, LocksInv, Holds, Open, Due, MayRetry
  <1> QED
    BY <1>1, <1>2, <1>3, <1>4, <1>5, Steps

-----------------------------------------------------------------------------
\* What the video row and the master playlist say.

\* A derived transaction that would set playback_path has seen every other
\* rendition finished, and the playlist it uploaded is still there.  One that
\* would say done would also set playback_path.
Promise(t) ==
    /\ tx[t].new.playback = TRUE =>
          /\ ~HasActiveRenditions(View(t))
          /\ master = CompletedRenditions(View(t))
          /\ master # {}
    /\ tx[t].new.status = "done" =>
          /\ tx[t].new.playback = TRUE
          /\ \A r \in Renditions : View(t)[r] \in {"done", "skipped"}

ResultInv ==
    /\ PlaybackIsComplete /\ DoneIsPlayable
    /\ \A t \in Transactions :
          /\ Open(t) => tx[t].seen.playback = FALSE
          /\ tx[t].phase = "derived" => Promise(t)

\* While a transaction is open, some rendition is active.
LEMMA OpenIsActive ==
  ASSUME TypeInv, LocksInv, NEW t \in Transactions, Open(t)
  PROVE  \E r \in Renditions : rendition[r] \in Active
  BY RowsAre DEF LocksInv, Holds

\* So nothing is published yet and the video is not done.
LEMMA OpenIsUnfinished ==
  ASSUME TypeInv, LocksInv, ResultInv, NEW t \in Transactions, Open(t)
  PROVE  video.playback = FALSE /\ video.status # "done"
  <1>1. PICK r \in Renditions : rendition[r] \in Active
    BY OpenIsActive
  <1>2. HasActiveRenditions(rendition)
    BY <1>1 DEF HasActiveRenditions, TypeInv
  <1>3. ~video.playback
    BY <1>2 DEF ResultInv, PlaybackIsComplete
  <1>4. video.playback \in BOOLEAN
    BY DEF TypeInv, VideoRow
  <1>5. video.playback = FALSE
    BY <1>3, <1>4
  <1>6. video.status # "done"
    BY <1>1 DEF ResultInv, DoneIsPlayable, Active
  <1> QED
    BY <1>5, <1>6

\* A transaction that sees nothing active is the only one open, and there is
\* nothing that another one could lock.
LEMMA LastOne ==
  ASSUME TypeInv, LocksInv, NEW t \in Transactions,
         ~HasActiveRenditions(View(t))
  PROVE  /\ \A r \in Renditions \ DOMAIN tx[t].rows : rendition[r] \notin Active
         /\ Open(t) => \A u \in Transactions \ {t} : ~Open(u)
  <1>1. \A r \in Renditions \ DOMAIN tx[t].rows : rendition[r] \notin Active
    BY DEF HasActiveRenditions, View
  <1>2. ASSUME Open(t), NEW u \in Transactions \ {t}, Open(u) PROVE FALSE
    <2>1. PICK r \in DOMAIN tx[u].rows : rendition[r] \in Active
      BY <1>2 DEF LocksInv, Holds
    <2>2. r \in Renditions \ DOMAIN tx[t].rows
      BY <1>2, RowsAre DEF LocksInv
    <2> QED
      BY <1>1, <2>1, <2>2
  <1> QED
    BY <1>1, <1>2

\* What a finishing transaction derives keeps the promise.
LEMMA DeriveKeepsPromise ==
  ASSUME TypeInv, LocksInv, ResultInv, NEW t \in Transactions, Derive(t)
  PROVE  Promise(t)'
  <1>1. /\ tx'[t].new = NewRow(t) /\ tx'[t].rows = tx[t].rows
        /\ UNCHANGED rendition
    BY DeriveTx DEF Derived, Derive
  <1>2. View(t)' = View(t)
    BY <1>1 DEF View
  <1>3. Open(t) /\ Holds(t) /\ tx[t].seen.playback = FALSE
    BY DEF Derive, Open, LocksInv, ResultInv
  <1>4. tx[t].publishes \in BOOLEAN
    BY RowsAre
  <1>5. ASSUME tx[t].publishes = FALSE
        PROVE  NewRow(t).playback = FALSE /\ NewRow(t).status # "done"
    <2>1. NewRow(t).playback = FALSE
      BY <1>3, <1>5 DEF NewRow
    <2>2. PICK r \in DOMAIN tx[t].rows : tx[t].rows[r] \notin {"done", "skipped"}
      BY <1>3, <1>5 DEF Holds
    <2>3. r \in DOMAIN View(t) /\ View(t)[r] = tx[t].rows[r]
      BY RowsAre DEF View
    <2>4. DeriveVideoStatus(View(t)) # "done"
      BY <2>2, <2>3, DerivedDone
    <2> QED
      BY <2>1, <2>4 DEF NewRow
  <1>6. ASSUME tx[t].publishes = TRUE
        PROVE  /\ NewRow(t).playback = TRUE =>
                     ~HasActiveRenditions(View(t)) /\ CompletedRenditions(View(t)) # {}
               /\ NewRow(t).status = "done" =>
                     /\ NewRow(t).playback = TRUE
                     /\ \A r \in Renditions : View(t)[r] \in {"done", "skipped"}
    <2>1. NewRow(t).playback = PlaybackAfter(View(t), FALSE)
      BY <1>3, <1>6 DEF NewRow
    <2>2. ASSUME NewRow(t).status = "done"
          PROVE  /\ \A r \in Renditions : View(t)[r] \in {"done", "skipped"}
                 /\ ~HasActiveRenditions(View(t))
                 /\ CompletedRenditions(View(t)) # {}
      <3>1. DeriveVideoStatus(View(t)) = "done"
        BY <2>2 DEF NewRow
      <3>2. DOMAIN View(t) = Renditions
        BY DEF View
      <3> QED
        BY <3>1, <3>2, DerivedDone DEF HasActiveRenditions, CompletedRenditions, Active
    <2> QED
      BY <2>1, <2>2 DEF PlaybackAfter
  <1>7. ASSUME tx[t].publishes = TRUE, NewRow(t).playback = TRUE
        PROVE  master' = CompletedRenditions(View(t))
    BY <1>6, <1>7 DEF Derive, Ready
  <1> QED
    BY <1>1, <1>2, <1>4, <1>5, <1>6, <1>7 DEF Promise

\* What a commit makes of the video row, from what the transaction promised.
LEMMA CommitKeepsPromise ==
  ASSUME TypeInv, LocksInv, ResultInv, NEW t \in Transactions, Commit(t)
  PROVE  /\ (PlaybackIsComplete /\ DoneIsPlayable)'
         /\ \A u \in Transactions \ {t} : tx[u].phase = "derived" =>
               tx[u].new.playback # TRUE /\ tx[u].new.status # "done"
  <1>1. Open(t) /\ Promise(t) /\ tx[t].seen.playback = FALSE
    BY DEF Commit, Open, ResultInv
  <1>2. video.playback = FALSE /\ video.status # "done"
    BY <1>1, OpenIsUnfinished
  <1>3. rendition' = View(t) /\ master' = master
    BY DEF Commit
  <1>4. tx[t].new.playback \in BOOLEAN
    BY RowsAre DEF VideoRow
  <1>5. video'.playback = tx[t].new.playback
    BY <1>1, <1>2, <1>4 DEF Commit, Written
  <1>6. video'.status = "done" => tx[t].new.status = "done"
    BY <1>2 DEF Commit, Written
  <1>7. PlaybackIsComplete'
    BY <1>1, <1>3, <1>5 DEF Promise, PlaybackIsComplete
  <1>8. DoneIsPlayable'
    BY <1>1, <1>3, <1>5, <1>6 DEF Promise, DoneIsPlayable
  <1>9. ASSUME NEW u \in Transactions \ {t}, tx[u].phase = "derived"
        PROVE  tx[u].new.playback # TRUE /\ tx[u].new.status # "done"
    <2>1. Open(u) /\ Promise(u)
      BY <1>9 DEF Open, ResultInv
    <2>2. tx[u].new.playback # TRUE
      BY <1>1, <2>1, LastOne DEF Promise
    <2> QED
      BY <2>1, <2>2 DEF Promise
  <1> QED
    BY <1>7, <1>8, <1>9

LEMMA ResultStep == TypeInv /\ LocksInv /\ ResultInv /\ [Next]_vars => ResultInv'
  <1> SUFFICES ASSUME TypeInv, LocksInv, ResultInv, [Next]_vars PROVE ResultInv'
    OBVIOUS
  <1>1. ASSUME NEW t \in Transactions, NEW rows, NEW b, Opening(t, rows, b)
        PROVE  ResultInv'
    <2>1. Begun(tx'[t], rows, b) /\ \A u \in Transactions \ {t} : tx'[u] = tx[u]
      BY <1>1, BeginTx DEF Opening
    <2>2. UNCHANGED <<rendition, video, master>>
      BY <1>1 DEF Opening, Begin
    <2>3. tx'[t].phase = "begun" /\ tx'[t].seen = video
      BY <2>1, BegunFields
    <2>4. PICK r \in Renditions : rendition[r] \in Active
      BY <1>1 DEF Opening
    <2>5. video.playback = FALSE
      <3>1. HasActiveRenditions(rendition)
        BY <2>4 DEF HasActiveRenditions, TypeInv
      <3>2. ~video.playback
        BY <3>1 DEF ResultInv, PlaybackIsComplete
      <3>3. video.playback \in BOOLEAN
        BY DEF TypeInv, VideoRow
      <3> QED
        BY <3>2, <3>3
    <2>6. \A u \in Transactions : tx'[u].phase = "derived" => Promise(u)'
      BY <2>1, <2>2, <2>3 DEF ResultInv, Promise, View
    <2>7. \A u \in Transactions : Open(u)' => tx'[u].seen.playback = FALSE
      BY <2>1, <2>3, <2>5 DEF ResultInv, Open
    <2>8. (PlaybackIsComplete /\ DoneIsPlayable)'
      BY <2>2 DEF ResultInv, PlaybackIsComplete, DoneIsPlayable
    <2> QED
      BY <2>6, <2>7, <2>8 DEF ResultInv
  <1>2. ASSUME NEW t \in Transactions, Derive(t) PROVE ResultInv'
    <2>1. Derived(tx'[t], tx[t], NewRow(t)) /\ \A u \in Transactions \ {t} : tx'[u] = tx[u]
      BY <1>2, DeriveTx
    <2>2. UNCHANGED <<rendition, video>> /\ Open(t)
      BY <1>2 DEF Derive, Open
    <2>3. video.playback = FALSE /\ video.status # "done"
      BY <2>2, OpenIsUnfinished
    <2>4. \A u \in Transactions : Open(u)' => tx'[u].seen.playback = FALSE
      BY <2>1, <2>2 DEF ResultInv, Open, Derived
    <2>5. ASSUME NEW u \in Transactions \ {t}, tx[u].phase = "derived"
          PROVE  Promise(u)'
      <3>1. Promise(u) /\ Open(u)
        BY <2>5 DEF ResultInv, Open
      <3>2. tx[u].new.playback # TRUE /\ tx[u].new.status # "done"
        BY <2>2, <3>1, LastOne DEF Promise
      <3> QED
        BY <2>1, <3>2 DEF Promise
    <2>6. \A u \in Transactions : tx'[u].phase = "derived" => Promise(u)'
      BY <1>2, <2>1, <2>5, DeriveKeepsPromise
    <2>7. (PlaybackIsComplete /\ DoneIsPlayable)'
      BY <2>2, <2>3 DEF PlaybackIsComplete, DoneIsPlayable
    <2> QED
      BY <2>4, <2>6, <2>7 DEF ResultInv
  <1>3. ASSUME NEW t \in Transactions, Commit(t) PROVE ResultInv'
    <2>1. tx'[t] = Closed /\ \A u \in Transactions \ {t} : tx'[u] = tx[u]
      BY <1>3, CloseTx
    <2>2. tx'[t].phase = "closed"
      BY <2>1 DEF Closed
    <2>3. \A u \in Transactions : Open(u)' => tx'[u].seen.playback = FALSE
      BY <2>1, <2>2 DEF ResultInv, Open
    <2>4. \A u \in Transactions : tx'[u].phase = "derived" => Promise(u)'
      BY <1>3, <2>1, <2>2, CommitKeepsPromise DEF Promise
    <2> QED
      BY <1>3, <2>3, <2>4, CommitKeepsPromise DEF ResultInv
  <1>4. ASSUME NEW t \in Transactions, Rollback(t) PROVE ResultInv'
    <2>1. tx'[t] = Closed /\ \A u \in Transactions \ {t} : tx'[u] = tx[u]
      BY <1>4, CloseTx
    <2>2. UNCHANGED <<rendition, video, master>> /\ tx'[t].phase = "closed"
      BY <1>4, <2>1 DEF Rollback, Closed
    <2>3. \A u \in Transactions : Open(u)' => tx'[u].seen.playback = FALSE
      BY <2>1, <2>2 DEF ResultInv, Open
    <2>4. \A u \in Transactions : tx'[u].phase = "derived" => Promise(u)'
      BY <2>1, <2>2 DEF ResultInv, Promise, View
    <2>5. (PlaybackIsComplete /\ DoneIsPlayable)'
      BY <2>2 DEF ResultInv, PlaybackIsComplete, DoneIsPlayable
    <2> QED
      BY <2>3, <2>4, <2>5 DEF ResultInv
  <1>5. CASE UNCHANGED vars
    BY <1>5 DEF vars, ResultInv, Open, Promise, View, PlaybackIsComplete, DoneIsPlayable
  <1> QED
    BY <1>1, <1>2, <1>3, <1>4, <1>5, Steps

-----------------------------------------------------------------------------
\* The theorems.

VideoInv == TypeInv /\ LocksInv /\ ResultInv

LEMMA VideoInit == Init => VideoInv
  <1> SUFFICES ASSUME Init PROVE VideoInv
    OBVIOUS
  <1>1. TypeInv
    BY TypeInit
  <1>2. \A t \in Transactions : tx[t].phase = "closed"
    BY DEF Init, Closed
  <1>3. LocksInv
    BY <1>2, FinalizeAssumption DEF Init, LocksInv, Open
  <1>4. video.playback = FALSE /\ video.status = "pending"
    BY DEF Init, Fresh
  <1>5. ResultInv
    BY <1>2, <1>4 DEF ResultInv, Open, PlaybackIsComplete, DoneIsPlayable
  <1> QED
    BY <1>1, <1>3, <1>5 DEF VideoInv

\* The inductive invariant, however transactions overlap, fail and crash.
THEOREM VideoSafety == Spec => []VideoInv
  <1>1. VideoInv /\ [Next]_vars => VideoInv'
    BY TypeStep, LocksStep, ResultStep DEF VideoInv
  <1> QED
    BY <1>1, VideoInit, PTL DEF Spec

\* Every variable keeps its type and no job exceeds its attempts.
THEOREM VideoTypes == Spec => []TypeOK
  <1>1. VideoInv => TypeOK
    <2> SUFFICES ASSUME VideoInv PROVE TypeOK
      OBVIOUS
    <2>1. \A r \in Renditions : attempts[r] \in 0..MaxAttempts
      BY FinalizeAssumption DEF VideoInv, TypeInv, LocksInv
    <2> QED
      BY <2>1 DEF VideoInv, TypeInv, TypeOK
  <1> QED
    BY <1>1, VideoSafety, PTL

\* A video gets its playback_path only with a complete master playlist.
THEOREM PlaybackComplete == Spec => []PlaybackIsComplete
  <1>1. VideoInv => PlaybackIsComplete
    BY DEF VideoInv, ResultInv
  <1> QED
    BY <1>1, VideoSafety, PTL

\* A video that says done can be played.
THEOREM DonePlayable == Spec => []DoneIsPlayable
  <1>1. VideoInv => DoneIsPlayable
    BY DEF VideoInv, ResultInv
  <1> QED
    BY <1>1, VideoSafety, PTL

\* No transaction, however old what it read, changes a video that is done.
THEOREM DoneFinal == Spec => DoneIsFinal
  <1>1. VideoInv /\ [Next]_vars => [video.status = "done" => video' = video]_<<video>>
    <2> SUFFICES ASSUME VideoInv, Next, video.status = "done" PROVE video' = video
      BY DEF vars
    <2>1. \A t \in Transactions : ~Open(t)
      BY OpenIsUnfinished DEF VideoInv
    <2>2. \A t \in Transactions : ~Commit(t)
      BY <2>1 DEF Commit, Open
    <2> QED
      BY <2>2, Steps DEF VideoInv, Opening, Begin, Derive, Rollback
  <1> QED
    BY <1>1, VideoSafety, PTL DEF Spec, DoneIsFinal

-----------------------------------------------------------------------------
\* The renditions keep the ledger of their jobs.

Account == [r \in Renditions |->
              [status |-> IF rendition[r] = "skipped" THEN "done" ELSE rendition[r],
               attempts |-> attempts[r]]]

\* A commit moves the jobs it locked as the ledger says, and no other: what was
\* due when the transaction opened has stayed due, because nobody else holds
\* its rows.
LEMMA CommitInLedger ==
  ASSUME TypeInv, LocksInv, NEW t \in Transactions, Commit(t), NEW r \in Renditions
  PROVE  Account'[r] = Account[r] \/ Ledger!JobStep(r)
  <1> DEFINE s == tx[t].rows[r]
  <1>1. attempts[r] \in Nat /\ MaxAttempts \in Nat
    BY FinalizeAssumption DEF TypeInv
  <1>2. CASE r \notin DOMAIN tx[t].rows
    BY <1>2, CommitRendition DEF Account
  <1>3. CASE r \in DOMAIN tx[t].rows
    <2>1. Due(r, s)
      BY <1>3 DEF LocksInv, Holds, Commit, Open
    <2>2. /\ rendition'[r] = s
          /\ s # "running" => attempts'[r] = attempts[r]
          /\ s = "running" => attempts'[r] = attempts[r] + 1
      BY <1>3, CommitRendition
    <2>3. CASE s = "running"
      BY <2>1, <2>2, <2>3 DEF Due, MayRetry, Account, Ledger!JobStep, Ledger!Start, Ledger!Entry
    <2>4. CASE s \in {"done", "skipped"}
      BY <2>1, <2>2, <2>4 DEF Due, Account, Ledger!JobStep, Ledger!Complete, Ledger!Entry
    <2>5. CASE s = "pending"
      BY <2>1, <2>2, <2>5 DEF Due, MayRetry, Account, Ledger!JobStep, Ledger!Retry, Ledger!Entry
    <2>6. CASE s = "failed"
      BY <1>1, <2>1, <2>2, <2>6
         DEF Due, Active, MayRetry, Account, Ledger!JobStep, Ledger!GiveUp, Ledger!Entry
    <2> QED
      BY <2>1, <2>3, <2>4, <2>5, <2>6 DEF Due
  <1> QED
    BY <1>2, <1>3

\* However the transactions of a video overlap and roll back, its renditions
\* keep the ledger that the job queue keeps.
THEOREM VideoImplementsLedger == Spec => ImplementsLedger
  <1>1. Init => Ledger!LedgerInit
    BY DEF Init, Ledger!LedgerInit, Ledger!Entry
  <1>2. VideoInv /\ [Next]_vars => [Ledger!LedgerNext]_Account
    <2> SUFFICES ASSUME VideoInv, Next, Account' # Account PROVE Ledger!LedgerNext
      BY DEF vars, Account
    <2>1. PICK t \in Transactions : Commit(t)
      BY Steps DEF VideoInv, Opening, Begin, Derive, Rollback, Account
    <2>2. \A r \in Renditions : Account'[r] = Account[r] \/ Ledger!JobStep(r)
      BY <2>1, CommitInLedger DEF VideoInv
    <2> QED
      BY <2>2 DEF Ledger!LedgerNext, Account
  <1> QED
    BY <1>1, <1>2, VideoSafety, PTL DEF Spec, ImplementsLedger, Ledger!LedgerSpec, Account

-----------------------------------------------------------------------------
\* If the transactions of a video never overlap, its status is never stale.

SerialInv ==
    /\ video.status = DeriveVideoStatus(rendition)
    /\ \A t, u \in Transactions : Open(t) /\ Open(u) => t = u
    /\ \A t \in Transactions : Open(t) => tx[t].seen = video
    /\ \A t \in Transactions : tx[t].phase = "derived" =>
          tx[t].new.status = DeriveVideoStatus(View(t))

LEMMA SerialInit == Init => SerialInv
  <1> SUFFICES ASSUME Init PROVE SerialInv
    OBVIOUS
  <1>1. \A t \in Transactions : tx[t].phase = "closed"
    BY DEF Init, Closed
  <1>2. video.status = "pending"
    BY DEF Init, Fresh
  <1>3. DeriveVideoStatus(rendition) = "pending"
    BY DerivedPending, FinalizeAssumption DEF Init
  <1> QED
    BY <1>1, <1>2, <1>3 DEF SerialInv, Open

LEMMA SerialStep ==
  ASSUME ~Overlap, TypeInv, SerialInv, [Next]_vars
  PROVE  SerialInv'
  <1>1. ASSUME NEW t \in Transactions, NEW rows, NEW b, Opening(t, rows, b)
        PROVE  SerialInv'
    <2>1. Begun(tx'[t], rows, b) /\ \A u \in Transactions \ {t} : tx'[u] = tx[u]
      BY <1>1, BeginTx DEF Opening
    <2>2. UNCHANGED <<rendition, video>> /\ \A u \in Transactions : ~Open(u)
      BY <1>1 DEF Opening, Begin
    <2>3. tx'[t].phase = "begun" /\ tx'[t].seen = video
      BY <2>1, BegunFields
    <2>4. \A u \in Transactions : u = t \/ tx'[u].phase = "closed"
      BY <2>1, <2>2 DEF Open
    <2> QED
      BY <2>2, <2>3, <2>4 DEF SerialInv, Open
  <1>2. ASSUME NEW t \in Transactions, Derive(t) PROVE SerialInv'
    <2>1. /\ Derived(tx'[t], tx[t], NewRow(t))
          /\ \A u \in Transactions \ {t} : tx'[u] = tx[u]
      BY <1>2, DeriveTx
    <2>2. UNCHANGED <<rendition, video>> /\ Open(t)
      BY <1>2 DEF Derive, Open
    <2>3. /\ tx'[t].phase = "derived" /\ tx'[t].seen = tx[t].seen
          /\ tx'[t].rows = tx[t].rows
      BY <2>1 DEF Derived
    <2>4. tx'[t].new.status = DeriveVideoStatus(View(t))
      BY <2>1 DEF Derived, NewRow
    <2>5. View(t)' = View(t)
      BY <2>2, <2>3 DEF View
    <2>6. \A u \in Transactions \ {t} : tx'[u].phase = "closed"
      BY <2>1, <2>2 DEF SerialInv, Open
    <2> QED
      BY <2>2, <2>3, <2>4, <2>5, <2>6 DEF SerialInv, Open
  <1>3. ASSUME NEW t \in Transactions, Commit(t) PROVE SerialInv'
    <2>1. /\ tx[t].seen = video
          /\ tx[t].new.status = DeriveVideoStatus(View(t)) /\ Open(t)
      BY <1>3 DEF SerialInv, Open, Commit
    <2>2. rendition' = View(t) /\ video'.status = DeriveVideoStatus(View(t))
      BY <1>3, <2>1 DEF Commit, Written
    <2>3. tx'[t].phase = "closed" /\ \A u \in Transactions \ {t} : tx'[u] = tx[u]
      BY <1>3, CloseTx DEF Closed
    <2>4. \A u \in Transactions : tx'[u].phase = "closed"
      BY <2>1, <2>3 DEF SerialInv, Open
    <2> QED
      BY <2>2, <2>4 DEF SerialInv, Open
  <1>4. ASSUME NEW t \in Transactions, Rollback(t) PROVE SerialInv'
    <2>1. UNCHANGED <<rendition, video>> /\ Open(t)
      BY <1>4 DEF Rollback
    <2>2. tx'[t].phase = "closed" /\ \A u \in Transactions \ {t} : tx'[u] = tx[u]
      BY <1>4, CloseTx DEF Closed
    <2>3. \A u \in Transactions : tx'[u].phase = "closed"
      BY <2>1, <2>2 DEF SerialInv, Open
    <2> QED
      BY <2>1, <2>3 DEF SerialInv, Open
  <1>5. CASE UNCHANGED vars
    BY <1>5 DEF vars, SerialInv, Open, View
  <1> QED
    BY <1>1, <1>2, <1>3, <1>4, <1>5, Steps

\* Without overlap, the status of the video is the one its renditions imply.
THEOREM SerialStatus == ASSUME ~Overlap PROVE Spec => []StatusIsCurrent
  <1>1. TypeInv /\ SerialInv /\ [Next]_vars => SerialInv'
    BY SerialStep
  <1>2. TypeInv /\ [Next]_vars => TypeInv'
    BY TypeStep
  <1>3. SerialInv => StatusIsCurrent
    BY DEF SerialInv, StatusIsCurrent
  <1> QED
    BY <1>1, <1>2, <1>3, TypeInit, SerialInit, PTL DEF Spec

-----------------------------------------------------------------------------
\* The reader: VideoProgress.

\* Reading is no step of the encoding transactions.
LEMMA ReadingIsApart == ProgressSpec => Spec
  <1>1. [ProgressNext]_progressVars => [Next]_vars
    BY DEF ProgressNext, progressVars, ReadVideo, ReadRenditions
  <1> QED
    BY <1>1, PTL DEF ProgressSpec, ProgressInit, Spec

-----------------------------------------------------------------------------
\* Once every rendition is done or skipped, nothing changes them.
Finished == \A r \in Renditions : rendition[r] \in {"done", "skipped"}

LEMMA FinishedStays ==
  ASSUME VideoInv, Finished, [Next]_vars
  PROVE  rendition' = rendition
  <1>1. \A t \in Transactions : ~Open(t)
    BY OpenIsActive DEF VideoInv, Finished, Active
  <1>2. \A t \in Transactions : ~Commit(t)
    BY <1>1 DEF Open, Commit
  <1> QED
    BY <1>2, Steps DEF VideoInv, vars, Opening, Begin, Derive, Rollback

\* Nor a video that is done.
LEMMA DoneStays ==
  ASSUME VideoInv, video.status = "done", [Next]_vars
  PROVE  video' = video
  <1>1. \A t \in Transactions : ~Open(t)
    BY OpenIsUnfinished DEF VideoInv
  <1>2. \A t \in Transactions : ~Commit(t)
    BY <1>1 DEF Open, Commit
  <1> QED
    BY <1>2, Steps DEF VideoInv, vars, Opening, Begin, Derive, Rollback

-----------------------------------------------------------------------------
\* A full count of some renditions: one is done, and the others are done or
\* skipped.
Full(st) == Total(st) > 0 /\ Completed(st) = Total(st)

LEMMA FullCount ==
  ASSUME NEW st \in [Renditions -> RenditionStatus]
  PROVE  Full(st) <=> /\ \A r \in Renditions : st[r] \in {"done", "skipped"}
                      /\ \E r \in Renditions : st[r] = "done"
  <1> DEFINE done == {r \in Relevant(st) : st[r] = "done"}
  <1>1. Relevant(st) \subseteq Renditions /\ done \subseteq Relevant(st)
    BY DEF Relevant
  <1>2. IsFiniteSet(Relevant(st))
    BY <1>1, ProgressAssumption, FS_Subset
  <1>3. Completed(st) = Total(st) <=> done = Relevant(st)
    BY <1>1, <1>2, FS_Subset DEF Completed, Total
  <1>4. Total(st) > 0 <=> Relevant(st) # {}
    BY <1>2, FS_EmptySet, FS_CardinalityType DEF Total
  <1>5. done = Relevant(st) <=> \A r \in Renditions : st[r] \in {"done", "skipped"}
    BY DEF Relevant
  <1> QED
    BY <1>3, <1>4, <1>5 DEF Full, Relevant

\* Without renditions nothing is counted.
LEMMA NoCount == ~Full(NoRows)
  <1>1. Relevant(NoRows) = {}
    BY DEF Relevant, NoRows
  <1> QED
    BY <1>1, FS_EmptySet DEF Full, Total

-----------------------------------------------------------------------------
\* A status of done that was read is still the video's, so the renditions
\* read after it are finished.
ReaderInv ==
    /\ asked \in VideoStatus \cup {"nothing"} /\ answer.status \in VideoStatus
    /\ answer.renditions \in [Renditions -> RenditionStatus] \cup {NoRows}
    /\ asked = "done" => video.status = "done"
    /\ answer.status = "done" => Full(answer.renditions)
    /\ Full(answer.renditions) => Finished

LEMMA ReaderInit == ProgressInit => ReaderInv
  BY NoCount DEF ProgressInit, NoAnswer, ReaderInv, VideoStatus

LEMMA DoneIsFull ==
  ASSUME VideoInv, video.status = "done"
  PROVE  Finished /\ Full(rendition)
  <1>1. Finished /\ video.playback
    BY DEF VideoInv, ResultInv, DoneIsPlayable, Finished
  <1>2. \E r \in Renditions : rendition[r] = "done"
    BY <1>1 DEF VideoInv, TypeInv, ResultInv, PlaybackIsComplete, CompletedRenditions
  <1> QED
    BY <1>1, <1>2, FullCount DEF VideoInv, TypeInv, Finished

LEMMA ReaderStep ==
  ASSUME VideoInv, ReaderInv, [ProgressNext]_progressVars
  PROVE  ReaderInv'
  <1>1. CASE [Next]_vars /\ UNCHANGED <<asked, answer>>
    <2>1. asked' = "done" => video'.status = "done"
      BY <1>1, DoneStays DEF ReaderInv
    <2>2. Finished => Finished'
      BY <1>1, FinishedStays DEF Finished
    <2> QED
      BY <1>1, <2>1, <2>2 DEF ReaderInv, Full, Total, Completed, Relevant
  <1>2. CASE ReadVideo
    <2>1. video.status \in VideoStatus
      BY DEF VideoInv, TypeInv, VideoRow
    <2> QED
      BY <1>2, <2>1 DEF ReadVideo, ReaderInv, vars, Finished, Full, Total, Completed, Relevant
  <1>3. CASE ReadRenditions
    <2>1. /\ answer'.status = asked /\ answer'.renditions = rendition
          /\ asked' = "nothing" /\ rendition' = rendition
      BY <1>3 DEF ReadRenditions, vars
    <2>2. rendition \in [Renditions -> RenditionStatus]
      BY DEF VideoInv, TypeInv
    <2>3. asked = "done" => Full(rendition)
      BY DoneIsFull DEF ReaderInv
    <2>4. Full(rendition) => Finished'
      BY <2>1, <2>2, FullCount DEF Finished
    <2>5. asked \in VideoStatus
      BY <1>3 DEF ReadRenditions, ReaderInv
    <2> QED
      BY <2>1, <2>2, <2>3, <2>4, <2>5 DEF ReaderInv, Full, Total, Completed, Relevant, VideoStatus
  <1> QED
    BY <1>1, <1>2, <1>3 DEF ProgressNext, progressVars

\* What a page says is finished is finished, and a badge agrees with the
\* count: however transactions overlap, for all renditions and attempts.
THEOREM DoneCounted == ProgressSpec => []DoneIsCounted
  <1>1. ReaderInv => DoneIsCounted
    <2> SUFFICES ASSUME ReaderInv PROVE DoneIsCounted
      OBVIOUS
    <2>1. answer.status \in VideoStatus
      BY DEF ReaderInv
    <2>2. Badge["failed"] = "Failed" /\ MapStatus("failed") = "failed"
      BY DEF Badge, MapStatus
    <2>3. SaysDone => answer.status = "done"
      BY <2>1, <2>2 DEF SaysDone, TableLabel, DetailLabel, VideoStatus
    <2> QED
      BY <2>3 DEF ReaderInv, DoneIsCounted, CountIsFull, Full, Finished
  <1>2. ProgressSpec => []VideoInv
    BY ReadingIsApart, VideoSafety, PTL
  <1>3. VideoInv /\ ReaderInv /\ [ProgressNext]_progressVars => ReaderInv'
    BY ReaderStep
  <1> QED
    BY <1>1, <1>2, <1>3, ReaderInit, PTL DEF ProgressSpec
=============================================================================
