----------------------- MODULE NotifierObserverProofs -----------------------
(***************************************************************************)
(* Safety of the observation cycle for every number of conversations, every *)
(* page and batch size, every clock, and every number of turns, crashes,    *)
(* failed calls and repairs.                                               *)
(***************************************************************************)
EXTENDS NotifierObserver, WellFoundedInduction, TLAPS

-----------------------------------------------------------------------------
(***************************************************************************)
(* The inductive invariant.                                                *)
(***************************************************************************)

\* The statuses a read can return.
Shown == {"active", "completed", "failed", "interrupted"}

Has(S, t, i) == \E k \in S : k.thread = t /\ k.turn = i

TurnKey(t, i) == [thread |-> t, turn |-> i, status |-> SnapshotStatus(turns[t][i])]

\* A cursor points at a turn that exists, and at one that is over when it says so.
CursorFits(t, r, status) ==
  /\ r \in 1 .. Len(turns[t])
  /\ status \in Shown
  /\ status = "interrupted" => turns[t][r].status # "active"

\* Timestamps only trail, and a row with a cursor has been listed and read.
RowsFit ==
  \A t \in Threads :
    /\ rows[t].watermark <= updated[t]
    /\ updated[t] <= clock
    /\ rows[t].tracked => turns[t] # <<>>
    /\ rows[t].turn # NoTurn =>
         rows[t].tracked /\ rows[t].baseline /\ CursorFits(t, rows[t].turn, rows[t].status)

\* The page and the batch name conversations that exist, the batch only tracked ones.
EntriesFit ==
  /\ \A e \in page \cup due : turns[e.thread] # <<>> /\ e.at <= updated[e.thread]
  /\ \A e \in due : rows[e.thread].tracked

\* The read being stored is one of a conversation, and so are its notices.
SnapFits ==
  pc = "store" =>
    /\ snap.thread \in Threads /\ rows[snap.thread].tracked
    /\ CursorFits(snap.thread, snap.turn, snap.status)
    /\ \A k \in snap.announce : k.thread = snap.thread /\ k.turn \in 1 .. snap.turn

\* Every turn that the cursor answers for has a notice in S; the fourth part is the turn that
\* the cursor calls interrupted and that has its final answer.
Covered(t, r, status, S) ==
  /\ \A i \in 1 .. (r - 1) : (owed[t] <= i /\ NotifierTerminal(turns[t][i])) => Has(S, t, i)
  /\ (owed[t] <= r /\ status \in {"completed", "failed"})
       => [thread |-> t, turn |-> r, status |-> status] \in S
  /\ (/\ owed[t] <= r /\ status = "interrupted"
      /\ NotifierTerminal(turns[t][r]) /\ SnapshotStatus(turns[t][r]) = "interrupted")
       => Has(S, t, r)

CursorsKept ==
  \A t \in Threads :
    rows[t].turn # NoTurn => Covered(t, rows[t].turn, rows[t].status, Events)

\* The cursor the read will store answers for what is queued and what is about to be.
SnapKept ==
  (pc = "store" /\ rows[snap.thread].turn # NoTurn)
    => Covered(snap.thread, snap.turn, snap.status, Events \cup snap.announce)

\* A read with the present row would announce turn i.
Reports(t, i) == NotifierTerminal(turns[t][i]) /\ TerminalTransition(rows[t], i, turns[t][i])

\* What a read would announce before turn n is in S.
AnnouncedBefore(t, n, S) ==
  rows[t].turn # NoTurn =>
    \A i \in rows[t].turn .. (n - 1) : Reports(t, i) => TurnKey(t, i) \in S

\* A queued turn exists, and nothing before it waits to be queued.
QueueFits ==
  \A q \in Events :
    /\ q.turn \in 1 .. Len(turns[q.thread])
    /\ AnnouncedBefore(q.thread, q.turn, Events)

\* The notices of the read in progress are in the queue already or come after all that is.
SnapQueued ==
  pc = "store" =>
    /\ \A q \in Events : q.thread = snap.thread => q.turn <= snap.turn
    /\ AnnouncedBefore(snap.thread, snap.turn, Events \cup snap.announce)
    /\ \A k \in snap.announce :
         k \in Events \/ \A q \in Events : q.thread = k.thread => q.turn <= k.turn

\* While the list timestamp has not moved, and nothing else happened within its second, the
\* read in progress is the present state.
SnapFresh ==
  (pc = "store" /\ snap.thread \notin twice /\ rows[snap.thread].watermark = updated[snap.thread])
    => /\ snap.turn = Len(turns[snap.thread])
       /\ snap.status = SnapshotStatus(Latest(snap.thread))

FreshInv == CaughtUp /\ SnapFresh

FitInv == RowsFit /\ EntriesFit /\ SnapFits
KeptInv == CursorsKept /\ SnapKept
OrderInv == QueueFits /\ SnapQueued /\ QueueInTurnOrder

IInv == TypeOK /\ FitInv /\ KeptInv /\ OrderInv /\ FreshInv

-----------------------------------------------------------------------------
(***************************************************************************)
(* Least elements: what First and the next notice of a read choose.        *)
(***************************************************************************)

\* A set of numbers that is not empty has a least element.
LEMMA Least ==
  ASSUME NEW S \in SUBSET Nat, S # {}
  PROVE  \E n \in S : \A m \in S : n <= m
<1>1. \E n \in S : \A m \in S : ~(<<m, n>> \in OpToRel(<, Nat))
  BY NatLessThanWellFounded, WFMin, Zenon
<1>2. PICK n \in S : \A m \in S : ~(<<m, n>> \in OpToRel(<, Nat))
  BY <1>1, Zenon
<1>3. \A m \in S : m < n => <<m, n>> \in OpToRel(<, Nat)
  BY Zenon DEF OpToRel
<1>4. \A m \in S : ~(m < n)
  BY <1>2, <1>3, Zenon
<1> QED
  BY <1>4

\* Two entries with the same conversation and timestamp are the same.
LEMMA EntryFields ==
  ASSUME NEW e \in Entry
  PROVE  e.thread \in Threads /\ e.thread \in Nat /\ e.at \in Nat
         /\ e = [thread |-> e.thread, at |-> e.at]
BY ThreadsAssumption DEF Entry

\* First names an entry of a set that is not empty and whose timestamps are bounded.
LEMMA FirstIsIn ==
  ASSUME NEW S \in SUBSET Entry, S # {}, NEW b \in Nat, \A e \in S : e.at <= b
  PROVE  First(S) \in S
<1> DEFINE Ages == {b - e.at : e \in S}
<1>1. \A e \in S : e.at \in Nat /\ b - e.at \in Nat
  BY EntryFields
<1>2. PICK n \in Ages : \A m \in Ages : n <= m
  <2>1. Ages \in SUBSET Nat /\ Ages # {}
    BY <1>1
  <2> QED
    BY <2>1, Least
<1> DEFINE Newer == {e \in S : b - e.at = n}
           Ids == {e.thread : e \in Newer}
<1>3. PICK id \in Ids : \A m \in Ids : id <= m
  <2>1. Ids \in SUBSET Nat /\ Ids # {}
    BY EntryFields
  <2> QED
    BY <2>1, Least
<1>4. PICK f \in S : f.thread = id /\ b - f.at = n
  OBVIOUS
<1>5. ASSUME NEW x \in S, x # f
      PROVE  Precedes(f, x)
  <2>1. /\ x.at \in Nat /\ f.at \in Nat /\ x.thread \in Nat /\ f.thread \in Nat
        /\ ~(x.at = f.at /\ x.thread = f.thread)
    BY <1>5, EntryFields
  <2>2. b - f.at <= b - x.at
    BY <1>2, <1>4
  <2>3. x.at <= f.at
    BY <2>1, <2>2
  <2>4. CASE x.at = f.at
    <3>1. f.thread <= x.thread
      BY <1>3, <1>4, <2>4
    <3> QED
      BY <2>1, <2>4, <3>1 DEF Precedes
  <2> QED
    BY <2>1, <2>3, <2>4 DEF Precedes
<1>6. \E e \in S : \A x \in S : x = e \/ Precedes(e, x)
  BY <1>5
<1> QED
  BY <1>6 DEF First

\* What the newest entries of a set are drawn from.
LEMMA NewestIsPart ==
  ASSUME NEW S, NEW k
  PROVE  Newest(S, k) \subseteq S
BY DEF Newest

-----------------------------------------------------------------------------
(***************************************************************************)
(* Turns, rows and reads.                                                  *)
(***************************************************************************)

\* How a turn may change once it has been read.
Settles(x, y) == y = x \/ x.status = "active" \/ y.status = "completed"

\* What a read makes of a turn.
LEMMA TurnShown ==
  ASSUME NEW x \in Turn
  PROVE  /\ SnapshotStatus(x) \in Shown
         /\ SnapshotStatus(x) \in {"completed", "failed"} => NotifierTerminal(x)
         /\ NotifierTerminal(x) => SnapshotStatus(x) \in {"completed", "failed", "interrupted"}
         /\ SnapshotStatus(x) = "interrupted" => x.status # "active"
BY DEF Turn, RawStatuses, SnapshotStatus, Canonical, NormalizeFinalizedTurn, NotifierTerminal, Shown

\* A status that a read returned is canonical.
LEMMA ShownIsCanonical ==
  ASSUME NEW s \in Shown
  PROVE  Canonical(s) = s /\ s \in Statuses
BY DEF Shown, Canonical, Statuses, RawStatuses

\* The fields of a row.
LEMMA RowFields ==
  ASSUME NEW r \in Row
  PROVE  /\ r.tracked \in BOOLEAN /\ r.watermark \in Nat /\ r.turn \in Nat /\ r.status \in Statuses
         /\ r.baseline \in BOOLEAN /\ r.required \in BOOLEAN /\ r.deferUntil \in Nat
BY DEF Row

\* The fields of a read.
LEMMA SnapFields ==
  ASSUME NEW s \in Snap
  PROVE  /\ s.thread \in Nat /\ s.turn \in Nat /\ s.status \in Statuses
         /\ s.announce \in SUBSET Key
BY DEF Snap

\* The fields of a notice.
LEMMA KeyFields ==
  ASSUME NEW k \in Key
  PROVE  /\ k.thread \in Threads /\ k.turn \in Nat /\ k.status \in {"completed", "failed", "interrupted"}
         /\ k = [thread |-> k.thread, turn |-> k.turn, status |-> k.status]
BY DEF Key

\* Listing a conversation keeps its cursor and either re-arms the row or changes nothing.
LEMMA ObserveEffect ==
  ASSUME NEW r \in Row, NEW at \in Nat, r.turn # NoTurn => r.tracked
  PROVE  LET n == ObserveNotifierThread(r, at) IN
         /\ n \in Row /\ n.tracked /\ n.turn = r.turn
         /\ r.turn # NoTurn => n.status = r.status /\ (r.baseline => n.baseline)
         /\ n.watermark = at
         /\ n.required \/ n = r
<1>1. NoTurn \in Nat /\ NoStatus \in Statuses
  BY DEF NoTurn, Statuses
<1>2. CASE ~r.tracked
  BY <1>1, <1>2 DEF Row, Untracked, ObserveNotifierThread
<1>3. CASE r.tracked /\ at # r.watermark
  BY <1>3 DEF Row, ObserveNotifierThread
<1>4. CASE r.tracked /\ at = r.watermark
  BY <1>4 DEF ObserveNotifierThread
<1> QED
  BY <1>2, <1>3, <1>4

\* The baseline keeps the cursor and the timestamp, and rests only rows from before activation.
LEMMA BaselineEffect ==
  ASSUME NEW r \in Row, NEW a \in Nat
  PROVE  LET n == BaselineAtOrBefore(r, a) IN
         /\ n \in Row /\ n.tracked = r.tracked /\ n.turn = r.turn /\ n.status = r.status
         /\ r.baseline => n.baseline
         /\ n.watermark = r.watermark
         /\ n = r \/ n.watermark <= a
BY DEF Row, BaselineAtOrBefore

\* A deferred row stays due.
LEMMA DeferEffect ==
  ASSUME NEW r \in Row, NEW at \in Nat
  PROVE  LET n == DeferNotifierRead(r, at) IN
         /\ n \in Row /\ n.tracked = r.tracked /\ n.turn = r.turn /\ n.status = r.status
         /\ n.baseline = r.baseline
         /\ n.watermark = r.watermark /\ n.required
BY DEF Row, DeferNotifierRead

\* A recorded read moves the cursor, and the timestamp stays.
LEMMA RecordEffect ==
  ASSUME NEW r \in Row, NEW turn \in Nat, NEW status \in Statuses
  PROVE  LET n == RecordNotifierRead(r, turn, status) IN
         /\ n \in Row /\ n.tracked = r.tracked /\ n.turn = turn /\ n.status = status
         /\ n.baseline /\ n.watermark = r.watermark
BY DEF Row, RecordNotifierRead

-----------------------------------------------------------------------------
(***************************************************************************)
(* Codex: turns are added at the end, and only the last one changes.       *)
(***************************************************************************)

\* The conversations after a step of Codex.
TurnsGrow ==
  /\ turns' \in [Threads -> Seq(Turn)]
  /\ \A t \in Threads :
       /\ Len(turns[t]) <= Len(turns'[t])
       /\ \A i \in 1 .. Len(turns[t]) :
            /\ i < Len(turns[t]) => turns'[t][i] = turns[t][i]
            /\ Settles(turns[t][i], turns'[t][i])

\* Every conversation either stays or takes the time of the clock, and is in twice when it had it.
TimesMove ==
  /\ updated' \in [Threads -> Nat]
  /\ changed' \in SUBSET Threads /\ twice' \in SUBSET Threads
  /\ \A t \in Threads :
       \/ updated'[t] = updated[t] /\ turns'[t] = turns[t] /\ (t \in twice => t \in twice')
       \/ updated'[t] = clock /\ (updated[t] # clock \/ t \in twice')

\* The effect of changing the last turn.
LEMMA SetLatestEffect ==
  ASSUME CodexOK, NEW t \in Threads, turns[t] # <<>>, NEW x \in Turn,
         turns' = SetLatest(t, x), Settles(Latest(t), x)
  PROVE  TurnsGrow
<1> DEFINE n == Len(turns[t])
<1>1. /\ turns \in [Threads -> Seq(Turn)] /\ turns[t] \in Seq(Turn) /\ n \in Nat \ {0}
      /\ DOMAIN turns[t] = 1 .. n
  BY DEF CodexOK
<1>2. PICK s : s = [turns[t] EXCEPT ![n] = x]
  OBVIOUS
<1>3. /\ s \in Seq(Turn) /\ Len(s) = n
      /\ \A i \in 1 .. n : s[i] = IF i = n THEN x ELSE turns[t][i]
  BY <1>1, <1>2
<1>4. turns' = [turns EXCEPT ![t] = s]
  BY <1>2 DEF SetLatest
<1>5. turns' \in [Threads -> Seq(Turn)] /\ \A u \in Threads : turns'[u] = IF u = t THEN s ELSE turns[u]
  BY <1>1, <1>3, <1>4
<1>6. \A i \in 1 .. n : (i < n => s[i] = turns[t][i]) /\ Settles(turns[t][i], s[i])
  <2> TAKE i \in 1 .. n
  <2>1. CASE i = n
    BY <1>3, <2>1 DEF Latest
  <2>2. CASE i # n
    BY <1>3, <2>2 DEF Settles
  <2> QED
    BY <2>1, <2>2
<1>7. \A u \in Threads : u # t => \A i \in 1 .. Len(turns[u]) : Settles(turns[u][i], turns'[u][i])
  BY <1>5 DEF Settles
<1>8. \A u \in Threads : Len(turns[u]) \in Nat
  BY <1>1
<1> QED
  BY <1>3, <1>5, <1>6, <1>7, <1>8 DEF TurnsGrow

\* The effect of starting a turn.
LEMMA AppendEffect ==
  ASSUME CodexOK, NEW t \in Threads, NEW x \in Turn,
         turns' = [turns EXCEPT ![t] = Append(@, x)]
  PROVE  TurnsGrow
<1> DEFINE n == Len(turns[t])
<1>1. turns \in [Threads -> Seq(Turn)] /\ turns[t] \in Seq(Turn) /\ n \in Nat
  BY DEF CodexOK
<1>2. PICK s : s = Append(turns[t], x)
  OBVIOUS
<1>3. s \in Seq(Turn) /\ Len(s) = n + 1 /\ \A i \in 1 .. n : s[i] = turns[t][i]
  BY <1>1, <1>2
<1>4. turns' = [turns EXCEPT ![t] = s]
  BY <1>1, <1>2
<1>5. turns' \in [Threads -> Seq(Turn)] /\ \A u \in Threads : turns'[u] = IF u = t THEN s ELSE turns[u]
  BY <1>1, <1>3, <1>4
<1>6. \A u \in Threads : Len(turns[u]) \in Nat /\ Len(turns[u]) <= Len(turns'[u])
  BY <1>1, <1>3, <1>5
<1>7. \A u \in Threads : \A i \in 1 .. Len(turns[u]) : turns'[u][i] = turns[u][i]
  BY <1>3, <1>5
<1> QED
  BY <1>5, <1>6, <1>7 DEF TurnsGrow, Settles

\* The timestamp of the conversation that changed.
LEMMA UpdatedEffect ==
  ASSUME CodexOK, NEW t \in Threads, Stamp(t), changed' \in {changed, changed \cup {t}},
         \A u \in Threads : u # t => turns'[u] = turns[u]
  PROVE  TimesMove
<1>1. updated' \in [Threads -> Nat] /\ \A u \in Threads : updated'[u] = IF u = t THEN clock ELSE updated[u]
  BY DEF CodexOK, Stamp
<1>2. changed' \in SUBSET Threads /\ twice' \in SUBSET Threads
  BY DEF CodexOK, Stamp
<1>3. /\ \A u \in Threads : u # t => (u \in twice => u \in twice')
      /\ updated[t] # clock \/ t \in twice'
  BY DEF Stamp
<1> QED
  BY <1>1, <1>2, <1>3 DEF TimesMove

\* What a step of Codex does.
LEMMA CodexEffect ==
  ASSUME CodexOK, NEW t \in Threads, Codex(t)
  PROVE  TurnsGrow /\ TimesMove /\ UNCHANGED <<clock, store, cycle, session, ghosts>>
<1>0. turns \in [Threads -> Seq(Turn)] /\ turns[t] \in Seq(Turn)
  BY DEF CodexOK
<1>a. turns[t] # <<>> => Latest(t) \in Turn
  <2>1. turns[t] # <<>> => Len(turns[t]) \in 1 .. Len(turns[t])
    BY <1>0
  <2> QED
    BY <1>0, <2>1 DEF Latest
<1>b. ASSUME NEW x, turns' = SetLatest(t, x)
      PROVE  \A u \in Threads : u # t => turns'[u] = turns[u]
  BY <1>0, <1>b DEF SetLatest
<1>1. CASE StartTurn(t)
  <2>1. [status |-> "active", final |-> FALSE] \in Turn
    BY DEF Turn, RawStatuses
  <2>2. TurnsGrow
    BY <1>1, <2>1, AppendEffect DEF StartTurn
  <2>3. \A u \in Threads : u # t => turns'[u] = turns[u]
    BY <1>0, <1>1 DEF StartTurn
  <2> QED
    BY <1>1, <2>2, <2>3, UpdatedEffect DEF StartTurn, TurnChanges
<1>2. CASE FinalAnswer(t)
  <2>1. PICK x : x = [status |-> "active", final |-> ~Latest(t).final]
    OBVIOUS
  <2>a. (~Latest(t).final) \in BOOLEAN
    BY Zenon
  <2>2. x \in Turn /\ Settles(Latest(t), x)
    BY <1>2, <2>1, <2>a DEF FinalAnswer, Turn, RawStatuses, Settles
  <2>3. turns' = SetLatest(t, x)
    BY <1>2, <2>1 DEF FinalAnswer
  <2>4. TurnsGrow
    BY <1>2, <2>2, <2>3, SetLatestEffect DEF FinalAnswer
  <2> QED
    BY <1>2, <1>b, <2>3, <2>4, UpdatedEffect DEF FinalAnswer, TurnChanges
<1>3. CASE FinishTurn(t)
  <2>1. PICK s \in FinishStatuses, f \in BOOLEAN :
          turns' = SetLatest(t, [status |-> s, final |-> f])
    BY <1>3 DEF FinishTurn
  <2>2. PICK x : x = [status |-> s, final |-> f]
    OBVIOUS
  <2>3. s \in RawStatuses
    BY StatusAssumption DEF RawStatuses
  <2>5. x \in Turn
    BY <2>2, <2>3 DEF Turn
  <2>6. Settles(Latest(t), x)
    BY <1>3 DEF FinishTurn, Settles
  <2>7. TurnsGrow
    BY <1>3, <2>1, <2>2, <2>5, <2>6, SetLatestEffect DEF FinishTurn
  <2> QED
    BY <1>3, <1>b, <2>1, <2>7, UpdatedEffect DEF FinishTurn, TurnChanges
<1>4. CASE SettleTurn(t)
  <2>1. PICK x : x = [status |-> "completed", final |-> TRUE]
    OBVIOUS
  <2>2. x \in Turn /\ Settles(Latest(t), x)
    BY <2>1 DEF Turn, RawStatuses, Settles
  <2>3. turns' = SetLatest(t, x)
    BY <1>4, <2>1 DEF SettleTurn
  <2>4. TurnsGrow
    BY <1>4, <2>2, <2>3, SetLatestEffect DEF SettleTurn
  <2> QED
    BY <1>4, <1>b, <2>3, <2>4, UpdatedEffect DEF SettleTurn, TurnChanges
<1>5. CASE TouchThread(t)
  <2>1. turns' = turns
    BY <1>5 DEF TouchThread
  <2>2. TurnsGrow
    BY <1>0, <2>1 DEF TurnsGrow, Settles
  <2> QED
    BY <1>5, <2>1, <2>2, UpdatedEffect DEF TouchThread
<1> QED
  BY <1>1, <1>2, <1>3, <1>4, <1>5 DEF Codex

\* A cursor keeps pointing at its turn.
LEMMA CursorFitsStays ==
  ASSUME CodexOK, TurnsGrow, NEW t \in Threads, NEW r, NEW status, CursorFits(t, r, status)
  PROVE  CursorFits(t, r, status)'
<1>1. Len(turns[t]) \in Nat /\ Len(turns'[t]) \in Nat
  BY DEF CodexOK, TurnsGrow
<1>2. r \in 1 .. Len(turns'[t])
  BY <1>1 DEF TurnsGrow, CursorFits
<1>3. status = "interrupted" => turns'[t][r].status # "active"
  <2>1. SUFFICES ASSUME status = "interrupted"
                 PROVE  turns'[t][r].status # "active"
    OBVIOUS
  <2>2. Settles(turns[t][r], turns'[t][r]) /\ turns[t][r].status # "active"
    BY <2>1 DEF TurnsGrow, CursorFits
  <2> QED
    BY <2>2 DEF Settles
<1> QED
  BY <1>2, <1>3 DEF CursorFits

\* What a cursor answers for does not grow while the turns do.
LEMMA CoveredStays ==
  ASSUME CodexOK, TurnsGrow, owed' = owed, NEW t \in Threads, NEW r, NEW status, NEW S,
         CursorFits(t, r, status), Covered(t, r, status, S)
  PROVE  Covered(t, r, status, S)'
<1>1. r \in 1 .. Len(turns[t]) /\ Len(turns[t]) \in Nat
  BY DEF CodexOK, CursorFits
<1>2. \A i \in 1 .. (r - 1) : turns'[t][i] = turns[t][i]
  BY <1>1 DEF TurnsGrow
<1>3. \A i \in 1 .. (r - 1) : (owed'[t] <= i /\ NotifierTerminal(turns'[t][i])) => Has(S, t, i)
  BY <1>2 DEF Covered
<1>4. ASSUME status = "interrupted", SnapshotStatus(turns'[t][r]) = "interrupted"
      PROVE  turns'[t][r] = turns[t][r]
  BY <1>1, <1>4 DEF TurnsGrow, Settles, CursorFits, SnapshotStatus, Canonical, NormalizeFinalizedTurn
<1>5. (/\ owed'[t] <= r /\ status = "interrupted"
       /\ NotifierTerminal(turns'[t][r]) /\ SnapshotStatus(turns'[t][r]) = "interrupted")
        => Has(S, t, r)
  BY <1>4 DEF Covered
<1>6. (owed'[t] <= r /\ status \in {"completed", "failed"})
        => [thread |-> t, turn |-> r, status |-> status] \in S
  BY DEF Covered
<1> QED
  BY <1>3, <1>5, <1>6 DEF Covered, Has

\* Nor does what a read would announce before a turn that exists.
LEMMA AnnouncedBeforeStays ==
  ASSUME CodexOK, TurnsGrow, rows' = rows, NEW t \in Threads, rows[t] \in Row, NEW S,
         NEW n \in 1 .. Len(turns[t]), AnnouncedBefore(t, n, S)
  PROVE  AnnouncedBefore(t, n, S)'
<1>1. Len(turns[t]) \in Nat /\ rows[t].turn \in Nat
  BY RowFields DEF CodexOK
<1>2. ASSUME rows[t].turn # NoTurn
      PROVE  \A i \in rows[t].turn .. (n - 1) : turns'[t][i] = turns[t][i]
  BY <1>1, <1>2 DEF TurnsGrow, NoTurn
<1> QED
  BY <1>2 DEF AnnouncedBefore, Reports, TurnKey

\* A step of Codex keeps the invariant.
LEMMA CodexKeeps ==
  ASSUME IInv, NEW u \in Threads, Codex(u)
  PROVE  IInv'
<1>0. CodexOK /\ StoreOK /\ CycleOK /\ RestOK
  BY DEF IInv, TypeOK
<1>1. TurnsGrow /\ TimesMove /\ UNCHANGED <<clock, store, cycle, session, ghosts>>
  BY <1>0, CodexEffect
<1>2. /\ UNCHANGED <<clock, rows, activation, sweepCursor, queue, target, repairRequest>>
      /\ UNCHANGED <<pc, page, nextCursor, due, snap, firstErr, connected, control, faults, owed>>
  BY <1>1 DEF store, cycle, session, ghosts
<1>3. Events' = Events
  BY <1>2 DEF Events
<1>4. TypeOK'
  <2>1. CodexOK'
    BY <1>0, <1>1, <1>2 DEF CodexOK, TurnsGrow, TimesMove
  <2>2. StoreOK' /\ CycleOK' /\ RestOK'
    BY <1>0, <1>2 DEF StoreOK, CycleOK, RestOK
  <2> QED
    BY <2>1, <2>2 DEF TypeOK
<1>5. /\ \A t \in Threads : rows[t] \in Row /\ rows[t].watermark \in Nat /\ updated[t] \in Nat
      /\ \A t \in Threads : updated'[t] \in Nat /\ clock \in Nat
      /\ \A t \in Threads : updated[t] <= clock /\ rows[t].watermark <= updated[t]
      /\ \A t \in Threads : updated[t] <= updated'[t] /\ updated'[t] <= clock
  <2>1. \A t \in Threads : rows[t] \in Row /\ rows[t].watermark \in Nat /\ updated[t] \in Nat
    BY <1>0, RowFields DEF StoreOK, CodexOK
  <2>2. \A t \in Threads : updated[t] <= clock /\ rows[t].watermark <= updated[t]
    BY DEF IInv, FitInv, RowsFit
  <2>3. clock \in Nat /\ \A t \in Threads : updated'[t] = updated[t] \/ updated'[t] = clock
    BY <1>0, <1>1 DEF CodexOK, TimesMove
  <2> QED
    BY <2>1, <2>2, <2>3
<1>6. \A t \in Threads : turns[t] # <<>> => turns'[t] # <<>>
  <2> TAKE t \in Threads
  <2>1. turns[t] \in Seq(Turn) /\ turns'[t] \in Seq(Turn) /\ Len(turns[t]) <= Len(turns'[t])
    BY <1>0, <1>1 DEF CodexOK, TurnsGrow
  <2> QED
    BY <2>1
<1>7. RowsFit'
  <2> SUFFICES ASSUME NEW t \in Threads
               PROVE  /\ rows'[t].watermark <= updated'[t] /\ updated'[t] <= clock'
                      /\ rows'[t].tracked => turns'[t] # <<>>
                      /\ rows'[t].turn # NoTurn => /\ rows'[t].tracked /\ rows'[t].baseline
                                                   /\ CursorFits(t, rows[t].turn, rows[t].status)'
    BY DEF RowsFit
  <2>1. rows'[t].watermark <= updated'[t] /\ updated'[t] <= clock'
    BY <1>2, <1>5
  <2>2. rows'[t].tracked => turns'[t] # <<>>
    BY <1>2, <1>6 DEF IInv, FitInv, RowsFit
  <2>3. PICK r, status : r = rows[t].turn /\ status = rows[t].status
    OBVIOUS
  <2>4. ASSUME rows[t].turn # NoTurn
        PROVE  rows[t].tracked /\ rows[t].baseline /\ CursorFits(t, r, status)
    BY <2>3, <2>4 DEF IInv, FitInv, RowsFit
  <2>5. ASSUME rows[t].turn # NoTurn
        PROVE  CursorFits(t, r, status)'
    BY <1>0, <1>1, <2>4, <2>5, CursorFitsStays
  <2>6. r = rows'[t].turn /\ status = rows'[t].status
    BY <1>2, <2>3
  <2>7. CursorFits(t, r, status)' => CursorFits(t, rows[t].turn, rows[t].status)'
    BY <2>6
  <2> QED
    BY <1>2, <2>1, <2>2, <2>4, <2>5, <2>7
<1>8. EntriesFit'
  <2>1. \A e \in page \cup due : e.thread \in Threads /\ e.at \in Nat
    BY <1>0, EntryFields DEF CycleOK
  <2>2. \A e \in page \cup due : turns[e.thread] # <<>> /\ e.at <= updated[e.thread]
    BY DEF IInv, FitInv, EntriesFit
  <2>3. \A e \in page \cup due : turns'[e.thread] # <<>> /\ e.at <= updated'[e.thread]
    BY <1>5, <1>6, <2>1, <2>2
  <2>4. \A e \in due : rows[e.thread].tracked
    BY DEF IInv, FitInv, EntriesFit
  <2> QED
    BY <1>2, <2>3, <2>4 DEF EntriesFit
<1>9. PICK s : s = snap
  OBVIOUS
<1>10. snap' = s /\ pc' = pc
  BY <1>2, <1>9
<1>11. SnapFits'
  <2>1. ASSUME pc = "store"
        PROVE  /\ s.thread \in Threads /\ rows'[s.thread].tracked
               /\ CursorFits(s.thread, s.turn, s.status)'
               /\ \A k \in s.announce : k.thread = s.thread /\ k.turn \in 1 .. s.turn
    <3>1. /\ s.thread \in Threads /\ rows[s.thread].tracked
          /\ CursorFits(s.thread, s.turn, s.status)
          /\ \A k \in s.announce : k.thread = s.thread /\ k.turn \in 1 .. s.turn
      BY <1>9, <2>1 DEF IInv, FitInv, SnapFits
    <3> QED
      BY <1>0, <1>1, <1>2, <3>1, CursorFitsStays
  <2>2. CursorFits(s.thread, s.turn, s.status)'
          => CursorFits(snap.thread, snap.turn, snap.status)'
    BY <1>10
  <2> QED
    BY <1>10, <2>1, <2>2 DEF SnapFits
<1>12. PICK E : E = Events
  OBVIOUS
<1>13. Events' = E
  BY <1>3, <1>12
<1>14. CursorsKept'
  <2> SUFFICES ASSUME NEW t \in Threads, rows[t].turn # NoTurn
               PROVE  Covered(t, rows[t].turn, rows[t].status, Events)'
    BY <1>2 DEF CursorsKept
  <2>1. PICK r, status : r = rows[t].turn /\ status = rows[t].status
    OBVIOUS
  <2>2. CursorFits(t, r, status) /\ Covered(t, r, status, E)
    BY <1>12, <2>1 DEF IInv, FitInv, RowsFit, KeptInv, CursorsKept
  <2>3. Covered(t, r, status, E)'
    BY <1>0, <1>1, <1>2, <2>2, CoveredStays
  <2>4. r = rows'[t].turn /\ status = rows'[t].status
    BY <1>2, <2>1
  <2> QED
    BY <1>13, <2>3, <2>4
<1>15. SnapKept'
  <2> SUFFICES ASSUME pc = "store", rows[s.thread].turn # NoTurn
               PROVE  Covered(snap.thread, snap.turn, snap.status, Events \cup snap.announce)'
    BY <1>2, <1>10 DEF SnapKept
  <2>1. s.thread \in Threads /\ CursorFits(s.thread, s.turn, s.status)
    BY <1>9 DEF IInv, FitInv, SnapFits
  <2>2. Covered(s.thread, s.turn, s.status, E \cup s.announce)
    BY <1>9, <1>12 DEF IInv, KeptInv, SnapKept
  <2>3. Covered(s.thread, s.turn, s.status, E \cup s.announce)'
    BY <1>0, <1>1, <1>2, <2>1, <2>2, CoveredStays
  <2> QED
    BY <1>10, <1>13, <2>3
<1>16. QueueFits'
  <2> SUFFICES ASSUME NEW q \in E
               PROVE  /\ q.turn \in 1 .. Len(turns'[q.thread])
                      /\ AnnouncedBefore(q.thread, q.turn, E)'
    BY <1>13 DEF QueueFits
  <2>1. q \in Key
    BY <1>0, <1>12 DEF StoreOK, Events
  <2>2. q.turn \in 1 .. Len(turns[q.thread]) /\ AnnouncedBefore(q.thread, q.turn, E)
    BY <1>12 DEF IInv, OrderInv, QueueFits
  <2>3. q.thread \in Threads
    BY <2>1, KeyFields
  <2>4. AnnouncedBefore(q.thread, q.turn, E)'
    BY <1>0, <1>1, <1>2, <1>5, <2>2, <2>3, AnnouncedBeforeStays
  <2>5. /\ Len(turns[q.thread]) \in Nat /\ Len(turns'[q.thread]) \in Nat
        /\ Len(turns[q.thread]) <= Len(turns'[q.thread])
    BY <1>0, <1>1, <2>3 DEF CodexOK, TurnsGrow
  <2> QED
    BY <2>2, <2>4, <2>5
<1>17. SnapQueued'
  <2> SUFFICES ASSUME pc = "store"
               PROVE  /\ \A q \in E : q.thread = s.thread => q.turn <= s.turn
                      /\ AnnouncedBefore(s.thread, s.turn, E \cup s.announce)'
                      /\ \A k \in s.announce :
                           k \in E \/ \A q \in E : q.thread = k.thread => q.turn <= k.turn
    <3>1. AnnouncedBefore(s.thread, s.turn, E \cup s.announce)'
            => AnnouncedBefore(snap.thread, snap.turn, Events \cup snap.announce)'
      BY <1>10, <1>13
    <3> QED
      BY <1>10, <1>13, <3>1 DEF SnapQueued
  <2>1. s.thread \in Threads /\ s.turn \in 1 .. Len(turns[s.thread])
    BY <1>9 DEF IInv, FitInv, SnapFits, CursorFits
  <2>2. /\ \A q \in E : q.thread = s.thread => q.turn <= s.turn
        /\ AnnouncedBefore(s.thread, s.turn, E \cup s.announce)
        /\ \A k \in s.announce : k \in E \/ \A q \in E : q.thread = k.thread => q.turn <= k.turn
    BY <1>9, <1>12 DEF IInv, OrderInv, SnapQueued
  <2>3. AnnouncedBefore(s.thread, s.turn, E \cup s.announce)'
    BY <1>0, <1>1, <1>2, <1>5, <2>1, <2>2, AnnouncedBeforeStays
  <2> QED
    BY <2>2, <2>3
<1>18. QueueInTurnOrder'
  BY <1>2 DEF IInv, OrderInv, QueueInTurnOrder
<1>19. FreshInv'
  <2>1. ASSUME NEW t \in Threads, rows[t].watermark = updated'[t], t \notin twice'
        PROVE  updated'[t] = updated[t] /\ turns'[t] = turns[t] /\ t \notin twice
    BY <1>1, <1>5, <2>1 DEF TimesMove
  <2>2. CaughtUp'
    BY <1>2, <2>1 DEF IInv, FreshInv, CaughtUp, Latest
  <2>3. pc = "store" => s.thread \in Threads
    BY <1>9 DEF IInv, FitInv, SnapFits
  <2>4. SnapFresh'
    BY <1>2, <1>9, <1>10, <2>1, <2>3 DEF IInv, FreshInv, SnapFresh, Latest
  <2> QED
    BY <2>2, <2>4 DEF FreshInv
<1> QED
  BY <1>4, <1>7, <1>8, <1>11, <1>14, <1>15, <1>16, <1>17, <1>18, <1>19
  DEF IInv, FitInv, KeptInv, OrderInv

-----------------------------------------------------------------------------
(***************************************************************************)
(* Steps that neither read a conversation nor store what was read.         *)
(***************************************************************************)

\* No cursor moves.
CursorsStay ==
  \A t \in Threads :
    /\ rows'[t].turn = rows[t].turn
    /\ rows[t].turn # NoTurn =>
         rows'[t].status = rows[t].status /\ rows'[t].tracked /\ rows'[t].baseline

\* A row that changes stays due, or is from before activation, or cannot be read.
RowsMove ==
  \A t \in Threads :
    /\ rows'[t].watermark <= updated[t]
    /\ rows'[t].tracked => turns[t] # <<>>
    /\ \/ rows'[t] = rows[t] \/ rows'[t].required
       \/ rows'[t].watermark <= activation \/ t \in Unreadable

\* Such a step keeps the invariant.
LEMMA QuietKeeps ==
  ASSUME IInv, TypeOK', EntriesFit', UNCHANGED <<turns, updated, changed, twice, queue, owed, activation>>,
         clock' >= clock, CursorsStay, RowsMove,
         pc' = "store" => pc = "store" /\ snap' = snap /\ rows' = rows
  PROVE  IInv'
<1>0. CodexOK /\ StoreOK /\ CycleOK /\ RestOK /\ CodexOK' /\ StoreOK'
  BY DEF IInv, TypeOK
<1>1. Events' = Events
  BY DEF Events
<1>2. RowsFit'
  <2>1. \A t \in Threads : updated[t] <= clock'
    <3>1. clock \in Nat /\ clock' \in Nat /\ \A t \in Threads : updated[t] \in Nat /\ updated[t] <= clock
      BY <1>0 DEF CodexOK, IInv, FitInv, RowsFit
    <3> QED
      BY <3>1
  <2>2. \A t \in Threads : rows[t].turn # NoTurn =>
          /\ rows'[t].tracked /\ rows'[t].baseline
          /\ rows'[t].turn = rows[t].turn /\ rows'[t].status = rows[t].status
          /\ CursorFits(t, rows[t].turn, rows[t].status)
    BY DEF IInv, FitInv, RowsFit, CursorsStay
  <2>3. \A t \in Threads : rows'[t].turn # NoTurn =>
          /\ rows'[t].tracked /\ rows'[t].baseline
          /\ CursorFits(t, rows'[t].turn, rows'[t].status)
    BY <2>2 DEF CursorsStay
  <2>4. \A t \in Threads :
          CursorFits(t, rows'[t].turn, rows'[t].status) => CursorFits(t, rows[t].turn, rows[t].status)'
    BY DEF CursorFits
  <2> QED
    BY <2>1, <2>3, <2>4 DEF RowsFit, RowsMove
<1>3. SnapFits'
  BY DEF IInv, FitInv, SnapFits, CursorFits
<1>4. CursorsKept'
  <2> SUFFICES ASSUME NEW t \in Threads, rows'[t].turn # NoTurn
               PROVE  Covered(t, rows[t].turn, rows[t].status, Events)'
    BY DEF CursorsKept
  <2>1. PICK r, status, E : r = rows[t].turn /\ status = rows[t].status /\ E = Events
    OBVIOUS
  <2>2. rows'[t].turn = r /\ rows'[t].status = status /\ Events' = E
    BY <1>1, <2>1 DEF CursorsStay
  <2>3. Covered(t, r, status, E)
    BY <2>1, <2>2 DEF IInv, KeptInv, CursorsKept
  <2>4. Covered(t, r, status, E)'
    BY <2>3 DEF Covered, Has
  <2> QED
    BY <2>2, <2>4
<1>5. SnapKept'
  BY <1>1 DEF IInv, KeptInv, SnapKept, Covered, Has
<1>6. ASSUME NEW t \in Threads, NEW n, NEW S, AnnouncedBefore(t, n, S)
      PROVE  AnnouncedBefore(t, n, S)'
  BY <1>6 DEF AnnouncedBefore, Reports, TurnKey, TerminalTransition, CursorsStay
<1>7. QueueFits'
  <2>1. PICK E : E = Events
    OBVIOUS
  <2> SUFFICES ASSUME NEW q \in E
               PROVE  q.turn \in 1 .. Len(turns[q.thread]) /\ AnnouncedBefore(q.thread, q.turn, E)'
    BY <1>1, <2>1 DEF QueueFits
  <2>2. q.turn \in 1 .. Len(turns[q.thread]) /\ AnnouncedBefore(q.thread, q.turn, E)
    BY <2>1 DEF IInv, OrderInv, QueueFits
  <2>3. q.thread \in Threads
    BY <1>0, <2>1, KeyFields DEF StoreOK, Events
  <2> QED
    BY <1>6, <2>2, <2>3
<1>8. SnapQueued'
  <2> SUFFICES ASSUME pc' = "store"
               PROVE  /\ \A q \in Events' : q.thread = snap'.thread => q.turn <= snap'.turn
                      /\ AnnouncedBefore(snap.thread, snap.turn, Events \cup snap.announce)'
                      /\ \A k \in snap'.announce : \/ k \in Events'
                                                   \/ \A q \in Events' : q.thread = k.thread => q.turn <= k.turn
    BY DEF SnapQueued
  <2> QED
    BY <1>1 DEF IInv, OrderInv, SnapQueued, AnnouncedBefore, Reports, TurnKey
<1>9. QueueInTurnOrder'
  BY DEF IInv, OrderInv, QueueInTurnOrder
<1>10. CaughtUp => CaughtUp'
  <2> SUFFICES ASSUME CaughtUp, NEW t \in Threads \ (Unreadable \cup twice),
                      rows'[t].tracked, ~rows'[t].required,
                      rows'[t].watermark = updated[t], updated[t] > activation
               PROVE  rows'[t].turn = Len(turns[t]) /\ rows'[t].status = SnapshotStatus(Latest(t))
    BY DEF CaughtUp, Latest
  <2>1. updated[t] \in Nat /\ activation \in Nat
    BY <1>0 DEF CodexOK, StoreOK
  <2>2. rows'[t] = rows[t]
    BY <2>1 DEF RowsMove
  <2> QED
    BY <2>2 DEF CaughtUp
<1>11. SnapFresh => SnapFresh'
  BY DEF SnapFresh, Latest
<1>12. FreshInv'
  BY <1>10, <1>11 DEF IInv, FreshInv
<1> QED
  BY <1>2, <1>3, <1>4, <1>5, <1>7, <1>8, <1>9, <1>12 DEF IInv, FitInv, KeptInv, OrderInv

\* A step that leaves the conversations, the rows and the queue alone keeps the invariant.
LEMMA IdleKeeps ==
  ASSUME IInv, TypeOK', EntriesFit', UNCHANGED <<turns, updated, changed, twice, queue, owed, activation, rows>>,
         clock' >= clock, pc' = "store" => pc = "store" /\ snap' = snap
  PROVE  IInv'
<1>1. CursorsStay
  BY DEF CursorsStay, IInv, FitInv, RowsFit
<1>2. RowsMove
  BY DEF RowsMove, IInv, FitInv, RowsFit
<1> QED
  BY <1>1, <1>2, QuietKeeps

\* A list page holds conversations that exist, with their present timestamps.
LEMMA ListFits ==
  ASSUME CodexOK, NEW cursor
  PROVE  /\ ListPage(cursor) \subseteq Entry /\ ListNextCursor(cursor) \subseteq Entry
         /\ \A e \in ListPage(cursor) : turns[e.thread] # <<>> /\ e.at <= updated[e.thread]
<1>1. ASSUME NEW e \in Catalog
      PROVE  e \in Entry /\ turns[e.thread] # <<>> /\ e.at <= updated[e.thread]
  <2>1. PICK t \in Threads : turns[t] # <<>> /\ e = [thread |-> t, at |-> updated[t]]
    BY <1>1 DEF Catalog
  <2>2. updated[t] \in Nat /\ e.thread = t /\ e.at = updated[t]
    BY <2>1 DEF CodexOK
  <2> QED
    BY <2>1, <2>2 DEF Entry
<1>2. After(cursor) \subseteq Catalog
  BY DEF After
<1>3. ListPage(cursor) \subseteq Catalog
  BY <1>2, NewestIsPart DEF ListPage
<1>4. ListNextCursor(cursor) \subseteq ListPage(cursor)
  BY DEF ListNextCursor
<1> QED
  BY <1>1, <1>3, <1>4

\* Both lists give entries that fit.
LEMMA ListKeeps ==
  ASSUME IInv, ListHead \/ ListSweep
  PROVE  IInv'
<1>0. CodexOK /\ StoreOK /\ CycleOK /\ RestOK
  BY DEF IInv, TypeOK
<1>1. PICK c : page' = ListPage(c) /\ nextCursor' = ListNextCursor(c)
  BY DEF ListHead, ListSweep
<1>2. /\ UNCHANGED <<due, snap, firstErr, codex, store, session, ghosts>>
      /\ pc' \in {"observeHead", "observeSweep"}
  BY DEF ListHead, ListSweep
<1>3. /\ UNCHANGED <<clock, turns, updated, changed, twice, rows, activation, sweepCursor, queue, target>>
      /\ UNCHANGED <<repairRequest, due, snap, firstErr, connected, control, faults, owed>>
  BY <1>2 DEF codex, store, session, ghosts
<1>4. /\ ListPage(c) \subseteq Entry /\ ListNextCursor(c) \subseteq Entry
      /\ \A e \in ListPage(c) : turns[e.thread] # <<>> /\ e.at <= updated[e.thread]
  BY <1>0, ListFits
<1>5. CycleOK'
  BY <1>0, <1>1, <1>2, <1>3, <1>4 DEF CycleOK
<1>6. TypeOK'
  BY <1>0, <1>3, <1>5 DEF TypeOK, CodexOK, StoreOK, RestOK
<1>7. EntriesFit'
  BY <1>1, <1>3, <1>4 DEF IInv, FitInv, EntriesFit
<1>8. clock' >= clock
  BY <1>0, <1>3 DEF CodexOK
<1> QED
  BY <1>2, <1>3, <1>6, <1>7, <1>8, IdleKeeps

\* Fewer entries fit as well.
LEMMA FewerEntries ==
  ASSUME CycleOK, EntriesFit, UNCHANGED <<turns, updated>>, page' \subseteq page, due' \subseteq due,
         \A t \in Threads : rows[t].tracked => rows'[t].tracked
  PROVE  EntriesFit'
<1>1. \A e \in due : e.thread \in Threads
  BY EntryFields DEF CycleOK
<1> QED
  BY <1>1 DEF EntriesFit

\* The steps of the cycle between the lists, the reads and the end.
LEMMA CycleMoves ==
  ASSUME IInv,
         PollLoopTick \/ EndHead \/ EndSweep \/ PollSkipped \/ EndPoll \/ ListFails \/ ReadFails
  PROVE  IInv'
<1>0. CodexOK /\ StoreOK /\ CycleOK /\ RestOK /\ EntriesFit
  BY DEF IInv, TypeOK, FitInv
<1>1. /\ UNCHANGED <<clock, turns, updated, changed, twice, rows, activation, queue, owed, target, snap, connected>>
      /\ pc' \in {"idle", "listHead", "listSweep", "poll", "read"}
  BY DEF PollLoopTick, StartCycle, EndHead, EndSweep, PollSkipped, EndPoll, ListFails, ReadFails,
         EndCycle, codex, store, session, ghosts
<1>2. /\ page' \subseteq page /\ due' \subseteq due
      /\ nextCursor' \in {nextCursor, sweepCursor, {}} /\ sweepCursor' \in {sweepCursor, nextCursor, {}}
  BY DEF PollLoopTick, StartCycle, EndHead, EndSweep, PollSkipped, EndPoll, ListFails, ReadFails,
         NextDue, store
<1>3. firstErr' \in {"none", "deadline", "other"}
  BY <1>0 DEF CycleOK, PollLoopTick, StartCycle, EndHead, EndSweep, PollSkipped, EndPoll, ListFails,
         ReadFails
<1>4. control' \in {control, "clear"} /\ repairRequest' \in BOOLEAN
  <2>1. control' \in {control, "clear"}
    BY DEF PollLoopTick, StartCycle, EndHead, EndSweep, PollSkipped, EndPoll, ListFails, ReadFails,
           EndCycle, session
  <2>2. CASE EndPoll
    <3>1. repairRequest' = (repairRequest \/ firstErr = "other")
      BY <2>2 DEF EndPoll
    <3>2. repairRequest' \in BOOLEAN
      BY <3>1, Zenon
    <3> QED
      BY <2>1, <3>2
  <2>3. CASE ~EndPoll
    BY <1>0, <2>1, <2>3 DEF StoreOK, PollLoopTick, StartCycle, EndHead, EndSweep, PollSkipped, ListFails,
           ReadFails, store
  <2> QED
    BY <2>2, <2>3
<1>5. faults' \in Nat
  BY <1>0 DEF RestOK, PollLoopTick, StartCycle, EndHead, EndSweep, PollSkipped, EndPoll, ListFails,
         ReadFails, Fault, ghosts
<1>6. CycleOK'
  BY <1>0, <1>1, <1>2, <1>3 DEF CycleOK, StoreOK
<1>7. StoreOK'
  BY <1>0, <1>1, <1>2, <1>4 DEF CycleOK, StoreOK
<1>8. RestOK'
  BY <1>0, <1>1, <1>4, <1>5 DEF RestOK
<1>9. TypeOK'
  BY <1>0, <1>1, <1>6, <1>7, <1>8 DEF TypeOK, CodexOK
<1>10. EntriesFit'
  BY <1>0, <1>1, <1>2, FewerEntries
<1>11. clock' >= clock
  BY <1>0, <1>1 DEF CodexOK
<1> QED
  BY <1>1, <1>9, <1>10, <1>11, IdleKeeps

\* The clock, the control loop, the operator, the process, and steps of others.
LEMMA OthersMove ==
  ASSUME IInv,
         \/ Tick \/ Reconcile \/ RepairSwap \/ Bootstrap \/ ClearRepair \/ PairTarget
         \/ RequestRepair \/ Restart \/ UNCHANGED vars
  PROVE  IInv'
<1>0. CodexOK /\ StoreOK /\ CycleOK /\ RestOK /\ EntriesFit
  BY DEF IInv, TypeOK, FitInv
<1>1. UNCHANGED <<turns, updated, changed, twice, rows, activation, queue, owed, sweepCursor>>
  BY DEF Tick, Reconcile, RepairSwap, Bootstrap, StartCycle, ClearRepair, PairTarget, RequestRepair,
         Restart, EnsureNotifierActivation, codex, store, ghosts, vars
<1>2. clock' \in {clock, clock + 1}
  BY DEF Tick, Reconcile, RepairSwap, Bootstrap, StartCycle, ClearRepair, PairTarget, RequestRepair,
         Restart, codex, vars
<1>3. \/ UNCHANGED <<pc, page, nextCursor, due, snap, firstErr>>
      \/ /\ pc' \in {"idle", "listHead", "poll"}
         /\ UNCHANGED <<page, nextCursor, due, snap, firstErr>>
      \/ pc' = "idle" /\ page' = {} /\ nextCursor' = {} /\ due' = {} /\ snap' = NoSnap /\ firstErr' = "none"
  BY DEF Tick, Reconcile, RepairSwap, Bootstrap, StartCycle, ClearRepair, PairTarget, RequestRepair,
         Restart, cycle, vars
<1>4. target' \in {target, TRUE} /\ repairRequest' \in {repairRequest, TRUE, FALSE}
  BY DEF Tick, Reconcile, RepairSwap, Bootstrap, StartCycle, ClearRepair, PairTarget, RequestRepair,
         Restart, store, vars
<1>5. connected' \in {connected, TRUE, FALSE} /\ control' \in {control, "boot", "running", "clear", "idle"}
  BY DEF Tick, Reconcile, RepairSwap, Bootstrap, StartCycle, ClearRepair, PairTarget, RequestRepair,
         Restart, session, vars
<1>6. faults' \in {faults, faults + 1}
  BY DEF Tick, Reconcile, RepairSwap, Bootstrap, StartCycle, ClearRepair, PairTarget, RequestRepair,
         Restart, Fault, ghosts, vars
<1>7. NoSnap \in Snap
  BY DEF NoSnap, Snap, Statuses, NoTurn
<1>8. CycleOK'
  BY <1>0, <1>3, <1>7 DEF CycleOK
<1>9. StoreOK'
  BY <1>0, <1>1, <1>4 DEF StoreOK
<1>10. RestOK'
  <2>1. connected' \in BOOLEAN
    BY <1>0, <1>5, Zenon DEF RestOK
  <2> QED
    BY <1>0, <1>1, <1>5, <1>6, <2>1 DEF RestOK
<1>11. CodexOK' /\ clock' >= clock
  BY <1>0, <1>1, <1>2 DEF CodexOK
<1>12. TypeOK'
  BY <1>8, <1>9, <1>10, <1>11 DEF TypeOK
<1>13. EntriesFit'
  BY <1>0, <1>1, <1>3, FewerEntries
<1>14. pc' = "store" => pc = "store" /\ snap' = snap
  BY <1>3
<1> QED
  BY <1>1, <1>11, <1>12, <1>13, <1>14, IdleKeeps

-----------------------------------------------------------------------------
(***************************************************************************)
(* Steps that change a row without moving its cursor.                      *)
(***************************************************************************)

\* The first entry of a page or batch is a row of a conversation that exists.
LEMMA FirstFits ==
  ASSUME IInv, NEW S, S = page \/ S = due, S # {}
  PROVE  /\ First(S) \in S /\ First(S).thread \in Threads /\ First(S).at \in Nat
         /\ turns[First(S).thread] # <<>> /\ First(S).at <= updated[First(S).thread]
         /\ rows[First(S).thread] \in Row /\ (S = due => rows[First(S).thread].tracked)
<1>1. S \in SUBSET Entry /\ clock \in Nat
  BY DEF IInv, TypeOK, CycleOK, CodexOK
<1>2. \A e \in S : /\ e.thread \in Threads /\ e.at \in Nat
                   /\ turns[e.thread] # <<>> /\ e.at <= updated[e.thread]
  BY <1>1, EntryFields DEF IInv, FitInv, EntriesFit
<1>3. \A t \in Threads : updated[t] \in Nat /\ updated[t] <= clock /\ rows[t] \in Row
  BY DEF IInv, TypeOK, CodexOK, StoreOK, FitInv, RowsFit
<1>4. \A e \in S : e.at <= clock
  BY <1>1, <1>2, <1>3
<1>5. First(S) \in S
  BY <1>1, <1>4, FirstIsIn
<1>6. S = due => rows[First(S).thread].tracked
  BY <1>5 DEF IInv, FitInv, EntriesFit
<1> QED
  BY <1>2, <1>3, <1>5, <1>6

\* Listing an entry keeps the invariant.
LEMMA ObserveKeeps ==
  ASSUME IInv, ObserveEntry
  PROVE  IInv'
<1>0. CodexOK /\ StoreOK /\ CycleOK /\ RestOK /\ EntriesFit
  BY DEF IInv, TypeOK, FitInv
<1>1. /\ UNCHANGED <<clock, turns, updated, changed, twice, activation, sweepCursor, queue, target, repairRequest>>
      /\ UNCHANGED <<pc, nextCursor, due, snap, firstErr, connected, control, faults, owed>>
      /\ pc # "store" /\ page # {} /\ page' \subseteq page
  BY DEF ObserveEntry, codex, session, ghosts
<1>2. PICK e : e = First(page)
  OBVIOUS
<1>3. /\ e \in page /\ e.thread \in Threads /\ e.at \in Nat /\ turns[e.thread] # <<>>
      /\ e.at <= updated[e.thread] /\ rows[e.thread] \in Row
  BY <1>1, <1>2, FirstFits
<1>4. PICK n : n = ObserveNotifierThread(rows[e.thread], e.at)
  OBVIOUS
<1>5. rows' = [rows EXCEPT ![e.thread] = n]
  BY <1>2, <1>4 DEF ObserveEntry
<1>6. \A t \in Threads : rows[t].turn # NoTurn => rows[t].tracked /\ rows[t].baseline
  BY DEF IInv, FitInv, RowsFit
<1>7. /\ n \in Row /\ n.tracked /\ n.turn = rows[e.thread].turn
      /\ rows[e.thread].turn # NoTurn => n.status = rows[e.thread].status /\ n.baseline
      /\ n.watermark = e.at
      /\ n.required \/ n = rows[e.thread]
  BY <1>3, <1>4, <1>6, ObserveEffect
<1>8. /\ rows' \in [Threads -> Row]
      /\ \A t \in Threads : rows'[t] = IF t = e.thread THEN n ELSE rows[t]
  BY <1>0, <1>5, <1>7 DEF StoreOK
<1>9. CursorsStay
  BY <1>6, <1>7, <1>8 DEF CursorsStay
<1>10. RowsMove
  BY <1>3, <1>7, <1>8 DEF RowsMove, IInv, FitInv, RowsFit
<1>11. TypeOK'
  <2>1. StoreOK'
    BY <1>0, <1>1, <1>8 DEF StoreOK
  <2>2. CycleOK'
    BY <1>0, <1>1 DEF CycleOK
  <2> QED
    BY <1>0, <1>1, <2>1, <2>2 DEF TypeOK, CodexOK, RestOK
<1>12. EntriesFit'
  BY <1>0, <1>1, <1>7, <1>8, FewerEntries
<1>13. clock' >= clock
  BY <1>0, <1>1 DEF CodexOK
<1> QED
  BY <1>1, <1>9, <1>10, <1>11, <1>12, <1>13, QuietKeeps

\* The start of the reads keeps the invariant: the batch holds rows that are tracked.
LEMMA PollStartKeeps ==
  ASSUME IInv, PollStart
  PROVE  IInv'
<1>0. CodexOK /\ StoreOK /\ CycleOK /\ RestOK
  BY DEF IInv, TypeOK
<1>1. /\ UNCHANGED <<clock, turns, updated, changed, twice, activation, sweepCursor, queue, target, repairRequest>>
      /\ UNCHANGED <<snap, connected, control, faults, owed>>
      /\ pc' = "read" /\ page' = {} /\ nextCursor' = {} /\ firstErr' = "none"
      /\ due' = DueBatch(rows', clock)
      /\ rows' = [t \in Threads |-> BaselineAtOrBefore(rows[t], activation)]
  BY DEF PollStart, EnsureNotifierActivation, codex, session, ghosts
<1>2. \A t \in Threads : rows[t] \in Row /\ activation \in Nat
  BY <1>0 DEF StoreOK
<1>3. \A t \in Threads :
        /\ rows'[t] \in Row /\ rows'[t].tracked = rows[t].tracked
        /\ rows'[t].turn = rows[t].turn /\ rows'[t].status = rows[t].status
        /\ rows[t].baseline => rows'[t].baseline
        /\ rows'[t].watermark = rows[t].watermark
        /\ rows'[t] = rows[t] \/ rows'[t].watermark <= activation
  <2> TAKE t \in Threads
  <2>1. rows'[t] = BaselineAtOrBefore(rows[t], activation)
    BY <1>1
  <2> QED
    BY <1>2, <2>1, BaselineEffect
<1>4. rows' \in [Threads -> Row]
  <2>1. \A t \in Threads : BaselineAtOrBefore(rows[t], activation) \in Row
    BY <1>2, BaselineEffect
  <2> QED
    BY <1>1, <2>1
<1>5. CursorsStay
  BY <1>3 DEF CursorsStay, IInv, FitInv, RowsFit
<1>6. RowsMove
  BY <1>3 DEF RowsMove, IInv, FitInv, RowsFit
<1>7. \A e \in due' : /\ e \in Entry /\ turns[e.thread] # <<>> /\ e.at <= updated[e.thread]
                      /\ rows'[e.thread].tracked
  <2> DEFINE Ready == {[thread |-> t, at |-> rows'[t].watermark] :
                         t \in {u \in Threads : /\ rows'[u].tracked
                                                /\ rows'[u].required
                                                /\ rows'[u].deferUntil <= clock}}
  <2>1. due' \subseteq Ready
    BY <1>1, NewestIsPart DEF DueBatch
  <2>2. ASSUME NEW e \in Ready
        PROVE  /\ e \in Entry /\ turns[e.thread] # <<>> /\ e.at <= updated[e.thread]
               /\ rows'[e.thread].tracked
    <3>1. PICK t \in Threads : rows'[t].tracked /\ e = [thread |-> t, at |-> rows'[t].watermark]
      BY <2>2
    <3>2. rows'[t].watermark \in Nat
      BY <1>3, RowFields
    <3>3. turns[t] # <<>> /\ rows'[t].watermark <= updated[t]
      BY <3>1, <1>6 DEF RowsMove
    <3> QED
      BY <3>1, <3>2, <3>3 DEF Entry
  <2> QED
    BY <2>1, <2>2
<1>8. TypeOK'
  <2>1. StoreOK'
    BY <1>0, <1>1, <1>4 DEF StoreOK
  <2>2. CycleOK'
    BY <1>0, <1>1, <1>7 DEF CycleOK
  <2> QED
    BY <1>0, <1>1, <2>1, <2>2 DEF TypeOK, CodexOK, RestOK
<1>9. EntriesFit'
  BY <1>1, <1>7 DEF EntriesFit
<1>10. clock' >= clock
  BY <1>0, <1>1 DEF CodexOK
<1> QED
  BY <1>1, <1>5, <1>6, <1>8, <1>9, <1>10, QuietKeeps

\* Giving up an unreadable conversation, and putting a slow one off, keep the invariant.
LEMMA ReadMissKeeps ==
  ASSUME IInv, ReadUnreadable \/ ReadDeadline
  PROVE  IInv'
<1>0. CodexOK /\ StoreOK /\ CycleOK /\ RestOK /\ EntriesFit
  BY DEF IInv, TypeOK, FitInv
<1>1. /\ UNCHANGED <<clock, turns, updated, changed, twice, activation, sweepCursor, queue, target, repairRequest>>
      /\ UNCHANGED <<pc, page, nextCursor, snap, connected, control, owed>>
      /\ pc = "read" /\ due # {} /\ due' \subseteq due
      /\ firstErr' \in {firstErr, "deadline"}
      /\ faults' \in {faults, faults + 1}
  BY DEF ReadUnreadable, ReadDeadline, NextDue, Fault, codex, session, ghosts
<1>2. PICK t : t = Current
  OBVIOUS
<1>3. t \in Threads /\ turns[t] # <<>> /\ rows[t] \in Row
  BY <1>1, <1>2, FirstFits DEF Current
<1>4. PICK n : /\ rows' = [rows EXCEPT ![t] = n]
               /\ n \in Row /\ n.tracked = rows[t].tracked /\ n.turn = rows[t].turn
               /\ n.status = rows[t].status /\ (rows[t].baseline => n.baseline)
               /\ n.watermark = rows[t].watermark
               /\ n.required \/ t \in Unreadable
  <2>1. CASE ReadUnreadable
    <3>1. PICK n : n = RecordNotifierRead(rows[t], rows[t].turn, rows[t].status)
      OBVIOUS
    <3>2. rows' = [rows EXCEPT ![t] = n] /\ t \in Unreadable
      BY <1>2, <2>1, <3>1 DEF ReadUnreadable
    <3>3. /\ n \in Row /\ n.tracked = rows[t].tracked /\ n.turn = rows[t].turn
          /\ n.status = rows[t].status /\ n.baseline /\ n.watermark = rows[t].watermark
      BY <1>3, <3>1, RowFields, RecordEffect
    <3> QED
      BY <3>2, <3>3
  <2>2. CASE ReadDeadline
    <3>1. PICK n : n = DeferNotifierRead(rows[t], clock + RetryDelay)
      OBVIOUS
    <3>2. rows' = [rows EXCEPT ![t] = n]
      BY <1>2, <2>2, <3>1 DEF ReadDeadline
    <3>3. clock + RetryDelay \in Nat
      BY <1>0, BoundsAssumption DEF CodexOK
    <3>4. /\ n \in Row /\ n.tracked = rows[t].tracked /\ n.turn = rows[t].turn
          /\ n.status = rows[t].status /\ n.baseline = rows[t].baseline
          /\ n.watermark = rows[t].watermark /\ n.required
      BY <1>3, <3>1, <3>3, DeferEffect
    <3> QED
      BY <3>2, <3>4
  <2> QED
    BY <2>1, <2>2
<1>5. /\ rows' \in [Threads -> Row]
      /\ \A u \in Threads : rows'[u] = IF u = t THEN n ELSE rows[u]
  BY <1>0, <1>4 DEF StoreOK
<1>6. CursorsStay
  BY <1>4, <1>5 DEF CursorsStay, IInv, FitInv, RowsFit
<1>7. RowsMove
  BY <1>3, <1>4, <1>5 DEF RowsMove, IInv, FitInv, RowsFit
<1>8. TypeOK'
  <2>1. StoreOK'
    BY <1>0, <1>1, <1>5 DEF StoreOK
  <2>2. CycleOK'
    BY <1>0, <1>1 DEF CycleOK
  <2>3. RestOK'
    BY <1>0, <1>1 DEF RestOK
  <2> QED
    BY <1>0, <1>1, <2>1, <2>2, <2>3 DEF TypeOK, CodexOK
<1>9. EntriesFit'
  BY <1>0, <1>1, <1>4, <1>5, FewerEntries
<1>10. clock' >= clock
  BY <1>0, <1>1 DEF CodexOK
<1> QED
  BY <1>1, <1>6, <1>7, <1>8, <1>9, <1>10, QuietKeeps

-----------------------------------------------------------------------------
(***************************************************************************)
(* Reading a conversation.                                                 *)
(***************************************************************************)

\* The turns a read announces: all that a row with a cursor has not seen, else the last at most.
LEMMA FoundFits ==
  ASSUME IInv, NEW t \in Threads, turns[t] # <<>>,
         NEW found, found = TerminalSnapshotsSince(rows[t], turns[t], updated[t], activation)
  PROVE  /\ \A i \in found : i \in 1 .. Len(turns[t]) /\ NotifierTerminal(turns[t][i])
         /\ rows[t].turn # NoTurn =>
              \A i \in Int : i \in found <=> i \in rows[t].turn .. Len(turns[t]) /\ Reports(t, i)
         /\ rows[t].turn = NoTurn => found \subseteq {Len(turns[t])}
<1>1. Len(turns[t]) \in Nat \ {0} /\ rows[t].turn \in Nat
  BY RowFields DEF IInv, TypeOK, CodexOK, StoreOK
<1>2. CASE rows[t].turn # NoTurn
  <2>1. rows[t].baseline /\ rows[t].turn \in 1 .. Len(turns[t])
    BY <1>2 DEF IInv, FitInv, RowsFit, CursorFits
  <2>2. NotifierStartIndex(rows[t], turns[t]) = rows[t].turn
    BY <1>2, <2>1 DEF NotifierStartIndex
  <2>3. found = {i \in rows[t].turn .. Len(turns[t]) : Reports(t, i)}
    BY <2>1, <2>2 DEF TerminalSnapshotsSince, Reports
  <2> QED
    BY <1>1, <1>2, <2>1, <2>3 DEF Reports
<1>3. CASE rows[t].turn = NoTurn
  <2>1. NotifierStartIndex(rows[t], turns[t]) = Len(turns[t])
    BY <1>3 DEF NotifierStartIndex
  <2>2. /\ found \subseteq {Len(turns[t])}
        /\ \A i \in found : NotifierTerminal(turns[t][i])
    <3>1. CASE rows[t].baseline
      <4>1. Len(turns[t]) .. Len(turns[t]) = {Len(turns[t])}
        BY <1>1
      <4> QED
        BY <2>1, <3>1, <4>1 DEF TerminalSnapshotsSince
    <3>2. CASE ~rows[t].baseline
      BY <3>2 DEF TerminalSnapshotsSince
    <3> QED
      BY <3>1, <3>2
  <2> QED
    BY <1>1, <1>3, <2>2
<1> QED
  BY <1>2, <1>3

\* The new cursor answers for what is queued and for what the read announces.
LEMMA ReadCovers ==
  ASSUME IInv, NEW t \in Threads, turns[t] # <<>>, rows[t].turn # NoTurn,
         NEW S, Events \subseteq S,
         \A i \in rows[t].turn .. Len(turns[t]) : Reports(t, i) => TurnKey(t, i) \in S
  PROVE  Covered(t, Len(turns[t]), SnapshotStatus(Latest(t)), S)
<1> DEFINE n == Len(turns[t])
           r == rows[t].turn
<1>1. r \in 1 .. n /\ n \in Nat /\ rows[t].status \in Shown
  BY DEF IInv, TypeOK, CodexOK, FitInv, RowsFit, CursorFits
<1>2. Covered(t, r, rows[t].status, Events)
  BY DEF IInv, KeptInv, CursorsKept
<1>3. \A i \in 1 .. n : turns[t][i] \in Turn
  BY DEF IInv, TypeOK, CodexOK
<1>4. ASSUME NEW i \in r .. n, owed[t] <= i, NotifierTerminal(turns[t][i])
      PROVE  /\ Has(S, t, i)
             /\ SnapshotStatus(turns[t][i]) \in {"completed", "failed"} => TurnKey(t, i) \in S
  <2>1. CASE Reports(t, i)
    BY <2>1 DEF Has, TurnKey
  <2>2. CASE ~Reports(t, i)
    <3>1. r = i /\ rows[t].status = SnapshotStatus(turns[t][i])
      BY <1>1, <1>4, <2>2, ShownIsCanonical DEF Reports, TerminalTransition
    <3>2. SnapshotStatus(turns[t][i]) \in {"completed", "failed", "interrupted"}
      BY <1>1, <1>3, <1>4, TurnShown
    <3>3. CASE SnapshotStatus(turns[t][i]) \in {"completed", "failed"}
      <4>1. TurnKey(t, i) \in Events
        BY <1>2, <1>4, <3>1, <3>3 DEF Covered, TurnKey
      <4> QED
        BY <4>1 DEF Has, TurnKey
    <3>4. CASE SnapshotStatus(turns[t][i]) = "interrupted"
      <4>1. Has(Events, t, i)
        BY <1>2, <1>4, <3>1, <3>4 DEF Covered
      <4> QED
        BY <3>4, <4>1 DEF Has
    <3> QED
      BY <3>2, <3>3, <3>4
  <2> QED
    BY <2>1, <2>2
<1>5. ASSUME NEW i \in 1 .. (n - 1), owed[t] <= i, NotifierTerminal(turns[t][i])
      PROVE  Has(S, t, i)
  <2>1. CASE i < r
    <3>1. i \in 1 .. (r - 1)
      BY <1>1, <2>1
    <3>2. Has(Events, t, i)
      BY <1>2, <1>5, <3>1 DEF Covered
    <3> QED
      BY <3>2 DEF Has
  <2>2. CASE i >= r
    <3>1. i \in r .. n
      BY <1>1, <2>2
    <3> QED
      BY <1>4, <1>5, <3>1
  <2> QED
    BY <1>1, <2>1, <2>2
<1>6. n \in r .. n /\ turns[t][n] \in Turn /\ Latest(t) = turns[t][n]
  BY <1>1, <1>3 DEF Latest
<1>7. ASSUME owed[t] <= n, SnapshotStatus(Latest(t)) \in {"completed", "failed"}
      PROVE  [thread |-> t, turn |-> n, status |-> SnapshotStatus(Latest(t))] \in S
  <2>1. NotifierTerminal(turns[t][n])
    BY <1>6, <1>7, TurnShown
  <2>2. TurnKey(t, n) \in S
    BY <1>4, <1>6, <1>7, <2>1
  <2> QED
    BY <1>6, <2>2 DEF TurnKey
<1>8. ASSUME owed[t] <= n, NotifierTerminal(turns[t][n])
      PROVE  Has(S, t, n)
  BY <1>4, <1>6, <1>8
<1> QED
  BY <1>5, <1>7, <1>8 DEF Covered

\* A read keeps the invariant.
LEMMA ReadKeeps ==
  ASSUME IInv, ReadThread
  PROVE  IInv'
<1>0. CodexOK /\ StoreOK /\ CycleOK /\ RestOK /\ EntriesFit
  BY DEF IInv, TypeOK, FitInv
<1>1. /\ UNCHANGED <<clock, turns, updated, changed, twice, rows, activation, sweepCursor, queue, target>>
      /\ UNCHANGED <<repairRequest, page, nextCursor, firstErr, connected, control, faults, owed>>
      /\ pc = "read" /\ due # {}
  BY DEF ReadThread, codex, store, session, ghosts
<1>2. PICK t : t = Current
  OBVIOUS
<1>3. t \in Threads /\ turns[t] # <<>> /\ rows[t] \in Row /\ rows[t].tracked
  BY <1>1, <1>2, FirstFits DEF Current
<1>4. PICK found : found = TerminalSnapshotsSince(rows[t], turns[t], updated[t], activation)
  OBVIOUS
<1>5. clock' >= clock
  BY <1>0, <1>1 DEF CodexOK
<1>6. CASE found # {} /\ ~target
  <2>1. due' \subseteq due /\ UNCHANGED <<pc, snap>>
    BY <1>2, <1>4, <1>6 DEF ReadThread, NextDue
  <2>2. CycleOK'
    BY <1>0, <1>1, <2>1 DEF CycleOK
  <2>3. TypeOK'
    BY <1>0, <1>1, <2>2 DEF TypeOK, CodexOK, StoreOK, RestOK
  <2>4. EntriesFit'
    BY <1>0, <1>1, <2>1, FewerEntries
  <2> QED
    BY <1>1, <1>5, <2>1, <2>3, <2>4, IdleKeeps
<1>7. CASE ~(found # {} /\ ~target)
  <2>1. PICK n, status, A : n = Len(turns[t]) /\ status = SnapshotStatus(Latest(t)) /\ A = Keys(t, found)
    OBVIOUS
  <2>2. /\ snap' = [thread |-> t, turn |-> n, status |-> status, announce |-> A]
        /\ pc' = "store" /\ due' = due
    BY <1>2, <1>4, <1>7, <2>1 DEF ReadThread
  <2>3. /\ \A i \in found : i \in 1 .. n /\ NotifierTerminal(turns[t][i])
        /\ rows[t].turn # NoTurn => \A i \in Int : i \in found <=> i \in rows[t].turn .. n /\ Reports(t, i)
        /\ rows[t].turn = NoTurn => found \subseteq {n}
    BY <1>3, <1>4, <2>1, FoundFits
  <2>4. n \in Nat \ {0} /\ n \in 1 .. n /\ \A i \in 1 .. n : turns[t][i] \in Turn
    BY <1>0, <1>3, <2>1 DEF CodexOK
  <2>5. \A i \in found : TurnKey(t, i) \in A
    BY <2>1 DEF Keys, TurnKey
  <2>6. ASSUME NEW k \in A
        PROVE  \E i \in found : k = TurnKey(t, i)
    BY <2>1, <2>6 DEF Keys, TurnKey
  <2>7. ASSUME NEW k \in A
        PROVE  k \in Key /\ k.thread = t /\ k.turn \in 1 .. n
    <3>1. PICK i \in found : k = TurnKey(t, i)
      BY <2>6, <2>7
    <3>2. i \in 1 .. n /\ SnapshotStatus(turns[t][i]) \in {"completed", "failed", "interrupted"}
      BY <2>3, <2>4, TurnShown
    <3> QED
      BY <1>3, <2>4, <3>1, <3>2 DEF TurnKey, Key
  <2>8. status \in Shown /\ status \in Statuses /\ (status = "interrupted" => turns[t][n].status # "active")
    <3>1. Latest(t) = turns[t][n] /\ turns[t][n] \in Turn
      BY <2>1, <2>4 DEF Latest
    <3> QED
      BY <2>1, <3>1, TurnShown, ShownIsCanonical
  <2>9. /\ snap'.thread = t /\ snap'.turn = n /\ snap'.status = status /\ snap'.announce = A
        /\ snap' \in Snap
    <3>1. t \in Nat /\ A \in SUBSET Key /\ n \in Nat
      BY <1>3, <2>4, <2>7, ThreadsAssumption
    <3> QED
      BY <2>2, <2>8, <3>1 DEF Snap
  <2>10. TypeOK'
    <3>1. CycleOK'
      BY <1>0, <1>1, <2>2, <2>9 DEF CycleOK
    <3> QED
      BY <1>0, <1>1, <3>1 DEF TypeOK, CodexOK, StoreOK, RestOK
  <2>11. RowsFit' /\ EntriesFit'
    BY <1>1, <2>2 DEF IInv, FitInv, RowsFit, EntriesFit, CursorFits
  <2>12. SnapFits'
    <3>1. n = Len(turns'[t])
      BY <1>1, <2>1
    <3>2. CursorFits(snap.thread, snap.turn, snap.status)'
      BY <1>1, <2>4, <2>8, <2>9, <3>1 DEF CursorFits
    <3> QED
      BY <1>1, <1>3, <2>7, <2>9, <3>2 DEF SnapFits
  <2>13. Events' = Events
    BY <1>1 DEF Events
  <2>14. CursorsKept' /\ QueueFits' /\ QueueInTurnOrder'
    BY <1>1, <2>13 DEF IInv, KeptInv, OrderInv, CursorsKept, QueueFits, QueueInTurnOrder, Covered, Has,
       AnnouncedBefore, Reports, TurnKey
  <2>15. PICK E : E = Events
    OBVIOUS
  <2>16. ASSUME rows[t].turn # NoTurn
         PROVE  \A i \in rows[t].turn .. n : Reports(t, i) => TurnKey(t, i) \in E \cup A
    <3>1. rows[t].turn \in Nat
      BY <1>3, RowFields
    <3> QED
      BY <2>3, <2>4, <2>5, <2>16, <3>1
  <2>17. SnapKept'
    <3> SUFFICES ASSUME rows[t].turn # NoTurn
                 PROVE  Covered(snap.thread, snap.turn, snap.status, Events \cup snap.announce)'
      BY <1>1, <2>9 DEF SnapKept
    <3>1. Covered(t, n, status, E \cup A)
      BY <1>3, <2>1, <2>15, <2>16, ReadCovers
    <3>2. Covered(t, n, status, E \cup A)'
      BY <1>1, <3>1 DEF Covered, Has
    <3> QED
      BY <2>9, <2>13, <2>15, <3>2
  <2>18. SnapQueued'
    <3>1. \A q \in E : /\ q.turn \in 1 .. Len(turns[q.thread])
                       /\ AnnouncedBefore(q.thread, q.turn, E)
      BY <2>15 DEF IInv, OrderInv, QueueFits
    <3>2. \A q \in E : q.thread = t => q.turn <= n
      BY <2>1, <2>4, <3>1
    <3>3. AnnouncedBefore(snap.thread, snap.turn, Events \cup snap.announce)'
      <4>1. AnnouncedBefore(t, n, E \cup A)
        <5>1. rows[t].turn \in Nat
          BY <1>3, RowFields
        <5> QED
          BY <2>4, <2>16, <5>1 DEF AnnouncedBefore
      <4>2. AnnouncedBefore(t, n, E \cup A)'
        BY <1>1, <4>1 DEF AnnouncedBefore, Reports, TurnKey
      <4> QED
        BY <2>9, <2>13, <2>15, <4>2
    <3>4. ASSUME NEW k \in A, k \notin E, NEW q \in E, q.thread = k.thread
          PROVE  q.turn <= k.turn
      <4>1. PICK i \in found : k = TurnKey(t, i)
        BY <2>6
      <4>2. i \in 1 .. n /\ k.turn = i /\ k.thread = t
        BY <2>3, <4>1 DEF TurnKey
      <4>3. q.thread = t /\ q.turn \in 1 .. n
        BY <2>1, <3>1, <3>4, <4>2
      <4>4. CASE rows[t].turn = NoTurn
        BY <2>3, <4>2, <4>3, <4>4
      <4>5. CASE rows[t].turn # NoTurn
        <5>1. rows[t].turn \in Nat /\ i \in rows[t].turn .. n /\ Reports(t, i)
          BY <1>3, <2>3, <2>4, <4>2, <4>5, RowFields
        <5>2. q.turn > i => i \in rows[t].turn .. (q.turn - 1)
          BY <2>4, <4>3, <5>1
        <5>3. q.turn > i => TurnKey(t, i) \in E
          BY <3>1, <4>3, <4>5, <5>1, <5>2 DEF AnnouncedBefore
        <5> QED
          BY <2>4, <3>4, <4>1, <4>2, <4>3, <5>3
      <4> QED
        BY <4>4, <4>5
    <3> QED
      BY <2>9, <2>13, <2>15, <3>2, <3>3, <3>4 DEF SnapQueued
  <2>19. FreshInv'
    <3>1. CaughtUp => CaughtUp'
      BY <1>1 DEF CaughtUp, Latest
    <3>2. SnapFresh'
      BY <1>1, <2>1, <2>9 DEF SnapFresh, Latest
    <3> QED
      BY <3>1, <3>2 DEF IInv, FreshInv
  <2> QED
    BY <2>10, <2>11, <2>12, <2>14, <2>17, <2>18, <2>19 DEF IInv, FitInv, KeptInv, OrderInv
<1> QED
  BY <1>6, <1>7

-----------------------------------------------------------------------------
(***************************************************************************)
(* Storing what was read: the notices, oldest turn first, then the cursor. *)
(***************************************************************************)

\* The insert adds the notice, or changes nothing when it is there.
LEMMA EnqueueEffect ==
  ASSUME queue \in Seq(Key), NEW k \in Key, queue' = EnqueueTerminalEvent(queue, k)
  PROVE  /\ queue' \in Seq(Key) /\ Events' = Events \cup {k}
         /\ \/ k \in Events /\ queue' = queue
            \/ k \notin Events /\ queue' = Append(queue, k)
<1>1. k \in Events <=> \E i \in DOMAIN queue : queue[i] = k
  BY DEF Events
<1>2. CASE k \in Events
  BY <1>1, <1>2 DEF EnqueueTerminalEvent, Events
<1>3. CASE k \notin Events
  <2>1. queue' = Append(queue, k)
    BY <1>1, <1>3 DEF EnqueueTerminalEvent
  <2>2. /\ queue' \in Seq(Key) /\ Len(queue) \in Nat /\ DOMAIN queue = 1 .. Len(queue)
        /\ DOMAIN queue' = 1 .. (Len(queue) + 1)
        /\ \A i \in 1 .. Len(queue) : queue'[i] = queue[i]
        /\ queue'[Len(queue) + 1] = k
    BY <2>1
  <2>3. Events' = {queue'[i] : i \in DOMAIN queue'}
    BY DEF Events
  <2>4. Events' = Events \cup {k}
    BY <2>2, <2>3 DEF Events
  <2> QED
    BY <1>3, <2>1, <2>2, <2>4
<1> QED
  BY <1>2, <1>3

\* The next notice of a read is one of them, and none has an earlier turn.
LEMMA OldestNotice ==
  ASSUME NEW A \in SUBSET Key, A # {},
         NEW k, k = CHOOSE y \in A : \A x \in A : y.turn <= x.turn
  PROVE  k \in A /\ \A x \in A : k.turn <= x.turn
<1>1. {x.turn : x \in A} \in SUBSET Nat /\ {x.turn : x \in A} # {}
  BY KeyFields
<1>2. \E m \in {x.turn : x \in A} : \A l \in {x.turn : x \in A} : m <= l
  BY <1>1, Least
<1>3. \E y \in A : \A x \in A : y.turn <= x.turn
  BY <1>2
<1> QED
  BY <1>3

\* More notices cover as much.
LEMMA CoveredByMore ==
  ASSUME NEW t, NEW r, NEW status, NEW S, NEW T, S \subseteq T, Covered(t, r, status, S)
  PROVE  Covered(t, r, status, T)
BY DEF Covered, Has

\* Queueing a notice keeps the invariant.
LEMMA EnqueueKeeps ==
  ASSUME IInv, EnqueueNext
  PROVE  IInv'
<1>0. CodexOK /\ StoreOK /\ CycleOK /\ RestOK
  BY DEF IInv, TypeOK
<1>1. /\ UNCHANGED <<clock, turns, updated, changed, twice, rows, activation, sweepCursor, target, repairRequest>>
      /\ UNCHANGED <<pc, page, nextCursor, due, firstErr, connected, control, faults, owed>>
      /\ pc = "store" /\ snap.announce # {}
  BY DEF EnqueueNext, codex, session, ghosts
<1>2. PICK s, E, k : /\ s = snap /\ E = Events
                     /\ k = CHOOSE y \in s.announce : \A x \in s.announce : y.turn <= x.turn
  OBVIOUS
<1>3. s \in Snap /\ s.announce \in SUBSET Key /\ s.turn \in Nat
  BY <1>0, <1>2, SnapFields DEF CycleOK
<1>4. k \in s.announce /\ k \in Key /\ \A x \in s.announce : k.turn <= x.turn
  BY <1>1, <1>2, <1>3, OldestNotice
<1>5. queue' = EnqueueTerminalEvent(queue, k) /\ snap' = [s EXCEPT !.announce = s.announce \ {k}]
  BY <1>2 DEF EnqueueNext
<1>6. /\ queue' \in Seq(Key) /\ Events' = E \cup {k}
      /\ \/ k \in E /\ queue' = queue
         \/ k \notin E /\ queue' = Append(queue, k)
  BY <1>0, <1>2, <1>4, <1>5, EnqueueEffect DEF StoreOK
<1>7. /\ snap' \in Snap /\ snap'.thread = s.thread /\ snap'.turn = s.turn /\ snap'.status = s.status
      /\ snap'.announce = s.announce \ {k}
  BY <1>3, <1>5 DEF Snap
<1>8. TypeOK'
  <2>1. StoreOK'
    BY <1>0, <1>1, <1>6 DEF StoreOK
  <2>2. CycleOK'
    BY <1>0, <1>1, <1>7 DEF CycleOK
  <2> QED
    BY <1>0, <1>1, <2>1, <2>2 DEF TypeOK, CodexOK, RestOK
<1>9. RowsFit' /\ EntriesFit'
  BY <1>1 DEF IInv, FitInv, RowsFit, EntriesFit, CursorFits
<1>10. /\ s.thread \in Threads /\ rows[s.thread].tracked /\ CursorFits(s.thread, s.turn, s.status)
       /\ \A x \in s.announce : x.thread = s.thread /\ x.turn \in 1 .. s.turn
  BY <1>1, <1>2 DEF IInv, FitInv, SnapFits
<1>11. SnapFits'
  <2>1. CursorFits(snap.thread, snap.turn, snap.status)'
    BY <1>1, <1>7, <1>10 DEF CursorFits
  <2> QED
    BY <1>1, <1>7, <1>10, <2>1 DEF SnapFits
<1>12. CursorsKept'
  <2> SUFFICES ASSUME NEW t \in Threads, rows[t].turn # NoTurn
               PROVE  Covered(t, rows[t].turn, rows[t].status, Events)'
    BY <1>1 DEF CursorsKept
  <2>1. PICK r, status : r = rows[t].turn /\ status = rows[t].status
    OBVIOUS
  <2>2. Covered(t, r, status, E)
    BY <1>2, <2>1 DEF IInv, KeptInv, CursorsKept
  <2>3. Covered(t, r, status, E \cup {k})
    BY <2>2, CoveredByMore
  <2>4. Covered(t, r, status, E \cup {k})'
    BY <1>1, <2>3 DEF Covered, Has
  <2>5. r = rows'[t].turn /\ status = rows'[t].status
    BY <1>1, <2>1
  <2> QED
    BY <1>6, <2>4, <2>5
<1>13. Events' \cup snap'.announce = E \cup s.announce
  BY <1>4, <1>6, <1>7
<1>14. SnapKept'
  <2> SUFFICES ASSUME rows[s.thread].turn # NoTurn
               PROVE  Covered(snap.thread, snap.turn, snap.status, Events \cup snap.announce)'
    BY <1>1, <1>7 DEF SnapKept
  <2>1. Covered(s.thread, s.turn, s.status, E \cup s.announce)
    BY <1>1, <1>2 DEF IInv, KeptInv, SnapKept
  <2>2. Covered(s.thread, s.turn, s.status, E \cup s.announce)'
    BY <1>1, <2>1 DEF Covered, Has
  <2> QED
    BY <1>7, <1>13, <2>2
<1>15. /\ \A q \in E : q.thread = s.thread => q.turn <= s.turn
       /\ AnnouncedBefore(s.thread, s.turn, E \cup s.announce)
       /\ \A x \in s.announce : x \in E \/ \A q \in E : q.thread = x.thread => q.turn <= x.turn
  BY <1>1, <1>2 DEF IInv, OrderInv, SnapQueued
<1>16. QueueFits'
  <2> SUFFICES ASSUME NEW q \in E \cup {k}
               PROVE  /\ q.turn \in 1 .. Len(turns[q.thread])
                      /\ AnnouncedBefore(q.thread, q.turn, E \cup {k})'
    BY <1>1, <1>6 DEF QueueFits
  <2>1. ASSUME AnnouncedBefore(q.thread, q.turn, E \cup {k})
        PROVE  AnnouncedBefore(q.thread, q.turn, E \cup {k})'
    BY <1>1, <2>1 DEF AnnouncedBefore, Reports, TurnKey
  <2>2. CASE q \in E
    <3>1. q.turn \in 1 .. Len(turns[q.thread]) /\ AnnouncedBefore(q.thread, q.turn, E)
      BY <1>2, <2>2 DEF IInv, OrderInv, QueueFits
    <3>2. AnnouncedBefore(q.thread, q.turn, E \cup {k})
      BY <3>1 DEF AnnouncedBefore
    <3> QED
      BY <2>1, <3>1, <3>2
  <2>3. CASE q = k
    <3>1. k.thread = s.thread /\ k.turn \in 1 .. s.turn /\ s.turn \in 1 .. Len(turns[s.thread])
      BY <1>4, <1>10 DEF CursorFits
    <3>2. Len(turns[s.thread]) \in Nat /\ rows[s.thread].turn \in Nat
      BY <1>0, <1>10, RowFields DEF CodexOK, StoreOK
    <3>3. ASSUME NEW i \in rows[s.thread].turn .. (k.turn - 1), rows[s.thread].turn # NoTurn,
                 Reports(s.thread, i)
          PROVE  TurnKey(s.thread, i) \in E
      <4>1. i \in rows[s.thread].turn .. (s.turn - 1) /\ i < k.turn
        BY <3>1, <3>2
      <4>2. TurnKey(s.thread, i) \in E \cup s.announce
        BY <1>15, <3>3, <4>1 DEF AnnouncedBefore
      <4>3. TurnKey(s.thread, i).turn = i
        BY DEF TurnKey
      <4>4. TurnKey(s.thread, i) \notin s.announce
        <5>1. ASSUME TurnKey(s.thread, i) \in s.announce
              PROVE  FALSE
          <6>1. k.turn <= i
            BY <1>4, <4>3, <5>1
          <6> QED
            BY <3>1, <3>2, <4>1, <6>1
        <5> QED
          BY <5>1
      <4> QED
        BY <4>2, <4>4
    <3>4. AnnouncedBefore(q.thread, q.turn, E \cup {k})
      BY <2>3, <3>1, <3>3 DEF AnnouncedBefore
    <3>5. q.turn \in 1 .. Len(turns[q.thread])
      BY <2>3, <3>1, <3>2
    <3> QED
      BY <2>1, <3>4, <3>5
  <2> QED
    BY <2>2, <2>3
<1>17. SnapQueued'
  <2>1. \A q \in Events' : q.thread = s.thread => q.turn <= s.turn
    <3>1. k.turn <= s.turn
      BY <1>3, <1>4, <1>10
    <3> QED
      BY <1>6, <1>15, <3>1
  <2>2. AnnouncedBefore(snap.thread, snap.turn, Events \cup snap.announce)'
    <3>1. AnnouncedBefore(s.thread, s.turn, E \cup s.announce)'
      BY <1>1, <1>15 DEF AnnouncedBefore, Reports, TurnKey
    <3> QED
      BY <1>7, <1>13, <3>1
  <2>3. \A x \in s.announce : \/ x \in E \cup {k}
                              \/ \A q \in E \cup {k} : q.thread = x.thread => q.turn <= x.turn
    BY <1>4, <1>15
  <2> QED
    BY <1>6, <1>7, <2>1, <2>2, <2>3 DEF SnapQueued
<1>18. QueueInTurnOrder'
  <2>1. CASE queue' = queue
    BY <2>1 DEF IInv, OrderInv, QueueInTurnOrder
  <2>2. CASE k \notin E /\ queue' = Append(queue, k)
    <3>1. queue \in Seq(Key)
      BY <1>0 DEF StoreOK
    <3>2. /\ Len(queue) \in Nat /\ DOMAIN queue = 1 .. Len(queue)
          /\ DOMAIN queue' = 1 .. (Len(queue) + 1)
          /\ \A i \in 1 .. Len(queue) : queue'[i] = queue[i]
          /\ queue'[Len(queue) + 1] = k
      BY <2>2, <3>1
    <3> SUFFICES ASSUME NEW i \in DOMAIN queue', NEW j \in DOMAIN queue',
                        i < j, queue'[i].thread = queue'[j].thread
                 PROVE  \/ queue'[i].turn < queue'[j].turn
                        \/ queue'[i].turn = queue'[j].turn /\ queue'[i].status # queue'[j].status
      BY DEF QueueInTurnOrder
    <3>3. i \in DOMAIN queue /\ queue'[i] = queue[i]
      BY <3>2
    <3>4. CASE j \in DOMAIN queue
      <4>1. queue'[j] = queue[j]
        BY <3>2, <3>4
      <4> QED
        BY <3>3, <3>4, <4>1 DEF IInv, OrderInv, QueueInTurnOrder
    <3>5. CASE j \notin DOMAIN queue
      <4>1. queue'[j] = k
        BY <3>2, <3>5
      <4>2. PICK q : q = queue[i]
        OBVIOUS
      <4>3. q \in E /\ q \in Key
        BY <1>2, <3>1, <3>3, <4>2 DEF Events
      <4>4. q.thread = k.thread /\ q # k
        BY <2>2, <3>3, <4>1, <4>2, <4>3
      <4>5. q.turn <= k.turn
        BY <1>4, <1>15, <2>2, <4>3, <4>4
      <4>6. q.turn \in Nat /\ k.turn \in Nat
        BY <1>4, <4>3, KeyFields
      <4>7. q.turn = k.turn => q.status # k.status
        BY <1>4, <4>3, <4>4, KeyFields
      <4>8. q.turn < k.turn \/ (q.turn = k.turn /\ q.status # k.status)
        BY <4>5, <4>6, <4>7
      <4> QED
        BY <3>3, <4>1, <4>2, <4>8
    <3> QED
      BY <3>4, <3>5
  <2> QED
    BY <1>6, <2>1, <2>2
<1>19. FreshInv'
  BY <1>1, <1>2, <1>7 DEF IInv, FreshInv, CaughtUp, SnapFresh, Latest
<1> QED
  BY <1>8, <1>9, <1>11, <1>12, <1>14, <1>16, <1>17, <1>18, <1>19 DEF IInv, FitInv, KeptInv, OrderInv

\* Moving the cursor, once every notice of the read is stored, keeps the invariant.
LEMMA RecordKeeps ==
  ASSUME IInv, RecordRead
  PROVE  IInv'
<1>0. CodexOK /\ StoreOK /\ CycleOK /\ RestOK /\ EntriesFit
  BY DEF IInv, TypeOK, FitInv
<1>1. /\ UNCHANGED <<clock, turns, updated, changed, twice, activation, sweepCursor, queue, target, repairRequest>>
      /\ UNCHANGED <<page, nextCursor, firstErr, connected, control, faults>>
      /\ pc = "store" /\ snap.announce = {} /\ pc' = "read" /\ snap' = NoSnap /\ due' \subseteq due
  BY DEF RecordRead, NextDue, codex, session
<1>2. PICK s, E : s = snap /\ E = Events
  OBVIOUS
<1>3. PICK t : t = s.thread
  OBVIOUS
<1>4. t \in Threads /\ rows[t].tracked /\ CursorFits(t, s.turn, s.status)
  BY <1>1, <1>2, <1>3 DEF IInv, FitInv, SnapFits
<1>5. PICK n : n = RecordNotifierRead(rows[t], s.turn, s.status)
  OBVIOUS
<1>6. rows' = [rows EXCEPT ![t] = n]
  BY <1>2, <1>3, <1>5 DEF RecordRead
<1>7. s.turn \in Nat /\ s.status \in Statuses /\ rows[t] \in Row
  BY <1>0, <1>2, <1>4, SnapFields DEF CycleOK, StoreOK
<1>8. /\ n \in Row /\ n.tracked = rows[t].tracked /\ n.turn = s.turn /\ n.status = s.status
      /\ n.baseline /\ n.watermark = rows[t].watermark
  BY <1>5, <1>7, RecordEffect
<1>9. /\ rows' \in [Threads -> Row]
      /\ \A u \in Threads : rows'[u] = IF u = t THEN n ELSE rows[u]
  BY <1>0, <1>4, <1>6, <1>8 DEF StoreOK
<1>10. PICK o : o = IF rows[t].turn # NoTurn THEN owed[t]
                    ELSE IF s.status = "active" THEN s.turn ELSE s.turn + 1
  OBVIOUS
<1>11. owed' = [owed EXCEPT ![t] = o]
  BY <1>2, <1>3, <1>10 DEF RecordRead
<1>12. o \in Nat
  BY <1>0, <1>4, <1>7, <1>10 DEF RestOK
<1>13. /\ owed' \in [Threads -> Nat]
       /\ \A u \in Threads : owed'[u] = IF u = t THEN o ELSE owed[u]
  BY <1>0, <1>11, <1>12 DEF RestOK
<1>14. TypeOK'
  <2>1. StoreOK'
    BY <1>0, <1>1, <1>9 DEF StoreOK
  <2>2. NoSnap \in Snap
    BY DEF NoSnap, Snap, Statuses, NoTurn
  <2>3. CycleOK'
    BY <1>0, <1>1, <2>2 DEF CycleOK
  <2>4. RestOK'
    BY <1>0, <1>1, <1>13 DEF RestOK
  <2> QED
    BY <1>0, <1>1, <2>1, <2>3, <2>4 DEF TypeOK, CodexOK
<1>15. RowsFit'
  <2> SUFFICES ASSUME NEW u \in Threads
               PROVE  /\ rows'[u].watermark <= updated[u] /\ updated[u] <= clock
                      /\ rows'[u].tracked => turns[u] # <<>>
                      /\ rows'[u].turn # NoTurn =>
                           /\ rows'[u].tracked /\ rows'[u].baseline
                           /\ CursorFits(u, rows[u].turn, rows[u].status)'
    BY <1>1 DEF RowsFit
  <2>1. CASE u = t
    <3>1. rows'[u] = n
      BY <1>9, <2>1
    <3>2. CursorFits(u, rows[u].turn, rows[u].status)'
      BY <1>1, <1>4, <1>8, <2>1, <3>1 DEF CursorFits
    <3> QED
      BY <1>4, <1>8, <2>1, <3>1, <3>2 DEF IInv, FitInv, RowsFit
  <2>2. CASE u # t
    <3>1. rows'[u] = rows[u]
      BY <1>9, <2>2
    <3> QED
      BY <1>1, <3>1 DEF IInv, FitInv, RowsFit, CursorFits
  <2> QED
    BY <2>1, <2>2
<1>16. EntriesFit'
  BY <1>0, <1>1, <1>8, <1>9, FewerEntries
<1>17. SnapFits' /\ SnapKept' /\ SnapQueued' /\ SnapFresh'
  BY <1>1 DEF SnapFits, SnapKept, SnapQueued, SnapFresh
<1>18. Events' = E
  BY <1>1, <1>2 DEF Events
<1>19. CursorsKept'
  <2> SUFFICES ASSUME NEW u \in Threads, rows'[u].turn # NoTurn
               PROVE  Covered(u, rows[u].turn, rows[u].status, Events)'
    BY DEF CursorsKept
  <2>1. CASE u # t
    <3>1. PICK r, status : r = rows[u].turn /\ status = rows[u].status
      OBVIOUS
    <3>2. rows'[u].turn = r /\ rows'[u].status = status /\ owed'[u] = owed[u]
      BY <1>9, <1>13, <2>1, <3>1
    <3>3. Covered(u, r, status, E)
      BY <1>2, <3>1, <3>2 DEF IInv, KeptInv, CursorsKept
    <3>4. Covered(u, r, status, E)'
      BY <1>1, <3>2, <3>3 DEF Covered, Has
    <3> QED
      BY <1>18, <3>2, <3>4
  <2>2. CASE u = t
    <3>1. rows'[u].turn = s.turn /\ rows'[u].status = s.status /\ owed'[t] = o
      BY <1>8, <1>9, <1>13, <2>2
    <3>2. Covered(t, s.turn, s.status, E)'
      <4>1. CASE rows[t].turn # NoTurn
        <5>1. E \cup s.announce = E
          BY <1>1, <1>2
        <5>2. Covered(t, s.turn, s.status, E \cup s.announce)
          BY <1>1, <1>2, <1>3, <4>1 DEF IInv, KeptInv, SnapKept
        <5>3. owed'[t] = owed[t]
          BY <1>10, <3>1, <4>1
        <5> QED
          BY <1>1, <5>1, <5>2, <5>3 DEF Covered, Has
      <4>2. CASE rows[t].turn = NoTurn
        <5>1. o >= s.turn /\ (s.status # "active" => o > s.turn)
          BY <1>7, <1>10, <4>2
        <5>2. \A i \in 1 .. (s.turn - 1) : ~(o <= i)
          BY <1>7, <1>12, <5>1
        <5>3. s.status # "active" => ~(o <= s.turn)
          BY <1>7, <1>12, <5>1
        <5> QED
          BY <3>1, <5>2, <5>3 DEF Covered
      <4> QED
        BY <4>1, <4>2
    <3> QED
      BY <1>18, <2>2, <3>1, <3>2
  <2> QED
    BY <2>1, <2>2
<1>20. QueueFits'
  <2> SUFFICES ASSUME NEW q \in E
               PROVE  /\ q.turn \in 1 .. Len(turns[q.thread])
                      /\ AnnouncedBefore(q.thread, q.turn, E)'
    BY <1>1, <1>18 DEF QueueFits
  <2>1. q.turn \in 1 .. Len(turns[q.thread]) /\ AnnouncedBefore(q.thread, q.turn, E)
    BY <1>2 DEF IInv, OrderInv, QueueFits
  <2>2. q \in Key /\ q.thread \in Threads /\ q.turn \in Nat
    BY <1>0, <1>2, KeyFields DEF StoreOK, Events
  <2>3. CASE q.thread = t
    <3>1. q.turn <= s.turn
      BY <1>1, <1>2, <1>3, <2>3 DEF IInv, OrderInv, SnapQueued
    <3>2. rows'[t].turn = s.turn
      BY <1>4, <1>8, <1>9
    <3>3. \A i \in s.turn .. (q.turn - 1) : FALSE
      BY <1>7, <2>2, <3>1
    <3> QED
      BY <2>1, <2>3, <3>2, <3>3 DEF AnnouncedBefore
  <2>4. CASE q.thread # t
    <3>1. rows'[q.thread] = rows[q.thread]
      BY <1>9, <2>2, <2>4
    <3> QED
      BY <1>1, <2>1, <3>1 DEF AnnouncedBefore, Reports, TurnKey
  <2> QED
    BY <2>3, <2>4
<1>21. QueueInTurnOrder'
  BY <1>1 DEF IInv, OrderInv, QueueInTurnOrder
<1>22. FreshInv'
  <2> SUFFICES CaughtUp'
    BY <1>17 DEF FreshInv
  <2>1. CaughtUp /\ SnapFresh
    BY DEF IInv, FreshInv
  <2>2. (t \notin twice /\ rows[t].watermark = updated[t]) => s.turn = Len(turns[t]) /\ s.status = SnapshotStatus(Latest(t))
    BY <1>1, <1>2, <1>3, <2>1 DEF SnapFresh
  <2>3. \A u \in Threads : Latest(u)' = Latest(u)
    BY <1>1 DEF Latest
  <2>4. rows'[t].turn = s.turn /\ rows'[t].status = s.status /\ rows'[t].watermark = rows[t].watermark
    BY <1>4, <1>8, <1>9
  <2>5. \A u \in Threads : u # t => rows'[u] = rows[u]
    BY <1>9
  <2> QED
    BY <1>1, <2>1, <2>2, <2>3, <2>4, <2>5 DEF CaughtUp
<1> QED
  BY <1>14, <1>15, <1>16, <1>17, <1>19, <1>20, <1>21, <1>22 DEF IInv, FitInv, KeptInv, OrderInv

-----------------------------------------------------------------------------
(***************************************************************************)
(* The theorems.                                                           *)
(***************************************************************************)

\* The first start of the daemon satisfies the invariant.
LEMMA InitIInv ==
  ASSUME Init
  PROVE  IInv
<1>1. InitialTurns \subseteq Seq(Turn)
  <2>1. ASSUME NEW s \in {"active"} \cup (FinishStatuses \ {"cancelled"})
        PROVE  <<[status |-> s, final |-> s = "completed"]>> \in Seq(Turn)
    <3>1. s \in RawStatuses
      BY <2>1, StatusAssumption DEF RawStatuses
    <3>2. (s = "completed") \in BOOLEAN
      BY Zenon
    <3>3. PICK x : x = [status |-> s, final |-> s = "completed"]
      OBVIOUS
    <3>4. x \in Turn
      BY <3>1, <3>2, <3>3 DEF Turn
    <3>5. <<x>> \in Seq(Turn)
      BY <3>4
    <3> QED
      BY <3>3, <3>5
  <2>2. ASSUME NEW x \in InitialTurns
        PROVE  x \in Seq(Turn)
    <3>1. \/ x = <<>>
          \/ \E s \in {"active"} \cup (FinishStatuses \ {"cancelled"}) :
               x = <<[status |-> s, final |-> s = "completed"]>>
      BY <2>2, Zenon DEF InitialTurns
    <3>2. <<>> \in Seq(Turn)
      OBVIOUS
    <3> QED
      BY <2>1, <3>1, <3>2, Zenon
  <2> QED
    BY <2>2
<1>2. CodexOK
  BY <1>1 DEF Init, CodexOK
<1>3. Untracked \in Row /\ Untracked.turn = NoTurn /\ ~Untracked.tracked /\ Untracked.watermark = 0
  BY DEF Untracked, Row, NoTurn, Statuses
<1>4. \A t \in Threads : rows[t] = Untracked /\ updated[t] = 0
  BY DEF Init
<1>5. Events = {}
  BY DEF Init, Events
<1>6. TypeOK
  <2>1. NoSnap \in Snap
    BY DEF NoSnap, Snap, Statuses, NoTurn
  <2>2. StoreOK
    <3>1. rows \in [Threads -> Row]
      BY <1>3 DEF Init
    <3>2. target \in BOOLEAN /\ repairRequest \in BOOLEAN
      BY Zenon DEF Init
    <3>3. activation \in Nat /\ sweepCursor \in SUBSET Entry /\ queue \in Seq(Key)
      BY DEF Init
    <3> QED
      BY <3>1, <3>2, <3>3 DEF StoreOK
  <2>3. CycleOK
    BY <2>1 DEF Init, CycleOK
  <2>4. RestOK
    BY DEF Init, RestOK, NoTurn
  <2> QED
    BY <1>2, <2>2, <2>3, <2>4 DEF TypeOK
<1>7. FitInv
  BY <1>3, <1>4 DEF Init, FitInv, RowsFit, EntriesFit, SnapFits
<1>8. KeptInv
  BY <1>3, <1>4 DEF Init, KeptInv, CursorsKept, SnapKept
<1>9. OrderInv
  BY <1>5 DEF Init, OrderInv, QueueFits, SnapQueued, QueueInTurnOrder
<1>10. FreshInv
  BY <1>3, <1>4 DEF Init, FreshInv, CaughtUp, SnapFresh
<1> QED
  BY <1>6, <1>7, <1>8, <1>9, <1>10 DEF IInv

\* Every step keeps the invariant.
LEMMA NextIInv ==
  ASSUME IInv, [Next]_vars
  PROVE  IInv'
<1>1. CASE \E t \in Threads : Codex(t)
  BY <1>1, CodexKeeps
<1>2. CASE Cycle
  BY <1>2, ListKeeps, CycleMoves, ObserveKeeps, PollStartKeeps, ReadKeeps, EnqueueKeeps, RecordKeeps,
     ReadMissKeeps DEF Cycle
<1>3. CASE Tick \/ Control \/ PairTarget \/ UNCHANGED vars
  BY <1>3, OthersMove DEF Control
<1>4. CASE Faulty
  BY <1>4, CycleMoves, ReadMissKeeps, OthersMove DEF Faulty
<1> QED
  BY <1>1, <1>2, <1>3, <1>4 DEF Next

\* The invariant holds in every state that Codex, the cycle, the control loop, failed calls and
\* crashes can lead to.
THEOREM Invariance == Spec => []IInv
BY InitIInv, NextIInv, PTL DEF Spec

\* RecordNotifierRead never overtakes EnqueueTerminalEvent: whatever a row's cursor has passed
\* since it was first recorded is in the queue.
THEOREM CursorsAreCovered == Spec => []CursorInv
<1>1. ASSUME IInv
      PROVE  CursorCovered
  <2> SUFFICES ASSUME NEW t \in Threads, rows[t].turn # NoTurn
               PROVE  /\ \A i \in 1 .. Len(turns[t]) :
                           (owed[t] <= i /\ i < rows[t].turn /\ NotifierTerminal(turns[t][i]))
                             => Announced(t, i)
                      /\ (owed[t] <= rows[t].turn /\ rows[t].status \in {"completed", "failed"})
                           => [thread |-> t, turn |-> rows[t].turn, status |-> rows[t].status] \in Events
    BY DEF CursorCovered
  <2>1. Covered(t, rows[t].turn, rows[t].status, Events)
    BY <1>1 DEF IInv, KeptInv, CursorsKept
  <2>2. rows[t].turn \in 1 .. Len(turns[t]) /\ Len(turns[t]) \in Nat
    BY <1>1 DEF IInv, TypeOK, CodexOK, FitInv, RowsFit, CursorFits
  <2>3. \A i \in 1 .. Len(turns[t]) : i < rows[t].turn => i \in 1 .. (rows[t].turn - 1)
    BY <2>2
  <2> QED
    BY <2>1, <2>3 DEF Covered, Has, Announced
<1>2. IInv => CursorInv
  BY <1>1 DEF IInv, CursorInv
<1> QED
  BY <1>2, Invariance, PTL

\* EnqueueTerminalEvent keeps the notices of a conversation in turn order and stores none twice,
\* although a crash before RecordNotifierRead makes the next read announce the same turns again.
THEOREM QueuedInOrder == Spec => []QueueInTurnOrder
<1>1. IInv => QueueInTurnOrder
  BY DEF IInv, OrderInv
<1> QED
  BY <1>1, Invariance, PTL

\* A row that rests at the present list timestamp has seen the present turn, unless the
\* conversation changed again within that second: ObserveNotifierThread re-arms every other row.
THEOREM RestingRowsCaughtUp == Spec => []CaughtUp
<1>1. IInv => CaughtUp
  BY DEF IInv, FreshInv
<1> QED
  BY <1>1, Invariance, PTL

-----------------------------------------------------------------------------
(***************************************************************************)
(* History is not replayed: what is read, about to be queued or queued is  *)
(* of a conversation that Codex has listed as changed after activation.    *)
(***************************************************************************)

Woken(t) == updated[t] > activation

HistInv ==
  /\ \A k \in Events : Woken(k.thread)
  /\ \A e \in due : Woken(e.thread)
  /\ pc = "store" => Woken(snap.thread)

\* The invariant speaks of conversations only.
LEMMA HistThreads ==
  ASSUME IInv
  PROVE  /\ \A k \in Events : k.thread \in Threads
         /\ \A e \in due : e.thread \in Threads
         /\ pc = "store" => snap.thread \in Threads
BY KeyFields, EntryFields DEF IInv, TypeOK, StoreOK, CycleOK, Events, FitInv, SnapFits

\* A conversation that has changed after activation stays one.
LEMMA WokenStays ==
  ASSUME IInv, [Next]_vars
  PROVE  \A t \in Threads : Woken(t) => Woken(t)'
<1>0. CodexOK /\ StoreOK
  BY DEF IInv, TypeOK
<1>1. activation' = activation
  BY DEF Next, Codex, StartTurn, FinalAnswer, FinishTurn, SettleTurn, TouchThread, TurnChanges, Tick,
         Cycle, PollLoopTick, StartCycle, ListHead, ListSweep, ObserveEntry, EndHead, EndSweep,
         PollSkipped, PollStart, ReadThread, EnqueueNext, RecordRead, ReadUnreadable, EndPoll,
         Control, Reconcile, RepairSwap, Bootstrap, ClearRepair, PairTarget,
         Faulty, ListFails, ReadDeadline, ReadFails, RequestRepair, Restart,
         EnsureNotifierActivation, store, vars
<1>2. CASE \E t \in Threads : Codex(t)
  <2>1. TimesMove
    BY <1>0, <1>2, CodexEffect
  <2>2. \A t \in Threads : updated[t] \in Nat /\ updated[t] <= clock /\ clock \in Nat /\ activation \in Nat
    BY <1>0 DEF CodexOK, StoreOK, IInv, FitInv, RowsFit
  <2>3. \A t \in Threads : updated'[t] = updated[t] \/ updated'[t] = clock
    BY <2>1 DEF TimesMove
  <2> QED
    BY <1>1, <2>2, <2>3 DEF Woken
<1>3. CASE ~\E t \in Threads : Codex(t)
  <2>1. updated' = updated
    BY <1>3 DEF Next, Tick,
         Cycle, PollLoopTick, StartCycle, ListHead, ListSweep, ObserveEntry, EndHead, EndSweep,
         PollSkipped, PollStart, ReadThread, EnqueueNext, RecordRead, ReadUnreadable, EndPoll,
         Control, Reconcile, RepairSwap, Bootstrap, ClearRepair, PairTarget,
         Faulty, ListFails, ReadDeadline, ReadFails, RequestRepair, Restart, codex, vars
  <2> QED
    BY <1>1, <2>1 DEF Woken
<1> QED
  BY <1>2, <1>3

\* A step that queues nothing, and reads nothing that was not due, keeps it.
LEMMA HistFrame ==
  ASSUME IInv, [Next]_vars, HistInv, queue' = queue, due' \subseteq due,
         pc' = "store" => \/ pc = "store" /\ snap'.thread = snap.thread
                          \/ \E e \in due : snap'.thread = e.thread
  PROVE  HistInv'
<1>1. Events' = Events
  BY DEF Events
<1>2. \A k \in Events : k.thread \in Threads /\ Woken(k.thread)
  BY HistThreads DEF HistInv
<1>3. \A e \in due : e.thread \in Threads /\ Woken(e.thread)
  BY HistThreads DEF HistInv
<1>4. pc = "store" => snap.thread \in Threads /\ Woken(snap.thread)
  BY HistThreads DEF HistInv
<1>5. \A t \in Threads : Woken(t) => updated'[t] > activation'
  BY WokenStays DEF Woken
<1> QED
  BY <1>1, <1>2, <1>3, <1>4, <1>5 DEF HistInv, Woken

\* The batch is drawn from rows that the baseline has left due, so from rows listed after activation.
LEMMA HistPollStart ==
  ASSUME IInv, HistInv, PollStart
  PROVE  HistInv'
<1>1. /\ queue' = queue /\ pc' = "read" /\ updated' = updated /\ activation' = activation
      /\ due' = DueBatch(rows', clock)
      /\ rows' = [t \in Threads |-> BaselineAtOrBefore(rows[t], activation)]
  BY DEF PollStart, EnsureNotifierActivation, codex
<1>2. ASSUME NEW e \in due'
      PROVE  Woken(e.thread)
  <2> DEFINE Ready == {[thread |-> t, at |-> rows'[t].watermark] :
                         t \in {u \in Threads : /\ rows'[u].tracked
                                                /\ rows'[u].required
                                                /\ rows'[u].deferUntil <= clock}}
  <2>1. due' \subseteq Ready
    BY <1>1, NewestIsPart DEF DueBatch
  <2>2. PICK t \in Threads : rows'[t].tracked /\ rows'[t].required /\ e.thread = t
    BY <1>2, <2>1
  <2>3. /\ rows[t] \in Row /\ rows[t].watermark \in Nat /\ activation \in Nat /\ updated[t] \in Nat
        /\ rows[t].watermark <= updated[t]
    BY RowFields DEF IInv, TypeOK, CodexOK, StoreOK, FitInv, RowsFit
  <2>4. rows'[t] = BaselineAtOrBefore(rows[t], activation)
    BY <1>1
  <2>5. ~(rows[t].tracked /\ rows[t].watermark <= activation) /\ rows[t].tracked
    BY <2>2, <2>3, <2>4 DEF BaselineAtOrBefore, Row
  <2> QED
    BY <2>2, <2>3, <2>5 DEF Woken
<1>3. Events' = Events
  BY <1>1 DEF Events
<1> QED
  BY <1>1, <1>2, <1>3 DEF HistInv, Woken

\* A notice is of the conversation that was read.
LEMMA HistEnqueue ==
  ASSUME IInv, HistInv, EnqueueNext
  PROVE  HistInv'
<1>1. /\ UNCHANGED <<updated, activation, due, pc>> /\ pc = "store" /\ snap.announce # {}
      /\ snap.announce \in SUBSET Key /\ queue \in Seq(Key) /\ snap \in Snap
  BY SnapFields DEF EnqueueNext, codex, IInv, TypeOK, StoreOK, CycleOK
<1>2. PICK k : k = CHOOSE y \in snap.announce : \A x \in snap.announce : y.turn <= x.turn
  OBVIOUS
<1>3. k \in snap.announce /\ k \in Key
  BY <1>1, <1>2, OldestNotice
<1>4. queue' = EnqueueTerminalEvent(queue, k) /\ snap'.thread = snap.thread
  BY <1>1, <1>2 DEF EnqueueNext, Snap
<1>5. Events' = Events \cup {k}
  BY <1>1, <1>3, <1>4, EnqueueEffect
<1>6. k.thread = snap.thread
  BY <1>1, <1>3 DEF IInv, FitInv, SnapFits
<1> QED
  BY <1>1, <1>4, <1>5, <1>6 DEF HistInv, Woken

\* Every other step leaves the queue alone and reads only what was due.
LEMMA NextHist ==
  ASSUME IInv, HistInv, [Next]_vars
  PROVE  HistInv'
<1>1. CASE PollStart
  BY <1>1, HistPollStart
<1>2. CASE EnqueueNext
  BY <1>2, HistEnqueue
<1>3. CASE ReadThread
  <2>1. First(due) \in due
    BY <1>3, FirstFits DEF ReadThread
  <2>2. queue' = queue /\ due' \subseteq due
    BY <1>3 DEF ReadThread, NextDue, store
  <2>3. pc' = "store" => snap'.thread = First(due).thread
    BY <1>3 DEF ReadThread, Current
  <2> QED
    BY <2>1, <2>2, <2>3, HistFrame
<1>4. CASE \E t \in Threads : Codex(t)
  <2>1. UNCHANGED <<store, cycle>>
    BY <1>4, CodexEffect DEF IInv, TypeOK
  <2>2. queue' = queue /\ due' = due /\ pc' = pc /\ snap' = snap
    BY <2>1 DEF store, cycle
  <2> QED
    BY <2>2, HistFrame
<1>5. CASE \/ PollLoopTick \/ ListHead \/ ListSweep \/ ObserveEntry \/ EndHead \/ EndSweep
           \/ PollSkipped \/ RecordRead \/ ReadUnreadable \/ EndPoll
  <2>1. queue' = queue /\ due' \subseteq due /\ pc' # "store"
    BY <1>5 DEF PollLoopTick, StartCycle, ListHead, ListSweep, ObserveEntry, EndHead, EndSweep,
         PollSkipped, RecordRead, ReadUnreadable, EndPoll, EndCycle, NextDue, store
  <2> QED
    BY <2>1, HistFrame
<1>6. CASE Tick \/ Control \/ PairTarget \/ UNCHANGED vars
  <2>1. queue' = queue /\ due' = due /\ snap' = snap /\ (pc' = "store" => pc = "store")
    BY <1>6 DEF Tick, Control, Reconcile, RepairSwap, Bootstrap, StartCycle, ClearRepair, PairTarget,
         store, cycle, vars
  <2> QED
    BY <2>1, HistFrame
<1>7. CASE Faulty
  <2>1. /\ queue' = queue /\ due' \subseteq due
        /\ pc' = "store" => pc = "store" /\ snap' = snap
    BY <1>7 DEF Faulty, ListFails, ReadDeadline, ReadFails, RequestRepair, Restart, NextDue, store, cycle
  <2> QED
    BY <2>1, HistFrame
<1> QED
  BY <1>1, <1>2, <1>3, <1>4, <1>5, <1>6, <1>7 DEF Next, Cycle

\* Conversations that were over at activation, and that Codex has not listed as changed since, are
\* baselines: none of their turns is announced, whatever fails, crashes or is read late.
THEOREM BaselinesStaySilent == Spec => []HistoryNotReplayed
<1>1. Init => HistInv
  BY DEF Init, HistInv, Events
<1>2. HistInv => HistoryNotReplayed
  BY DEF HistInv, HistoryNotReplayed, Woken
<1> QED
  BY <1>1, <1>2, NextHist, Invariance, PTL DEF Spec
=============================================================================
