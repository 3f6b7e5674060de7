-------------------------- MODULE ThreadPanelProofs --------------------------
(***************************************************************************)
(* Safety of the legacy profile's panel in both modes, for every set of    *)
(* goroutines, every number of turns, presses, failed calls and deaths.    *)
(***************************************************************************)
EXTENDS ThreadPanel, FiniteSetTheorems, TLAPS

-----------------------------------------------------------------------------
(***************************************************************************)
(* The inductive invariant, of the rows and the cards alone.               *)
(***************************************************************************)

Statuses == {"inProgress", "interrupted", "completed"}

RowSet ==
  [turn : TurnIds, status : Statuses, mode : Modes, live : Nat, work : BOOLEAN, run : BOOLEAN,
   user : BOOLEAN, runFP : [turn : 0 .. MaxTurns, mode : Modes], userFP : 0 .. MaxTurns,
   finalFP : 0 .. MaxTurns, shown : Views, card : {"live", "final"}]

CardSet ==
  [kind : {"live", "final"}, of : TurnIds, row : Nat, turn : TurnIds,
   shows : {"live", "final", "details", "gone"}]

\* The final cards of row r among the cards ch.
FinalsIn(ch, r) == {m \in DOMAIN ch : ch[m].kind = "final" /\ ch[m].row = r}

\* The final card before m of the same row is of the same turn.
RepeatIn(ch, m) ==
  /\ ch[m].kind = "final"
  /\ \E k \in FinalsIn(ch, ch[m].row) :
       /\ k < m /\ ch[k].of = ch[m].of
       /\ \A j \in FinalsIn(ch, ch[m].row) : j <= k \/ m <= j

RepeatsIn(ch) == {m \in DOMAIN ch : RepeatIn(ch, m)}

\* The last final card of the current row is not the one that the row records.
OffIn(rows, ch) ==
  \E m \in FinalsIn(ch, Len(rows)) :
    /\ ch[m].of # rows[Len(rows)].finalFP
    /\ \A j \in FinalsIn(ch, Len(rows)) : j <= m

\* Every row has a card of its own, which is in the chat.
LiveFits(rows, ch) ==
  /\ \A r \in DOMAIN rows : rows[r].live \in DOMAIN ch /\ ch[rows[r].live].shows # "gone"
  /\ \A r, k \in DOMAIN rows : rows[r].live = rows[k].live => r = k

CardsFit(rows, ch) ==
  \A m \in DOMAIN ch :
    /\ ch[m].row \in 0 .. Len(rows)
    /\ ch[m].shows = "details" => ch[m].turn = ch[m].of

\* What a row records was sent, or taken for told (q).
ToldFits(rows, ch, q) ==
  \A r \in DOMAIN rows :
    \/ rows[r].finalFP \in {0} \cup q
    \/ \E m \in FinalsIn(ch, r) : ch[m].of = rows[r].finalFP

\* Every repetition has its failure, and the one to come has had it already.
CountFits(rows, ch, b) ==
  Cardinality(RepeatsIn(ch)) + (IF OffIn(rows, ch) THEN 1 ELSE 0) <= b

Fits(rows, ch, q, b) ==
  /\ rows \in Seq(RowSet) /\ ch \in Seq(CardSet)
  /\ LiveFits(rows, ch) /\ CardsFit(rows, ch) /\ ToldFits(rows, ch, q) /\ CountFits(rows, ch, b)

\* What goroutines are about to do.
ActsFit ==
  /\ \A p \in Actors : act[p].pc \in {"sync", "locked"} =>
       act[p].view \in Views /\ (act[p].mode = "observer" => ~act[p].force)
  /\ act[Bot].pc = "mark" => latest # NoView /\ act[Bot].view \in Views

\* A press of Details carries the turn that its card was sent for.
PressFits == \A d \in press : d.turn = chat[d.msg].of

IInv ==
  /\ TypeOK
  /\ Fits(panels, chat, replayed, faults)
  /\ ActsFit /\ PressFits

-----------------------------------------------------------------------------
(***************************************************************************)
(* Changes of rows and cards that keep it.                                 *)
(***************************************************************************)

\* A card and a row have their fields.
LEMMA CardFields ==
  ASSUME NEW ch \in Seq(CardSet), NEW m \in DOMAIN ch
  PROVE  /\ ch[m].kind \in {"live", "final"} /\ ch[m].of \in TurnIds /\ ch[m].row \in Nat
         /\ ch[m].turn \in TurnIds /\ ch[m].shows \in {"live", "final", "details", "gone"}
         /\ m \in Nat /\ m \in 1 .. Len(ch)
<1>1. ch[m] \in CardSet /\ m \in 1 .. Len(ch)
  OBVIOUS
<1>2. QED
  BY <1>1 DEF CardSet

\* The fields of a row.
LEMMA RowFields ==
  ASSUME NEW rows \in Seq(RowSet), NEW r \in DOMAIN rows
  PROVE  /\ rows[r] \in RowSet /\ rows[r].turn \in TurnIds /\ rows[r].status \in Statuses
         /\ rows[r].mode \in Modes /\ rows[r].live \in Nat
         /\ rows[r].userFP \in 0 .. MaxTurns /\ rows[r].finalFP \in 0 .. MaxTurns
         /\ r \in Nat /\ r \in 1 .. Len(rows)
<1>1. rows[r] \in RowSet /\ r \in 1 .. Len(rows)
  OBVIOUS
<1>2. QED
  BY <1>1 DEF RowSet

\* The repetitions can be counted.
LEMMA RepeatsFinite ==
  ASSUME NEW ch \in Seq(CardSet)
  PROVE  IsFiniteSet(RepeatsIn(ch)) /\ Cardinality(RepeatsIn(ch)) \in Nat
<1>1. RepeatsIn(ch) \subseteq 1 .. Len(ch)
  BY DEF RepeatsIn
<1>2. IsFiniteSet(1 .. Len(ch))
  <2>1. Len(ch) \in Nat /\ 1 \in Nat
    OBVIOUS
  <2>2. QED
    BY <2>1, FS_Interval
<1>3. IsFiniteSet(RepeatsIn(ch))
  BY <1>1, <1>2, FS_Subset
<1>4. QED
  BY <1>3, FS_CardinalityType

\* What a card shows has no part in the counts.
LEMMA SameFinals ==
  ASSUME NEW ch \in Seq(CardSet), NEW ch2 \in Seq(CardSet), DOMAIN ch2 = DOMAIN ch,
         \A m \in DOMAIN ch : ch2[m].kind = ch[m].kind /\ ch2[m].of = ch[m].of
                              /\ ch2[m].row = ch[m].row
  PROVE  /\ \A r : FinalsIn(ch2, r) = FinalsIn(ch, r)
         /\ RepeatsIn(ch2) = RepeatsIn(ch)
         /\ \A rows : OffIn(rows, ch2) <=> OffIn(rows, ch)
<1>1. \A r : FinalsIn(ch2, r) = FinalsIn(ch, r)
  BY Zenon DEF FinalsIn
<1>2. \A r : FinalsIn(ch, r) \subseteq DOMAIN ch
  BY Zenon DEF FinalsIn
<1>3. ASSUME NEW m \in DOMAIN ch
      PROVE  RepeatIn(ch2, m) <=> RepeatIn(ch, m)
  BY <1>1, <1>2, <1>3, Zenon DEF RepeatIn
<1>4. RepeatsIn(ch2) = RepeatsIn(ch)
  BY <1>3, Zenon DEF RepeatsIn
<1>5. ASSUME NEW rows
      PROVE  OffIn(rows, ch2) <=> OffIn(rows, ch)
  <2>1. FinalsIn(ch2, Len(rows)) = FinalsIn(ch, Len(rows))
    BY <1>1
  <2>2. \A m \in FinalsIn(ch, Len(rows)) : ch2[m].of = ch[m].of
    BY <1>2
  <2>3. QED
    BY <2>1, <2>2, Zenon DEF OffIn
<1>6. QED
  BY <1>1, <1>4, <1>5, Zenon

\* A card may be edited; it may be deleted when no row needs it.
LEMMA Restyle ==
  ASSUME NEW rows, NEW ch, NEW q, NEW b, Fits(rows, ch, q, b),
         NEW ch2 \in Seq(CardSet), DOMAIN ch2 = DOMAIN ch,
         \A m \in DOMAIN ch : ch2[m].kind = ch[m].kind /\ ch2[m].of = ch[m].of
                              /\ ch2[m].row = ch[m].row,
         \A m \in DOMAIN ch : ch2[m].shows = "gone" =>
           ch[m].shows = "gone" \/ \A r \in DOMAIN rows : rows[r].live # m,
         \A m \in DOMAIN ch : ch2[m].shows = "details" => ch2[m].turn = ch2[m].of
  PROVE  Fits(rows, ch2, q, b)
<1>1. /\ rows \in Seq(RowSet) /\ ch \in Seq(CardSet)
      /\ LiveFits(rows, ch) /\ CardsFit(rows, ch) /\ ToldFits(rows, ch, q) /\ CountFits(rows, ch, b)
  BY Zenon DEF Fits
<1>2. /\ \A r : FinalsIn(ch2, r) = FinalsIn(ch, r)
      /\ RepeatsIn(ch2) = RepeatsIn(ch)
      /\ OffIn(rows, ch2) <=> OffIn(rows, ch)
  BY <1>1, SameFinals, Zenon
<1>3. LiveFits(rows, ch2)
  BY <1>1, Zenon DEF LiveFits
<1>4. CardsFit(rows, ch2)
  BY <1>1, Zenon DEF CardsFit
<1>5. \A r : FinalsIn(ch, r) \subseteq DOMAIN ch
  BY Zenon DEF FinalsIn
<1>6. ToldFits(rows, ch2, q)
  BY <1>1, <1>2, <1>5, Zenon DEF ToldFits
<1>7. CountFits(rows, ch2, b)
  BY <1>1, <1>2, Zenon DEF CountFits
<1>8. QED
  BY <1>1, <1>3, <1>4, <1>6, <1>7, Zenon DEF Fits

\* What is appended changes nothing before it.
LEMMA AppendFields ==
  ASSUME NEW S, NEW s \in Seq(S), NEW e \in S
  PROVE  /\ Append(s, e) \in Seq(S) /\ Len(Append(s, e)) = Len(s) + 1
         /\ Len(s) \in Nat /\ DOMAIN s = 1 .. Len(s) /\ DOMAIN Append(s, e) = 1 .. Len(s) + 1
         /\ Append(s, e)[Len(s) + 1] = e
         /\ \A i \in DOMAIN s : Append(s, e)[i] = s[i]
OBVIOUS

\* A live card is no final card.
LEMMA AddLive ==
  ASSUME NEW rows, NEW ch, NEW q, NEW b, Fits(rows, ch, q, b),
         NEW c \in CardSet, c.kind = "live", c.row = 0, c.shows = "live"
  PROVE  Fits(rows, Append(ch, c), q, b)
<1>1. /\ rows \in Seq(RowSet) /\ ch \in Seq(CardSet)
      /\ LiveFits(rows, ch) /\ CardsFit(rows, ch) /\ ToldFits(rows, ch, q) /\ CountFits(rows, ch, b)
  BY Zenon DEF Fits
<1>2. PICK ch2 : ch2 = Append(ch, c)
  OBVIOUS
<1>3. PICK k : k = Len(ch) + 1
  OBVIOUS
<1>4. /\ ch2 \in Seq(CardSet) /\ DOMAIN ch2 = DOMAIN ch \cup {k} /\ k \notin DOMAIN ch
      /\ ch2[k] = c /\ \A i \in DOMAIN ch : ch2[i] = ch[i]
  <2>1. Len(ch) \in Nat /\ DOMAIN ch = 1 .. Len(ch)
    BY <1>1
  <2>2. DOMAIN ch2 = 1 .. k
    BY <1>1, <1>2, <1>3, AppendFields
  <2>3. /\ ch2 \in Seq(CardSet) /\ ch2[k] = c /\ \A i \in DOMAIN ch : ch2[i] = ch[i]
    BY <1>1, <1>2, <1>3, AppendFields
  <2>4. QED
    BY <1>3, <2>1, <2>2, <2>3
<1>5. "live" # "final" /\ "live" # "gone" /\ "live" # "details"
  OBVIOUS
<1>6. \A r : FinalsIn(ch2, r) = FinalsIn(ch, r)
  BY <1>4, <1>5, Zenon DEF FinalsIn
<1>7. \A r : FinalsIn(ch, r) \subseteq DOMAIN ch
  BY Zenon DEF FinalsIn
<1>8. ASSUME NEW m \in DOMAIN ch
      PROVE  RepeatIn(ch2, m) <=> RepeatIn(ch, m)
  <2>1. ch2[m] = ch[m] /\ \A i \in DOMAIN ch : ch2[i] = ch[i]
    BY <1>4
  <2>2. QED
    BY <1>6, <1>7, <2>1, Zenon DEF RepeatIn
<1>9. ~RepeatIn(ch2, k)
  BY <1>4, <1>5, Zenon DEF RepeatIn
<1>10. RepeatsIn(ch2) = RepeatsIn(ch)
  BY <1>4, <1>8, <1>9, Zenon DEF RepeatsIn
<1>11. OffIn(rows, ch2) <=> OffIn(rows, ch)
  <2>1. FinalsIn(ch2, Len(rows)) = FinalsIn(ch, Len(rows))
    BY <1>6
  <2>2. \A m \in FinalsIn(ch, Len(rows)) : ch2[m].of = ch[m].of
    BY <1>4, <1>7
  <2>3. QED
    BY <2>1, <2>2, Zenon DEF OffIn
<1>12. LiveFits(rows, ch2)
  BY <1>1, <1>4, Zenon DEF LiveFits
<1>13. CardsFit(rows, ch2)
  <2>1. 0 \in 0 .. Len(rows)
    BY <1>1
  <2>2. QED
    BY <1>1, <1>4, <1>5, <2>1, Zenon DEF CardsFit
<1>14. ToldFits(rows, ch2, q)
  <2>1. ASSUME NEW r \in DOMAIN rows, NEW m \in FinalsIn(ch, r), ch[m].of = rows[r].finalFP
        PROVE  m \in FinalsIn(ch2, r) /\ ch2[m].of = rows[r].finalFP
    <3>1. m \in DOMAIN ch
      BY <1>7
    <3>2. ch2[m] = ch[m]
      BY <1>4, <3>1
    <3>3. QED
      BY <1>6, <2>1, <3>2, Zenon
  <2>2. QED
    BY <1>1, <2>1, Zenon DEF ToldFits
<1>15. CountFits(rows, ch2, b)
  BY <1>1, <1>10, <1>11, Zenon DEF CountFits
<1>16. QED
  BY <1>1, <1>2, <1>4, <1>12, <1>13, <1>14, <1>15, Zenon DEF Fits

\* Whoever has failed more has room for more.
LEMMA MoreFaults ==
  ASSUME NEW rows, NEW ch, NEW q, NEW b \in Nat, NEW b2 \in Nat, b <= b2, Fits(rows, ch, q, b)
  PROVE  Fits(rows, ch, q, b2)
<1>1. ch \in Seq(CardSet) /\ CountFits(rows, ch, b)
  BY Zenon DEF Fits
<1>2. PICK k : k = Cardinality(RepeatsIn(ch))
  OBVIOUS
<1>3. k \in Nat
  BY <1>1, <1>2, RepeatsFinite
<1>4. k + (IF OffIn(rows, ch) THEN 1 ELSE 0) <= b
  BY <1>1, <1>2, Zenon DEF CountFits
<1>5. k + (IF OffIn(rows, ch) THEN 1 ELSE 0) <= b2
  BY <1>3, <1>4
<1>6. CountFits(rows, ch, b2)
  BY <1>2, <1>5, Zenon DEF CountFits
<1>7. QED
  BY <1>6, Zenon DEF Fits

\* A row may be written, but for its card and the answer it records.
LEMMA Rewrite ==
  ASSUME NEW rows, NEW ch, NEW q, NEW b, Fits(rows, ch, q, b),
         NEW rows2 \in Seq(RowSet), Len(rows2) = Len(rows),
         \A r \in DOMAIN rows : rows2[r].live = rows[r].live /\ rows2[r].finalFP = rows[r].finalFP
  PROVE  Fits(rows2, ch, q, b)
<1>1. /\ rows \in Seq(RowSet) /\ ch \in Seq(CardSet)
      /\ LiveFits(rows, ch) /\ CardsFit(rows, ch) /\ ToldFits(rows, ch, q) /\ CountFits(rows, ch, b)
  BY Zenon DEF Fits
<1>2. DOMAIN rows2 = DOMAIN rows
  BY <1>1
<1>3. LiveFits(rows2, ch)
  BY <1>1, <1>2, Zenon DEF LiveFits
<1>4. CardsFit(rows2, ch)
  BY <1>1, Zenon DEF CardsFit
<1>5. ToldFits(rows2, ch, q)
  BY <1>1, <1>2, Zenon DEF ToldFits
<1>6. OffIn(rows2, ch) <=> OffIn(rows, ch)
  <2>1. ASSUME NEW m \in FinalsIn(ch, Len(rows))
        PROVE  rows2[Len(rows)].finalFP = rows[Len(rows)].finalFP
    <3>1. m \in DOMAIN ch /\ ch[m].row = Len(rows)
      BY DEF FinalsIn
    <3>2. CASE Len(rows) = 0
      BY <1>1, <1>2, <3>2
    <3>3. CASE Len(rows) # 0
      <4>1. Len(rows) \in DOMAIN rows
        BY <1>1, <3>3
      <4>2. QED
        BY <4>1
    <3>4. QED
      BY <3>2, <3>3
  <2>2. QED
    BY <2>1, Zenon DEF OffIn
<1>7. CountFits(rows2, ch, b)
  BY <1>1, <1>6, Zenon DEF CountFits
<1>8. QED
  BY <1>1, <1>3, <1>4, <1>5, <1>7, Zenon DEF Fits

\* A new row has a card of its own and has told nothing.
LEMMA AddRow ==
  ASSUME NEW rows, NEW ch, NEW q, NEW b \in Nat, Fits(rows, ch, q, b),
         NEW row \in RowSet, row.live \in DOMAIN ch, ch[row.live].shows # "gone",
         \A r \in DOMAIN rows : rows[r].live # row.live,
         row.finalFP = 0
  PROVE  Fits(Append(rows, row), ch, q, b)
<1>1. /\ rows \in Seq(RowSet) /\ ch \in Seq(CardSet)
      /\ LiveFits(rows, ch) /\ CardsFit(rows, ch) /\ ToldFits(rows, ch, q) /\ CountFits(rows, ch, b)
  BY Zenon DEF Fits
<1>2. PICK rows2 : rows2 = Append(rows, row)
  OBVIOUS
<1>3. PICK n : n = Len(rows) + 1
  OBVIOUS
<1>4. /\ rows2 \in Seq(RowSet) /\ Len(rows2) = n /\ Len(rows) \in Nat
      /\ rows2[n] = row /\ \A i \in DOMAIN rows : rows2[i] = rows[i]
  BY <1>1, <1>2, <1>3, AppendFields
<1>5. DOMAIN rows2 = DOMAIN rows \cup {n} /\ n \notin DOMAIN rows
  <2>1. DOMAIN rows = 1 .. Len(rows) /\ DOMAIN rows2 = 1 .. n
    BY <1>1, <1>4
  <2>2. QED
    BY <1>3, <1>4, <2>1
<1>6. LiveFits(rows2, ch)
  <2>1. ASSUME NEW r \in DOMAIN rows2
        PROVE  rows2[r].live \in DOMAIN ch /\ ch[rows2[r].live].shows # "gone"
    BY <1>1, <1>4, <1>5, Zenon DEF LiveFits
  <2>2. ASSUME NEW r \in DOMAIN rows2, NEW k \in DOMAIN rows2, rows2[r].live = rows2[k].live
        PROVE  r = k
    <3>1. CASE r = n
      BY <1>4, <1>5, <2>2, <3>1, Zenon
    <3>2. CASE k = n
      BY <1>4, <1>5, <2>2, <3>2, Zenon
    <3>3. CASE r \in DOMAIN rows /\ k \in DOMAIN rows
      BY <1>1, <1>4, <2>2, <3>3, Zenon DEF LiveFits
    <3>4. QED
      BY <1>5, <3>1, <3>2, <3>3
  <2>3. QED
    BY <2>1, <2>2, Zenon DEF LiveFits
<1>7. CardsFit(rows2, ch)
  <2>1. 0 .. Len(rows) \subseteq 0 .. Len(rows2)
    BY <1>3, <1>4
  <2>2. QED
    BY <1>1, <2>1, Zenon DEF CardsFit
<1>8. ToldFits(rows2, ch, q)
  BY <1>1, <1>4, <1>5, Zenon DEF ToldFits
<1>9. ~OffIn(rows2, ch)
  <2>1. FinalsIn(ch, n) = {}
    <3>1. ASSUME NEW m \in DOMAIN ch
          PROVE  ch[m].row # n
      <4>1. ch[m].row \in 0 .. Len(rows)
        BY <1>1 DEF CardsFit
      <4>2. QED
        BY <1>3, <1>4, <4>1
    <3>2. QED
      BY <3>1 DEF FinalsIn
  <2>2. QED
    BY <1>4, <2>1, Zenon DEF OffIn
<1>10. CountFits(rows2, ch, b)
  <2>1. PICK k : k = Cardinality(RepeatsIn(ch))
    OBVIOUS
  <2>2. k \in Nat
    BY <1>1, <2>1, RepeatsFinite
  <2>3. k + (IF OffIn(rows, ch) THEN 1 ELSE 0) <= b
    BY <1>1, <2>1, Zenon DEF CountFits
  <2>4. k + 0 <= b
    BY <2>2, <2>3
  <2>5. QED
    BY <1>9, <2>1, <2>4, Zenon DEF CountFits
<1>11. QED
  BY <1>1, <1>2, <1>4, <1>6, <1>7, <1>8, <1>10, Zenon DEF Fits

\* An answer that is taken for told.
LEMMA TakeForTold ==
  ASSUME NEW rows, NEW ch, NEW q, NEW b \in Nat, Fits(rows, ch, q, b), rows # <<>>,
         NEW t, NEW q2, q \subseteq q2, t \in q2, rows[Len(rows)].finalFP = 0,
         NEW rows2 \in Seq(RowSet), Len(rows2) = Len(rows),
         \A r \in DOMAIN rows :
           /\ rows2[r].live = rows[r].live
           /\ r = Len(rows) => rows2[r].finalFP = t
           /\ r # Len(rows) => rows2[r].finalFP = rows[r].finalFP
  PROVE  Fits(rows2, ch, q2, b)
<1>1. /\ rows \in Seq(RowSet) /\ ch \in Seq(CardSet)
      /\ LiveFits(rows, ch) /\ CardsFit(rows, ch) /\ ToldFits(rows, ch, q) /\ CountFits(rows, ch, b)
  BY Zenon DEF Fits
<1>2. DOMAIN rows2 = DOMAIN rows
  BY <1>1
<1>3. LiveFits(rows2, ch)
  BY <1>1, <1>2, Zenon DEF LiveFits
<1>4. CardsFit(rows2, ch)
  BY <1>1, Zenon DEF CardsFit
<1>5. ToldFits(rows2, ch, q2)
  <2>1. ASSUME NEW r \in DOMAIN rows
        PROVE  \/ rows2[r].finalFP \in {0} \cup q2
               \/ \E m \in FinalsIn(ch, r) : ch[m].of = rows2[r].finalFP
    <3>1. CASE r = Len(rows)
      BY <3>1
    <3>2. CASE r # Len(rows)
      <4>1. rows2[r].finalFP = rows[r].finalFP
        BY <3>2
      <4>2. QED
        BY <1>1, <4>1, Zenon DEF ToldFits
    <3>3. QED
      BY <3>1, <3>2
  <2>2. QED
    BY <1>2, <2>1, Zenon DEF ToldFits
<1>6. ASSUME OffIn(rows2, ch)
      PROVE  OffIn(rows, ch)
  <2>1. PICK m \in FinalsIn(ch, Len(rows)) : \A j \in FinalsIn(ch, Len(rows)) : j <= m
    BY <1>6 DEF OffIn
  <2>2. m \in DOMAIN ch
    BY DEF FinalsIn
  <2>3. ch[m].of \in TurnIds
    BY <1>1, <2>2, CardFields
  <2>4. ch[m].of # 0
    BY <2>3, BoundsAssumption DEF TurnIds
  <2>5. QED
    BY <2>1, <2>4, Zenon DEF OffIn
<1>7. CountFits(rows2, ch, b)
  <2>1. PICK k : k = Cardinality(RepeatsIn(ch))
    OBVIOUS
  <2>2. k \in Nat
    BY <1>1, <2>1, RepeatsFinite
  <2>3. k + (IF OffIn(rows, ch) THEN 1 ELSE 0) <= b
    BY <1>1, <2>1, Zenon DEF CountFits
  <2>4. k + (IF OffIn(rows2, ch) THEN 1 ELSE 0) <= b
    BY <1>6, <2>2, <2>3
  <2>5. QED
    BY <2>1, <2>4, Zenon DEF CountFits
<1>8. QED
  BY <1>1, <1>3, <1>4, <1>5, <1>7, Zenon DEF Fits

\* The answer of turn t is sent from the current row, which does not record it: when the row
\* is written too it does; else there has been a failure.
LEMMA SendFinal ==
  ASSUME NEW rows, NEW ch, NEW q, NEW b \in Nat, Fits(rows, ch, q, b), rows # <<>>,
         NEW t \in TurnIds, rows[Len(rows)].finalFP # t,
         NEW c \in CardSet, c.kind = "final", c.row = Len(rows), c.of = t, c.shows = "final"
  PROVE  /\ Fits(rows, Append(ch, c), q, b + 1)
         /\ \A rows2 \in Seq(RowSet) :
              (/\ Len(rows2) = Len(rows)
               /\ rows2[Len(rows)].live = Len(ch) + 1 /\ rows2[Len(rows)].finalFP = t
               /\ \A r \in DOMAIN rows : r # Len(rows) =>
                    rows2[r].live = rows[r].live /\ rows2[r].finalFP = rows[r].finalFP)
              => Fits(rows2, Append(ch, c), q, b)
<1>1. /\ rows \in Seq(RowSet) /\ ch \in Seq(CardSet)
      /\ LiveFits(rows, ch) /\ CardsFit(rows, ch) /\ ToldFits(rows, ch, q) /\ CountFits(rows, ch, b)
  BY Zenon DEF Fits
<1>2. PICK ch2 : ch2 = Append(ch, c)
  OBVIOUS
<1>3. PICK k : k = Len(ch) + 1
  OBVIOUS
<1>4. PICK n : n = Len(rows)
  OBVIOUS
<1>5. /\ ch2 \in Seq(CardSet) /\ DOMAIN ch2 = DOMAIN ch \cup {k} /\ k \notin DOMAIN ch
      /\ ch2[k] = c /\ \A i \in DOMAIN ch : ch2[i] = ch[i]
  <2>1. Len(ch) \in Nat /\ DOMAIN ch = 1 .. Len(ch)
    BY <1>1
  <2>2. DOMAIN ch2 = 1 .. k
    BY <1>1, <1>2, <1>3, AppendFields
  <2>3. /\ ch2 \in Seq(CardSet) /\ ch2[k] = c /\ \A i \in DOMAIN ch : ch2[i] = ch[i]
    BY <1>1, <1>2, <1>3, AppendFields
  <2>4. QED
    BY <1>3, <2>1, <2>2, <2>3
<1>6. /\ k \in Nat /\ n \in DOMAIN rows /\ n \in Nat
      /\ \A m \in DOMAIN ch : m \in Nat /\ m < k
  BY <1>1, <1>3, <1>4
<1>7. \A r : FinalsIn(ch, r) \subseteq DOMAIN ch
  BY Zenon DEF FinalsIn
<1>8. FinalsIn(ch2, n) = FinalsIn(ch, n) \cup {k}
  <2>1. \A m \in DOMAIN ch : m \in FinalsIn(ch2, n) <=> m \in FinalsIn(ch, n)
    BY <1>5, Zenon DEF FinalsIn
  <2>2. k \in FinalsIn(ch2, n)
    BY <1>4, <1>5, Zenon DEF FinalsIn
  <2>3. FinalsIn(ch2, n) \subseteq DOMAIN ch \cup {k}
    BY <1>5, Zenon DEF FinalsIn
  <2>4. QED
    BY <1>7, <2>1, <2>2, <2>3
<1>9. ASSUME NEW r, r # n
      PROVE  FinalsIn(ch2, r) = FinalsIn(ch, r)
  BY <1>4, <1>5, <1>9, Zenon DEF FinalsIn
<1>10. ASSUME NEW m \in DOMAIN ch
       PROVE  RepeatIn(ch2, m) <=> RepeatIn(ch, m)
  <2>1. ch2[m] = ch[m] /\ m \in Nat /\ m < k
    BY <1>5, <1>6
  <2>2. CASE ch[m].row = n
    <3>1. FinalsIn(ch2, ch2[m].row) = FinalsIn(ch, ch[m].row) \cup {k}
      BY <1>8, <2>1, <2>2
    <3>2. ~(k < m) /\ m <= k
      BY <1>6, <2>1
    <3>3. \A i \in FinalsIn(ch, ch[m].row) : ch2[i] = ch[i]
      BY <1>5, <1>7
    <3>4. QED
      BY <2>1, <3>1, <3>2, <3>3, Zenon DEF RepeatIn
  <2>3. CASE ch[m].row # n
    <3>1. FinalsIn(ch2, ch2[m].row) = FinalsIn(ch, ch[m].row)
      BY <1>9, <2>1, <2>3
    <3>2. \A i \in FinalsIn(ch, ch[m].row) : ch2[i] = ch[i]
      BY <1>5, <1>7
    <3>3. QED
      BY <2>1, <3>1, <3>2, Zenon DEF RepeatIn
  <2>4. QED
    BY <2>2, <2>3
<1>11. ASSUME RepeatIn(ch2, k)
       PROVE  OffIn(rows, ch)
  <2>1. PICK i \in FinalsIn(ch2, n) :
          /\ i < k /\ ch2[i].of = t
          /\ \A j \in FinalsIn(ch2, n) : j <= i \/ k <= j
    BY <1>4, <1>5, <1>11, Zenon DEF RepeatIn
  <2>2. i # k
    BY <1>6, <2>1
  <2>3. i \in FinalsIn(ch, n) /\ ch[i].of = t
    <3>1. i \in FinalsIn(ch, n)
      BY <1>8, <2>2
    <3>2. ch2[i] = ch[i]
      BY <1>5, <1>7, <3>1
    <3>3. QED
      BY <2>1, <3>1, <3>2, Zenon
  <2>4. ASSUME NEW j \in FinalsIn(ch, n)
        PROVE  j <= i
    <3>1. j \in FinalsIn(ch2, n) /\ j \in Nat /\ j < k
      BY <1>6, <1>7, <1>8
    <3>2. QED
      BY <1>6, <2>1, <3>1
  <2>5. QED
    BY <1>4, <2>3, <2>4, Zenon DEF OffIn
<1>12. PICK x : x = Cardinality(RepeatsIn(ch))
  OBVIOUS
<1>13. PICK x2 : x2 = Cardinality(RepeatsIn(ch2))
  OBVIOUS
<1>14. x \in Nat /\ x2 \in Nat /\ x2 <= b
  <2>1. x \in Nat /\ x2 \in Nat /\ IsFiniteSet(RepeatsIn(ch))
    BY <1>1, <1>5, <1>12, <1>13, RepeatsFinite
  <2>2. x + (IF OffIn(rows, ch) THEN 1 ELSE 0) <= b
    BY <1>1, <1>12, Zenon DEF CountFits
  <2>3. CASE RepeatIn(ch2, k)
    <3>1. RepeatsIn(ch2) = RepeatsIn(ch) \cup {k}
      BY <1>5, <1>10, <2>3, Zenon DEF RepeatsIn
    <3>2. k \notin RepeatsIn(ch)
      BY <1>5, Zenon DEF RepeatsIn
    <3>3. x2 = x + 1
      BY <1>12, <1>13, <2>1, <3>1, <3>2, FS_AddElement
    <3>4. QED
      BY <1>11, <2>1, <2>2, <2>3, <3>3
  <2>4. CASE ~RepeatIn(ch2, k)
    <3>1. RepeatsIn(ch2) = RepeatsIn(ch)
      BY <1>5, <1>10, <2>4, Zenon DEF RepeatsIn
    <3>2. x2 = x
      BY <1>12, <1>13, <3>1
    <3>3. QED
      BY <2>1, <2>2, <3>2
  <2>5. QED
    BY <2>3, <2>4
<1>15. ASSUME NEW m \in DOMAIN ch2
       PROVE  /\ ch2[m].row \in 0 .. n
              /\ ch2[m].shows = "details" => ch2[m].turn = ch2[m].of
  <2>1. CASE m \in DOMAIN ch
    BY <1>1, <1>4, <1>5, <2>1, Zenon DEF CardsFit
  <2>2. CASE m = k
    <3>1. n \in 0 .. n
      BY <1>6
    <3>2. QED
      BY <1>4, <1>5, <2>2, <3>1
  <2>3. QED
    BY <1>5, <2>1, <2>2
<1>16. Fits(rows, ch2, q, b + 1)
  <2>1. LiveFits(rows, ch2)
    BY <1>1, <1>5, Zenon DEF LiveFits
  <2>2. CardsFit(rows, ch2)
    BY <1>4, <1>15, Zenon DEF CardsFit
  <2>3. ToldFits(rows, ch2, q)
    <3>1. ASSUME NEW r \in DOMAIN rows, NEW m \in FinalsIn(ch, r), ch[m].of = rows[r].finalFP
          PROVE  m \in FinalsIn(ch2, r) /\ ch2[m].of = rows[r].finalFP
      <4>1. ch2[m] = ch[m]
        BY <1>5, <1>7
      <4>2. m \in FinalsIn(ch2, r)
        BY <1>8, <1>9
      <4>3. QED
        BY <3>1, <4>1, <4>2, Zenon
    <3>2. QED
      BY <1>1, <3>1, Zenon DEF ToldFits
  <2>4. CountFits(rows, ch2, b + 1)
    <3>1. x2 + (IF OffIn(rows, ch2) THEN 1 ELSE 0) <= b + 1
      BY <1>14
    <3>2. QED
      BY <1>13, <3>1, Zenon DEF CountFits
  <2>5. QED
    BY <1>1, <1>5, <2>1, <2>2, <2>3, <2>4, Zenon DEF Fits
<1>17. ASSUME NEW rows2 \in Seq(RowSet), Len(rows2) = n,
              rows2[n].live = k, rows2[n].finalFP = t,
              \A r \in DOMAIN rows : r # n =>
                rows2[r].live = rows[r].live /\ rows2[r].finalFP = rows[r].finalFP
       PROVE  Fits(rows2, ch2, q, b)
  <2>1. DOMAIN rows2 = DOMAIN rows
    BY <1>1, <1>4, <1>17
  <2>2. LiveFits(rows2, ch2)
    <3>1. ASSUME NEW r \in DOMAIN rows
          PROVE  /\ rows[r].live \in DOMAIN ch2 /\ ch2[rows[r].live].shows # "gone"
                 /\ rows[r].live # k
      <4>1. rows[r].live \in DOMAIN ch /\ ch[rows[r].live].shows # "gone"
        BY <1>1, Zenon DEF LiveFits
      <4>2. QED
        BY <1>5, <4>1
    <3>2. ASSUME NEW r \in DOMAIN rows2
          PROVE  rows2[r].live \in DOMAIN ch2 /\ ch2[rows2[r].live].shows # "gone"
      <4>1. CASE r = n
        BY <1>5, <1>17, <4>1
      <4>2. CASE r # n
        <5>1. rows2[r].live = rows[r].live /\ r \in DOMAIN rows
          BY <1>17, <2>1, <4>2
        <5>2. QED
          BY <3>1, <5>1
      <4>3. QED
        BY <4>1, <4>2
    <3>3. ASSUME NEW r \in DOMAIN rows2, r # n
          PROVE  rows2[r].live = rows[r].live /\ rows2[r].live # k
      <4>1. rows2[r].live = rows[r].live /\ r \in DOMAIN rows
        BY <1>17, <2>1, <3>3
      <4>2. QED
        BY <3>1, <4>1
    <3>4. ASSUME NEW r \in DOMAIN rows2, NEW i \in DOMAIN rows2, rows2[r].live = rows2[i].live
          PROVE  r = i
      <4>1. CASE r = n \/ i = n
        BY <1>17, <3>3, <3>4, <4>1, Zenon
      <4>2. CASE r # n /\ i # n
        BY <1>1, <2>1, <3>3, <3>4, <4>2, Zenon DEF LiveFits
      <4>3. QED
        BY <4>1, <4>2
    <3>5. QED
      BY <3>2, <3>4, Zenon DEF LiveFits
  <2>3. CardsFit(rows2, ch2)
    BY <1>15, <1>17, Zenon DEF CardsFit
  <2>4. ToldFits(rows2, ch2, q)
    <3>1. ASSUME NEW r \in DOMAIN rows
          PROVE  \/ rows2[r].finalFP \in {0} \cup q
                 \/ \E m \in FinalsIn(ch2, r) : ch2[m].of = rows2[r].finalFP
      <4>1. CASE r = n
        <5>1. k \in FinalsIn(ch2, r) /\ ch2[k].of = rows2[r].finalFP
          BY <1>5, <1>8, <1>17, <4>1
        <5>2. QED
          BY <5>1
      <4>2. CASE r # n
        <5>1. rows2[r].finalFP = rows[r].finalFP
          BY <1>17, <4>2
        <5>2. \A m \in FinalsIn(ch, r) : m \in FinalsIn(ch2, r) /\ ch2[m] = ch[m]
          BY <1>5, <1>7, <1>9, <4>2
        <5>3. QED
          BY <1>1, <5>1, <5>2, Zenon DEF ToldFits
      <4>3. QED
        BY <4>1, <4>2
    <3>2. QED
      BY <2>1, <3>1, Zenon DEF ToldFits
  <2>5. ~OffIn(rows2, ch2)
    <3>1. ASSUME NEW m \in FinalsIn(ch2, n), \A j \in FinalsIn(ch2, n) : j <= m
          PROVE  ch2[m].of = t
      <4>1. k <= m
        BY <1>8, <3>1
      <4>2. m = k
        BY <1>6, <1>7, <1>8, <4>1
      <4>3. QED
        BY <1>5, <4>2
    <3>2. QED
      BY <1>17, <3>1, Zenon DEF OffIn
  <2>6. CountFits(rows2, ch2, b)
    <3>1. x2 + 0 <= b
      BY <1>14
    <3>2. QED
      BY <1>13, <2>5, <3>1, Zenon DEF CountFits
  <2>7. QED
    BY <1>5, <2>2, <2>3, <2>4, <2>6, Zenon DEF Fits
<1>18. QED
  BY <1>2, <1>3, <1>4, <1>16, <1>17, Zenon

-----------------------------------------------------------------------------
(***************************************************************************)
(* A sync on its way.                                                      *)
(***************************************************************************)

Syncs ==
  [rows : Seq(RowSet), chat : Seq(CardSet), n : Nat, fault : Faults \cup {NoFault},
   mark : Nat, marked : BOOLEAN, err : BOOLEAN, dead : BOOLEAN, quiet : SUBSET TurnIds]

\* Its failure has happened.
Spent(s) == IF s.fault.at # 0 /\ s.n >= s.fault.at THEN 1 ELSE 0

\* What a sync that began as f has done to the tables: cards and rows are there to stay, the
\* prompt of a turn from Telegram is repeated only if this is the turn of the sync, which was
\* not marked, and a new row is of this turn and not the observer's when the old one was
\* Telegram's.
Since(rows, ch, v, mode, f) ==
  /\ Len(panels) <= Len(rows)
  /\ Len(chat) <= Len(ch) /\ \A m \in DOMAIN chat : ch[m].of = chat[m].of
  /\ f.marked => f.mark = 0
  /\ \A r \in DOMAIN rows : rows[r].userFP \in origin =>
       \/ r \in DOMAIN panels /\ panels[r].userFP = rows[r].userFP
       \/ rows[r].userFP = v.turn /\ ~f.marked
  /\ Len(rows) > Len(panels) =>
       /\ rows[Len(rows)].mode = mode /\ rows[Len(rows)].turn = v.turn
       /\ ~protectTelegramOriginPanel(f, v, mode)

Good(s, f, v, mode) ==
  /\ s \in Syncs /\ s.fault = f.fault /\ s.mark = f.mark /\ s.marked = f.marked
  /\ s.quiet \subseteq {v.turn}
  /\ Fits(s.rows, s.chat, replayed \cup s.quiet, faults + Spent(s))
  /\ Since(s.rows, s.chat, v, mode, f)

\* The tables as the sync finds them.
Tables ==
  /\ panels \in Seq(RowSet) /\ chat \in Seq(CardSet) /\ origin \subseteq TurnIds
  /\ faults \in Nat /\ replayed \subseteq TurnIds

\* The fields of a sync.
LEMMA SyncFields ==
  ASSUME NEW s \in Syncs
  PROVE  /\ s.rows \in Seq(RowSet) /\ s.chat \in Seq(CardSet) /\ s.n \in Nat
         /\ s.fault \in Faults \cup {NoFault} /\ s.fault.at \in Nat /\ s.err \in BOOLEAN
         /\ s.dead \in BOOLEAN /\ s.quiet \in SUBSET TurnIds
         /\ s.mark \in Nat /\ s.marked \in BOOLEAN
         /\ Spent(s) \in 0 .. 1
<1>1. /\ s.rows \in Seq(RowSet) /\ s.chat \in Seq(CardSet) /\ s.n \in Nat
      /\ s.fault \in Faults \cup {NoFault} /\ s.err \in BOOLEAN
      /\ s.dead \in BOOLEAN /\ s.quiet \in SUBSET TurnIds
      /\ s.mark \in Nat /\ s.marked \in BOOLEAN
  BY Zenon DEF Syncs
<1>2. s.fault.at \in Nat
  <2>1. CASE s.fault \in Faults
    BY <2>1 DEF Faults
  <2>2. CASE s.fault = NoFault
    BY <2>2 DEF NoFault
  <2>3. QED
    BY <1>1, <2>1, <2>2
<1>3. Spent(s) \in 0 .. 1
  BY DEF Spent
<1>4. QED
  BY <1>1, <1>2, <1>3

\* Whether a sync has failed does not matter to its tables, unless it has to.
LEMMA SameTables ==
  ASSUME NEW s, NEW f, NEW v, NEW mode, Good(s, f, v, mode), Tables,
         NEW t \in Syncs, t.rows = s.rows, t.chat = s.chat, t.quiet = s.quiet,
         t.fault = s.fault /\ t.mark = s.mark /\ t.marked = s.marked,
         Spent(s) <= Spent(t)
  PROVE  Good(t, f, v, mode)
<1>1. /\ s \in Syncs /\ s.fault = f.fault /\ s.mark = f.mark /\ s.marked = f.marked
      /\ s.quiet \subseteq {v.turn}
      /\ Fits(s.rows, s.chat, replayed \cup s.quiet, faults + Spent(s))
      /\ Since(s.rows, s.chat, v, mode, f)
  BY Zenon DEF Good
<1>2. PICK b : b = faults + Spent(s)
  OBVIOUS
<1>3. PICK b2 : b2 = faults + Spent(t)
  OBVIOUS
<1>4. b \in Nat /\ b2 \in Nat /\ b <= b2
  <2>1. Spent(s) \in 0 .. 1 /\ Spent(t) \in 0 .. 1 /\ faults \in Nat
    BY <1>1, SyncFields DEF Tables
  <2>2. QED
    BY <1>2, <1>3, <2>1
<1>5. Fits(s.rows, s.chat, replayed \cup s.quiet, b2)
  BY <1>1, <1>2, <1>4, MoreFaults, Zenon
<1>6. QED
  BY <1>1, <1>3, <1>5, Zenon DEF Good

\* A call does its work, or it is the one that fails.
LEMMA CallFields ==
  ASSUME NEW s \in Syncs, NEW e \in Seq(CardSet), NEW t, t = Call(s, e)
  PROVE  /\ t \in Syncs /\ t.rows = s.rows /\ t.quiet = s.quiet /\ t.fault = s.fault
         /\ t.mark = s.mark /\ t.marked = s.marked
         /\ Spent(s) <= Spent(t)
         /\ ~Runs(s) => t = s
         /\ Runs(s) => \/ t.chat = e
                       \/ t.chat = s.chat /\ ~Runs(t)
         /\ (Runs(s) /\ ~Runs(t)) => Spent(s) = 0 /\ Spent(t) = 1
<1>1. CASE ~Runs(s)
  <2>1. t = s
    BY <1>1 DEF Call
  <2>2. QED
    BY <1>1, <2>1, SyncFields
<1>2. CASE Runs(s)
  <2>1. PICK here : here = (s.n + 1 = s.fault.at)
    OBVIOUS
  <2>2. here \in BOOLEAN
    BY <2>1
  <2>3. PICK k : k = s.n + 1
    OBVIOUS
  <2>4. PICK c : c = IF here /\ s.fault.how = "lost" THEN s.chat ELSE e
    OBVIOUS
  <2>5. PICK x : x = (here /\ s.fault.how # "die")
    OBVIOUS
  <2>6. PICK y : y = (here /\ s.fault.how = "die")
    OBVIOUS
  <2>7. /\ k \in Nat /\ c \in Seq(CardSet) /\ x \in BOOLEAN /\ y \in BOOLEAN
        /\ s.n \in Nat /\ s.fault.at \in Nat
    BY <2>2, <2>3, <2>4, <2>5, <2>6, SyncFields
  <2>8. t = [s EXCEPT !.n = k, !.chat = c, !.err = x, !.dead = y]
    BY <1>2, <2>1, <2>3, <2>4, <2>5, <2>6, Zenon DEF Call
  <2>9. /\ t \in Syncs /\ t.rows = s.rows /\ t.quiet = s.quiet /\ t.fault = s.fault
        /\ t.mark = s.mark /\ t.marked = s.marked
        /\ t.n = k /\ t.chat = c /\ t.err = x /\ t.dead = y
    BY <2>7, <2>8, Zenon DEF Syncs
  <2>10. Spent(s) <= Spent(t)
    BY <2>3, <2>7, <2>9 DEF Spent
  <2>11. CASE here
    <3>1. Spent(s) = 0 /\ Spent(t) = 1
      <4>1. k = s.fault.at
        BY <2>1, <2>3, <2>11, Zenon
      <4>2. k = s.n + 1 /\ k \in Nat /\ s.n \in Nat /\ t.n = k /\ t.fault.at = k
        BY <2>3, <2>7, <2>9, <4>1
      <4>3. QED
        BY <4>1, <4>2 DEF Spent
    <3>2. ~Runs(t)
      BY <2>5, <2>6, <2>9, <2>11 DEF Runs
    <3>3. t.chat = e \/ t.chat = s.chat
      BY <2>4, <2>9
    <3>4. QED
      BY <1>2, <2>9, <2>10, <3>1, <3>2, <3>3
  <2>12. CASE ~here
    <3>1. t.chat = e /\ Runs(t)
      BY <2>4, <2>5, <2>6, <2>9, <2>12 DEF Runs
    <3>2. QED
      BY <1>2, <2>9, <2>10, <3>1
  <2>13. QED
    BY <2>2, <2>11, <2>12
<1>3. QED
  BY <1>1, <1>2

\* So it keeps what holds when it works.
LEMMA CallKeeps ==
  ASSUME NEW s, NEW f, NEW v, NEW mode, Good(s, f, v, mode), Tables,
         NEW e \in Seq(CardSet),
         Fits(s.rows, e, replayed \cup s.quiet, faults + Spent(s)),
         Since(s.rows, e, v, mode, f)
  PROVE  Good(Call(s, e), f, v, mode) /\ Call(s, e).rows = s.rows
<1>0. PICK t : t = Call(s, e)
  OBVIOUS
<1>1. s \in Syncs
  BY Zenon DEF Good
<1>2. /\ t \in Syncs /\ t.rows = s.rows /\ t.quiet = s.quiet /\ t.fault = s.fault
      /\ t.mark = s.mark /\ t.marked = s.marked
      /\ Spent(s) <= Spent(t)
      /\ ~Runs(s) => t = s
      /\ Runs(s) => t.chat = e \/ t.chat = s.chat
  BY <1>0, <1>1, CallFields
<1>3. ASSUME t.chat = s.chat
      PROVE  Good(t, f, v, mode)
  BY <1>2, <1>3, SameTables, Zenon
<1>4. ASSUME Runs(s), t.chat = e
      PROVE  Good(t, f, v, mode)
  <2>1. PICK b : b = faults + Spent(s)
    OBVIOUS
  <2>2. PICK b2 : b2 = faults + Spent(t)
    OBVIOUS
  <2>3. b \in Nat /\ b2 \in Nat /\ b <= b2
    <3>1. Spent(s) \in 0 .. 1 /\ Spent(t) \in 0 .. 1 /\ faults \in Nat
      BY <1>1, <1>2, SyncFields DEF Tables
    <3>2. QED
      BY <1>2, <2>1, <2>2, <3>1
  <2>4. Fits(s.rows, e, replayed \cup s.quiet, b2)
    BY <1>4, <2>1, <2>3, MoreFaults, Zenon
  <2>5. s.fault = f.fault /\ s.mark = f.mark /\ s.marked = f.marked /\ s.quiet \subseteq {v.turn}
    BY Zenon DEF Good
  <2>6. QED
    BY <1>2, <1>4, <2>2, <2>4, <2>5, Zenon DEF Good
<1>5. QED
  <2>1. Good(t, f, v, mode)
    BY <1>2, <1>3, <1>4
  <2>2. QED
    BY <1>0, <1>2, <2>1, Zenon

\* A sync has an error, or forgets it.
Erred(s, x) == [s EXCEPT !.err = x]

\* That does not touch its tables.
LEMMA ErredKeeps ==
  ASSUME NEW s, NEW f, NEW v, NEW mode, Good(s, f, v, mode), Tables, NEW x \in BOOLEAN
  PROVE  Good(Erred(s, x), f, v, mode) /\ Erred(s, x).rows = s.rows
<1>0. PICK t : t = Erred(s, x)
  OBVIOUS
<1>1. s \in Syncs
  BY Zenon DEF Good
<1>2. /\ t \in Syncs /\ t.rows = s.rows /\ t.chat = s.chat /\ t.quiet = s.quiet
      /\ t.fault = s.fault /\ t.mark = s.mark /\ t.marked = s.marked /\ t.n = s.n
  BY <1>0, <1>1, Zenon DEF Syncs, Erred
<1>3. Spent(t) = Spent(s)
  BY <1>2, Zenon DEF Spent
<1>4. Spent(s) <= Spent(t)
  BY <1>1, <1>3, SyncFields
<1>5. Good(t, f, v, mode)
  BY <1>2, <1>4, SameTables, Zenon
<1>6. QED
  BY <1>0, <1>2, <1>5, Zenon

\* Cards are added or edited.
LEMMA SinceCards ==
  ASSUME NEW rows, NEW ch \in Seq(CardSet), NEW f, NEW v, NEW mode,
         Since(rows, ch, v, mode, f), Tables,
         NEW ch2 \in Seq(CardSet), Len(ch) <= Len(ch2),
         \A m \in DOMAIN ch : ch2[m].of = ch[m].of
  PROVE  Since(rows, ch2, v, mode, f)
<1>1. /\ Len(chat) <= Len(ch) /\ \A m \in DOMAIN chat : ch[m].of = chat[m].of
  BY Zenon DEF Since
<1>2. chat \in Seq(CardSet)
  BY DEF Tables
<1>3. Len(chat) <= Len(ch2)
  BY <1>1, <1>2
<1>4. DOMAIN chat \subseteq DOMAIN ch
  BY <1>1, <1>2
<1>5. \A m \in DOMAIN chat : ch2[m].of = chat[m].of
  BY <1>1, <1>4
<1>6. QED
  BY <1>3, <1>5, Zenon DEF Since

\* A message that only the row remembers is sent.
LEMMA SendKeeps ==
  ASSUME NEW s, NEW f, NEW v, NEW mode, Good(s, f, v, mode), Tables,
         NEW t, t = Call(s, s.chat)
  PROVE  /\ Good(t, f, v, mode) /\ t.rows = s.rows /\ t.chat = s.chat
         /\ Runs(t) => Runs(s)
<1>1. /\ s \in Syncs /\ Fits(s.rows, s.chat, replayed \cup s.quiet, faults + Spent(s))
      /\ Since(s.rows, s.chat, v, mode, f)
  BY Zenon DEF Good
<1>2. s.chat \in Seq(CardSet)
  BY <1>1, SyncFields
<1>3. Good(t, f, v, mode) /\ t.rows = s.rows
  <2>1. Good(Call(s, s.chat), f, v, mode) /\ Call(s, s.chat).rows = s.rows
    BY <1>1, <1>2, CallKeeps, Zenon
  <2>2. QED
    BY <2>1, Zenon
<1>4. t.chat = s.chat /\ (Runs(t) => Runs(s))
  BY <1>1, <1>2, CallFields
<1>5. QED
  BY <1>3, <1>4

\* The last card is in the chat and belongs to no row.
Fresh(s) ==
  /\ Len(s.chat) \in DOMAIN s.chat /\ s.chat[Len(s.chat)].shows # "gone"
  /\ \A r \in DOMAIN s.rows : s.rows[r].live # Len(s.chat)

\* A card as it is sent.
LEMMA NewCard ==
  ASSUME NEW kind \in {"live", "final"}, NEW row \in Nat, NEW v \in Views,
         NEW c, c = [kind |-> kind, of |-> v.turn, row |-> row, turn |-> v.turn, shows |-> kind]
  PROVE  /\ c \in CardSet /\ c.kind = kind /\ c.of = v.turn /\ c.row = row /\ c.shows = kind
         /\ v.turn \in TurnIds
<1>1. v.turn \in TurnIds
  BY DEF Views
<1>2. kind \in {"live", "final", "details", "gone"}
  OBVIOUS
<1>3. QED
  BY <1>1, <1>2, Zenon DEF CardSet

\* A live card is sent.
LEMMA SendLive ==
  ASSUME NEW s, NEW f, NEW v \in Views, NEW mode, Good(s, f, v, mode), Tables,
         NEW t, t = SendCard(s, "live", 0, v)
  PROVE  /\ Good(t, f, v, mode) /\ t.rows = s.rows
         /\ Runs(t) => Runs(s) /\ Fresh(t)
<1>1. /\ s \in Syncs /\ Fits(s.rows, s.chat, replayed \cup s.quiet, faults + Spent(s))
      /\ Since(s.rows, s.chat, v, mode, f)
  BY Zenon DEF Good
<1>2. s.chat \in Seq(CardSet)
  BY <1>1, SyncFields
<1>3. PICK c : c = [kind |-> "live", of |-> v.turn, row |-> 0, turn |-> v.turn, shows |-> "live"]
  OBVIOUS
<1>4. c \in CardSet /\ c.kind = "live" /\ c.of = v.turn /\ c.row = 0 /\ c.shows = "live"
  <2>1. "live" \in {"live", "final"} /\ 0 \in Nat
    OBVIOUS
  <2>2. QED
    BY <1>3, <2>1, NewCard
<1>5. PICK e : e = Append(s.chat, c)
  OBVIOUS
<1>6. t = Call(s, e)
  BY <1>3, <1>5, Zenon DEF SendCard
<1>7. /\ e \in Seq(CardSet) /\ Len(e) = Len(s.chat) + 1 /\ Len(s.chat) \in Nat
      /\ DOMAIN s.chat = 1 .. Len(s.chat) /\ DOMAIN e = 1 .. Len(e) /\ e[Len(e)] = c
      /\ \A m \in DOMAIN s.chat : e[m] = s.chat[m]
  BY <1>2, <1>4, <1>5, AppendFields
<1>8. Fits(s.rows, e, replayed \cup s.quiet, faults + Spent(s))
  BY <1>1, <1>4, <1>5, AddLive, Zenon
<1>9. Since(s.rows, e, v, mode, f)
  <2>1. Len(s.chat) <= Len(e)
    BY <1>7
  <2>2. \A m \in DOMAIN s.chat : e[m].of = s.chat[m].of
    BY <1>7
  <2>3. QED
    BY <1>1, <1>2, <1>7, <2>1, <2>2, SinceCards, Zenon
<1>10. Good(t, f, v, mode) /\ t.rows = s.rows
  <2>1. e \in Seq(CardSet)
    BY <1>7
  <2>2. Good(Call(s, e), f, v, mode) /\ Call(s, e).rows = s.rows
    BY <1>8, <1>9, <2>1, CallKeeps, Zenon
  <2>3. QED
    BY <1>6, <2>2, Zenon
<1>11. ASSUME Runs(t)
       PROVE  Runs(s) /\ Fresh(t)
  <2>1. Runs(s) /\ t.chat = e
    BY <1>1, <1>6, <1>7, <1>11, CallFields
  <2>2. Len(e) \in DOMAIN e /\ e[Len(e)].shows # "gone"
    BY <1>4, <1>7
  <2>3. ASSUME NEW r \in DOMAIN s.rows
        PROVE  s.rows[r].live # Len(e)
    <3>1. s.rows[r].live \in DOMAIN s.chat
      BY <1>1, Zenon DEF Fits, LiveFits
    <3>2. QED
      BY <1>7, <3>1
  <2>4. QED
    BY <1>10, <2>1, <2>2, <2>3, Zenon DEF Fresh
<1>12. QED
  BY <1>10, <1>11

\* A card that is edited, and one that is deleted.
Edited(ch, m, turn, as) == [ch EXCEPT ![m].turn = turn, ![m].shows = as]
Deleted(ch, m) == [ch EXCEPT ![m].shows = "gone"]

\* e is ch but for what card m shows.
Faced(e, ch, m, turn, as) ==
  /\ e \in Seq(CardSet) /\ DOMAIN e = DOMAIN ch /\ Len(e) = Len(ch)
  /\ \A i \in DOMAIN ch : e[i].kind = ch[i].kind /\ e[i].of = ch[i].of /\ e[i].row = ch[i].row
  /\ e[m].shows = as /\ e[m].turn = turn
  /\ \A i \in DOMAIN ch : i # m => e[i] = ch[i]

\* A card's face is changed.
LEMMA EditedFields ==
  ASSUME NEW ch \in Seq(CardSet), NEW m \in DOMAIN ch, NEW turn \in TurnIds,
         NEW as \in {"live", "final", "details", "gone"}
  PROVE  Faced(Edited(ch, m, turn, as), ch, m, turn, as)
<1>1. PICK x : x = [ch[m] EXCEPT !.turn = turn, !.shows = as]
  OBVIOUS
<1>2. ch[m] \in CardSet
  OBVIOUS
<1>3. /\ x \in CardSet /\ x.kind = ch[m].kind /\ x.of = ch[m].of /\ x.row = ch[m].row
      /\ x.shows = as /\ x.turn = turn
  BY <1>1, <1>2, Zenon DEF CardSet
<1>4. PICK e : e = [ch EXCEPT ![m] = x]
  OBVIOUS
<1>5. e = Edited(ch, m, turn, as)
  BY <1>1, <1>4, Zenon DEF Edited
<1>6. /\ e \in Seq(CardSet) /\ Len(e) = Len(ch) /\ DOMAIN e = DOMAIN ch /\ e[m] = x
      /\ \A i \in DOMAIN ch : i # m => e[i] = ch[i]
  <2>1. x \in CardSet
    BY <1>3
  <2>2. QED
    BY <1>4, <2>1
<1>7. \A i \in DOMAIN ch : e[i].kind = ch[i].kind /\ e[i].of = ch[i].of /\ e[i].row = ch[i].row
  BY <1>3, <1>6, Zenon
<1>8. QED
  BY <1>3, <1>5, <1>6, <1>7, Zenon DEF Faced

\* So it is when it is deleted.
LEMMA DeletedFields ==
  ASSUME NEW ch \in Seq(CardSet), NEW m \in DOMAIN ch
  PROVE  Faced(Deleted(ch, m), ch, m, ch[m].turn, "gone")
<1>1. PICK x : x = [ch[m] EXCEPT !.shows = "gone"]
  OBVIOUS
<1>2. ch[m] \in CardSet /\ "gone" \in {"live", "final", "details", "gone"}
  OBVIOUS
<1>3. /\ x \in CardSet /\ x.kind = ch[m].kind /\ x.of = ch[m].of /\ x.row = ch[m].row
      /\ x.shows = "gone" /\ x.turn = ch[m].turn
  BY <1>1, <1>2, Zenon DEF CardSet
<1>4. PICK e : e = [ch EXCEPT ![m] = x]
  OBVIOUS
<1>5. e = Deleted(ch, m)
  BY <1>1, <1>4, Zenon DEF Deleted
<1>6. /\ e \in Seq(CardSet) /\ Len(e) = Len(ch) /\ DOMAIN e = DOMAIN ch /\ e[m] = x
      /\ \A i \in DOMAIN ch : i # m => e[i] = ch[i]
  <2>1. x \in CardSet
    BY <1>3
  <2>2. QED
    BY <1>4, <2>1
<1>7. \A i \in DOMAIN ch : e[i].kind = ch[i].kind /\ e[i].of = ch[i].of /\ e[i].row = ch[i].row
  BY <1>3, <1>6, Zenon
<1>8. QED
  BY <1>3, <1>5, <1>6, <1>7, Zenon DEF Faced

\* A live card is edited, unless it is gone.
LEMMA EditKeeps ==
  ASSUME NEW s, NEW f, NEW v, NEW mode, Good(s, f, v, mode), Tables,
         NEW m \in DOMAIN s.chat, NEW turn \in TurnIds
  PROVE  /\ Good(Edit(s, m, turn, "live"), f, v, mode)
         /\ Edit(s, m, turn, "live").rows = s.rows
<1>0. PICK t : t = Edit(s, m, turn, "live")
  OBVIOUS
<1>1. /\ s \in Syncs /\ Fits(s.rows, s.chat, replayed \cup s.quiet, faults + Spent(s))
      /\ Since(s.rows, s.chat, v, mode, f)
  BY Zenon DEF Good
<1>2. s.chat \in Seq(CardSet)
  BY <1>1, SyncFields
<1>3. PICK e : e = Edited(s.chat, m, turn, "live")
  OBVIOUS
<1>4. "live" # "gone" /\ "live" # "details" /\ "live" \in {"live", "final", "details", "gone"}
  OBVIOUS
<1>5. /\ e \in Seq(CardSet) /\ DOMAIN e = DOMAIN s.chat /\ Len(e) = Len(s.chat)
      /\ \A i \in DOMAIN s.chat :
           e[i].kind = s.chat[i].kind /\ e[i].of = s.chat[i].of /\ e[i].row = s.chat[i].row
      /\ e[m].shows = "live" /\ e[m].turn = turn
      /\ \A i \in DOMAIN s.chat : i # m => e[i] = s.chat[i]
  <2>1. Faced(e, s.chat, m, turn, "live")
    BY <1>2, <1>3, <1>4, EditedFields, Zenon
  <2>2. QED
    BY <2>1, Zenon DEF Faced
<1>6. CardsFit(s.rows, s.chat)
  BY <1>1, Zenon DEF Fits
<1>7. \A i \in DOMAIN s.chat : e[i].shows = "gone" => s.chat[i].shows = "gone"
  BY <1>4, <1>5, Zenon
<1>8. \A i \in DOMAIN s.chat : e[i].shows = "details" => e[i].turn = e[i].of
  BY <1>4, <1>5, <1>6, Zenon DEF CardsFit
<1>9. Fits(s.rows, e, replayed \cup s.quiet, faults + Spent(s))
  BY <1>1, <1>5, <1>7, <1>8, Restyle, Zenon
<1>10. Since(s.rows, e, v, mode, f)
  <2>1. Len(s.chat) <= Len(e)
    BY <1>2, <1>5
  <2>2. QED
    BY <1>1, <1>2, <1>5, <2>1, SinceCards, Zenon
<1>11. ASSUME t = Call(s, e)
       PROVE  Good(t, f, v, mode) /\ t.rows = s.rows
  <2>1. e \in Seq(CardSet)
    BY <1>5
  <2>2. Good(Call(s, e), f, v, mode) /\ Call(s, e).rows = s.rows
    BY <1>9, <1>10, <2>1, CallKeeps, Zenon
  <2>3. QED
    BY <1>11, <2>2, Zenon
<1>12. ASSUME t = [s EXCEPT !.err = TRUE]
       PROVE  Good(t, f, v, mode) /\ t.rows = s.rows
  <2>1. PICK x : x = TRUE
    OBVIOUS
  <2>2. x \in BOOLEAN /\ t = Erred(s, x)
    BY <1>12, <2>1 DEF Erred
  <2>3. Good(Erred(s, x), f, v, mode) /\ Erred(s, x).rows = s.rows
    BY <2>2, ErredKeeps, Zenon
  <2>4. QED
    BY <2>2, <2>3, Zenon
<1>13. t = Call(s, e) \/ t = [s EXCEPT !.err = TRUE]
  BY <1>0, <1>3, Zenon DEF Edit, Edited
<1>14. QED
  BY <1>0, <1>11, <1>12, <1>13, Zenon

\* A message that the row remembers is edited.
LEMMA EditIfKeeps ==
  ASSUME NEW s, NEW f, NEW v, NEW mode, Good(s, f, v, mode), Tables,
         NEW there, NEW t, t = EditIf(s, there)
  PROVE  Good(t, f, v, mode) /\ t.rows = s.rows
<1>1. CASE t = Call(s, s.chat)
  BY <1>1, SendKeeps, Zenon
<1>2. CASE t = [s EXCEPT !.err = TRUE]
  <2>1. PICK x : x = TRUE
    OBVIOUS
  <2>2. x \in BOOLEAN /\ t = Erred(s, x)
    BY <1>2, <2>1 DEF Erred
  <2>3. Good(Erred(s, x), f, v, mode) /\ Erred(s, x).rows = s.rows
    BY <2>2, ErredKeeps, Zenon
  <2>4. QED
    BY <2>2, <2>3, Zenon
<1>3. t = Call(s, s.chat) \/ t = [s EXCEPT !.err = TRUE]
  BY Zenon DEF EditIf
<1>4. QED
  BY <1>1, <1>2, <1>3

\* A card that no row needs any more is deleted.
LEMMA DeleteKeeps ==
  ASSUME NEW s, NEW f, NEW v, NEW mode, Good(s, f, v, mode), Tables,
         NEW m \in DOMAIN s.chat, \A r \in DOMAIN s.rows : s.rows[r].live # m
  PROVE  Good(Delete(s, m), f, v, mode) /\ Delete(s, m).rows = s.rows
<1>0. PICK t : t = Delete(s, m)
  OBVIOUS
<1>1. /\ s \in Syncs /\ Fits(s.rows, s.chat, replayed \cup s.quiet, faults + Spent(s))
      /\ Since(s.rows, s.chat, v, mode, f)
  BY Zenon DEF Good
<1>2. s.chat \in Seq(CardSet)
  BY <1>1, SyncFields
<1>3. CASE ~Runs(s)
  BY <1>3, Zenon DEF Delete
<1>4. ASSUME Runs(s)
      PROVE  Good(t, f, v, mode) /\ t.rows = s.rows
  <2>1. PICK e : e = Deleted(s.chat, m)
    OBVIOUS
  <2>2. m \in DOMAIN s.chat /\ \A r \in DOMAIN s.rows : s.rows[r].live # m
    OBVIOUS
  <2>3. /\ e \in Seq(CardSet) /\ DOMAIN e = DOMAIN s.chat /\ Len(e) = Len(s.chat)
        /\ \A i \in DOMAIN s.chat :
             e[i].kind = s.chat[i].kind /\ e[i].of = s.chat[i].of /\ e[i].row = s.chat[i].row
        /\ e[m].shows = "gone"
        /\ \A i \in DOMAIN s.chat : i # m => e[i] = s.chat[i]
    <3>1. Faced(e, s.chat, m, s.chat[m].turn, "gone")
      BY <1>2, <2>1, <2>2, DeletedFields, Zenon
    <3>2. QED
      BY <3>1, Zenon DEF Faced
  <2>4. CardsFit(s.rows, s.chat) /\ "gone" # "details"
    BY <1>1, Zenon DEF Fits
  <2>5. \A i \in DOMAIN s.chat : e[i].shows = "gone" =>
          s.chat[i].shows = "gone" \/ \A r \in DOMAIN s.rows : s.rows[r].live # i
    BY <2>2, <2>3, Zenon
  <2>6. \A i \in DOMAIN s.chat : e[i].shows = "details" => e[i].turn = e[i].of
    BY <2>3, <2>4, Zenon DEF CardsFit
  <2>7. Fits(s.rows, e, replayed \cup s.quiet, faults + Spent(s))
    BY <1>1, <2>3, <2>5, <2>6, Restyle, Zenon
  <2>8. Since(s.rows, e, v, mode, f)
    <3>1. Len(s.chat) <= Len(e)
      BY <1>2, <2>3
    <3>2. QED
      BY <1>1, <1>2, <2>3, <3>1, SinceCards, Zenon
  <2>9. PICK u : u = Call(s, e)
    OBVIOUS
  <2>10. Good(u, f, v, mode) /\ u.rows = s.rows
    <3>1. e \in Seq(CardSet)
      BY <2>3
    <3>2. Good(Call(s, e), f, v, mode) /\ Call(s, e).rows = s.rows
      BY <2>7, <2>8, <3>1, CallKeeps, Zenon
    <3>3. QED
      BY <2>9, <3>2, Zenon
  <2>11. PICK x : x = FALSE
    OBVIOUS
  <2>12. x \in BOOLEAN /\ t = Erred(u, x)
    BY <1>0, <1>4, <2>1, <2>9, <2>11, Zenon DEF Delete, Deleted, Erred
  <2>13. Good(t, f, v, mode) /\ t.rows = u.rows
    <3>1. Good(Erred(u, x), f, v, mode) /\ Erred(u, x).rows = u.rows
      BY <2>10, <2>12, ErredKeeps, Zenon
    <3>2. QED
      BY <2>12, <3>1, Zenon
  <2>14. QED
    BY <2>10, <2>13
<1>5. QED
  BY <1>0, <1>3, <1>4, Zenon

\* A sync that has a current row.
Ready(s, f, v, mode) == Good(s, f, v, mode) /\ s.rows # <<>>

\* The current row, and its card.
LEMMA CurrentFields ==
  ASSUME NEW s, NEW f, NEW v, NEW mode, Ready(s, f, v, mode)
  PROVE  /\ s \in Syncs /\ Len(s.rows) \in DOMAIN s.rows /\ Len(s.rows) \in Nat
         /\ Current(s) = s.rows[Len(s.rows)] /\ Current(s) \in RowSet
         /\ Current(s).live \in DOMAIN s.chat
<1>1. s \in Syncs /\ LiveFits(s.rows, s.chat) /\ s.rows # <<>>
  BY Zenon DEF Ready, Good, Fits
<1>2. s.rows \in Seq(RowSet)
  BY <1>1, SyncFields
<1>3. Len(s.rows) \in DOMAIN s.rows /\ Len(s.rows) \in Nat
  BY <1>1, <1>2
<1>4. Current(s) = s.rows[Len(s.rows)] /\ Current(s) \in RowSet
  BY <1>2, <1>3 DEF Current
<1>5. Current(s).live \in DOMAIN s.chat
  BY <1>1, <1>3, <1>4, Zenon DEF LiveFits
<1>6. QED
  BY <1>1, <1>3, <1>4, <1>5

\* The current row is written.
Written(s, row) == [s EXCEPT !.rows[Len(s.rows)] = row]

\* The tables after that.
LEMMA WrittenFields ==
  ASSUME NEW s \in Syncs, s.rows # <<>>, NEW row \in RowSet
  PROVE  LET t == Written(s, row)
             n == Len(s.rows)
         IN  /\ t \in Syncs /\ t.chat = s.chat /\ t.quiet = s.quiet /\ t.fault = s.fault
             /\ t.mark = s.mark /\ t.marked = s.marked
             /\ Spent(t) = Spent(s) /\ (Runs(t) <=> Runs(s))
             /\ t.rows \in Seq(RowSet) /\ Len(t.rows) = n /\ DOMAIN t.rows = DOMAIN s.rows
             /\ n \in DOMAIN s.rows /\ t.rows[n] = row
             /\ \A r \in DOMAIN s.rows : r # n => t.rows[r] = s.rows[r]
<1>1. PICK n : n = Len(s.rows)
  OBVIOUS
<1>2. s.rows \in Seq(RowSet)
  BY SyncFields
<1>3. n \in DOMAIN s.rows
  BY <1>1, <1>2
<1>4. PICK rows2 : rows2 = [s.rows EXCEPT ![n] = row]
  OBVIOUS
<1>5. /\ rows2 \in Seq(RowSet) /\ Len(rows2) = n /\ DOMAIN rows2 = DOMAIN s.rows /\ rows2[n] = row
      /\ \A r \in DOMAIN s.rows : r # n => rows2[r] = s.rows[r]
  BY <1>1, <1>2, <1>3, <1>4
<1>6. PICK t : t = [s EXCEPT !.rows = rows2]
  OBVIOUS
<1>7. t = Written(s, row)
  BY <1>1, <1>4, <1>6, Zenon DEF Written
<1>8. /\ t \in Syncs /\ t.rows = rows2 /\ t.chat = s.chat /\ t.quiet = s.quiet
      /\ t.fault = s.fault /\ t.mark = s.mark /\ t.marked = s.marked /\ t.n = s.n
      /\ t.err = s.err /\ t.dead = s.dead
  BY <1>5, <1>6, Zenon DEF Syncs
<1>9. Spent(t) = Spent(s) /\ (Runs(t) <=> Runs(s))
  BY <1>8, Zenon DEF Spent, Runs
<1>10. QED
  BY <1>1, <1>3, <1>5, <1>7, <1>8, <1>9, Zenon

\* It remembers no other answer than before.
LEMMA WrittenKeeps ==
  ASSUME NEW s, NEW f, NEW v, NEW mode, Ready(s, f, v, mode), Tables,
         NEW row \in RowSet,
         row.live = Current(s).live, row.finalFP = Current(s).finalFP,
         \/ row.userFP = Current(s).userFP \/ row.userFP \notin origin
         \/ row.userFP = v.turn /\ ~f.marked,
         row.mode = Current(s).mode \/ row.mode = mode,
         row.turn = Current(s).turn \/ row.turn = v.turn
  PROVE  Ready(Written(s, row), f, v, mode)
<1>1. /\ s \in Syncs /\ s.fault = f.fault /\ s.mark = f.mark /\ s.marked = f.marked
      /\ s.quiet \subseteq {v.turn}
      /\ Fits(s.rows, s.chat, replayed \cup s.quiet, faults + Spent(s))
      /\ Since(s.rows, s.chat, v, mode, f) /\ s.rows # <<>>
  BY Zenon DEF Ready, Good
<1>2. PICK n : n = Len(s.rows)
  OBVIOUS
<1>3. PICK t : t = Written(s, row)
  OBVIOUS
<1>4. PICK rows2 : rows2 = t.rows
  OBVIOUS
<1>5. /\ t \in Syncs /\ t.chat = s.chat /\ t.quiet = s.quiet /\ t.fault = s.fault
      /\ t.mark = s.mark /\ t.marked = s.marked
      /\ Spent(t) = Spent(s)
      /\ rows2 \in Seq(RowSet) /\ Len(rows2) = n /\ DOMAIN rows2 = DOMAIN s.rows
      /\ n \in DOMAIN s.rows /\ rows2[n] = row
      /\ \A r \in DOMAIN s.rows : r # n => rows2[r] = s.rows[r]
  BY <1>1, <1>2, <1>3, <1>4, WrittenFields, Zenon
<1>6. Current(s) = s.rows[n]
  BY <1>2, Zenon DEF Current
<1>7. \A r \in DOMAIN s.rows :
        rows2[r].live = s.rows[r].live /\ rows2[r].finalFP = s.rows[r].finalFP
  BY <1>5, <1>6, Zenon
<1>8. Fits(rows2, s.chat, replayed \cup s.quiet, faults + Spent(s))
  <2>1. Fits(s.rows, s.chat, replayed \cup s.quiet, faults + Spent(s))
    BY <1>1
  <2>2. rows2 \in Seq(RowSet) /\ Len(rows2) = Len(s.rows)
    BY <1>2, <1>5
  <2>3. QED
    BY <1>7, <2>1, <2>2, Rewrite, Zenon
<1>9. Since(rows2, s.chat, v, mode, f)
  <2>1. ASSUME NEW r \in DOMAIN rows2, rows2[r].userFP \in origin
        PROVE  \/ r \in DOMAIN panels /\ panels[r].userFP = rows2[r].userFP
               \/ rows2[r].userFP = v.turn /\ ~f.marked
    <3>1. rows2[r].userFP = s.rows[r].userFP \/ (rows2[r].userFP = v.turn /\ ~f.marked)
      BY <1>5, <1>6, <2>1, Zenon
    <3>2. QED
      BY <1>1, <1>5, <2>1, <3>1, Zenon DEF Since
  <2>2. ASSUME Len(rows2) > Len(panels)
        PROVE  /\ rows2[Len(rows2)].mode = mode /\ rows2[Len(rows2)].turn = v.turn
               /\ ~protectTelegramOriginPanel(f, v, mode)
    <3>1. /\ s.rows[n].mode = mode /\ s.rows[n].turn = v.turn
          /\ ~protectTelegramOriginPanel(f, v, mode)
      BY <1>1, <1>2, <1>5, <2>2, Zenon DEF Since
    <3>2. QED
      BY <1>5, <1>6, <3>1, Zenon
  <2>3. QED
    BY <1>1, <1>2, <1>5, <2>1, <2>2, Zenon DEF Since
<1>10. rows2 # <<>>
  BY <1>5
<1>11. QED
  BY <1>1, <1>3, <1>4, <1>5, <1>8, <1>9, <1>10, Zenon DEF Ready, Good

\* The current row is stored, if the sync has come so far.
LEMMA StoredKeeps ==
  ASSUME NEW s, NEW f, NEW v, NEW mode, Ready(s, f, v, mode), Tables,
         NEW row \in RowSet,
         row.live = Current(s).live, row.finalFP = Current(s).finalFP,
         \/ row.userFP = Current(s).userFP \/ row.userFP \notin origin
         \/ row.userFP = v.turn /\ ~f.marked,
         row.mode = Current(s).mode \/ row.mode = mode,
         row.turn = Current(s).turn \/ row.turn = v.turn
  PROVE  Ready(Stored(s, row), f, v, mode)
<1>1. Stored(s, row) \in {s, Written(s, row)}
  BY Zenon DEF Stored, Written
<1>2. Ready(Written(s, row), f, v, mode)
  BY WrittenKeeps, Zenon
<1>3. QED
  BY <1>1, <1>2, Zenon

\* Calls leave the current row in place.
LEMMA ReadyKeeps ==
  ASSUME NEW s, NEW f, NEW v, NEW mode, Ready(s, f, v, mode), Tables
  PROVE  /\ Ready(Call(s, s.chat), f, v, mode) /\ Call(s, s.chat).rows = s.rows
         /\ \A there : Ready(EditIf(s, there), f, v, mode) /\ EditIf(s, there).rows = s.rows
         /\ Ready(Ignored(s), f, v, mode) /\ Ignored(s).rows = s.rows
<1>1. Good(s, f, v, mode) /\ s.rows # <<>>
  BY Zenon DEF Ready
<1>2. Ready(Call(s, s.chat), f, v, mode) /\ Call(s, s.chat).rows = s.rows
  BY <1>1, SendKeeps, Zenon DEF Ready
<1>3. ASSUME NEW there
      PROVE  Ready(EditIf(s, there), f, v, mode) /\ EditIf(s, there).rows = s.rows
  BY <1>1, EditIfKeeps, Zenon DEF Ready
<1>4. Ready(Ignored(s), f, v, mode) /\ Ignored(s).rows = s.rows
  <2>1. PICK x : x = FALSE
    OBVIOUS
  <2>2. x \in BOOLEAN /\ Ignored(s) = Erred(s, x)
    BY <2>1 DEF Ignored, Erred
  <2>3. Good(Erred(s, x), f, v, mode) /\ Erred(s, x).rows = s.rows
    BY <1>1, <2>2, ErredKeeps, Zenon
  <2>4. QED
    BY <1>1, <2>2, <2>3, Zenon DEF Ready
<1>5. QED
  BY <1>2, <1>3, <1>4

\* A view names a turn.
LEMMA ViewFields ==
  ASSUME NEW v \in Views
  PROVE  v.turn \in TurnIds /\ v.status \in Statuses /\ v.user \in BOOLEAN /\ v.final \in BOOLEAN
         /\ v.turn \in 0 .. MaxTurns
<1>1. v.turn \in TurnIds /\ v.status \in Statuses /\ v.user \in BOOLEAN /\ v.final \in BOOLEAN
  BY Zenon DEF Views, Statuses
<1>2. v.turn \in 0 .. MaxTurns
  BY <1>1, BoundsAssumption DEF TurnIds
<1>3. QED
  BY <1>1, <1>2

\* What a row remembers of its run notice.
LEMMA RunFPFields ==
  ASSUME NEW v \in Views, NEW mode \in Modes
  PROVE  /\ RunFP(v, mode) \in [turn : 0 .. MaxTurns, mode : Modes]
         /\ RunFP(NoView, mode) \in [turn : 0 .. MaxTurns, mode : Modes]
<1>1. v.turn \in 0 .. MaxTurns
  BY ViewFields
<1>2. NoView.turn \in 0 .. MaxTurns
  BY BoundsAssumption DEF NoView
<1>3. QED
  BY <1>1, <1>2, Zenon DEF RunFP

\* maybeUpdateRunNotice.
LEMMA RunNoticeKeeps ==
  ASSUME NEW s, NEW f, NEW v \in Views, NEW mode, Ready(s, f, v, mode), Tables
  PROVE  Ready(maybeUpdateRunNotice(s, v), f, v, mode)
<1>1. PICK row : row = Current(s)
  OBVIOUS
<1>2. PICK e : e = EditIf(s, row.run)
  OBVIOUS
<1>3. row \in RowSet
  BY <1>1, CurrentFields
<1>4. Ready(e, f, v, mode) /\ e.rows = s.rows
  BY <1>2, ReadyKeeps, Zenon
<1>5. PICK x : x = [row EXCEPT !.runFP = RunFP(v, row.mode)]
  OBVIOUS
<1>6. /\ x \in RowSet /\ x.live = row.live /\ x.finalFP = row.finalFP /\ x.userFP = row.userFP
      /\ x.mode = row.mode /\ x.turn = row.turn
  <2>1. row.mode \in Modes
    BY <1>3 DEF RowSet
  <2>2. RunFP(v, row.mode) \in [turn : 0 .. MaxTurns, mode : Modes]
    BY <2>1, RunFPFields
  <2>3. QED
    BY <1>3, <1>5, <2>2, Zenon DEF RowSet
<1>7. Current(e) = row
  BY <1>1, <1>4, Zenon DEF Current
<1>8. Ready(Stored(e, x), f, v, mode)
  BY <1>4, <1>6, <1>7, StoredKeeps, Zenon
<1>9. Ready(Ignored(e), f, v, mode)
  BY <1>4, ReadyKeeps, Zenon
<1>10. maybeUpdateRunNotice(s, v) \in {s, Stored(e, x), Ignored(e)}
  BY <1>1, <1>2, <1>5, Zenon DEF maybeUpdateRunNotice
<1>11. QED
  BY <1>8, <1>9, <1>10, Zenon

\* Who found the turn marked when it took panelMu sends no notice.
LEMMA NoticeUnmarked ==
  ASSUME NEW s, NEW f, NEW v, NEW mode, Good(s, f, v, mode), NEW m, sendsUserNotice(s, m, v)
  PROVE  ~f.marked
<1>1. /\ s \in Syncs /\ s.mark = f.mark /\ s.marked = f.marked
      /\ Since(s.rows, s.chat, v, mode, f)
  BY Zenon DEF Good
<1>2. f.marked => s.mark = 0
  BY <1>1, Zenon DEF Since
<1>3. s.n \in Nat
  BY <1>1, SyncFields
<1>4. ~(s.mark <= s.n)
  BY Zenon DEF sendsUserNotice, isTelegramOriginTurn
<1>5. QED
  BY <1>2, <1>3, <1>4

\* maybeSendUserRequestNotice repeats no prompt of a turn from Telegram.
LEMMA UserNoticeKeeps ==
  ASSUME NEW s, NEW f, NEW v \in Views, NEW mode, Ready(s, f, v, mode), Tables
  PROVE  Ready(maybeSendUserRequestNotice(s, v), f, v, mode)
<1>1. PICK row : row = Current(s)
  OBVIOUS
<1>2. PICK e : e = Send(s)
  OBVIOUS
<1>3. row \in RowSet
  BY <1>1, CurrentFields
<1>4. Ready(e, f, v, mode) /\ e.rows = s.rows
  BY <1>2, ReadyKeeps, Zenon DEF Send
<1>5. PICK x : x = [row EXCEPT !.user = TRUE, !.userFP = v.turn]
  OBVIOUS
<1>6. /\ x \in RowSet /\ x.live = row.live /\ x.finalFP = row.finalFP /\ x.userFP = v.turn
      /\ x.mode = row.mode /\ x.turn = row.turn
  <2>1. v.turn \in 0 .. MaxTurns /\ TRUE \in BOOLEAN
    BY ViewFields
  <2>2. QED
    BY <1>3, <1>5, <2>1, Zenon DEF RowSet
<1>7. Current(e) = row
  BY <1>1, <1>4, Zenon DEF Current
<1>8. ~f.marked => Ready(Stored(e, x), f, v, mode)
  BY <1>4, <1>6, <1>7, StoredKeeps, Zenon
<1>9. Ready(Ignored(e), f, v, mode)
  BY <1>4, ReadyKeeps, Zenon
<1>10. \/ maybeSendUserRequestNotice(s, v) \in {s, Ignored(e)}
       \/ /\ maybeSendUserRequestNotice(s, v) = Stored(e, x)
          /\ sendsUserNotice(s, row.mode, v)
  BY <1>1, <1>2, <1>5, Zenon DEF maybeSendUserRequestNotice
<1>11. sendsUserNotice(s, row.mode, v) => ~f.marked
  BY NoticeUnmarked, Zenon DEF Ready
<1>12. QED
  BY <1>8, <1>9, <1>10, <1>11, Zenon

\* updateCurrentPanel.
LEMMA UpdateKeeps ==
  ASSUME NEW s, NEW f, NEW v \in Views, NEW mode, Ready(s, f, v, mode), Tables
  PROVE  Ready(updateCurrentPanel(s, v), f, v, mode)
<1>1. PICK s1 : s1 = maybeSendUserRequestNotice(maybeUpdateRunNotice(s, v), v)
  OBVIOUS
<1>2. PICK row : row = Current(s1)
  OBVIOUS
<1>3. PICK s2 : s2 = IF LiveCardChanged(row, v) THEN Edit(s1, row.live, v.turn, "live") ELSE s1
  OBVIOUS
<1>4. PICK s3 : s3 = IF WorkCardChanged(row, v) THEN EditIf(s2, row.work) ELSE s2
  OBVIOUS
<1>5. PICK x : x = [row EXCEPT !.turn = v.turn, !.status = v.status, !.shown = v, !.card = "live"]
  OBVIOUS
<1>6. updateCurrentPanel(s, v) = Stored(s3, x)
  BY <1>1, <1>2, <1>3, <1>4, <1>5, Zenon DEF updateCurrentPanel
<1>7. Ready(s1, f, v, mode)
  <2>1. Ready(maybeUpdateRunNotice(s, v), f, v, mode)
    BY RunNoticeKeeps
  <2>2. QED
    BY <1>1, <2>1, UserNoticeKeeps, Zenon
<1>8. row \in RowSet /\ row.live \in DOMAIN s1.chat
  BY <1>2, <1>7, CurrentFields, Zenon
<1>9. /\ v.turn \in TurnIds /\ v.status \in Statuses /\ "live" \in {"live", "final"}
  BY ViewFields
<1>10. Ready(s2, f, v, mode) /\ s2.rows = s1.rows
  <2>1. Ready(Edit(s1, row.live, v.turn, "live"), f, v, mode)
        /\ Edit(s1, row.live, v.turn, "live").rows = s1.rows
    <3>1. Good(s1, f, v, mode) /\ s1.rows # <<>>
      BY <1>7, Zenon DEF Ready
    <3>2. QED
      BY <1>8, <1>9, <3>1, EditKeeps, Zenon DEF Ready
  <2>2. QED
    BY <1>3, <1>7, <2>1, Zenon
<1>11. Ready(s3, f, v, mode) /\ s3.rows = s1.rows
  <2>1. Ready(EditIf(s2, row.work), f, v, mode) /\ EditIf(s2, row.work).rows = s2.rows
    BY <1>10, ReadyKeeps, Zenon
  <2>2. QED
    BY <1>4, <1>10, <2>1, Zenon
<1>12. /\ x \in RowSet /\ x.live = row.live /\ x.finalFP = row.finalFP /\ x.userFP = row.userFP
       /\ x.mode = row.mode /\ x.turn = v.turn
  BY <1>5, <1>8, <1>9, Zenon DEF RowSet
<1>13. Current(s3) = row
  BY <1>2, <1>11, Zenon DEF Current
<1>14. QED
  BY <1>6, <1>11, <1>12, <1>13, StoredKeeps, Zenon

\* Rows that are no longer current keep their card and the answer they recorded.
LEMMA RetiredFields ==
  ASSUME NEW rows \in Seq(RowSet), NEW new, new = Retired(rows)
  PROVE  /\ new \in Seq(RowSet) /\ Len(new) = Len(rows) /\ DOMAIN new = DOMAIN rows
         /\ \A r \in DOMAIN rows : new[r].live = rows[r].live /\ new[r].finalFP = rows[r].finalFP
                                   /\ new[r].userFP = 0
<1>1. PICK fp : fp = RunFP(NoView, "observer")
  OBVIOUS
<1>2. PICK w : w = NewView(1)
  OBVIOUS
<1>3. PICK x : x = [r \in DOMAIN rows |->
        [rows[r] EXCEPT !.mode = "observer", !.status = "completed", !.work = FALSE, !.run = FALSE,
                        !.user = FALSE, !.runFP = fp, !.userFP = 0, !.shown = w, !.card = "live"]]
  OBVIOUS
<1>4. new = x
  BY <1>1, <1>2, <1>3, Zenon DEF Retired
<1>5. ASSUME NEW r \in DOMAIN rows
      PROVE  /\ x[r] \in RowSet /\ x[r].live = rows[r].live /\ x[r].finalFP = rows[r].finalFP
             /\ x[r].userFP = 0
  <2>1. rows[r] \in RowSet
    BY RowFields
  <2>2. /\ "observer" \in Modes /\ "completed" \in Statuses /\ "live" \in {"live", "final"}
        /\ FALSE \in BOOLEAN /\ 0 \in 0 .. MaxTurns
    BY BoundsAssumption DEF Modes, Statuses
  <2>3. 1 \in TurnIds
    <3>1. rows[r].turn \in TurnIds
      BY RowFields
    <3>2. QED
      BY <3>1, BoundsAssumption DEF TurnIds
  <2>4. w \in Views
    BY <1>2, <2>3 DEF NewView, Views
  <2>5. fp \in [turn : 0 .. MaxTurns, mode : Modes]
    <3>1. NoView.turn \in 0 .. MaxTurns
      BY BoundsAssumption DEF NoView
    <3>2. QED
      BY <1>1, <2>2, <3>1, Zenon DEF RunFP
  <2>6. QED
    BY <1>3, <2>1, <2>2, <2>4, <2>5, Zenon DEF RowSet
<1>6. DOMAIN x = DOMAIN rows
  BY <1>3
<1>7. x \in Seq(RowSet) /\ Len(x) = Len(rows)
  <2>1. DOMAIN rows = 1 .. Len(rows) /\ Len(rows) \in Nat
    OBVIOUS
  <2>2. x = [r \in 1 .. Len(rows) |-> x[r]]
    BY <1>3, <2>1, Zenon
  <2>3. \A r \in 1 .. Len(rows) : x[r] \in RowSet
    BY <1>5, <2>1
  <2>4. QED
    BY <2>1, <2>2, <2>3
<1>8. QED
  BY <1>4, <1>5, <1>6, <1>7, Zenon

\* createCurrentPanel puts a row of its own behind the rows it found.
LEMMA CreateKeeps ==
  ASSUME NEW s, NEW f, NEW v \in Views, NEW mode \in Modes, Good(s, f, v, mode), Tables,
         ~protectTelegramOriginPanel(f, v, mode),
         NEW t, t = createCurrentPanel(s, v, mode)
  PROVE  Good(t, f, v, mode) /\ (Runs(t) => Ready(t, f, v, mode))
<1>1. PICK run : run = shouldSendRunNotice(mode, v)
  OBVIOUS
<1>2. PICK s1 : s1 = IF run THEN Send(s) ELSE s
  OBVIOUS
<1>3. PICK user : user = sendsUserNotice(s1, mode, v)
  OBVIOUS
<1>4. PICK both :
        both = (user \/ (shouldSendUserPlaceholder(mode, v) /\ ~isTelegramOriginTurn(s1)))
  OBVIOUS
<1>5. PICK s2 : s2 = IF both THEN Send(s1) ELSE s1
  OBVIOUS
<1>6. PICK u : u = SendCard(s2, "live", 0, v)
  OBVIOUS
<1>7. PICK s3 : s3 = Send(u)
  OBVIOUS
<1>8. PICK fp : fp = IF run THEN RunFP(v, mode) ELSE RunFP(NoView, mode)
  OBVIOUS
<1>9. PICK told : told = IF user THEN v.turn ELSE 0
  OBVIOUS
<1>10. PICK live : live = Len(s3.chat)
  OBVIOUS
<1>11. PICK row : row = [turn |-> v.turn, status |-> v.status, mode |-> mode,
              live |-> live, work |-> TRUE, run |-> run, user |-> both,
              runFP |-> fp, userFP |-> told,
              finalFP |-> 0, shown |-> v, card |-> "live"]
  OBVIOUS
<1>12. t = IF ~Runs(s3) THEN s3 ELSE CreateThreadPanel(s3, row)
  BY <1>1, <1>2, <1>3, <1>4, <1>5, <1>6, <1>7, <1>8, <1>9, <1>10, <1>11, Zenon
     DEF createCurrentPanel
<1>13. Good(s1, f, v, mode)
  <2>1. PICK x : x = Call(s, s.chat)
    OBVIOUS
  <2>2. Good(x, f, v, mode)
    BY <2>1, SendKeeps, Zenon
  <2>3. QED
    BY <1>2, <2>1, <2>2, Zenon DEF Send
<1>14. Good(s2, f, v, mode)
  <2>1. PICK x : x = Call(s1, s1.chat)
    OBVIOUS
  <2>2. Good(x, f, v, mode)
    BY <1>13, <2>1, SendKeeps, Zenon
  <2>3. QED
    BY <1>5, <1>13, <2>1, <2>2, Zenon DEF Send
<1>15. Good(u, f, v, mode) /\ (Runs(u) => Fresh(u))
  BY <1>6, <1>14, SendLive, Zenon
<1>16. Good(s3, f, v, mode) /\ (Runs(s3) => Fresh(s3))
  <2>1. s3 = Call(u, u.chat)
    BY <1>7, Zenon DEF Send
  <2>2. Good(s3, f, v, mode) /\ s3.rows = u.rows /\ s3.chat = u.chat /\ (Runs(s3) => Runs(u))
    BY <1>15, <2>1, SendKeeps, Zenon
  <2>3. QED
    BY <1>15, <2>2, Zenon DEF Fresh
<1>17. CASE ~Runs(s3)
  BY <1>12, <1>16, <1>17, Zenon
<1>18. CASE Runs(s3)
  <2>1. /\ s3 \in Syncs /\ s3.fault = f.fault /\ s3.mark = f.mark /\ s3.marked = f.marked
        /\ s3.quiet \subseteq {v.turn}
        /\ Fits(s3.rows, s3.chat, replayed \cup s3.quiet, faults + Spent(s3))
        /\ Since(s3.rows, s3.chat, v, mode, f)
    BY <1>16, Zenon DEF Good
  <2>2. /\ s3.rows \in Seq(RowSet) /\ s3.chat \in Seq(CardSet) /\ Spent(s3) \in 0 .. 1
    BY <2>1, SyncFields
  <2>3. PICK old : old = Retired(s3.rows)
    OBVIOUS
  <2>4. /\ old \in Seq(RowSet) /\ Len(old) = Len(s3.rows) /\ DOMAIN old = DOMAIN s3.rows
        /\ \A r \in DOMAIN s3.rows : /\ old[r].live = s3.rows[r].live
                                     /\ old[r].finalFP = s3.rows[r].finalFP
                                     /\ old[r].userFP = 0
    BY <2>2, <2>3, RetiredFields
  <2>5. PICK b : b = faults + Spent(s3)
    OBVIOUS
  <2>6. b \in Nat
    BY <2>2, <2>5 DEF Tables
  <2>7. Fits(old, s3.chat, replayed \cup s3.quiet, b)
    BY <2>1, <2>4, <2>5, Rewrite, Zenon
  <2>8. /\ live \in DOMAIN s3.chat /\ s3.chat[live].shows # "gone"
        /\ \A r \in DOMAIN s3.rows : s3.rows[r].live # live
    BY <1>10, <1>16, <1>18, Zenon DEF Fresh
  <2>9. /\ v.turn \in TurnIds /\ v.status \in Statuses /\ v.turn \in 0 .. MaxTurns
        /\ 0 \in 0 .. MaxTurns /\ v.turn # 0
    BY ViewFields, BoundsAssumption DEF TurnIds
  <2>10. run \in BOOLEAN /\ both \in BOOLEAN /\ user \in BOOLEAN
    BY <1>1, <1>3, <1>4 DEF shouldSendRunNotice, sendsUserNotice
  <2>11. fp \in [turn : 0 .. MaxTurns, mode : Modes]
    BY <1>8, RunFPFields, Zenon
  <2>12. told \in 0 .. MaxTurns /\ (told \notin origin \/ (told = v.turn /\ ~f.marked))
    <3>1. 0 \notin origin
      BY BoundsAssumption DEF Tables, TurnIds
    <3>2. user => ~f.marked
      BY <1>3, <1>13, NoticeUnmarked, Zenon
    <3>3. QED
      BY <1>9, <2>9, <3>1, <3>2, Zenon
  <2>13. live \in Nat
    BY <2>2, <2>8
  <2>14. /\ row \in RowSet /\ row.live = live /\ row.finalFP = 0 /\ row.userFP = told
         /\ row.mode = mode /\ row.turn = v.turn
    <3>1. TRUE \in BOOLEAN /\ "live" \in {"live", "final"}
      OBVIOUS
    <3>2. QED
      BY <1>11, <2>9, <2>10, <2>11, <2>12, <2>13, <3>1, Zenon DEF RowSet
  <2>15. PICK rows2 : rows2 = Append(old, row)
    OBVIOUS
  <2>16. /\ rows2 \in Seq(RowSet) /\ Len(rows2) = Len(old) + 1 /\ rows2[Len(rows2)] = row
         /\ Len(old) \in Nat /\ DOMAIN old = 1 .. Len(old) /\ DOMAIN rows2 = 1 .. Len(old) + 1
         /\ \A r \in DOMAIN old : rows2[r] = old[r]
    BY <2>4, <2>14, <2>15, AppendFields
  <2>17. Fits(rows2, s3.chat, replayed \cup s3.quiet, b)
    <3>1. \A r \in DOMAIN old : old[r].live # row.live
      BY <2>4, <2>8, <2>14, Zenon
    <3>2. row.live \in DOMAIN s3.chat /\ s3.chat[row.live].shows # "gone"
      BY <2>8, <2>14, Zenon
    <3>3. QED
      BY <2>6, <2>7, <2>14, <2>15, <3>1, <3>2, AddRow, Zenon
  <2>18. Since(rows2, s3.chat, v, mode, f)
    <3>1. Len(panels) <= Len(s3.rows) /\ Len(panels) \in Nat
      BY <2>1 DEF Since, Tables
    <3>2. Len(panels) <= Len(rows2)
      BY <2>4, <2>16, <3>1
    <3>3. ASSUME NEW r \in DOMAIN rows2
          PROVE  rows2[r].userFP \notin origin \/ (rows2[r].userFP = v.turn /\ ~f.marked)
      <4>1. CASE r \in DOMAIN old
        <5>1. rows2[r].userFP = 0
          BY <2>4, <2>16, <4>1
        <5>2. QED
          BY <5>1, BoundsAssumption DEF Tables, TurnIds
      <4>2. CASE r = Len(rows2)
        BY <2>12, <2>14, <2>16, <4>2, Zenon
      <4>3. r \in DOMAIN old \/ r = Len(rows2)
        BY <2>16
      <4>4. QED
        BY <4>1, <4>2, <4>3
    <3>4. rows2[Len(rows2)].mode = mode /\ rows2[Len(rows2)].turn = v.turn
      BY <2>14, <2>16, Zenon
    <3>5. QED
      BY <2>1, <3>2, <3>3, <3>4, Zenon DEF Since
  <2>19. PICK x : x = [s3 EXCEPT !.rows = rows2]
    OBVIOUS
  <2>20. x = t
    BY <1>12, <1>18, <2>3, <2>15, <2>19, Zenon DEF CreateThreadPanel
  <2>21. /\ x \in Syncs /\ x.rows = rows2 /\ x.chat = s3.chat /\ x.quiet = s3.quiet
         /\ x.fault = s3.fault /\ x.mark = s3.mark /\ x.marked = s3.marked /\ x.n = s3.n
    BY <2>1, <2>16, <2>19, Zenon DEF Syncs
  <2>22. Spent(x) = Spent(s3)
    BY <2>21, Zenon DEF Spent
  <2>23. rows2 # <<>>
    BY <2>16
  <2>24. QED
    BY <2>1, <2>5, <2>17, <2>18, <2>20, <2>21, <2>22, <2>23, Zenon DEF Ready, Good
<1>19. QED
  BY <1>17, <1>18

\* updateOrRecreate leaves a protected panel alone.
LEMMA RecreateKeeps ==
  ASSUME NEW s, NEW f, NEW v \in Views, NEW mode \in Modes, Ready(s, f, v, mode), Tables
  PROVE  Good(updateOrRecreate(s, v, mode), f, v, mode)
<1>0. protectTelegramOriginPanel(s, v, mode) <=> protectTelegramOriginPanel(f, v, mode)
  BY Zenon DEF Ready, Good, protectTelegramOriginPanel
<1>1. PICK u : u = updateCurrentPanel(s, v)
  OBVIOUS
<1>2. Ready(u, f, v, mode)
  BY <1>1, UpdateKeeps, Zenon
<1>3. PICK g : g = Ignored(u)
  OBVIOUS
<1>4. Good(g, f, v, mode)
  BY <1>2, <1>3, ReadyKeeps, Zenon DEF Ready
<1>5. PICK c : c = createCurrentPanel(g, v, mode)
  OBVIOUS
<1>6. PICK w : w = updateCurrentPanel(c, v)
  OBVIOUS
<1>7. CASE protectTelegramOriginPanel(f, v, mode)
  <2>1. updateOrRecreate(s, v, mode) = u
    BY <1>0, <1>1, <1>7, Zenon DEF updateOrRecreate
  <2>2. QED
    BY <1>2, <2>1, Zenon DEF Ready
<1>8. CASE ~protectTelegramOriginPanel(f, v, mode)
  <2>1. Good(c, f, v, mode) /\ (Runs(c) => Ready(c, f, v, mode))
    BY <1>4, <1>5, <1>8, CreateKeeps, Zenon
  <2>2. Runs(c) => Good(w, f, v, mode)
    BY <1>6, <2>1, UpdateKeeps, Zenon DEF Ready
  <2>3. updateOrRecreate(s, v, mode) \in {u, c} \/ (Runs(c) /\ updateOrRecreate(s, v, mode) = w)
    BY <1>1, <1>3, <1>5, <1>6, Zenon DEF updateOrRecreate
  <2>4. QED
    BY <1>2, <2>1, <2>2, <2>3, Zenon DEF Ready
<1>9. QED
  BY <1>7, <1>8

\* The run notice and the work cards are deleted.
LEMMA DeletesKeep ==
  ASSUME NEW s, NEW f, NEW v, NEW mode, Ready(s, f, v, mode), Tables
  PROVE  Ready(DeleteWork(DeleteRun(s)), f, v, mode)
<1>1. PICK u : u = DeleteRun(s)
  OBVIOUS
<1>2. Ready(u, f, v, mode)
  <2>1. PICK x : x = Call(s, s.chat)
    OBVIOUS
  <2>2. Ready(x, f, v, mode)
    BY <2>1, ReadyKeeps, Zenon
  <2>3. Ready(Ignored(x), f, v, mode)
    BY <2>2, ReadyKeeps, Zenon
  <2>4. u \in {s, Ignored(x)}
    BY <1>1, <2>1, Zenon DEF DeleteRun
  <2>5. QED
    BY <2>3, <2>4, Zenon
<1>3. PICK d : d = Call(u, u.chat)
  OBVIOUS
<1>4. PICK g : g = Ignored(d)
  OBVIOUS
<1>5. Ready(d, f, v, mode)
  BY <1>2, <1>3, ReadyKeeps, Zenon
<1>6. Ready(g, f, v, mode)
  BY <1>4, <1>5, ReadyKeeps, Zenon
<1>7. PICK row : row = Current(g)
  OBVIOUS
<1>8. PICK x : x = [row EXCEPT !.work = FALSE]
  OBVIOUS
<1>9. /\ x \in RowSet /\ x.live = row.live /\ x.finalFP = row.finalFP /\ x.userFP = row.userFP
      /\ x.mode = row.mode /\ x.turn = row.turn
  <2>1. row \in RowSet /\ FALSE \in BOOLEAN
    BY <1>6, <1>7, CurrentFields, Zenon
  <2>2. QED
    BY <1>8, <2>1, Zenon DEF RowSet
<1>10. Ready(Written(g, x), f, v, mode)
  BY <1>6, <1>7, <1>9, WrittenKeeps, Zenon
<1>11. DeleteWork(u) \in {g, Written(g, x)}
  <2>1. d.rows = u.rows /\ g.rows = d.rows
    BY <1>2, <1>3, <1>4, <1>5, ReadyKeeps, Zenon
  <2>2. Written(g, x) = [g EXCEPT !.rows[Len(u.rows)].work = FALSE]
    BY <1>7, <1>8, <2>1, Zenon DEF Written, Current
  <2>3. QED
    BY <1>3, <1>4, <2>1, <2>2, Zenon DEF DeleteWork
<1>12. QED
  BY <1>1, <1>6, <1>10, <1>11, Zenon

\* maybeRenderFinalCard sends an answer that the row does not record.
LEMMA FinalKeeps ==
  ASSUME NEW s, NEW f, NEW v \in Views, NEW mode, Ready(s, f, v, mode), Tables
  PROVE  Ready(maybeRenderFinalCard(s, v), f, v, mode)
<1>1. PICK row : row = Current(s)
  OBVIOUS
<1>2. PICK n : n = Len(s.rows)
  OBVIOUS
<1>3. PICK c : c = [kind |-> "final", of |-> v.turn, row |-> n, turn |-> v.turn, shows |-> "final"]
  OBVIOUS
<1>4. PICK e : e = Append(s.chat, c)
  OBVIOUS
<1>5. PICK sent : sent = Call(s, e)
  OBVIOUS
<1>6. sent = SendCard(s, "final", n, v)
  BY <1>3, <1>4, <1>5, Zenon DEF SendCard
<1>7. PICK x : x = FinalRow(row, Len(sent.chat), v)
  OBVIOUS
<1>8. PICK kept : kept = Stored(sent, x)
  OBVIOUS
<1>9. PICK gone : gone = Delete(kept, row.live)
  OBVIOUS
<1>10. \/ maybeRenderFinalCard(s, v) = s
       \/ /\ Runs(s) /\ row.finalFP # v.turn
          /\ maybeRenderFinalCard(s, v) = DeleteWork(DeleteRun(gone))
  BY <1>1, <1>2, <1>6, <1>7, <1>8, <1>9, Zenon DEF maybeRenderFinalCard
<1>11. ASSUME Runs(s), row.finalFP # v.turn
       PROVE  Ready(gone, f, v, mode)
  <2>1. /\ s \in Syncs /\ s.fault = f.fault /\ s.mark = f.mark /\ s.marked = f.marked
        /\ s.quiet \subseteq {v.turn}
        /\ Fits(s.rows, s.chat, replayed \cup s.quiet, faults + Spent(s))
        /\ Since(s.rows, s.chat, v, mode, f) /\ s.rows # <<>> /\ LiveFits(s.rows, s.chat)
    BY Zenon DEF Ready, Good, Fits
  <2>2. /\ s.rows \in Seq(RowSet) /\ s.chat \in Seq(CardSet) /\ Spent(s) \in 0 .. 1
    BY <2>1, SyncFields
  <2>3. /\ n \in DOMAIN s.rows /\ n \in Nat /\ row = s.rows[n] /\ row \in RowSet
        /\ row.live \in DOMAIN s.chat
    BY <1>1, <1>2, CurrentFields
  <2>4. v.turn \in TurnIds /\ v.turn \in 0 .. MaxTurns /\ v.status \in Statuses
    BY ViewFields
  <2>5. c \in CardSet /\ c.kind = "final" /\ c.of = v.turn /\ c.row = n /\ c.shows = "final"
    <3>1. "final" \in {"live", "final"}
      OBVIOUS
    <3>2. QED
      BY <1>3, <2>3, <3>1, NewCard
  <2>6. /\ e \in Seq(CardSet) /\ Len(e) = Len(s.chat) + 1 /\ Len(s.chat) \in Nat
        /\ DOMAIN s.chat = 1 .. Len(s.chat) /\ DOMAIN e = 1 .. Len(e) /\ e[Len(e)] = c
        /\ \A m \in DOMAIN s.chat : e[m] = s.chat[m]
    BY <1>4, <2>2, <2>5, AppendFields
  <2>7. /\ sent \in Syncs /\ sent.rows = s.rows /\ sent.quiet = s.quiet
        /\ sent.fault = s.fault /\ sent.mark = s.mark /\ sent.marked = s.marked
        /\ Spent(s) <= Spent(sent)
        /\ sent.chat = e \/ (sent.chat = s.chat /\ ~Runs(sent))
        /\ ~Runs(sent) => Spent(s) = 0 /\ Spent(sent) = 1
    BY <1>5, <1>11, <2>1, <2>6, CallFields
  <2>8. PICK q : q = replayed \cup s.quiet
    OBVIOUS
  <2>9. PICK b : b = faults + Spent(s)
    OBVIOUS
  <2>10. b \in Nat /\ faults \in Nat
    BY <2>2, <2>9 DEF Tables
  <2>11. /\ Fits(s.rows, e, q, b + 1)
         /\ \A rows2 \in Seq(RowSet) :
              (/\ Len(rows2) = Len(s.rows)
               /\ rows2[Len(s.rows)].live = Len(s.chat) + 1 /\ rows2[Len(s.rows)].finalFP = v.turn
               /\ \A r \in DOMAIN s.rows : r # Len(s.rows) =>
                    rows2[r].live = s.rows[r].live /\ rows2[r].finalFP = s.rows[r].finalFP)
              => Fits(rows2, e, q, b)
    <3>1. Fits(s.rows, s.chat, q, b)
      BY <2>1, <2>8, <2>9, Zenon
    <3>2. s.rows[Len(s.rows)].finalFP # v.turn /\ c.row = Len(s.rows)
      BY <1>2, <1>11, <2>3, <2>5, Zenon
    <3>3. QED
      BY <1>4, <2>1, <2>4, <2>5, <2>10, <3>1, <3>2, SendFinal, Zenon
  <2>12. Since(s.rows, e, v, mode, f)
    <3>1. Len(s.chat) <= Len(e) /\ \A m \in DOMAIN s.chat : e[m].of = s.chat[m].of
      BY <2>6
    <3>2. QED
      BY <2>1, <2>2, <2>6, <3>1, SinceCards, Zenon
  <2>13. CASE ~Runs(sent)
    <3>1. kept = sent
      BY <1>8, <2>13, Zenon DEF Stored
    <3>2. CASE sent.chat = s.chat
      <4>1. Good(sent, f, v, mode)
        <5>1. Good(s, f, v, mode)
          BY Zenon DEF Ready
        <5>2. QED
          BY <2>7, <3>2, <5>1, SameTables, Zenon
      <4>2. Good(gone, f, v, mode) /\ gone.rows = kept.rows
        BY <1>9, <2>13, <3>1, <4>1, Zenon DEF Delete
      <4>3. QED
        BY <2>1, <2>7, <3>1, <4>2, Zenon DEF Ready
    <3>3. CASE sent.chat = e
      <4>1. b + 1 = faults + Spent(sent)
        BY <2>7, <2>9, <2>10, <2>13
      <4>2. Good(sent, f, v, mode)
        BY <2>1, <2>7, <2>8, <2>11, <2>12, <3>3, <4>1, Zenon DEF Good
      <4>3. Good(gone, f, v, mode) /\ gone.rows = kept.rows
        BY <1>9, <2>13, <3>1, <4>2, Zenon DEF Delete
      <4>4. QED
        BY <2>1, <2>7, <3>1, <4>3, Zenon DEF Ready
    <3>4. QED
      BY <2>7, <3>2, <3>3
  <2>14. CASE Runs(sent)
    <3>1. sent.chat = e
      BY <2>7, <2>14
    <3>2. PICK m : m = Len(e)
      OBVIOUS
    <3>3. x = [row EXCEPT !.live = m, !.turn = v.turn, !.status = v.status, !.shown = v,
                          !.card = "final", !.finalFP = v.turn]
      BY <1>7, <3>1, <3>2, Zenon DEF FinalRow
    <3>4. m \in Nat /\ m = Len(s.chat) + 1 /\ m \in DOMAIN e /\ m \notin DOMAIN s.chat
      BY <2>6, <3>2
    <3>5. /\ x \in RowSet /\ x.live = m /\ x.finalFP = v.turn /\ x.userFP = row.userFP
          /\ x.mode = row.mode /\ x.turn = v.turn
      <4>1. "final" \in {"live", "final"}
        OBVIOUS
      <4>2. QED
        BY <2>3, <2>4, <3>3, <3>4, <4>1, Zenon DEF RowSet
    <3>6. kept = Written(sent, x)
      BY <1>8, <2>14, Zenon DEF Stored, Written
    <3>7. PICK rows2 : rows2 = kept.rows
      OBVIOUS
    <3>8. /\ kept \in Syncs /\ kept.chat = e /\ kept.quiet = s.quiet /\ kept.fault = s.fault
          /\ kept.mark = s.mark /\ kept.marked = s.marked
          /\ Spent(kept) = Spent(sent)
          /\ rows2 \in Seq(RowSet) /\ Len(rows2) = n /\ DOMAIN rows2 = DOMAIN s.rows
          /\ rows2[n] = x /\ \A r \in DOMAIN s.rows : r # n => rows2[r] = s.rows[r]
      <4>1. sent \in Syncs /\ sent.rows # <<>> /\ Len(sent.rows) = n /\ x \in RowSet
        BY <1>2, <2>1, <2>7, <3>5, Zenon
      <4>2. /\ kept \in Syncs /\ kept.chat = sent.chat /\ kept.quiet = sent.quiet
            /\ kept.fault = sent.fault /\ kept.mark = sent.mark /\ kept.marked = sent.marked
            /\ Spent(kept) = Spent(sent)
            /\ rows2 \in Seq(RowSet) /\ Len(rows2) = n /\ DOMAIN rows2 = DOMAIN sent.rows
            /\ rows2[n] = x /\ \A r \in DOMAIN sent.rows : r # n => rows2[r] = sent.rows[r]
        BY <3>6, <3>7, <4>1, WrittenFields, Zenon
      <4>3. /\ sent.chat = e /\ sent.quiet = s.quiet /\ sent.rows = s.rows
            /\ sent.fault = s.fault /\ sent.mark = s.mark /\ sent.marked = s.marked
        BY <2>7, <3>1
      <4>4. QED
        BY <4>2, <4>3, Zenon
    <3>9. Fits(rows2, e, q, b)
      <4>1. Len(rows2) = Len(s.rows) /\ rows2[Len(s.rows)] = x
        BY <1>2, <3>8, Zenon
      <4>2. x.live = Len(s.chat) + 1
        BY <3>4, <3>5
      <4>3. \A r \in DOMAIN s.rows : r # Len(s.rows) =>
              rows2[r].live = s.rows[r].live /\ rows2[r].finalFP = s.rows[r].finalFP
        BY <1>2, <3>8, Zenon
      <4>4. QED
        BY <2>11, <3>5, <3>8, <4>1, <4>2, <4>3, Zenon
    <3>10. PICK b2 : b2 = faults + Spent(kept)
      OBVIOUS
    <3>11. b2 \in Nat /\ b <= b2
      <4>1. Spent(sent) \in 0 .. 1
        BY <2>7, SyncFields
      <4>2. QED
        BY <2>2, <2>7, <2>9, <2>10, <3>8, <3>10, <4>1
    <3>12. Fits(rows2, e, q, b2)
      BY <2>10, <3>9, <3>11, MoreFaults, Zenon
    <3>13. Since(rows2, e, v, mode, f)
      <4>1. ASSUME NEW r \in DOMAIN rows2, rows2[r].userFP \in origin
            PROVE  \/ r \in DOMAIN panels /\ panels[r].userFP = rows2[r].userFP
                   \/ rows2[r].userFP = v.turn /\ ~f.marked
        <5>1. rows2[r].userFP = s.rows[r].userFP
          BY <2>3, <3>5, <3>8, Zenon
        <5>2. QED
          BY <2>1, <3>8, <4>1, <5>1, Zenon DEF Since
      <4>2. ASSUME Len(rows2) > Len(panels)
            PROVE  /\ rows2[Len(rows2)].mode = mode /\ rows2[Len(rows2)].turn = v.turn
                   /\ ~protectTelegramOriginPanel(f, v, mode)
        <5>1. /\ s.rows[n].mode = mode /\ s.rows[n].turn = v.turn
              /\ ~protectTelegramOriginPanel(f, v, mode)
          BY <1>2, <2>1, <3>8, <4>2, Zenon DEF Since
        <5>2. QED
          BY <2>3, <3>5, <3>8, <5>1, Zenon
      <4>3. QED
        BY <1>2, <2>12, <3>8, <4>1, <4>2, Zenon DEF Since
    <3>14. Good(kept, f, v, mode) /\ rows2 # <<>>
      <4>1. rows2 # <<>>
        BY <2>3, <3>8
      <4>2. QED
        BY <2>1, <2>8, <3>7, <3>8, <3>10, <3>12, <3>13, <4>1, Zenon DEF Good
    <3>15. row.live \in DOMAIN kept.chat /\ \A r \in DOMAIN kept.rows : kept.rows[r].live # row.live
      <4>1. row.live \in DOMAIN kept.chat
        BY <2>3, <2>6, <3>8
      <4>2. row.live # m
        BY <2>3, <3>4
      <4>3. ASSUME NEW r \in DOMAIN rows2
            PROVE  rows2[r].live # row.live
        <5>1. CASE r = n
          BY <3>5, <3>8, <4>2, <5>1, Zenon
        <5>2. CASE r # n
          BY <2>1, <2>3, <3>8, <5>2, Zenon DEF LiveFits
        <5>3. QED
          BY <5>1, <5>2
      <4>4. QED
        BY <3>7, <4>1, <4>3, Zenon
    <3>16. Good(gone, f, v, mode) /\ gone.rows = kept.rows
      BY <1>9, <3>14, <3>15, DeleteKeeps, Zenon
    <3>17. QED
      BY <3>7, <3>14, <3>16, Zenon DEF Ready
  <2>15. QED
    BY <2>13, <2>14
<1>12. QED
  BY <1>10, <1>11, DeletesKeep, Zenon

\* An old panel without messages of its own records the answer without a card.
LEMMA LegacyKeeps ==
  ASSUME NEW s, NEW f, NEW v \in Views, NEW mode, Ready(s, f, v, mode), Tables, Runs(s),
         NEW row, row = Current(s), isLegacyTerminalReplay(row, v)
  PROVE  Good([Stored(s, [row EXCEPT !.finalFP = v.turn]) EXCEPT !.quiet = {v.turn}], f, v, mode)
<1>1. /\ s \in Syncs /\ s.fault = f.fault /\ s.mark = f.mark /\ s.marked = f.marked
      /\ s.quiet \subseteq {v.turn}
      /\ Fits(s.rows, s.chat, replayed \cup s.quiet, faults + Spent(s))
      /\ Since(s.rows, s.chat, v, mode, f) /\ s.rows # <<>>
  BY Zenon DEF Ready, Good
<1>2. PICK n : n = Len(s.rows)
  OBVIOUS
<1>3. PICK x : x = [row EXCEPT !.finalFP = v.turn]
  OBVIOUS
<1>4. /\ row \in RowSet /\ row = s.rows[n] /\ row.finalFP = 0
  BY <1>2, CurrentFields, Zenon DEF isLegacyTerminalReplay
<1>5. v.turn \in 0 .. MaxTurns /\ v.turn \in TurnIds
  BY ViewFields
<1>6. /\ x \in RowSet /\ x.live = row.live /\ x.finalFP = v.turn /\ x.userFP = row.userFP
      /\ x.mode = row.mode /\ x.turn = row.turn
  BY <1>3, <1>4, <1>5, Zenon DEF RowSet
<1>7. PICK w : w = Written(s, x)
  OBVIOUS
<1>8. PICK rows2 : rows2 = w.rows
  OBVIOUS
<1>9. /\ w \in Syncs /\ w.chat = s.chat /\ w.quiet = s.quiet /\ w.fault = s.fault
      /\ w.mark = s.mark /\ w.marked = s.marked
      /\ Spent(w) = Spent(s)
      /\ rows2 \in Seq(RowSet) /\ Len(rows2) = n /\ DOMAIN rows2 = DOMAIN s.rows
      /\ n \in DOMAIN s.rows /\ rows2[n] = x
      /\ \A r \in DOMAIN s.rows : r # n => rows2[r] = s.rows[r]
  BY <1>1, <1>2, <1>6, <1>7, <1>8, WrittenFields, Zenon
<1>10. PICK t : t = [w EXCEPT !.quiet = {v.turn}]
  OBVIOUS
<1>11. /\ t \in Syncs /\ t.rows = rows2 /\ t.chat = s.chat /\ t.quiet = {v.turn}
       /\ t.fault = s.fault /\ t.mark = s.mark /\ t.marked = s.marked /\ t.n = w.n
  <2>1. {v.turn} \in SUBSET TurnIds
    BY <1>5
  <2>2. QED
    BY <1>8, <1>9, <1>10, <2>1, Zenon DEF Syncs
<1>12. Spent(t) = Spent(s)
  BY <1>9, <1>11, Zenon DEF Spent
<1>13. PICK q : q = replayed \cup s.quiet
  OBVIOUS
<1>14. PICK q2 : q2 = replayed \cup {v.turn}
  OBVIOUS
<1>15. PICK b : b = faults + Spent(s)
  OBVIOUS
<1>16. b \in Nat
  <2>1. Spent(s) \in 0 .. 1
    BY <1>1, SyncFields
  <2>2. QED
    BY <1>15, <2>1 DEF Tables
<1>17. Fits(rows2, s.chat, q2, b)
  <2>1. q \subseteq q2 /\ v.turn \in q2
    BY <1>1, <1>13, <1>14
  <2>2. Fits(s.rows, s.chat, q, b)
    BY <1>1, <1>13, <1>15, Zenon
  <2>3. s.rows[Len(s.rows)].finalFP = 0
    BY <1>2, <1>4, Zenon
  <2>4. rows2 \in Seq(RowSet) /\ Len(rows2) = Len(s.rows) /\ s.rows # <<>>
    BY <1>1, <1>2, <1>9
  <2>5. ASSUME NEW r \in DOMAIN s.rows
        PROVE  /\ rows2[r].live = s.rows[r].live
               /\ r = Len(s.rows) => rows2[r].finalFP = v.turn
               /\ r # Len(s.rows) => rows2[r].finalFP = s.rows[r].finalFP
    BY <1>2, <1>4, <1>6, <1>9, Zenon
  <2>6. QED
    BY <1>16, <2>1, <2>2, <2>3, <2>4, <2>5, TakeForTold, Zenon
<1>18. Since(rows2, s.chat, v, mode, f)
  <2>1. ASSUME NEW r \in DOMAIN rows2, rows2[r].userFP \in origin
        PROVE  \/ r \in DOMAIN panels /\ panels[r].userFP = rows2[r].userFP
               \/ rows2[r].userFP = v.turn /\ ~f.marked
    <3>1. rows2[r].userFP = s.rows[r].userFP
      BY <1>4, <1>6, <1>9, Zenon
    <3>2. QED
      BY <1>1, <1>9, <2>1, <3>1, Zenon DEF Since
  <2>2. ASSUME Len(rows2) > Len(panels)
        PROVE  /\ rows2[Len(rows2)].mode = mode /\ rows2[Len(rows2)].turn = v.turn
               /\ ~protectTelegramOriginPanel(f, v, mode)
    <3>1. /\ s.rows[n].mode = mode /\ s.rows[n].turn = v.turn
          /\ ~protectTelegramOriginPanel(f, v, mode)
      BY <1>1, <1>2, <1>9, <2>2, Zenon DEF Since
    <3>2. QED
      BY <1>4, <1>6, <1>9, <3>1, Zenon
  <2>3. QED
    BY <1>1, <1>2, <1>9, <2>1, <2>2, Zenon DEF Since
<1>19. t = [Stored(s, [row EXCEPT !.finalFP = v.turn]) EXCEPT !.quiet = {v.turn}]
  BY <1>3, <1>7, <1>10, Zenon DEF Stored, Written
<1>20. t.quiet \subseteq {v.turn}
  BY <1>11
<1>21. Good(t, f, v, mode)
  BY <1>1, <1>11, <1>12, <1>14, <1>15, <1>17, <1>18, <1>20, Zenon DEF Good
<1>22. QED
  BY <1>19, <1>21, Zenon

\* A sync begins with the tables as they are.
LEMMA BeginGood ==
  ASSUME Tables, Fits(panels, chat, replayed, faults), NEW fault \in Faults \cup {NoFault},
         NEW mark \in Nat, NEW marked \in BOOLEAN, marked => mark = 0,
         NEW v \in Views, NEW mode, NEW f, f = Begin(fault, mark, marked)
  PROVE  /\ Good(f, f, v, mode) /\ f.rows = panels
         /\ f.fault = fault /\ f.mark = mark /\ f.marked = marked
<1>1. PICK s : s = f
  OBVIOUS
<1>2. panels \in Seq(RowSet) /\ chat \in Seq(CardSet) /\ faults \in Nat
  BY DEF Tables
<1>3. PICK no : no = FALSE
  OBVIOUS
<1>4. PICK none : none = {}
  OBVIOUS
<1>5. no \in BOOLEAN /\ none \in SUBSET TurnIds /\ 0 \in Nat
  BY <1>3, <1>4
<1>6. s = [rows |-> panels, chat |-> chat, n |-> 0, fault |-> fault, mark |-> mark,
           marked |-> marked, err |-> no, dead |-> no, quiet |-> none]
  BY <1>1, <1>3, <1>4 DEF Begin
<1>7. /\ s \in Syncs /\ s.rows = panels /\ s.chat = chat /\ s.n = 0 /\ s.fault = fault
      /\ s.mark = mark /\ s.marked = marked /\ s.quiet = none
  BY <1>2, <1>5, <1>6, Zenon DEF Syncs
<1>8. Spent(s) = 0
  <2>1. s.fault.at \in Nat
    BY <1>7, SyncFields
  <2>2. QED
    BY <1>7, <2>1 DEF Spent
<1>9. replayed \cup s.quiet = replayed /\ faults + Spent(s) = faults
  BY <1>2, <1>4, <1>7, <1>8
<1>10. Since(panels, chat, v, mode, f)
  <2>1. Len(panels) <= Len(panels) /\ Len(chat) <= Len(chat) /\ ~(Len(panels) > Len(panels))
    BY <1>2
  <2>2. f.marked => f.mark = 0
    BY <1>1, <1>7, Zenon
  <2>3. QED
    BY <2>1, <2>2, Zenon DEF Since
<1>11. s.quiet \subseteq {v.turn}
  BY <1>4, <1>7
<1>12. QED
  BY <1>1, <1>7, <1>9, <1>10, <1>11, Zenon DEF Good

\* ensureCurrentPanel opens no panel of the observer's for a panel that is protected.
LEMMA EnsureKeeps ==
  ASSUME Tables, NEW s, NEW f, NEW v \in Views, NEW mode \in Modes, Good(s, f, v, mode),
         s.rows = panels, NEW forceNew, mode = "observer" => ~forceNew,
         NEW t, t = ensureCurrentPanel(s, v, mode, forceNew)
  PROVE  Good(t, f, v, mode) /\ (Runs(t) => Ready(t, f, v, mode))
<1>1. PICK new : new = (forceNew \/ panels = <<>> \/ panelNeedsRefresh(panels[Len(panels)], v))
  OBVIOUS
<1>2. PICK c : c = createCurrentPanel(s, v, mode)
  OBVIOUS
<1>3. PICK s1 : s1 = IF new THEN c ELSE s
  OBVIOUS
<1>4. PICK row : row = Current(s1)
  OBVIOUS
<1>5. PICK x : x = [row EXCEPT !.mode = "telegram"]
  OBVIOUS
<1>6. Good(s1, f, v, mode) /\ (Runs(s1) => Ready(s1, f, v, mode))
  <2>1. CASE new
    <3>1. ~protectTelegramOriginPanel(f, v, mode)
      BY <1>1, <2>1, Zenon DEF protectTelegramOriginPanel, samePanelTurn, panelNeedsRefresh
    <3>2. Good(c, f, v, mode) /\ (Runs(c) => Ready(c, f, v, mode))
      BY <1>2, <3>1, CreateKeeps, Zenon
    <3>3. QED
      BY <1>3, <2>1, <3>2, Zenon
  <2>2. CASE ~new
    <3>1. s1 = s /\ panels # <<>>
      BY <1>1, <1>3, <2>2, Zenon
    <3>2. QED
      BY <3>1, Zenon DEF Ready
  <2>3. new \in BOOLEAN
    BY <1>1
  <2>4. QED
    BY <2>1, <2>2, <2>3
<1>7. t = s1 \/ (Runs(s1) /\ mode = "telegram" /\ t = Stored(s1, x))
  BY <1>1, <1>2, <1>3, <1>4, <1>5, Zenon DEF ensureCurrentPanel
<1>8. ASSUME Runs(s1), mode = "telegram"
      PROVE  Ready(Stored(s1, x), f, v, mode)
  <2>1. Ready(s1, f, v, mode)
    BY <1>6, <1>8
  <2>2. row \in RowSet
    BY <1>4, <2>1, CurrentFields, Zenon
  <2>3. /\ x \in RowSet /\ x.live = row.live /\ x.finalFP = row.finalFP /\ x.userFP = row.userFP
        /\ x.mode = mode /\ x.turn = row.turn
    BY <1>5, <1>8, <2>2, Zenon DEF RowSet
  <2>4. QED
    BY <1>4, <2>1, <2>3, StoredKeeps, Zenon
<1>9. QED
  BY <1>6, <1>7, <1>8, Zenon DEF Ready

\* One sync under panelMu.
LEMMA SyncKeeps ==
  ASSUME Tables, Fits(panels, chat, replayed, faults), NEW f, NEW v \in Views,
         NEW mode \in Modes, NEW force, mode = "observer" => ~force, NEW recent,
         Good(f, f, v, mode), f.rows = panels
  PROVE  Good(syncThreadPanelToTarget(f, v, mode, force, recent), f, v, mode)
<1>1. PICK forceNew : forceNew = (/\ force /\ PanelMode # "stable"
                                  /\ ~(mode = "telegram" /\ samePanelTurn(v)))
  OBVIOUS
<1>2. PICK b : b = f
  OBVIOUS
<1>3. PICK s : s = ensureCurrentPanel(f, v, mode, forceNew)
  OBVIOUS
<1>4. PICK row : row = Current(s)
  OBVIOUS
<1>5. PICK t : t = syncThreadPanelToTarget(f, v, mode, force, recent)
  OBVIOUS
<1>6. Good(b, f, v, mode) /\ b.rows = panels
  BY <1>2, Zenon
<1>7. mode = "observer" => ~forceNew
  BY <1>1, Zenon
<1>8. Good(s, f, v, mode) /\ (Runs(s) => Ready(s, f, v, mode))
  BY <1>3, <1>7, EnsureKeeps, Zenon
<1>9. PICK l : l = [Stored(s, [row EXCEPT !.finalFP = v.turn]) EXCEPT !.quiet = {v.turn}]
  OBVIOUS
<1>10. PICK u : u = maybeSendUserRequestNotice(s, v)
  OBVIOUS
<1>11. PICK w : w = maybeRenderFinalCard(u, v)
  OBVIOUS
<1>12. PICK z : z = updateOrRecreate(s, v, mode)
  OBVIOUS
<1>13. \/ t \in {b, s}
       \/ Runs(s) /\ isLegacyTerminalReplay(row, v) /\ t = l
       \/ Runs(s) /\ t \in {w, z}
  BY <1>1, <1>2, <1>3, <1>4, <1>5, <1>9, <1>10, <1>11, <1>12, Zenon DEF syncThreadPanelToTarget
<1>14. ASSUME Runs(s), isLegacyTerminalReplay(row, v)
       PROVE  Good(l, f, v, mode)
  <2>1. Ready(s, f, v, mode)
    BY <1>8, <1>14
  <2>2. QED
    BY <1>4, <1>9, <1>14, <2>1, LegacyKeeps, Zenon
<1>15. ASSUME Runs(s)
       PROVE  Good(w, f, v, mode) /\ Good(z, f, v, mode)
  <2>1. Ready(s, f, v, mode)
    BY <1>8, <1>15
  <2>2. Ready(u, f, v, mode)
    BY <1>10, <2>1, UserNoticeKeeps, Zenon
  <2>3. Ready(w, f, v, mode)
    BY <1>11, <2>2, FinalKeeps, Zenon
  <2>4. Good(z, f, v, mode)
    BY <1>12, <2>1, RecreateKeeps, Zenon
  <2>5. QED
    BY <2>3, <2>4, Zenon DEF Ready
<1>16. Good(t, f, v, mode)
  BY <1>6, <1>8, <1>13, <1>14, <1>15, Zenon
<1>17. QED
  BY <1>5, <1>16, Zenon

-----------------------------------------------------------------------------
(***************************************************************************)
(* The steps of the system.                                                *)
(***************************************************************************)

ActSet == [pc : {"idle", "sync", "locked", "mark"}, view : Views \cup {NoView}, mode : Modes,
           force : BOOLEAN, marked : BOOLEAN]

PressSet(rows, ch) ==
  [msg : DOMAIN ch, row : DOMAIN rows, turn : TurnIds, to : {"details", "final"}]

\* Rows and cards that fit are of the types that TypeOK asks for.
LEMMA FitTypes ==
  ASSUME NEW rows, NEW ch, NEW q, NEW b, Fits(rows, ch, q, b)
  PROVE  /\ rows \in Seq([turn : TurnIds, status : {"inProgress", "interrupted", "completed"},
                mode : Modes, live : 1 .. Len(ch), work : BOOLEAN, run : BOOLEAN,
                user : BOOLEAN, runFP : [turn : 0 .. MaxTurns, mode : Modes],
                userFP : 0 .. MaxTurns, finalFP : 0 .. MaxTurns,
                shown : Views, card : {"live", "final"}])
         /\ ch \in Seq([kind : {"live", "final"}, of : TurnIds, row : 0 .. Len(rows),
                turn : TurnIds, shows : {"live", "final", "details", "gone"}])
<1>1. /\ rows \in Seq(RowSet) /\ ch \in Seq(CardSet)
      /\ LiveFits(rows, ch) /\ CardsFit(rows, ch)
  BY Zenon DEF Fits
<1>2. PICK k : k = 1 .. Len(ch)
  OBVIOUS
<1>3. PICK n : n = 0 .. Len(rows)
  OBVIOUS
<1>4. PICK R : R = [turn : TurnIds, status : {"inProgress", "interrupted", "completed"},
                mode : Modes, live : k, work : BOOLEAN, run : BOOLEAN,
                user : BOOLEAN, runFP : [turn : 0 .. MaxTurns, mode : Modes],
                userFP : 0 .. MaxTurns, finalFP : 0 .. MaxTurns,
                shown : Views, card : {"live", "final"}]
  OBVIOUS
<1>5. PICK C : C = [kind : {"live", "final"}, of : TurnIds, row : n,
                turn : TurnIds, shows : {"live", "final", "details", "gone"}]
  OBVIOUS
<1>6. \A r \in DOMAIN rows : rows[r] \in R
  <2>1. \A r \in DOMAIN rows : rows[r] \in RowSet
    BY <1>1
  <2>2. \A r \in DOMAIN rows : rows[r].live \in k
    <3>1. DOMAIN ch = k
      BY <1>1, <1>2
    <3>2. QED
      BY <1>1, <3>1, Zenon DEF LiveFits
  <2>3. QED
    BY <1>4, <2>1, <2>2, Zenon DEF RowSet, Statuses
<1>7. \A m \in DOMAIN ch : ch[m] \in C
  <2>1. \A m \in DOMAIN ch : ch[m] \in CardSet
    BY <1>1
  <2>2. \A m \in DOMAIN ch : ch[m].row \in n
    BY <1>1, <1>3, Zenon DEF CardsFit
  <2>3. QED
    BY <1>5, <2>1, <2>2, Zenon DEF CardSet
<1>8. rows \in Seq(R)
  BY <1>1, <1>6
<1>9. ch \in Seq(C)
  BY <1>1, <1>7
<1>10. QED
  BY <1>2, <1>3, <1>4, <1>5, <1>8, <1>9, Zenon

\* A press that fits keeps its place when rows and cards are added.
LEMMA MorePresses ==
  ASSUME NEW rows \in Seq(RowSet), NEW ch \in Seq(CardSet), NEW rows2 \in Seq(RowSet),
         NEW ch2 \in Seq(CardSet), Len(rows) <= Len(rows2), Len(ch) <= Len(ch2)
  PROVE  PressSet(rows, ch) \subseteq PressSet(rows2, ch2)
<1>1. DOMAIN rows \subseteq DOMAIN rows2 /\ DOMAIN ch \subseteq DOMAIN ch2
  OBVIOUS
<1>2. QED
  BY <1>1, Zenon DEF PressSet

\* What a goroutine is about to do.
LEMMA ActFields ==
  ASSUME ActOK, NEW p \in Actors
  PROVE  /\ act[p] \in ActSet /\ act[p].mode \in Modes /\ act[p].force \in BOOLEAN
         /\ act[p].marked \in BOOLEAN
<1>1. act[p] \in ActSet
  BY Zenon DEF ActOK, ActSet
<1>2. QED
  BY <1>1, Zenon DEF ActSet

\* What a goroutine can be about to do.
LEMMA ActValues ==
  /\ Idle \in ActSet /\ Idle.pc = "idle"
  /\ \A v \in Views, mode \in Modes, force \in BOOLEAN :
       /\ SyncOf(v, mode, force) \in ActSet /\ SyncOf(v, mode, force).pc = "sync"
       /\ SyncOf(v, mode, force).view = v /\ SyncOf(v, mode, force).mode = mode
       /\ SyncOf(v, mode, force).force = force
<1>1. Idle \in ActSet /\ Idle.pc = "idle"
  <2>1. "idle" \in {"idle", "sync", "locked", "mark"} /\ "observer" \in Modes /\ FALSE \in BOOLEAN
    BY DEF Modes
  <2>2. QED
    BY <2>1, Zenon DEF Idle, ActSet
<1>2. ASSUME NEW v \in Views, NEW mode \in Modes, NEW force \in BOOLEAN
      PROVE  /\ SyncOf(v, mode, force) \in ActSet /\ SyncOf(v, mode, force).pc = "sync"
             /\ SyncOf(v, mode, force).view = v /\ SyncOf(v, mode, force).mode = mode
             /\ SyncOf(v, mode, force).force = force
  <2>1. "sync" \in {"idle", "sync", "locked", "mark"}
    OBVIOUS
  <2>2. QED
    BY <2>1, Zenon DEF SyncOf, ActSet
<1>3. QED
  BY <1>1, <1>2

\* One goroutine takes up something that fits.
LEMMA ActsKeep ==
  ASSUME ActOK, ActsFit, NEW p \in Actors, NEW a \in ActSet, act' = [act EXCEPT ![p] = a],
         latest # NoView => latest' # NoView,
         a.pc \in {"sync", "locked"} => a.view \in Views /\ (a.mode = "observer" => ~a.force),
         a.pc = "mark" => latest' # NoView /\ a.view \in Views
  PROVE  ActOK' /\ ActsFit'
<1>1. act \in [Actors -> ActSet]
  BY Zenon DEF ActOK, ActSet
<1>2. act' \in [Actors -> ActSet] /\ act'[p] = a /\ \A k \in Actors : k # p => act'[k] = act[k]
  BY <1>1, Zenon
<1>3. ActOK'
  BY <1>2, Zenon DEF ActOK, ActSet
<1>4. ASSUME NEW k \in Actors, act'[k].pc \in {"sync", "locked"}
      PROVE  act'[k].view \in Views /\ (act'[k].mode = "observer" => ~act'[k].force)
  <2>1. CASE k = p
    BY <1>2, <1>4, <2>1, Zenon
  <2>2. CASE k # p
    BY <1>2, <1>4, <2>2, Zenon DEF ActsFit
  <2>3. QED
    BY <2>1, <2>2
<1>5. ASSUME act'[Bot].pc = "mark"
      PROVE  latest' # NoView /\ act'[Bot].view \in Views
  <2>1. Bot \in Actors
    BY DEF Actors
  <2>2. CASE Bot = p
    BY <1>2, <1>5, <2>2, Zenon
  <2>3. CASE Bot # p
    BY <1>2, <1>5, <2>1, <2>3, Zenon DEF ActsFit
  <2>4. QED
    BY <2>2, <2>3
<1>6. QED
  BY <1>3, <1>4, <1>5, Zenon DEF ActsFit

\* The rows and the cards of the invariant.
LEMMA InvTables ==
  ASSUME IInv
  PROVE  /\ Tables /\ Fits(panels, chat, replayed, faults)
         /\ ThreadOK /\ ActOK /\ PressOK /\ BoundsOK /\ ActsFit /\ PressFits
         /\ panels \in Seq(RowSet) /\ chat \in Seq(CardSet)
         /\ presses \in Nat /\ faults \in Nat /\ MaxEvents \in Nat
<1>1. /\ TypeOK /\ Fits(panels, chat, replayed, faults) /\ ActsFit /\ PressFits
  BY Zenon DEF IInv
<1>2. ThreadOK /\ ActOK /\ PressOK /\ BoundsOK
  BY <1>1, Zenon DEF TypeOK
<1>3. panels \in Seq(RowSet) /\ chat \in Seq(CardSet)
  BY <1>1, Zenon DEF Fits
<1>4. presses \in Nat /\ faults \in Nat /\ MaxEvents \in Nat /\ replayed \subseteq TurnIds
  BY <1>2, BoundsAssumption DEF BoundsOK
<1>5. origin \subseteq TurnIds
  BY <1>2 DEF ThreadOK
<1>6. QED
  BY <1>1, <1>2, <1>3, <1>4, <1>5, Zenon DEF Tables

\* Steps that touch neither rows nor cards.
LEMMA Elsewhere ==
  ASSUME IInv, panels' = panels, chat' = chat, press' = press, faults' = faults,
         replayed' = replayed, ThreadOK', ActOK', ActsFit', presses' \in 0 .. MaxEvents
  PROVE  IInv'
<1>1. Fits(panels, chat, replayed, faults)'
  BY Zenon DEF IInv
<1>2. PanelsOK' /\ CardsOK' /\ PressOK' /\ BoundsOK'
  BY Zenon DEF IInv, TypeOK, PanelsOK, CardsOK, PressOK, BoundsOK
<1>3. PressFits'
  BY Zenon DEF IInv, PressFits
<1>4. QED
  BY <1>1, <1>2, <1>3, Zenon DEF IInv, TypeOK

\* Steps in which no goroutine moves.
LEMMA SameActs ==
  ASSUME ActOK, ActsFit, act' = act, latest # NoView => latest' # NoView
  PROVE  ActOK' /\ ActsFit'
BY Zenon DEF ActOK, ActsFit

\* A turn begins.
LEMMA NewViews ==
  ASSUME latest \in Views \cup {NoView}, latest.turn < MaxTurns
  PROVE  NewView(latest.turn + 1) \in Views /\ NewView(latest.turn + 1) # NoView
<1>1. latest.turn \in Nat
  <2>1. CASE latest \in Views
    BY <2>1, BoundsAssumption DEF Views, TurnIds
  <2>2. CASE latest = NoView
    BY <2>2 DEF NoView
  <2>3. QED
    BY <2>1, <2>2
<1>2. PICK t : t = latest.turn + 1
  OBVIOUS
<1>3. t \in TurnIds /\ t # 0
  BY <1>1, <1>2, BoundsAssumption DEF TurnIds
<1>4. NewView(t) \in Views
  BY <1>3 DEF NewView, Views
<1>5. NewView(t).turn = t /\ NoView.turn = 0
  BY DEF NewView, NoView
<1>6. QED
  BY <1>2, <1>3, <1>4, <1>5, Zenon

\* No view stands for no turn.
LEMMA NoViewApart ==
  /\ \A v \in Views : v # NoView
  /\ NoView.status = "none"
<1>1. NoView.status = "none" /\ NoView.turn = 0
  BY DEF NoView
<1>2. ASSUME NEW v \in Views
      PROVE  v # NoView
  <2>1. v.turn # 0
    BY BoundsAssumption DEF Views, TurnIds
  <2>2. QED
    BY <1>1, <2>1
<1>3. QED
  BY <1>1, <1>2

\* Codex.
LEMMA CodexKeeps ==
  ASSUME IInv, Codex
  PROVE  IInv'
<1>1. /\ UNCHANGED <<snap, observing, origin, panels, chat, act, press, presses, faults, replayed>>
      /\ latest' \in Views
  <2>1. latest \in Views \cup {NoView}
    BY Zenon DEF IInv, TypeOK, ThreadOK
  <2>2. CASE StartAtPC
    BY <2>1, <2>2, NewViews DEF StartAtPC
  <2>3. ASSUME latest.status \in {"inProgress", "interrupted"}
        PROVE  latest \in Views
    BY <2>1, <2>3, NoViewApart
  <2>4. CASE Prompted
    <3>1. latest \in Views /\ latest' = [latest EXCEPT !.user = TRUE]
      BY <2>3, <2>4 DEF Prompted, Becomes
    <3>2. latest' \in Views
      BY <3>1 DEF Views
    <3>3. QED
      BY <2>4, <3>2 DEF Prompted, Becomes
  <2>5. CASE Completes
    <3>1. latest \in Views
          /\ latest' = [latest EXCEPT !.status = "completed", !.user = TRUE, !.final = TRUE]
      BY <2>3, <2>5 DEF Completes, Becomes
    <3>2. latest' \in Views
      BY <3>1 DEF Views
    <3>3. QED
      BY <2>5, <3>2 DEF Completes, Becomes
  <2>6. CASE IsInterrupted
    <3>1. latest \in Views /\ latest' = [latest EXCEPT !.status = "interrupted"]
      BY <2>3, <2>6 DEF IsInterrupted, Becomes
    <3>2. latest' \in Views
      BY <3>1 DEF Views
    <3>3. QED
      BY <2>6, <3>2 DEF IsInterrupted, Becomes
  <2>7. QED
    BY <2>2, <2>4, <2>5, <2>6 DEF Codex
<1>2. ActOK /\ ActsFit /\ ThreadOK /\ presses \in 0 .. MaxEvents
  BY Zenon DEF IInv, TypeOK, BoundsOK
<1>3. snap' = snap /\ observing' = observing /\ origin' = origin /\ act' = act
  BY <1>1
<1>4. ActOK' /\ ActsFit'
  BY <1>1, <1>2, <1>3, NoViewApart, SameActs
<1>5. ThreadOK'
  BY <1>1, <1>2, <1>3, Zenon DEF ThreadOK
<1>6. QED
  BY <1>1, <1>2, <1>4, <1>5, Elsewhere

\* The poll loop and the event loop store what they read.
LEMMA ObserveKeeps ==
  ASSUME IInv, NEW p \in Loops, Observe(p)
  PROVE  IInv'
<1>1. /\ latest # NoView /\ snap' = latest /\ latest' = latest /\ observing' = observing
      /\ origin' = origin
      /\ panels' = panels /\ chat' = chat /\ press' = press /\ presses' = presses
      /\ faults' = faults /\ replayed' = replayed
      /\ act' = act \/ syncThreadPanel(p)
  BY DEF Observe
<1>2. ActOK /\ ActsFit /\ ThreadOK /\ presses \in 0 .. MaxEvents /\ panels \in Seq(RowSet)
  BY Zenon DEF IInv, TypeOK, BoundsOK, Fits
<1>3. latest \in Views
  BY <1>1, <1>2 DEF ThreadOK
<1>4. ThreadOK'
  BY <1>1, <1>2, Zenon DEF ThreadOK
<1>5. ActOK' /\ ActsFit'
  <2>1. CASE act' = act
    BY <1>1, <1>2, <2>1, SameActs
  <2>2. CASE syncThreadPanel(p)
    <3>1. act' = act \/ \E mode \in Modes : act' = [act EXCEPT ![p] = SyncOf(latest, mode, FALSE)]
      <4>1. PICK own :
              own = {panels[r].mode : r \in DOMAIN panels \cap {Len(panels)}} \ {"observer"}
        OBVIOUS
      <4>2. PICK modes : modes = IF observing THEN {"observer"} ELSE own
        OBVIOUS
      <4>3. modes \subseteq Modes
        <5>1. \A r \in DOMAIN panels : panels[r].mode \in Modes
          BY <1>2, RowFields
        <5>2. "observer" \in Modes
          BY DEF Modes
        <5>3. QED
          BY <4>1, <4>2, <5>1, <5>2
      <4>4. act' = act \/ \E mode \in modes : act' = [act EXCEPT ![p] = SyncOf(snap', mode, FALSE)]
        BY <2>2, <4>1, <4>2, Zenon DEF syncThreadPanel
      <4>5. QED
        BY <1>1, <4>3, <4>4, Zenon
    <3>2. ASSUME NEW mode \in Modes, act' = [act EXCEPT ![p] = SyncOf(latest, mode, FALSE)]
          PROVE  ActOK' /\ ActsFit'
      <4>1. PICK no : no = FALSE
        OBVIOUS
      <4>2. PICK a : a = SyncOf(latest, mode, no)
        OBVIOUS
      <4>3. a \in ActSet /\ a.pc = "sync" /\ a.view = latest /\ a.force = no /\ no \in BOOLEAN
        BY <1>3, <4>1, <4>2, ActValues
      <4>4. p \in Actors /\ act' = [act EXCEPT ![p] = a]
        BY <3>2, <4>1, <4>2 DEF Actors
      <4>5. a.pc # "mark" /\ ~a.force
        BY <4>1, <4>3
      <4>6. QED
        BY <1>1, <1>2, <1>3, <4>3, <4>4, <4>5, ActsKeep, Zenon
    <3>3. QED
      BY <1>1, <1>2, <2>1, <3>1, <3>2
  <2>3. QED
    BY <1>1, <2>1, <2>2
<1>6. QED
  BY <1>1, <1>2, <1>4, <1>5, Elsewhere

\* The bot takes up a sync of what is stored now.
LEMMA BotSyncs ==
  ASSUME ActOK, ActsFit, latest # NoView => latest' # NoView,
         NEW v \in Views, NEW mode \in Modes, NEW force \in BOOLEAN,
         mode = "observer" => ~force, act' = [act EXCEPT ![Bot] = SyncOf(v, mode, force)]
  PROVE  ActOK' /\ ActsFit'
<1>1. PICK a : a = SyncOf(v, mode, force)
  OBVIOUS
<1>2. a \in ActSet /\ a.pc = "sync" /\ a.view = v /\ a.force = force /\ a.mode = mode
  BY <1>1, ActValues
<1>3. Bot \in Actors /\ act' = [act EXCEPT ![Bot] = a] /\ a.pc # "mark"
  BY <1>1, <1>2 DEF Actors
<1>4. a.pc \in {"sync", "locked"} => a.view \in Views /\ (a.mode = "observer" => ~a.force)
  BY <1>2, Zenon
<1>5. QED
  BY <1>2, <1>3, <1>4, ActsKeep, Zenon

\* The handlers of the bot.
LEMMA BotKeeps ==
  ASSUME IInv,
         \/ sendInputToThread \/ markTelegramOriginTurn \/ showThread \/ stopThread
         \/ SetGlobalObserverTarget
  PROVE  IInv'
<1>1. /\ ActOK /\ ActsFit /\ ThreadOK /\ presses \in Nat /\ faults \in Nat /\ MaxEvents \in Nat
      /\ presses \in 0 .. MaxEvents
  BY InvTables DEF BoundsOK
<1>2. /\ latest \in Views \cup {NoView} /\ snap \in Views \cup {NoView} /\ observing \in BOOLEAN
      /\ origin \subseteq TurnIds
  BY <1>1 DEF ThreadOK
<1>3. \A mode \in {"telegram", "explicit"} : mode \in Modes /\ mode # "observer"
  BY DEF Modes
<1>4. CASE sendInputToThread
  <2>1. /\ latest.turn < MaxTurns /\ latest' = NewView(latest.turn + 1)
        /\ act' = [act EXCEPT ![Bot].pc = "mark", ![Bot].view = latest']
        /\ snap' = snap /\ observing' = observing /\ origin' = origin
        /\ panels' = panels /\ chat' = chat /\ press' = press /\ presses' = presses
        /\ faults' = faults /\ replayed' = replayed
    BY <1>4 DEF sendInputToThread
  <2>2. latest' \in Views /\ latest' # NoView
    BY <1>2, <2>1, NewViews
  <2>3. PICK old : old = act[Bot]
    OBVIOUS
  <2>4. PICK a : a = [old EXCEPT !.pc = "mark", !.view = latest']
    OBVIOUS
  <2>5. a \in ActSet /\ a.pc = "mark" /\ a.view = latest'
    <3>1. old \in ActSet
      <4>1. Bot \in Actors
        BY DEF Actors
      <4>2. QED
        BY <1>1, <2>3, <4>1, ActFields, Zenon
    <3>2. "mark" \in {"idle", "sync", "locked", "mark"} /\ latest' \in Views \cup {NoView}
      BY <2>2
    <3>3. QED
      BY <2>4, <3>1, <3>2, Zenon DEF ActSet
  <2>6. act' = [act EXCEPT ![Bot] = a]
    BY <2>1, <2>3, <2>4, Zenon
  <2>7. Bot \in Actors /\ a.pc \notin {"sync", "locked"}
    BY <2>5 DEF Actors
  <2>8. ActOK' /\ ActsFit'
    BY <1>1, <2>2, <2>5, <2>6, <2>7, ActsKeep, Zenon
  <2>9. ThreadOK'
    BY <1>2, <2>1, <2>2, Zenon DEF ThreadOK
  <2>10. presses' \in 0 .. MaxEvents
    BY <1>1, <2>1
  <2>11. QED
    BY <2>1, <2>8, <2>9, <2>10, Elsewhere
<1>5. CASE markTelegramOriginTurn
  <2>1. /\ act[Bot].pc = "mark" /\ origin' = origin \cup {act[Bot].view.turn}
        /\ snap' = latest /\ latest' = latest /\ observing' = observing
        /\ act' = [act EXCEPT ![Bot] = SyncOf(snap', "telegram", TRUE)]
        /\ panels' = panels /\ chat' = chat /\ press' = press /\ presses' = presses
        /\ faults' = faults /\ replayed' = replayed
    BY <1>5 DEF markTelegramOriginTurn
  <2>2. latest # NoView /\ act[Bot].view \in Views
    BY <1>1, <2>1, Zenon DEF ActsFit
  <2>3. latest \in Views /\ act[Bot].view.turn \in TurnIds
    BY <1>2, <2>2, ViewFields
  <2>4. ThreadOK'
    <3>1. origin' \subseteq TurnIds
      BY <1>2, <2>1, <2>3
    <3>2. QED
      BY <1>2, <2>1, <3>1, Zenon DEF ThreadOK
  <2>5. ActOK' /\ ActsFit'
    <3>1. PICK yes : yes = TRUE
      OBVIOUS
    <3>2. PICK mode : mode = "telegram"
      OBVIOUS
    <3>3. yes \in BOOLEAN /\ mode \in Modes /\ mode # "observer"
      BY <1>3, <3>1, <3>2
    <3>4. act' = [act EXCEPT ![Bot] = SyncOf(latest, mode, yes)]
      BY <2>1, <3>1, <3>2
    <3>5. QED
      BY <1>1, <2>1, <2>3, <3>3, <3>4, BotSyncs, Zenon
  <2>6. QED
    BY <1>1, <2>1, <2>4, <2>5, Elsewhere
<1>6. CASE showThread
  <2>1. /\ latest # NoView /\ presses + faults < MaxEvents /\ presses' = presses + 1
        /\ snap' = latest /\ latest' = latest /\ observing' = observing /\ origin' = origin
        /\ act' = [act EXCEPT ![Bot] = SyncOf(snap', "explicit", TRUE)]
        /\ panels' = panels /\ chat' = chat /\ press' = press
        /\ faults' = faults /\ replayed' = replayed
    BY <1>6 DEF showThread
  <2>2. latest \in Views
    BY <1>2, <2>1
  <2>3. ThreadOK'
    BY <1>2, <2>1, Zenon DEF ThreadOK
  <2>4. ActOK' /\ ActsFit'
    <3>1. PICK yes : yes = TRUE
      OBVIOUS
    <3>2. PICK mode : mode = "explicit"
      OBVIOUS
    <3>3. yes \in BOOLEAN /\ mode \in Modes /\ mode # "observer"
      BY <1>3, <3>1, <3>2
    <3>4. act' = [act EXCEPT ![Bot] = SyncOf(latest, mode, yes)]
      BY <2>1, <3>1, <3>2
    <3>5. QED
      BY <1>1, <2>1, <2>2, <3>3, <3>4, BotSyncs, Zenon
  <2>5. presses' \in 0 .. MaxEvents
    BY <1>1, <2>1
  <2>6. QED
    BY <2>1, <2>3, <2>4, <2>5, Elsewhere
<1>7. CASE stopThread
  <2>1. /\ latest.status = "inProgress" /\ presses + faults < MaxEvents /\ presses' = presses + 1
        /\ latest' = [latest EXCEPT !.status = "interrupted"]
        /\ snap' = latest' /\ observing' = observing /\ origin' = origin
        /\ act' = [act EXCEPT ![Bot] = SyncOf(snap', "explicit", FALSE)]
        /\ panels' = panels /\ chat' = chat /\ press' = press
        /\ faults' = faults /\ replayed' = replayed
    BY <1>7 DEF stopThread
  <2>2. latest \in Views
    BY <1>2, <2>1, NoViewApart
  <2>3. latest' \in Views
    BY <2>1, <2>2 DEF Views
  <2>4. ThreadOK'
    BY <1>2, <2>1, <2>3, Zenon DEF ThreadOK
  <2>5. latest' # NoView
    BY <2>3, NoViewApart
  <2>6. ActOK' /\ ActsFit'
    <3>1. PICK no : no = FALSE
      OBVIOUS
    <3>2. PICK mode : mode = "explicit"
      OBVIOUS
    <3>3. PICK v : v = latest'
      OBVIOUS
    <3>4. no \in BOOLEAN /\ mode \in Modes /\ mode # "observer" /\ v \in Views
      BY <1>3, <2>3, <3>1, <3>2, <3>3
    <3>5. act' = [act EXCEPT ![Bot] = SyncOf(v, mode, no)]
      BY <2>1, <3>1, <3>2, <3>3
    <3>6. QED
      BY <1>1, <2>5, <3>4, <3>5, BotSyncs, Zenon
  <2>7. presses' \in 0 .. MaxEvents
    BY <1>1, <2>1
  <2>8. QED
    BY <2>1, <2>4, <2>6, <2>7, Elsewhere
<1>8. CASE SetGlobalObserverTarget
  <2>1. /\ presses + faults < MaxEvents /\ presses' = presses + 1
        /\ snap' = snap /\ latest' = latest /\ observing' = ~observing /\ origin' = origin
        /\ act' = act
        /\ panels' = panels /\ chat' = chat /\ press' = press
        /\ faults' = faults /\ replayed' = replayed
    BY <1>8 DEF SetGlobalObserverTarget
  <2>2. observing' \in BOOLEAN
    BY <2>1
  <2>3. ThreadOK'
    BY <1>2, <2>1, <2>2, Zenon DEF ThreadOK
  <2>4. ActOK' /\ ActsFit'
    BY <1>1, <2>1, SameActs
  <2>5. presses' \in 0 .. MaxEvents
    BY <1>1, <2>1
  <2>6. QED
    BY <2>1, <2>3, <2>4, <2>5, Elsewhere
<1>9. QED
  BY <1>4, <1>5, <1>6, <1>7, <1>8

\* A sync takes panelMu.
LEMMA LockStep ==
  ASSUME IInv, NEW p \in Actors, LockPanel(p)
  PROVE  IInv'
<1>1. ActOK /\ ActsFit /\ ThreadOK /\ presses \in 0 .. MaxEvents
  BY Zenon DEF IInv, TypeOK, BoundsOK
<1>2. /\ act[p].pc = "sync"
      /\ act' = [act EXCEPT ![p].pc = "locked", ![p].marked = act[p].view.turn \in origin]
      /\ latest' = latest /\ snap' = snap /\ observing' = observing /\ origin' = origin
      /\ panels' = panels /\ chat' = chat /\ press' = press /\ presses' = presses
      /\ faults' = faults /\ replayed' = replayed
  BY DEF LockPanel
<1>3. PICK old : old = act[p]
  OBVIOUS
<1>4. PICK marked : marked = (act[p].view.turn \in origin)
  OBVIOUS
<1>5. PICK a : a = [old EXCEPT !.pc = "locked", !.marked = marked]
  OBVIOUS
<1>6. /\ a \in ActSet /\ a.pc = "locked" /\ a.view = old.view /\ a.mode = old.mode
      /\ a.force = old.force
  <2>1. old \in ActSet
    BY <1>1, <1>3, ActFields, Zenon
  <2>2. "locked" \in {"idle", "sync", "locked", "mark"} /\ marked \in BOOLEAN
    BY <1>4
  <2>3. QED
    BY <1>5, <2>1, <2>2, Zenon DEF ActSet
<1>7. act' = [act EXCEPT ![p] = a]
  BY <1>2, <1>3, <1>4, <1>5, Zenon
<1>8. old.view \in Views /\ (old.mode = "observer" => ~old.force)
  BY <1>1, <1>2, <1>3, Zenon DEF ActsFit
<1>9. a.pc # "mark"
  BY <1>6
<1>10. ActOK' /\ ActsFit'
  BY <1>1, <1>2, <1>6, <1>7, <1>8, <1>9, ActsKeep, Zenon
<1>11. ThreadOK' /\ presses' \in 0 .. MaxEvents
  BY <1>1, <1>2, Zenon DEF ThreadOK
<1>12. QED
  BY <1>2, <1>10, <1>11, Elsewhere

\* What a sync has done when it lets go of panelMu.
LEMMA SyncDoes ==
  ASSUME IInv, NEW p \in Actors, Sync(p)
  PROVE  \E s, f, v, mode :
           /\ Good(s, f, v, mode)
           /\ act[p].pc = "locked" /\ act[p].view = v /\ act[p].marked = f.marked
           /\ panels' = s.rows /\ chat' = s.chat /\ replayed' = replayed \cup s.quiet
           /\ \/ f.fault = NoFault /\ faults' = faults
              \/ /\ f.fault # NoFault /\ f.fault \in Faults /\ presses + faults < MaxEvents
                 /\ faults' = faults + 1
           /\ act' \in {[a \in Actors |-> Idle], [act EXCEPT ![p] = Idle]}
           /\ press' \in {{}, press}
<1>1. act[p].pc = "locked"
  BY DEF Sync
<1>2. PICK F : F = IF presses + faults < MaxEvents THEN Faults \cup {NoFault} ELSE {NoFault}
  OBVIOUS
<1>3. PICK v : v = act[p].view
  OBVIOUS
<1>4. PICK mode : mode = act[p].mode
  OBVIOUS
<1>5. PICK force : force = act[p].force
  OBVIOUS
<1>6. PICK marked : marked = act[p].marked
  OBVIOUS
<1>7. PICK fault \in F, mark \in Marks(p), recent \in BOOLEAN :
        \E s :
          /\ s = syncThreadPanelToTarget(Begin(fault, mark, marked), v, mode, force, recent)
          /\ panels' = s.rows /\ chat' = s.chat
          /\ replayed' = replayed \cup s.quiet
          /\ faults' = IF fault = NoFault THEN faults ELSE faults + 1
          /\ act' = IF s.dead THEN [a \in Actors |-> Idle] ELSE [act EXCEPT ![p] = Idle]
          /\ press' = IF s.dead THEN {} ELSE press
  <2>1. (IF panels = <<>> THEN BOOLEAN ELSE {TRUE}) \subseteq BOOLEAN
    OBVIOUS
  <2>2. QED
    BY <1>2, <1>3, <1>4, <1>5, <1>6, <2>1, ZenonT(30) DEF Sync
<1>8. PICK f : f = Begin(fault, mark, marked)
  OBVIOUS
<1>9. PICK s :
         /\ s = syncThreadPanelToTarget(f, v, mode, force, recent)
         /\ panels' = s.rows /\ chat' = s.chat
         /\ replayed' = replayed \cup s.quiet
         /\ faults' = IF fault = NoFault THEN faults ELSE faults + 1
         /\ act' = IF s.dead THEN [a \in Actors |-> Idle] ELSE [act EXCEPT ![p] = Idle]
         /\ press' = IF s.dead THEN {} ELSE press
  BY <1>7, <1>8
<1>10. Tables /\ Fits(panels, chat, replayed, faults) /\ ActsFit /\ ActOK
  BY InvTables
<1>11. v \in Views /\ (mode = "observer" => ~force)
  BY <1>1, <1>3, <1>4, <1>5, <1>10, Zenon DEF ActsFit
<1>12. mode \in Modes /\ marked \in BOOLEAN
  BY <1>4, <1>6, <1>10, ActFields, Zenon
<1>13. fault \in Faults \cup {NoFault}
  BY <1>2
<1>14. mark \in Nat /\ (marked => mark = 0)
  BY <1>6 DEF Marks, Never
<1>15. /\ Good(f, f, v, mode) /\ f.rows = panels /\ f.fault = fault /\ f.marked = marked
  BY <1>8, <1>10, <1>11, <1>12, <1>13, <1>14, BeginGood
<1>16. Good(s, f, v, mode)
  BY <1>9, <1>10, <1>11, <1>12, <1>15, SyncKeeps, Zenon
<1>17. \/ f.fault = NoFault /\ faults' = faults
       \/ /\ f.fault # NoFault /\ f.fault \in Faults /\ presses + faults < MaxEvents
          /\ faults' = faults + 1
  <2>1. CASE fault = NoFault
    BY <1>9, <1>15, <2>1
  <2>2. CASE fault # NoFault
    <3>1. faults' = faults + 1
      BY <1>9, <2>2
    <3>2. presses + faults < MaxEvents /\ fault \in Faults
      BY <1>2, <1>13, <2>2
    <3>3. QED
      BY <1>15, <2>2, <3>1, <3>2
  <2>3. QED
    BY <2>1, <2>2
<1>18. /\ act' \in {[a \in Actors |-> Idle], [act EXCEPT ![p] = Idle]} /\ press' \in {{}, press}
  BY <1>9, Zenon
<1>19. QED
  BY <1>1, <1>3, <1>6, <1>9, <1>15, <1>16, <1>17, <1>18, Zenon

\* A sync.
LEMMA SyncStep ==
  ASSUME IInv, NEW p \in Actors, Sync(p)
  PROVE  IInv'
<1>1. /\ Tables /\ ThreadOK /\ ActOK /\ PressOK /\ BoundsOK /\ ActsFit /\ PressFits
      /\ panels \in Seq(RowSet) /\ chat \in Seq(CardSet)
      /\ presses \in Nat /\ faults \in Nat /\ MaxEvents \in Nat
  BY InvTables
<1>2. /\ latest' = latest /\ snap' = snap /\ observing' = observing /\ origin' = origin
      /\ presses' = presses
  BY DEF Sync
<1>3. PICK s, f, v, mode :
           /\ Good(s, f, v, mode)
           /\ panels' = s.rows /\ chat' = s.chat /\ replayed' = replayed \cup s.quiet
           /\ \/ f.fault = NoFault /\ faults' = faults
              \/ /\ f.fault # NoFault /\ f.fault \in Faults /\ presses + faults < MaxEvents
                 /\ faults' = faults + 1
           /\ act' \in {[a \in Actors |-> Idle], [act EXCEPT ![p] = Idle]}
           /\ press' \in {{}, press}
  BY SyncDoes
<1>4. /\ s \in Syncs /\ s.fault = f.fault /\ s.mark = f.mark /\ s.marked = f.marked
      /\ Fits(s.rows, s.chat, replayed \cup s.quiet, faults + Spent(s))
      /\ Since(s.rows, s.chat, v, mode, f)
  BY <1>3, Zenon DEF Good
<1>5. /\ s.rows \in Seq(RowSet) /\ s.chat \in Seq(CardSet) /\ s.quiet \subseteq TurnIds
      /\ Spent(s) \in 0 .. 1
  BY <1>4, SyncFields
<1>6. faults' \in 0 .. MaxEvents /\ faults' \in Nat /\ faults + Spent(s) <= faults'
  <2>1. CASE f.fault = NoFault
    <3>1. Spent(s) = 0 /\ faults' = faults
      BY <1>3, <1>4, <2>1 DEF Spent, NoFault
    <3>2. QED
      BY <1>1, <3>1 DEF BoundsOK
  <2>2. CASE f.fault # NoFault
    <3>1. faults' = faults + 1 /\ presses + faults < MaxEvents
      BY <1>3, <2>2
    <3>2. QED
      BY <1>1, <1>5, <3>1
  <2>3. QED
    BY <2>1, <2>2
<1>7. Fits(panels, chat, replayed, faults)'
  <2>1. PICK b : b = faults + Spent(s)
    OBVIOUS
  <2>2. PICK b2 : b2 = faults'
    OBVIOUS
  <2>3. b \in Nat /\ b2 \in Nat /\ b <= b2
    BY <1>1, <1>5, <1>6, <2>1, <2>2
  <2>4. Fits(s.rows, s.chat, replayed \cup s.quiet, b)
    BY <1>4, <2>1, Zenon
  <2>5. Fits(s.rows, s.chat, replayed \cup s.quiet, b2)
    BY <2>3, <2>4, MoreFaults, Zenon
  <2>6. QED
    BY <1>3, <2>2, <2>5, Zenon
<1>8. PanelsOK' /\ CardsOK'
  <2>1. Fits(panels', chat', replayed', faults')
    BY <1>7
  <2>2. QED
    BY <2>1, FitTypes, Zenon DEF PanelsOK, CardsOK
<1>9. ThreadOK'
  BY <1>1, <1>2, Zenon DEF ThreadOK
<1>10. BoundsOK'
  <2>1. replayed' \subseteq TurnIds /\ presses' \in 0 .. MaxEvents
    BY <1>1, <1>2, <1>3, <1>5 DEF BoundsOK
  <2>2. QED
    BY <1>6, <2>1 DEF BoundsOK
<1>11. ActOK' /\ ActsFit'
  <2>1. PICK a : a = Idle
    OBVIOUS
  <2>2. a \in ActSet /\ a.pc \notin {"sync", "locked"} /\ a.pc # "mark"
    BY <2>1, ActValues
  <2>3. CASE act' = [k \in Actors |-> Idle]
    <3>1. ActOK'
      BY <2>1, <2>2, <2>3, Zenon DEF ActOK, ActSet
    <3>2. \A k \in Actors : act'[k].pc \notin {"sync", "locked"} /\ act'[k].pc # "mark"
      BY <2>1, <2>2, <2>3, Zenon
    <3>3. Bot \in Actors
      BY DEF Actors
    <3>4. QED
      BY <3>1, <3>2, <3>3, Zenon DEF ActsFit
  <2>4. CASE act' = [act EXCEPT ![p] = Idle]
    BY <1>1, <1>2, <2>1, <2>2, <2>4, ActsKeep, Zenon
  <2>5. QED
    BY <1>3, <2>3, <2>4
<1>12. /\ Len(panels) <= Len(s.rows) /\ Len(chat) <= Len(s.chat)
       /\ \A m \in DOMAIN chat : s.chat[m].of = chat[m].of
  BY <1>4, Zenon DEF Since
<1>13. PressOK'
  <2>1. press \subseteq PressSet(panels, chat)
    BY <1>1, Zenon DEF PressOK, PressSet
  <2>2. PressSet(panels, chat) \subseteq PressSet(s.rows, s.chat)
    BY <1>1, <1>5, <1>12, MorePresses
  <2>3. press' \subseteq PressSet(panels', chat')
    BY <1>3, <2>1, <2>2
  <2>4. QED
    BY <2>3, Zenon DEF PressOK, PressSet
<1>14. PressFits'
  <2>1. ASSUME NEW d \in press'
        PROVE  d.turn = chat'[d.msg].of
    <3>1. d \in press
      BY <1>3
    <3>2. d.msg \in DOMAIN chat /\ d.turn = chat[d.msg].of
      BY <1>1, <3>1, Zenon DEF PressOK, PressFits
    <3>3. QED
      BY <1>3, <1>12, <3>2, Zenon
  <2>2. QED
    BY <2>1, Zenon DEF PressFits
<1>15. QED
  BY <1>7, <1>8, <1>9, <1>10, <1>11, <1>13, <1>14, Zenon DEF IInv, TypeOK

\* A press of Details names the turn that its card was sent for.
LEMMA PressKeeps ==
  ASSUME IInv, NEW m \in DOMAIN chat, PressDetails(m)
  PROVE  IInv'
<1>1. /\ ThreadOK /\ ActOK /\ PressOK /\ BoundsOK /\ ActsFit /\ PressFits
      /\ panels \in Seq(RowSet) /\ chat \in Seq(CardSet)
      /\ presses \in Nat /\ faults \in Nat /\ MaxEvents \in Nat
  BY InvTables
<1>2. PICK r : r = chat[m].row
  OBVIOUS
<1>3. /\ presses + faults < MaxEvents /\ r \in DOMAIN panels /\ panels[r].turn = chat[m].of
      /\ presses' = presses + 1
      /\ latest' = latest /\ snap' = snap /\ observing' = observing /\ origin' = origin
      /\ panels' = panels /\ chat' = chat /\ act' = act /\ faults' = faults
      /\ replayed' = replayed
      /\ \E to \in {"details", "final"} :
           press' = press \cup {[msg |-> m, row |-> r, turn |-> panels[r].turn, to |-> to]}
  BY <1>2 DEF PressDetails, detailsPanelForCallback, snapshotForPanelTurn
<1>4. PICK to \in {"details", "final"} :
        press' = press \cup {[msg |-> m, row |-> r, turn |-> panels[r].turn, to |-> to]}
  BY <1>3
<1>5. PICK d : d = [msg |-> m, row |-> r, turn |-> panels[r].turn, to |-> to]
  OBVIOUS
<1>6. panels[r].turn \in TurnIds
  BY <1>1, <1>3, RowFields
<1>7. d \in PressSet(panels, chat) /\ d.turn = chat[d.msg].of
  BY <1>3, <1>5, <1>6, Zenon DEF PressSet
<1>8. press' = press \cup {d}
  BY <1>4, <1>5
<1>9. PressOK'
  <2>1. press \subseteq PressSet(panels, chat)
    BY <1>1, Zenon DEF PressOK, PressSet
  <2>2. press' \subseteq PressSet(panels', chat')
    BY <1>3, <1>7, <1>8, <2>1
  <2>3. QED
    BY <2>2, Zenon DEF PressOK, PressSet
<1>10. PressFits'
  BY <1>1, <1>3, <1>7, <1>8, Zenon DEF PressFits
<1>11. ThreadOK'
  BY <1>1, <1>3, Zenon DEF ThreadOK
<1>12. ActOK' /\ ActsFit'
  BY <1>1, <1>3, SameActs
<1>13. BoundsOK'
  BY <1>1, <1>3 DEF BoundsOK
<1>14. Fits(panels, chat, replayed, faults)' /\ PanelsOK' /\ CardsOK'
  BY <1>3, Zenon DEF IInv, TypeOK, PanelsOK, CardsOK
<1>15. QED
  BY <1>9, <1>10, <1>11, <1>12, <1>13, <1>14, Zenon DEF IInv, TypeOK

\* Details and Back change what one card shows.
LEMMA CardKeeps ==
  ASSUME IInv, NEW d \in press, editPanelCard(d)
  PROVE  IInv'
<1>1. /\ ThreadOK /\ ActOK /\ PressOK /\ BoundsOK /\ ActsFit /\ PressFits
      /\ panels \in Seq(RowSet) /\ chat \in Seq(CardSet)
      /\ Fits(panels, chat, replayed, faults)
  BY InvTables
<1>2. /\ chat' = chat \/ (chat[d.msg].shows # "gone" /\ chat' = Edited(chat, d.msg, d.turn, d.to))
      /\ press' = press \ {d} /\ presses' = presses
      /\ latest' = latest /\ snap' = snap /\ observing' = observing /\ origin' = origin
      /\ panels' = panels /\ act' = act /\ faults' = faults
      /\ replayed' = replayed
  BY DEF editPanelCard, Edited
<1>3. d.msg \in DOMAIN chat /\ d.turn \in TurnIds /\ d.to \in {"details", "final"}
  BY <1>1, Zenon DEF PressOK
<1>4. d.turn = chat[d.msg].of
  BY <1>1, Zenon DEF PressFits
<1>5. /\ chat' \in Seq(CardSet) /\ DOMAIN chat' = DOMAIN chat /\ Len(chat') = Len(chat)
      /\ \A i \in DOMAIN chat : chat'[i].kind = chat[i].kind /\ chat'[i].of = chat[i].of
                                /\ chat'[i].row = chat[i].row
      /\ Fits(panels, chat', replayed, faults)
  <2>1. CASE chat' = chat
    BY <1>1, <2>1, Zenon
  <2>2. CASE chat' = Edited(chat, d.msg, d.turn, d.to)
    <3>1. PICK e : e = Edited(chat, d.msg, d.turn, d.to)
      OBVIOUS
    <3>2. d.to \in {"live", "final", "details", "gone"} /\ d.to # "gone"
      BY <1>3
    <3>3. Faced(e, chat, d.msg, d.turn, d.to)
      BY <1>1, <1>3, <3>1, <3>2, EditedFields, Zenon
    <3>4. /\ e \in Seq(CardSet) /\ DOMAIN e = DOMAIN chat /\ Len(e) = Len(chat)
          /\ \A i \in DOMAIN chat :
               e[i].kind = chat[i].kind /\ e[i].of = chat[i].of /\ e[i].row = chat[i].row
          /\ e[d.msg].shows = d.to /\ e[d.msg].turn = d.turn
          /\ \A i \in DOMAIN chat : i # d.msg => e[i] = chat[i]
      BY <3>3, Zenon DEF Faced
    <3>5. CardsFit(panels, chat)
      BY <1>1, Zenon DEF Fits
    <3>6. \A i \in DOMAIN chat : e[i].shows = "gone" => chat[i].shows = "gone"
      BY <3>2, <3>4, Zenon
    <3>7. \A i \in DOMAIN chat : e[i].shows = "details" => e[i].turn = e[i].of
      BY <1>4, <3>4, <3>5, Zenon DEF CardsFit
    <3>8. Fits(panels, e, replayed, faults)
      BY <1>1, <3>4, <3>6, <3>7, Restyle, Zenon
    <3>9. e = chat'
      BY <2>2, <3>1
    <3>10. QED
      BY <3>4, <3>8, <3>9, Zenon
  <2>3. QED
    BY <1>2, <2>1, <2>2
<1>6. Fits(panels, chat, replayed, faults)'
  BY <1>2, <1>5, Zenon
<1>7. PanelsOK' /\ CardsOK'
  <2>1. Fits(panels', chat', replayed', faults')
    BY <1>6
  <2>2. QED
    BY <2>1, FitTypes, Zenon DEF PanelsOK, CardsOK
<1>8. PressOK'
  <2>1. press' \subseteq press
    BY <1>2
  <2>2. QED
    BY <1>1, <1>2, <1>5, <2>1, Zenon DEF PressOK
<1>9. PressFits'
  <2>1. ASSUME NEW x \in press'
        PROVE  x.turn = chat'[x.msg].of
    <3>1. x \in press
      BY <1>2
    <3>2. x.msg \in DOMAIN chat /\ x.turn = chat[x.msg].of
      BY <1>1, <3>1, Zenon DEF PressOK, PressFits
    <3>3. QED
      BY <1>5, <3>2, Zenon
  <2>2. QED
    BY <2>1, Zenon DEF PressFits
<1>10. ThreadOK' /\ BoundsOK'
  BY <1>1, <1>2, Zenon DEF ThreadOK, BoundsOK
<1>11. ActOK' /\ ActsFit'
  BY <1>1, <1>2, SameActs
<1>12. QED
  BY <1>6, <1>7, <1>8, <1>9, <1>10, <1>11, Zenon DEF IInv, TypeOK

-----------------------------------------------------------------------------
(***************************************************************************)
(* The theorems.                                                           *)
(***************************************************************************)

\* The panel's rows and cards fit when nothing has been sent.
LEMMA InitIInv ==
  Init => IInv
<1>1. SUFFICES ASSUME Init
               PROVE  IInv
  OBVIOUS
<1>2. /\ latest = NoView /\ snap = NoView /\ observing = TRUE /\ origin = {}
      /\ panels = <<>> /\ chat = <<>> /\ act = [a \in Actors |-> Idle] /\ press = {}
      /\ presses = 0 /\ faults = 0 /\ replayed = {}
  BY <1>1 DEF Init
<1>3. /\ panels \in Seq(RowSet) /\ chat \in Seq(CardSet)
      /\ DOMAIN panels = {} /\ DOMAIN chat = {} /\ Len(panels) = 0
  BY <1>2
<1>4. LiveFits(panels, chat) /\ CardsFit(panels, chat) /\ ToldFits(panels, chat, replayed)
  BY <1>3, Zenon DEF LiveFits, CardsFit, ToldFits
<1>5. CountFits(panels, chat, faults)
  <2>1. RepeatsIn(chat) = {}
    BY <1>3 DEF RepeatsIn
  <2>2. Cardinality(RepeatsIn(chat)) = 0
    BY <2>1, FS_EmptySet
  <2>3. ~OffIn(panels, chat)
    BY <1>3 DEF OffIn, FinalsIn
  <2>4. 0 + 0 <= faults
    BY <1>2
  <2>5. QED
    BY <2>2, <2>3, <2>4, Zenon DEF CountFits
<1>6. Fits(panels, chat, replayed, faults)
  BY <1>3, <1>4, <1>5, Zenon DEF Fits
<1>7. PanelsOK /\ CardsOK
  BY <1>6, FitTypes, Zenon DEF PanelsOK, CardsOK
<1>8. ThreadOK /\ PressOK /\ PressFits
  BY <1>2 DEF ThreadOK, PressOK, PressFits
<1>9. BoundsOK
  BY <1>2, BoundsAssumption DEF BoundsOK
<1>10. PICK a : a = Idle
  OBVIOUS
<1>11. a \in ActSet /\ a.pc \notin {"sync", "locked"} /\ a.pc # "mark" /\ act = [k \in Actors |-> a]
  BY <1>2, <1>10, ActValues
<1>12. ActOK
  BY <1>11, Zenon DEF ActOK, ActSet
<1>13. ActsFit
  <2>1. \A k \in Actors : act[k] = a
    BY <1>11
  <2>2. Bot \in Actors
    BY DEF Actors
  <2>3. QED
    BY <1>11, <2>1, <2>2, Zenon DEF ActsFit
<1>14. QED
  BY <1>6, <1>7, <1>8, <1>9, <1>12, <1>13, Zenon DEF IInv, TypeOK

\* No step breaks it.
LEMMA NextIInv ==
  ASSUME IInv, [Next]_vars
  PROVE  IInv'
<1>1. CASE Codex
  BY <1>1, CodexKeeps
<1>2. CASE \E p \in Loops : Observe(p)
  BY <1>2, ObserveKeeps
<1>3. CASE \E p \in Actors : LockPanel(p) \/ Sync(p)
  BY <1>3, LockStep, SyncStep
<1>4. CASE \/ sendInputToThread \/ markTelegramOriginTurn \/ showThread \/ stopThread
           \/ SetGlobalObserverTarget
  BY <1>4, BotKeeps
<1>5. CASE Details
  <2>1. CASE \E m \in DOMAIN chat : PressDetails(m)
    BY <2>1, PressKeeps
  <2>2. CASE \E d \in press : editPanelCard(d)
    BY <2>2, CardKeeps
  <2>3. QED
    BY <1>5, <2>1, <2>2 DEF Details
<1>6. CASE UNCHANGED vars
  <2>1. /\ latest' = latest /\ snap' = snap /\ observing' = observing /\ origin' = origin
        /\ panels' = panels /\ chat' = chat /\ act' = act /\ press' = press
        /\ presses' = presses /\ faults' = faults /\ replayed' = replayed
    BY <1>6 DEF vars
  <2>2. ActOK /\ ActsFit /\ ThreadOK /\ presses \in 0 .. MaxEvents
    BY Zenon DEF IInv, TypeOK, BoundsOK
  <2>3. ThreadOK' /\ presses' \in 0 .. MaxEvents
    BY <2>1, <2>2, Zenon DEF ThreadOK
  <2>4. ActOK' /\ ActsFit'
    BY <2>1, <2>2, SameActs
  <2>5. QED
    BY <2>1, <2>3, <2>4, Elsewhere
<1>7. QED
  BY <1>1, <1>2, <1>3, <1>4, <1>5, <1>6 DEF Next

\* The invariant holds whatever the goroutines, the calls and the user do (panels.go).
THEOREM Invariance == Spec => []IInv
<1>1. Init => IInv
  BY InitIInv
<1>2. IInv /\ [Next]_vars => IInv'
  BY NextIInv
<1>3. QED
  BY <1>1, <1>2, PTL DEF Spec

\* Rows and cards are well typed, and the message that a panel edits is in the chat, whichever
\* call failed and whenever the daemon died (createCurrentPanel and maybeRenderFinalCard).
THEOREM RowsHaveCards == Spec => []PanelInv
<1>1. IInv => PanelInv
  <2>1. SUFFICES ASSUME IInv
                 PROVE  PanelInv
    OBVIOUS
  <2>2. TypeOK /\ LiveFits(panels, chat)
    BY <2>1, Zenon DEF IInv, Fits
  <2>3. CardOnScreen
    BY <2>2, Zenon DEF LiveFits, CardOnScreen
  <2>4. QED
    BY <2>2, <2>3 DEF PanelInv
<1>2. QED
  BY <1>1, Invariance, PTL

\* A panel that records an answer has sent it, or has taken it for told; and of every answer that
\* a panel sends again before another one there is a failure of its own (maybeRenderFinalCard).
THEOREM AnswersSent == Spec => []FinalsSentOnce
<1>1. IInv => FinalsSentOnce
  <2>1. SUFFICES ASSUME IInv
                 PROVE  FinalsSentOnce
    OBVIOUS
  <2>2. /\ ToldFits(panels, chat, replayed) /\ CountFits(panels, chat, faults)
        /\ chat \in Seq(CardSet) /\ faults \in Nat
    BY <2>1, InvTables DEF Fits
  <2>3. \A r : FinalsIn(chat, r) = Finals(r)
    BY Zenon DEF FinalsIn, Finals
  <2>4. \A r \in DOMAIN panels :
          \/ panels[r].finalFP \in {0} \cup replayed
          \/ \E m \in Finals(r) : chat[m].of = panels[r].finalFP
    BY <2>2, <2>3, Zenon DEF ToldFits
  <2>5. \A m : RepeatIn(chat, m) <=> Repeated(m)
    BY <2>3, Zenon DEF RepeatIn, Repeated
  <2>6. RepeatsIn(chat) = {m \in DOMAIN chat : Repeated(m)}
    BY <2>5, Zenon DEF RepeatsIn
  <2>7. PICK k : k = Cardinality(RepeatsIn(chat))
    OBVIOUS
  <2>8. k <= faults
    <3>1. k \in Nat
      BY <2>2, <2>7, RepeatsFinite
    <3>2. k + (IF OffIn(panels, chat) THEN 1 ELSE 0) <= faults
      BY <2>2, <2>7, Zenon DEF CountFits
    <3>3. QED
      BY <2>2, <3>1, <3>2
  <2>9. QED
    BY <2>4, <2>6, <2>7, <2>8, Zenon DEF FinalsSentOnce
<1>2. QED
  BY <1>1, Invariance, PTL

\* Details shows the run of its card, though its press and its edit are apart and the panel may
\* move on between them (detailsPanelForCallback, snapshotForPanelTurn).
THEOREM DetailsStay == Spec => []DetailsShowItsRun
<1>1. IInv => DetailsShowItsRun
  <2>1. SUFFICES ASSUME IInv
                 PROVE  DetailsShowItsRun
    OBVIOUS
  <2>2. CardsFit(panels, chat)
    BY <2>1, Zenon DEF IInv, Fits
  <2>3. QED
    BY <2>2, Zenon DEF CardsFit, DetailsShowItsRun
<1>2. QED
  BY <1>1, Invariance, PTL

\* Only a sync changes the rows.
LEMMA RowsChange ==
  ASSUME Next, ~(\E p \in Actors : Sync(p))
  PROVE  panels' = panels
BY DEF Next, LockPanel, Codex, StartAtPC, Prompted, Completes, IsInterrupted, Becomes, Observe,
       sendInputToThread, markTelegramOriginTurn, showThread, stopThread,
       SetGlobalObserverTarget, Details, PressDetails, editPanelCard

\* Of a turn that is marked no sync sends the prompt again, but the one that held panelMu when
\* the turn was marked (sendsUserNotice, LockPanel, markTelegramOriginTurn).
THEOREM NoEcho == Spec => OwnTextNotEchoed
<1>1. ASSUME IInv, [Next]_vars
      PROVE  [\A r \in DOMAIN panels' :
                LET fp == panels'[r].userFP IN
                fp \in origin =>
                  (r \in DOMAIN panels /\ panels[r].userFP = fp) \/ LockedBeforeMark(fp)]_vars
  <2>1. CASE panels' = panels
    BY <2>1
  <2>2. CASE \E p \in Actors : Sync(p)
    <3>1. PICK p \in Actors : Sync(p)
      BY <2>2
    <3>2. PICK s, f, v, mode :
            /\ Good(s, f, v, mode) /\ panels' = s.rows
            /\ act[p].pc = "locked" /\ act[p].view = v /\ act[p].marked = f.marked
      BY <1>1, <3>1, SyncDoes
    <3>3. \A r \in DOMAIN s.rows : s.rows[r].userFP \in origin =>
            \/ r \in DOMAIN panels /\ panels[r].userFP = s.rows[r].userFP
            \/ s.rows[r].userFP = v.turn /\ ~f.marked
      BY <3>2, Zenon DEF Good, Since
    <3>4. ~f.marked => LockedBeforeMark(v.turn)
      BY <3>1, <3>2, Zenon DEF LockedBeforeMark
    <3>5. QED
      BY <3>2, <3>3, <3>4, Zenon
  <2>3. QED
    BY <1>1, <2>1, <2>2, RowsChange DEF vars
<1>2. QED
  BY <1>1, Invariance, PTL DEF Spec, OwnTextNotEchoed

\* The observer puts no panel of its own in the place of Telegram's, unless it held panelMu when
\* the turn was marked (protectTelegramOriginPanel, LockPanel, markTelegramOriginTurn).
THEOREM PanelKept == Spec => TelegramPanelKept
<1>1. ASSUME IInv, [Next]_vars
      PROVE  [\A r \in DOMAIN panels :
                (/\ r = Len(panels) /\ Len(panels') > r /\ panels[r].mode = "telegram"
                 /\ panels[r].turn \in origin /\ ~LockedBeforeMark(panels[r].turn))
                => LET new == panels'[Len(panels')]
                   IN  new.mode # "observer" \/ new.turn # panels[r].turn]_vars
  <2>1. panels \in Seq(RowSet)
    BY <1>1, InvTables
  <2>2. CASE panels' = panels
    <3>1. ~(Len(panels') > Len(panels))
      BY <2>1, <2>2
    <3>2. QED
      BY <3>1, Zenon
  <2>3. CASE \E p \in Actors : Sync(p)
    <3>1. PICK p \in Actors : Sync(p)
      BY <2>3
    <3>2. PICK s, f, v, mode :
            /\ Good(s, f, v, mode) /\ panels' = s.rows
            /\ act[p].pc = "locked" /\ act[p].view = v /\ act[p].marked = f.marked
      BY <1>1, <3>1, SyncDoes
    <3>3. ASSUME NEW r \in DOMAIN panels, r = Len(panels), Len(panels') > r,
                 panels[r].mode = "telegram", ~LockedBeforeMark(panels[r].turn),
                 panels'[Len(panels')].mode = "observer",
                 panels'[Len(panels')].turn = panels[r].turn
          PROVE  FALSE
      <4>1. /\ s.rows[Len(s.rows)].mode = mode /\ s.rows[Len(s.rows)].turn = v.turn
            /\ ~protectTelegramOriginPanel(f, v, mode)
        BY <3>2, <3>3, Zenon DEF Good, Since
      <4>2. mode = "observer" /\ v.turn = panels[r].turn
        BY <3>2, <3>3, <4>1, Zenon
      <4>3. panels # <<>>
        BY <2>1, <3>3
      <4>4. ~f.marked
        BY <3>3, <4>1, <4>2, <4>3, Zenon DEF protectTelegramOriginPanel, samePanelTurn
      <4>5. QED
        BY <3>1, <3>2, <3>3, <4>2, <4>4, Zenon DEF LockedBeforeMark
    <3>4. QED
      BY <3>3, Zenon
  <2>4. QED
    BY <1>1, <2>2, <2>3, RowsChange DEF vars
<1>2. QED
  BY <1>1, Invariance, PTL DEF Spec, TelegramPanelKept

=============================================================================
