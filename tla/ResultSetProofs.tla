-------------------------- MODULE ResultSetProofs --------------------------
(***************************************************************************)
(* For every number of rows, every fetch size and every way the server may *)
(* cut the answer up, a caller that stops on an error (database/sql) is    *)
(* given the rows of the answer in order, gets end of file only after the  *)
(* last one unless PREFETCH_ROWS is zero, and never meets the division by  *)
(* zero in Next.                                                           *)
(*                                                                         *)
(* None of the three is inductive: delivery depends on where index stands  *)
(* in the rows held, and that on how many rows the cursor has shipped.     *)
(* IInv adds the bookkeeping that links the four: rows holds the last      *)
(* Len(rows) rows shipped, and those before index are the last delivered.  *)
(***************************************************************************)
EXTENDS ResultSet, SequenceTheorems, TLAPS

(* q holds consecutive rows, the last of them row number n.                *)
Run(q, n) ==
    /\ q \in Seq(Nat)
    /\ Len(q) <= n
    /\ \A i \in 1 .. Len(q) : q[i] = n - Len(q) + i

(* resultSet.rows holds consecutive rows, up to the last one shipped.      *)
Held == shipped <= NRows /\ Run(rows, shipped)

(* Before the first Next nothing was delivered and every row shipped is    *)
(* held.                                                                   *)
Fresh ==
    phase \in {"start", "inline"} =>
        /\ index = 0 /\ delivered = <<>> /\ last = "none"
        /\ Len(rows) = shipped
        /\ phase = "start" => shipped = 0 /\ rows = <<>>
        /\ phase = "inline" => hasLob

(* _hasMoreRows is cleared only by a cursor that has nothing left.         *)
Exhausted == phase # "start" /\ ~hasMore => shipped = NRows

(* While the caller may call Next, index counts the rows held that were    *)
(* delivered.  That nothing is held although there is more happens before  *)
(* the first fetch of LOB or LONG columns, or if no rows are asked for.    *)
Position ==
    phase = "open" /\ last \in {"none", "row", "eof"} =>
        /\ index <= Len(rows)
        /\ Len(delivered) = shipped - Len(rows) + index
        /\ hasMore /\ Len(rows) = 0 => hasLob \/ size = 0

(* The inductive invariant behind RowsInOrder, EOFComplete and NoPanic.    *)
IInv == TypeOK /\ Held /\ Fresh /\ Exhausted /\ Position /\ RowsInOrder /\ EOFComplete

-----------------------------------------------------------------------------
(* The remainder as Next uses it: an index inside the rows held is its own *)
(* remainder, the index one past them has remainder zero.                  *)
LEMMA ModFacts ==
    ASSUME NEW n \in Nat, n > 0
    PROVE  /\ \A i \in 0 .. n - 1 : i % n = i
           /\ n % n = 0
OBVIOUS

(* A batch is a run that ends with the last row it ships.                  *)
LEMMA BatchRun ==
    ASSUME NEW k \in Nat, shipped \in Nat
    PROVE  Run(Batch(k), shipped + k) /\ Len(Batch(k)) = k
           /\ (k > 0 => Batch(k)[1] = shipped + 1)
<1>1. Batch(k) \in Seq(Nat) /\ Len(Batch(k)) = k
  BY DEF Batch
<1>2. \A i \in 1 .. k : Batch(k)[i] = shipped + i
  BY DEF Batch
<1> QED
  BY <1>1, <1>2 DEF Run

(* A run followed by the run that starts where it ends is a run: what      *)
(* stmt.read leaves in resultSet.rows.                                     *)
LEMMA ConcatRun ==
    ASSUME NEW n \in Nat, NEW q, Run(q, n), NEW k \in Nat,
           NEW b, Run(b, n + k), Len(b) = k
    PROVE  Run(q \o b, n + k) /\ Len(q \o b) = Len(q) + k
<1>1. q \in Seq(Nat) /\ b \in Seq(Nat)
  BY DEF Run
<1>2. q \o b \in Seq(Nat) /\ Len(q \o b) = Len(q) + k
  BY <1>1, ConcatProperties
<1>3. \A i \in 1 .. Len(q) + k : (q \o b)[i] = IF i <= Len(q) THEN q[i] ELSE b[i - Len(q)]
  BY <1>1, ConcatProperties
<1>4. ASSUME NEW i \in 1 .. Len(q) + k
      PROVE  (q \o b)[i] = (n + k) - (Len(q) + k) + i
  <2>1. CASE i <= Len(q)
    BY <1>1, <1>3, <2>1 DEF Run
  <2>2. CASE ~(i <= Len(q))
    <3>1. i - Len(q) \in 1 .. k
      BY <1>1, <2>2
    <3>2. b[i - Len(q)] = (n + k) - k + (i - Len(q))
      BY <3>1 DEF Run
    <3> QED
      BY <1>1, <1>3, <2>2, <3>2
  <2> QED
    BY <2>1, <2>2
<1> QED
  BY <1>1, <1>2, <1>4 DEF Run

(* Delivering the row after the last one delivered keeps the order.        *)
LEMMA AppendInOrder ==
    ASSUME NEW d \in Seq(Nat), \A i \in 1 .. Len(d) : d[i] = i
    PROVE  LET e == Append(d, Len(d) + 1)
           IN  /\ e \in Seq(Nat)
               /\ Len(e) = Len(d) + 1
               /\ \A i \in 1 .. Len(e) : e[i] = i
<1> DEFINE e == Append(d, Len(d) + 1)
<1>1. e \in Seq(Nat) /\ Len(e) = Len(d) + 1
  BY AppendProperties
<1>2. \A i \in 1 .. Len(d) : e[i] = d[i]
  BY AppendProperties
<1>3. e[Len(d) + 1] = Len(d) + 1
  BY AppendProperties
<1>4. ASSUME NEW i \in 1 .. Len(e) PROVE e[i] = i
  BY <1>1, <1>2, <1>3
<1> HIDE DEF e
<1>5. e \in Seq(Nat) /\ Len(e) = Len(d) + 1 /\ \A i \in 1 .. Len(e) : e[i] = i
  BY <1>1, <1>4
<1> QED
  BY <1>5 DEF e

(* What Next delivers when index i stands inside the rows held and every   *)
(* row before it was delivered: the next row of the answer.                *)
LEMMA NextRowHeld ==
    ASSUME NEW n \in Nat, NEW q, Run(q, n), NEW i \in Nat, i < Len(q)
    PROVE  /\ Len(q) > 0
           /\ i % Len(q) = i
           /\ q[(i % Len(q)) + 1] = n - Len(q) + i + 1
<1>1. Len(q) \in Nat /\ Len(q) > 0 /\ i \in 0 .. Len(q) - 1
  BY DEF Run
<1>2. i % Len(q) = i
  BY <1>1, ModFacts
<1>3. q[i + 1] = n - Len(q) + (i + 1)
  BY <1>1 DEF Run
<1> QED
  BY <1>1, <1>2, <1>3 DEF Run

(* Deliver under the same conditions.                                      *)
LEMMA DeliverHeld ==
    ASSUME delivered \in Seq(Nat), RowsInOrder,
           NEW n \in Nat, NEW q, Run(q, n), NEW i \in Nat, i < Len(q),
           Len(delivered) = n - Len(q) + i,
           Deliver(q, i)
    PROVE  /\ index' = i + 1 /\ last' = "row"
           /\ delivered' \in Seq(Nat) /\ Len(delivered') = Len(delivered) + 1
           /\ RowsInOrder'
<1>1. /\ Len(q) > 0 /\ i % Len(q) = i
      /\ q[(i % Len(q)) + 1] = n - Len(q) + i + 1
  BY NextRowHeld
<1>2. i % Len(q) < Len(q)
  BY <1>1
<1>3. delivered' = Append(delivered, q[(i % Len(q)) + 1]) /\ index' = i + 1 /\ last' = "row"
  BY <1>1, <1>2 DEF Deliver
<1>4. Len(q) \in Nat
  BY DEF Run
<1>5. q[(i % Len(q)) + 1] = Len(delivered) + 1
  BY <1>1, <1>4
<1>6. delivered' = Append(delivered, Len(delivered) + 1)
  BY <1>3, <1>5
<1>7. \A j \in 1 .. Len(delivered) : delivered[j] = j
  BY DEF RowsInOrder
<1>8. /\ delivered' \in Seq(Nat) /\ Len(delivered') = Len(delivered) + 1
      /\ \A j \in 1 .. Len(delivered') : delivered'[j] = j
  BY <1>6, <1>7, AppendInOrder
<1> QED
  BY <1>3, <1>8 DEF RowsInOrder

-----------------------------------------------------------------------------
(* The initial state satisfies the invariant.                              *)
LEMMA InitIInv == Init => IInv
<1> SUFFICES ASSUME Init PROVE IInv
  OBVIOUS
<1>1. /\ rows = <<>> /\ Len(rows) = 0 /\ delivered = <<>> /\ Len(delivered) = 0
      /\ rows \in Seq(Nat) /\ delivered \in Seq(Nat)
      /\ shipped = 0 /\ index = 0 /\ size = 0 /\ last = "none" /\ phase = "start"
  BY DEF Init
<1>2. hasLob \in BOOLEAN /\ hasMore \in BOOLEAN
  BY OptionsAssumption, Zenon DEF Init
<1>3. TypeOK
  BY <1>1, <1>2 DEF TypeOK
<1>4. Held
  BY <1>1, SizesAssumption DEF Held, Run
<1>5. Fresh /\ Exhausted /\ Position
  BY <1>1 DEF Fresh, Exhausted, Position
<1>6. RowsInOrder /\ EOFComplete
  BY <1>1 DEF RowsInOrder, EOFComplete
<1> QED
  BY <1>3, <1>4, <1>5, <1>6 DEF IInv

(* What a fetch of k rows leaves in rows, whether it appends or replaces.  *)
LEMMA ReceiveRun ==
    ASSUME TypeOK, Held, NEW k \in Nat, shipped + k <= NRows,
           NEW more \in BOOLEAN, NEW base, base \in {rows, <<>>}, Receive(base, k, more)
    PROVE  /\ Held' /\ shipped' \in Nat /\ rows' \in Seq(Nat)
           /\ shipped' = shipped + k
           /\ Len(rows') = Len(base) + k
           /\ hasMore' = (hasMore /\ more)
<1>1. shipped \in Nat
  BY DEF TypeOK
<1>2. Run(Batch(k), shipped + k) /\ Len(Batch(k)) = k
  BY <1>1, BatchRun
<1>3. Run(base, shipped) /\ Len(base) \in Nat
  <2>1. CASE base = rows
    BY <2>1 DEF Held, Run
  <2>2. CASE base = <<>>
    BY <1>1, <2>2 DEF Run
  <2> QED
    BY <2>1, <2>2
<1>4. Run(base \o Batch(k), shipped + k) /\ Len(base \o Batch(k)) = Len(base) + k
  BY <1>1, <1>2, <1>3, ConcatRun
<1>5. rows' = base \o Batch(k) /\ shipped' = shipped + k /\ hasMore' = (hasMore /\ more)
  BY DEF Receive
<1>6. Run(rows', shipped') /\ Len(rows') = Len(base) + k
  BY <1>4, <1>5
<1> QED
  BY <1>1, <1>5, <1>6 DEF Held, Run

(* The execute round trip.                                                 *)
LEMMA QueryStep == IInv /\ Query => IInv'
<1> SUFFICES ASSUME IInv, Query PROVE IInv'
  OBVIOUS
<1>1. /\ TypeOK /\ phase = "start" /\ index = 0 /\ delivered = <<>> /\ last = "none"
      /\ shipped = 0 /\ rows = <<>> /\ RowsInOrder /\ Held
  BY DEF IInv, Fresh, Query
<1>2. /\ size' \in Nat /\ hasLob' = hasLob /\ index' = 0 /\ delivered' = <<>> /\ last' = "none"
      /\ phase' \in {"inline", "open"} /\ (phase' = "inline" => hasLob)
  BY <1>1, SizesAssumption DEF Query
<1>3. /\ Run(rows', shipped') /\ shipped' <= NRows /\ shipped' \in Nat /\ Len(rows') = shipped'
      /\ hasMore' \in BOOLEAN
      /\ (~hasMore' => shipped' = NRows)
      /\ (hasMore' /\ Len(rows') = 0 => hasLob \/ size' = 0)
  <2>1. ASSUME NEW k \in 0 .. size', NEW more \in BOOLEAN, Ships(size', k, more),
               rows' = Batch(k), shipped' = shipped + k, hasMore' = more
        PROVE  <1>3
    <3>1. k \in Nat /\ shipped \in Nat
      BY <1>1, <1>2
    <3>2. Run(rows', shipped') /\ Len(rows') = k
      BY <2>1, <3>1, BatchRun
    <3> QED
      BY <1>1, <1>2, <2>1, <3>1, <3>2 DEF Ships
  <2>2. ASSUME hasLob, rows' = <<>>, hasMore' = TRUE, shipped' = shipped
        PROVE  <1>3
    BY <1>1, <2>2, SizesAssumption DEF Run
  <2> QED
    BY <2>1, <2>2 DEF Query
<1>4. rows' \in Seq(Nat) /\ Len(rows') \in Nat
  BY <1>3 DEF Run
<1>5. TypeOK'
  BY <1>1, <1>2, <1>3, <1>4, SizesAssumption DEF TypeOK
<1>6. Held' /\ Fresh'
  BY <1>2, <1>3 DEF Held, Fresh
<1>7. Exhausted'
  BY <1>2, <1>3 DEF Exhausted
<1>8. Position'
  <2>0. shipped' = Len(rows') /\ shipped' \in Nat /\ index' = 0 /\ Len(delivered') = 0
    BY <1>2, <1>3
  <2>1. index' <= Len(rows') /\ Len(delivered') = shipped' - Len(rows') + index'
    BY <2>0
  <2>2. hasMore' /\ Len(rows') = 0 => hasLob' \/ size' = 0
    BY <1>2, <1>3
  <2> QED
    BY <2>1, <2>2 DEF Position
<1>9. RowsInOrder' /\ EOFComplete'
  BY <1>2 DEF RowsInOrder, EOFComplete
<1> QED
  BY <1>5, <1>6, <1>7, <1>8, <1>9 DEF IInv

(* The second round trip of an inline query.                               *)
LEMMA QueryLobPrefetchStep == IInv /\ QueryLobPrefetch => IInv'
<1> SUFFICES ASSUME IInv, QueryLobPrefetch PROVE IInv'
  OBVIOUS
<1>1. /\ TypeOK /\ phase = "inline" /\ index = 0 /\ delivered = <<>> /\ last = "none" /\ hasLob
      /\ Held /\ Len(rows) = shipped /\ (~hasMore => shipped = NRows)
  BY DEF IInv, Fresh, Exhausted, QueryLobPrefetch
<1>2. /\ size' = FetchSize /\ hasLob' = hasLob /\ index' = 0 /\ delivered' = <<>> /\ last' = "none"
      /\ phase' = "open"
  BY <1>1 DEF QueryLobPrefetch
<1>3. size' \in Nat
  BY <1>1, <1>2, SizesAssumption DEF FetchSize, TypeOK
<1>4. PICK k \in 0 .. size', more \in BOOLEAN : Ships(size', k, more) /\ Receive(rows, k, more)
  BY DEF QueryLobPrefetch
<1>5. k \in Nat /\ shipped + k <= NRows /\ (~more => shipped + k = NRows)
  BY <1>3, <1>4 DEF Ships
<1>6. /\ Held' /\ shipped' \in Nat /\ rows' \in Seq(Nat)
      /\ shipped' = shipped + k
      /\ Len(rows') = Len(rows) + k
      /\ hasMore' = (hasMore /\ more)
  BY <1>1, <1>4, <1>5, ReceiveRun
<1>7. ~hasMore' => shipped' = NRows
  BY <1>1, <1>5, <1>6, SizesAssumption DEF TypeOK
<1>8. hasMore' \in BOOLEAN
  BY <1>6, Zenon
<1>9. TypeOK'
  BY <1>1, <1>2, <1>3, <1>6, <1>8 DEF TypeOK
<1>10. Len(rows') = shipped'
  BY <1>1, <1>6
<1>11. Fresh' /\ Exhausted'
  BY <1>2, <1>7 DEF Fresh, Exhausted
<1>12. Position'
  <2>1. index' <= Len(rows') /\ Len(delivered') = shipped' - Len(rows') + index'
    BY <1>2, <1>6, <1>10
  <2> QED
    BY <1>1, <1>2, <2>1 DEF Position
<1>13. RowsInOrder' /\ EOFComplete'
  BY <1>2 DEF RowsInOrder, EOFComplete
<1> QED
  BY <1>6, <1>9, <1>11, <1>12, <1>13 DEF IInv

(* A Next that fetches, succeeds and has a row to deliver: base is what    *)
(* was in rows when fetch was called, i the index it then delivers from.   *)
LEMMA FetchStep ==
    ASSUME StopsOnError, IInv, NextEnabled, hasMore,
           NEW base, base \in {rows, <<>>}, NEW i \in Nat,
           Len(delivered) = shipped - Len(base) + i, i <= Len(base),
           NEW k \in Nat, NEW more \in BOOLEAN, Ships(size', k, more),
           Receive(base, k, more),
           IF ~hasMore' /\ Len(rows') = 0
           THEN ReturnEOF /\ index' = i
           ELSE Deliver(rows', i),
           i < Len(base) + k \/ Len(base) + k = 0,
           size' = FetchSize, phase' = phase, hasLob' = hasLob
    PROVE  IInv'
<1>1. /\ TypeOK /\ Held /\ RowsInOrder /\ phase = "open" /\ delivered \in Seq(Nat)
      /\ shipped \in Nat /\ NRows \in Nat
  BY SizesAssumption DEF IInv, NextEnabled, TypeOK
<1>2. /\ shipped + k <= NRows /\ (~more => shipped + k = NRows)
      /\ (k = 0 /\ size' > 0 => ~more)
  BY DEF Ships
<1>3. /\ Held' /\ shipped' \in Nat /\ rows' \in Seq(Nat)
      /\ shipped' = shipped + k
      /\ Len(rows') = Len(base) + k
      /\ hasMore' = more
  BY <1>1, <1>2, ReceiveRun
<1>4. size' \in Nat /\ hasMore' \in BOOLEAN
  BY <1>1, <1>3, SizesAssumption DEF FetchSize, TypeOK
<1>5. Len(base) \in Nat
  BY <1>1 DEF TypeOK
<1>6. Exhausted' /\ Fresh'
  BY <1>1, <1>2, <1>3 DEF Exhausted, Fresh
<1>7. CASE ~hasMore' /\ Len(rows') = 0
  <2>1. last' = "eof" /\ delivered' = delivered /\ index' = i
    BY <1>7 DEF ReturnEOF
  <2>2. Len(delivered) = NRows /\ i = 0 /\ shipped' = NRows
    <3>1. 0 = Len(base) + k /\ ~more
      BY <1>3, <1>7
    <3>2. 0 = Len(base) /\ 0 = k
      BY <3>1, <1>5
    <3>3. i = 0 /\ shipped = NRows
      BY <1>1, <1>2, <1>5, <3>1, <3>2
    <3> QED
      BY <1>1, <1>3, <3>2, <3>3
  <2>3. TypeOK'
    BY <1>1, <1>3, <1>4, <2>1 DEF TypeOK
  <2>4. RowsInOrder' /\ EOFComplete'
    BY <1>1, <2>1, <2>2 DEF RowsInOrder, EOFComplete
  <2>5. Position'
    <3> DEFINE l == Len(rows')
               d2 == Len(delivered')
    <3>1. l = 0 /\ ~hasMore' /\ d2 = NRows /\ shipped' = NRows /\ index' = 0 /\ NRows \in Nat
      BY <1>1, <1>7, <2>1, <2>2
    <3> HIDE DEF l, d2
    <3>2. index' <= l /\ d2 = shipped' - l + index' /\ ~hasMore'
      BY <3>1
    <3> QED
      BY <3>2 DEF Position, l, d2
  <2> QED
    BY <1>3, <1>6, <2>3, <2>4, <2>5 DEF IInv
<1>8. CASE hasMore' /\ Len(rows') = 0
  <2>1. Len(base) = 0 /\ k = 0 /\ i = 0 /\ size' = 0
    BY <1>2, <1>3, <1>4, <1>5, <1>8
  <2>2. last' = "eof" /\ delivered' = delivered /\ index' = 0
    BY <1>8, <2>1 DEF Deliver
  <2>3. TypeOK'
    BY <1>1, <1>3, <1>4, <2>2 DEF TypeOK
  <2>4. RowsInOrder' /\ EOFComplete'
    BY <1>1, <2>1, <2>2 DEF RowsInOrder, EOFComplete
  <2>5. index' <= Len(rows') /\ Len(delivered') = shipped' - Len(rows') + index'
    BY <1>1, <1>3, <1>8, <2>1, <2>2
  <2>6. Position'
    BY <2>1, <2>5 DEF Position
  <2> QED
    BY <1>3, <1>6, <2>3, <2>4, <2>6 DEF IInv
<1>9. CASE Len(rows') # 0
  <2>1. i < Len(rows')
    BY <1>3, <1>5, <1>9
  <2>2. Run(rows', shipped')
    BY <1>3 DEF Held
  <2>3. Len(delivered) = shipped' - Len(rows') + i
    BY <1>1, <1>3, <1>5
  <2>4. Deliver(rows', i)
    BY <1>9
  <2>5. /\ index' = i + 1 /\ last' = "row"
        /\ delivered' \in Seq(Nat) /\ Len(delivered') = Len(delivered) + 1
        /\ RowsInOrder'
    BY <1>1, <1>3, <2>1, <2>2, <2>3, <2>4, DeliverHeld
  <2>6. TypeOK'
    BY <1>1, <1>3, <1>4, <2>5 DEF TypeOK
  <2>7. index' <= Len(rows') /\ Len(delivered') = shipped' - Len(rows') + index' /\ Len(rows') # 0
    <3> DEFINE d == Len(delivered)
               d2 == Len(delivered')
               l == Len(rows')
    <3>1. d \in Nat /\ l \in Nat /\ d = shipped' - l + i /\ i < l /\ d2 = d + 1
          /\ shipped' \in Nat /\ index' = i + 1
      BY <1>1, <1>3, <2>1, <2>3, <2>5
    <3> HIDE DEF d, d2, l
    <3>2. index' <= l /\ d2 = shipped' - l + index' /\ l # 0
      BY <3>1
    <3> QED
      BY <3>2 DEF d, d2, l
  <2>8. Position' /\ EOFComplete'
    BY <2>5, <2>7 DEF Position, EOFComplete
  <2> QED
    BY <1>3, <1>6, <2>5, <2>6, <2>8 DEF IInv
<1> QED
  BY <1>4, <1>7, <1>8, <1>9

(* The caller asks for a row, and has not met an error.                    *)
LEMMA Asking ==
    ASSUME StopsOnError, IInv, NextEnabled
    PROVE  /\ TypeOK /\ Held /\ RowsInOrder /\ phase = "open"
           /\ last \in {"none", "row", "eof"} /\ Position
           /\ (~hasMore => shipped = NRows)
           /\ index <= Len(rows) /\ Len(delivered) = shipped - Len(rows) + index
           /\ (hasMore /\ Len(rows) = 0 => hasLob \/ size = 0)
           /\ Len(rows) \in Nat /\ shipped \in Nat /\ index \in Nat
<1>1. TypeOK /\ Held /\ RowsInOrder /\ Position /\ Exhausted
  BY DEF IInv
<1>2. phase = "open" /\ last \in {"none", "row", "eof"}
  BY <1>1 DEF NextEnabled, TypeOK
<1> QED
  BY <1>1, <1>2 DEF Exhausted, Position, TypeOK

(* AtEndOfRows holds exactly when every row held was delivered.            *)
LEMMA AtEnd ==
    ASSUME StopsOnError, IInv, NextEnabled
    PROVE  AtEndOfRows <=> index = Len(rows) /\ index > 0
<1>1. index <= Len(rows) /\ Len(rows) \in Nat /\ index \in Nat
  BY Asking
<1>2. CASE Len(rows) = 0
  BY <1>1, <1>2 DEF AtEndOfRows
<1>3. CASE Len(rows) > 0 /\ index = Len(rows)
  BY <1>1, <1>3, ModFacts DEF AtEndOfRows
<1>4. CASE Len(rows) > 0 /\ index # Len(rows)
  <2>1. index \in 0 .. Len(rows) - 1
    BY <1>1, <1>4
  <2>2. index % Len(rows) = index
    BY <1>1, <1>4, <2>1, ModFacts
  <2> QED
    BY <1>1, <1>4, <2>2 DEF AtEndOfRows
<1> QED
  BY <1>1, <1>2, <1>3, <1>4

(* The first Next of a query with LOB or LONG columns.                     *)
LEMMA NextLobFetchStep == StopsOnError /\ IInv /\ NextLobFetch => IInv'
<1> SUFFICES ASSUME StopsOnError, IInv, NextLobFetch PROVE IInv'
  OBVIOUS
<1>1. NextEnabled /\ hasMore /\ index = 0 /\ size' = FetchSize /\ phase' = phase /\ hasLob' = hasLob
  BY DEF NextLobFetch, AtFirstLobRow
<1>2. /\ index <= Len(rows) /\ Len(delivered) = shipped - Len(rows) + index
      /\ Len(rows) \in Nat /\ index \in Nat /\ TypeOK
  BY <1>1, Asking
<1>3. size' \in Nat
  BY <1>1, <1>2, SizesAssumption DEF FetchSize, TypeOK
<1>4. PICK k \in 0 .. size', more \in BOOLEAN : Ships(size', k, more) /\ Receive(rows, k, more)
  BY DEF NextLobFetch
<1>5. k \in Nat /\ (index < Len(rows) + k \/ Len(rows) + k = 0)
  BY <1>1, <1>2, <1>3
<1>6. IF ~hasMore' /\ Len(rows') = 0 THEN ReturnEOF /\ index' = index ELSE Deliver(rows', index)
  BY DEF NextLobFetch
<1> QED
  BY <1>1, <1>2, <1>3, <1>4, <1>5, <1>6, FetchStep

(* A Next that has delivered every row held and fetches the next ones.     *)
LEMMA NextFetchStep == StopsOnError /\ IInv /\ NextFetch => IInv'
<1> SUFFICES ASSUME StopsOnError, IInv, NextFetch PROVE IInv'
  OBVIOUS
<1>1. NextEnabled /\ hasMore /\ AtEndOfRows /\ size' = FetchSize /\ phase' = phase /\ hasLob' = hasLob
  BY DEF NextFetch
<1>2. /\ Len(delivered) = shipped - Len(rows) + index
      /\ Len(rows) \in Nat /\ shipped \in Nat /\ TypeOK
  BY <1>1, Asking
<1>3. size' \in Nat
  BY <1>1, <1>2, SizesAssumption DEF FetchSize, TypeOK
<1>4. PICK k \in 0 .. size', more \in BOOLEAN : Ships(size', k, more) /\ Receive(<<>>, k, more)
  BY DEF NextFetch
<1>5. index = Len(rows)
  BY <1>1, AtEnd
<1>6. Len(delivered) = shipped - Len(<<>>) + 0 /\ 0 <= Len(<<>>)
  BY <1>2, <1>5
<1>7. k \in Nat /\ (0 < Len(<<>>) + k \/ Len(<<>>) + k = 0)
  BY <1>3
<1>8. IF ~hasMore' /\ Len(rows') = 0 THEN ReturnEOF /\ index' = 0 ELSE Deliver(rows', 0)
  BY DEF NextFetch
<1> DEFINE base == <<>>
<1>9. base \in {rows, <<>>} /\ Len(delivered) = shipped - Len(base) + 0 /\ 0 <= Len(base)
      /\ Receive(base, k, more) /\ (0 < Len(base) + k \/ Len(base) + k = 0)
  BY <1>4, <1>6, <1>7
<1> HIDE DEF base
<1> QED
  BY <1>1, <1>3, <1>4, <1>7, <1>8, <1>9, FetchStep

(* A fetch that fails: the caller that stops on errors asks no more.       *)
LEMMA NextFetchFailsStep == StopsOnError /\ IInv /\ NextFetchFails => IInv'
<1> SUFFICES ASSUME StopsOnError, IInv, NextFetchFails PROVE IInv'
  OBVIOUS
<1>1. /\ NextEnabled /\ hasMore /\ size' = FetchSize /\ phase' = phase /\ hasLob' = hasLob
      /\ index' = index /\ delivered' = delivered /\ last' = "error"
  BY DEF NextFetchFails, AtFirstLobRow
<1>2. TypeOK /\ Held /\ RowsInOrder /\ phase = "open"
  BY <1>1, Asking
<1>3. size' \in Nat
  BY <1>1, <1>2, SizesAssumption DEF FetchSize, TypeOK
<1>4. PICK k \in 0 .. size' :
        /\ shipped + k <= NRows
        /\ Receive(IF AtFirstLobRow THEN rows ELSE <<>>, k, TRUE)
  BY DEF NextFetchFails
<1>5. k \in Nat
  BY <1>3
<1>6. PICK base \in {rows, <<>>} : Receive(base, k, TRUE)
  BY <1>4
<1>7. Held' /\ shipped' \in Nat /\ rows' \in Seq(Nat) /\ hasMore' = (hasMore /\ TRUE)
  BY <1>2, <1>4, <1>5, <1>6, ReceiveRun
<1>8. hasMore' = TRUE
  BY <1>1, <1>2, <1>7 DEF TypeOK
<1>9. TypeOK'
  BY <1>1, <1>2, <1>3, <1>7, <1>8 DEF TypeOK
<1>10. Fresh' /\ Exhausted' /\ Position' /\ RowsInOrder' /\ EOFComplete'
  BY <1>1, <1>2, <1>8 DEF Fresh, Exhausted, Position, RowsInOrder, EOFComplete
<1> QED
  BY <1>7, <1>9, <1>10 DEF IInv

(* End of file: the cursor is exhausted and every row held was delivered.  *)
LEMMA EndStep ==
    ASSUME StopsOnError, IInv, NextEnabled, ~hasMore, index = Len(rows), ReturnEOF,
           UNCHANGED <<phase, hasLob, hasMore, size, rows, index, shipped>>
    PROVE  IInv'
<1>1. /\ TypeOK /\ Held /\ RowsInOrder /\ phase = "open" /\ shipped = NRows
      /\ Len(delivered) = shipped - Len(rows) + index
      /\ Len(rows) \in Nat /\ shipped \in Nat
  BY Asking
<1>2. Len(delivered) = NRows
  BY <1>1
<1>3. last' = "eof" /\ delivered' = delivered
  BY DEF ReturnEOF
<1>4. TypeOK'
  BY <1>1, <1>3 DEF TypeOK
<1>5. Held'
  BY <1>1 DEF Held, Run
<1>6. Fresh' /\ Exhausted' /\ Position' /\ RowsInOrder' /\ EOFComplete'
  BY <1>1, <1>2, <1>3 DEF Fresh, Exhausted, Position, RowsInOrder, EOFComplete
<1> QED
  BY <1>4, <1>5, <1>6 DEF IInv

(* Next with nothing held.                                                 *)
LEMMA NextExhaustedStep == StopsOnError /\ IInv /\ NextExhausted => IInv'
<1> SUFFICES ASSUME StopsOnError, IInv, NextExhausted PROVE IInv'
  OBVIOUS
<1>1. NextEnabled /\ ~hasMore /\ Len(rows) = 0 /\ ReturnEOF
      /\ UNCHANGED <<phase, hasLob, hasMore, size, rows, index, shipped>>
  BY DEF NextExhausted
<1>2. index <= Len(rows) /\ index \in Nat
  BY <1>1, Asking
<1>3. index = Len(rows)
  BY <1>1, <1>2
<1> QED
  BY <1>1, <1>3, EndStep

(* Next after the last row of an exhausted cursor.                         *)
LEMMA NextEndStep == StopsOnError /\ IInv /\ NextEnd => IInv'
<1> SUFFICES ASSUME StopsOnError, IInv, NextEnd PROVE IInv'
  OBVIOUS
<1>1. NextEnabled /\ AtEndOfRows /\ ~hasMore /\ ReturnEOF
      /\ UNCHANGED <<phase, hasLob, hasMore, size, rows, index, shipped>>
  BY DEF NextEnd
<1>2. index = Len(rows)
  BY <1>1, AtEnd
<1> QED
  BY <1>1, <1>2, EndStep

(* Next with nothing held and _hasMoreRows set: end of file, which happens *)
(* only if no rows are asked for.                                          *)
LEMMA NextNoRowsStep == StopsOnError /\ IInv /\ NextRow /\ Len(rows) = 0 => IInv'
<1> SUFFICES ASSUME StopsOnError, IInv, NextRow, Len(rows) = 0 PROVE IInv'
  OBVIOUS
<1>1. /\ NextEnabled /\ hasMore /\ ~AtFirstLobRow /\ index = 0 /\ Deliver(rows, index)
      /\ UNCHANGED <<phase, hasLob, hasMore, size, rows, shipped>>
  BY DEF NextRow
<1>2. /\ TypeOK /\ Held /\ RowsInOrder /\ Position /\ phase = "open"
      /\ Len(delivered) = shipped - Len(rows) + index
      /\ (hasMore /\ Len(rows) = 0 => hasLob \/ size = 0)
  BY <1>1, Asking
<1>3. size = 0
  BY <1>1, <1>2 DEF AtFirstLobRow
<1>4. last' = "eof" /\ delivered' = delivered /\ index' = index
  BY <1>1 DEF Deliver
<1>5. TypeOK'
  BY <1>1, <1>2, <1>4 DEF TypeOK
<1>6. Held' /\ Fresh' /\ Exhausted'
  BY <1>1, <1>2 DEF Held, Run, Fresh, Exhausted
<1>7. RowsInOrder' /\ EOFComplete'
  BY <1>1, <1>2, <1>3, <1>4 DEF RowsInOrder, EOFComplete
<1>8. Position'
  BY <1>1, <1>2, <1>3, <1>4 DEF Position
<1> QED
  BY <1>5, <1>6, <1>7, <1>8 DEF IInv

(* Next that delivers a row it holds.                                      *)
LEMMA NextRowStep == StopsOnError /\ IInv /\ NextRow => IInv'
<1> SUFFICES ASSUME StopsOnError, IInv, NextRow, Len(rows) # 0 PROVE IInv'
  BY NextNoRowsStep
<1>1. /\ NextEnabled /\ (hasMore \/ Len(rows) > 0) /\ ~AtFirstLobRow /\ ~AtEndOfRows
      /\ (index = 0 \/ Len(rows) > 0) /\ Deliver(rows, index)
      /\ UNCHANGED <<phase, hasLob, hasMore, size, rows, shipped>>
  BY DEF NextRow
<1>2. /\ TypeOK /\ Held /\ RowsInOrder /\ phase = "open"
      /\ (~hasMore => shipped = NRows)
      /\ index <= Len(rows) /\ Len(delivered) = shipped - Len(rows) + index
      /\ Len(rows) \in Nat /\ shipped \in Nat /\ index \in Nat
  BY <1>1, Asking
<1>3. index < Len(rows)
  <2>1. ~(index = Len(rows) /\ index > 0)
    BY <1>1, AtEnd
  <2> QED
    BY <1>2, <2>1
<1>4. Run(rows, shipped) /\ delivered \in Seq(Nat)
  BY <1>2 DEF Held, TypeOK
<1>5. /\ index' = index + 1 /\ last' = "row"
      /\ delivered' \in Seq(Nat) /\ Len(delivered') = Len(delivered) + 1
      /\ RowsInOrder'
  BY <1>1, <1>2, <1>3, <1>4, DeliverHeld
<1>6. TypeOK'
  BY <1>1, <1>2, <1>5 DEF TypeOK
<1>7. Held' /\ Fresh' /\ Exhausted'
  BY <1>1, <1>2 DEF Held, Run, Fresh, Exhausted
<1>8. Position' /\ EOFComplete'
  <2> DEFINE d == Len(delivered)
             d2 == Len(delivered')
             l == Len(rows)
  <2>1. d \in Nat /\ l \in Nat /\ d = shipped - l + index /\ index < l /\ d2 = d + 1
        /\ shipped \in Nat /\ index \in Nat /\ index' = index + 1
    BY <1>2, <1>3, <1>4, <1>5
  <2> HIDE DEF d, d2, l
  <2>2. index' <= l /\ d2 = shipped - l + index' /\ l # 0
    BY <2>1
  <2>3. /\ index' <= Len(rows') /\ Len(delivered') = shipped' - Len(rows') + index'
        /\ Len(rows') # 0
    BY <1>1, <2>2 DEF d, d2, l
  <2> QED
    BY <1>5, <2>3 DEF Position, EOFComplete
<1> QED
  BY <1>5, <1>6, <1>7, <1>8 DEF IInv

(* Closing the rows, and a step that changes nothing.                      *)
LEMMA CloseStep == IInv /\ (Close \/ UNCHANGED vars) => IInv'
<1>1. ASSUME IInv, Close PROVE IInv'
  BY <1>1 DEF IInv, Close, TypeOK, Held, Run, Fresh, Exhausted, Position, RowsInOrder, EOFComplete
<1>2. ASSUME IInv, UNCHANGED vars PROVE IInv'
  BY <1>2 DEF IInv, vars, TypeOK, Held, Run, Fresh, Exhausted, Position, RowsInOrder, EOFComplete
<1> QED
  BY <1>1, <1>2

(* Every step of a caller that stops on errors preserves the invariant.    *)
LEMMA StepIInv == StopsOnError /\ IInv /\ [Next]_vars => IInv'
<1> SUFFICES ASSUME StopsOnError, IInv, [Next]_vars PROVE IInv'
  OBVIOUS
<1>1. CASE Query
  BY <1>1, QueryStep
<1>2. CASE QueryLobPrefetch
  BY <1>2, QueryLobPrefetchStep
<1>3. CASE NextExhausted
  BY <1>3, NextExhaustedStep
<1>4. CASE NextLobFetch
  BY <1>4, NextLobFetchStep
<1>5. CASE NextFetch
  BY <1>5, NextFetchStep
<1>6. CASE NextFetchFails
  BY <1>6, NextFetchFailsStep
<1>7. CASE NextEnd
  BY <1>7, NextEndStep
<1>8. CASE NextRow
  BY <1>8, NextRowStep
<1>9. CASE Close \/ UNCHANGED vars
  BY <1>9, CloseStep
<1> QED
  BY <1>1, <1>2, <1>3, <1>4, <1>5, <1>6, <1>7, <1>8, <1>9 DEF Next, NextCall, Closed

(* The invariant excludes the division by zero of Next.                    *)
LEMMA IInvNoPanic == StopsOnError /\ IInv => NoPanic
<1> SUFFICES ASSUME StopsOnError, IInv, NextEnabled, index > 0, Len(rows) = 0 PROVE FALSE
  BY DEF NoPanic
<1>1. index <= Len(rows) /\ index \in Nat
  BY Asking
<1> QED
  BY <1>1

(* The invariant holds throughout.                                         *)
THEOREM RowsInvariant ==
    ASSUME StopsOnError
    PROVE  Spec => []IInv
<1>1. Init => IInv
  BY InitIInv
<1>2. IInv /\ [Next]_vars => IInv'
  BY StepIInv
<1> QED
  BY <1>1, <1>2, PTL DEF Spec

(* Every variable stays in its type.                                       *)
THEOREM RowsTyped ==
    ASSUME StopsOnError
    PROVE  Spec => []TypeOK
<1>1. IInv => TypeOK
  BY DEF IInv
<1> QED
  BY <1>1, RowsInvariant, PTL

(* The rows reach a caller that stops on errors in order, none twice and   *)
(* none left out, for every size of answer and of fetch.                   *)
THEOREM RowsDelivered ==
    ASSUME StopsOnError
    PROVE  Spec => []RowsInOrder
<1>1. IInv => RowsInOrder
  BY DEF IInv
<1> QED
  BY <1>1, RowsInvariant, PTL

(* End of file means that every row was delivered, for every prefetch but  *)
(* zero.                                                                   *)
THEOREM EOFMeansAll ==
    ASSUME StopsOnError
    PROVE  Spec => []EOFComplete
<1>1. IInv => EOFComplete
  BY DEF IInv
<1> QED
  BY <1>1, RowsInvariant, PTL

(* The division index % len(rows) in Next is never a division by zero.     *)
THEOREM NextNeverPanics ==
    ASSUME StopsOnError
    PROVE  Spec => []NoPanic
<1>1. IInv => NoPanic
  BY IInvNoPanic
<1> QED
  BY <1>1, RowsInvariant, PTL
=============================================================================
