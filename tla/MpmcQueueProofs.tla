--------------------------- MODULE MpmcQueueProofs ---------------------------
(***************************************************************************)
(* The ring of detail::mpmc_queue for any number of callers, any size, and *)
(* positions that wrap around: the cells' numbers always say whose turn it *)
(* is, so a cell is never used by two callers and what is taken out of it  *)
(* has been put in.                                                        *)
(***************************************************************************)
EXTENDS MpmcQueue, TLAPS, SequenceTheorems

\* How far position a is past position b.
Off(a, b) == IF a >= b THEN a - b ELSE a - b + PosMod

----------------------------------------------------------------------------
(* Arithmetic of positions and cells.                                      *)

\* What the assumption on the sizes means in arithmetic.
LEMMA Sizes ==
  /\ Size \in Nat /\ PosMod \in Nat /\ MaxLag \in Nat
  /\ Size >= 2 /\ 2 * (Size + MaxLag) <= PosMod
BY QueueAssumption

\* A position has a cell.
LEMMA CellIsCell ==
  ASSUME NEW a \in Pos
  PROVE  CellOf(a) \in Cell
BY Sizes DEF Pos, Cell, CellOf

\* The position after the last is the first.
LEMMA NextIs ==
  ASSUME NEW a \in Pos
  PROVE  /\ Plus(a, 1) \in Pos
         /\ Plus(a, 1) = IF a + 1 = PosMod THEN 0 ELSE a + 1
BY Sizes DEF Pos, Plus

\* The position one lap on, and where it wraps.
LEMMA LapIs ==
  ASSUME NEW a \in Pos
  PROVE  /\ Plus(a, Size) \in Pos
         /\ Plus(a, Size) = IF a + Size < PosMod THEN a + Size ELSE a + Size - PosMod
BY Sizes DEF Pos, Plus

\* The distance of two positions, and what a step of either does to it.
LEMMA OffNext ==
  ASSUME NEW a \in Pos, NEW b \in Pos
  PROVE  /\ Off(a, b) \in Nat /\ Off(a, b) < PosMod
         /\ Off(Plus(b, 1), b) = 1
         /\ Off(a, b) + 1 < PosMod => Off(Plus(a, 1), b) = Off(a, b) + 1
         /\ a # b => Off(a, Plus(b, 1)) = Off(a, b) - 1 /\ Off(a, b) >= 1
         /\ a = b => Off(a, b) = 0
BY NextIs, Sizes DEF Off, Pos

\* For positions close together Dif is their distance.
LEMMA DifIs ==
  ASSUME NEW a \in Pos, NEW b \in Pos
  PROVE  /\ Dif(a, b) = 0 => a = b
         /\ Off(a, b) <= MaxLag => Dif(a, b) = Off(a, b)
<1>1. (a - b) % PosMod = Off(a, b) /\ Off(a, b) \in Nat /\ (Off(a, b) = 0 => a = b)
      /\ Off(a, b) < PosMod
  BY Sizes DEF Pos, Off
<1>2. MaxLag < PosMod \div 2 /\ PosMod \div 2 \in Nat
  BY QueueAssumption, Sizes
<1>3. QED
  BY <1>1, <1>2, Sizes DEF Dif

\* Positions in one cell are a multiple of Size apart, and those Size apart are in
\* one cell.
LEMMA CellDivides ==
  ASSUME NEW a \in Nat
  PROVE  \E q \in Int : a = q * Size + CellOf(a)
<1>1. a = (a \div Size) * Size + (a % Size) /\ a \div Size \in Int
  BY Sizes
<1>2. QED
  BY <1>1 DEF CellOf

\* A number is so many laps and a cell, in one way.
LEMMA CellUnique ==
  ASSUME NEW q \in Int, NEW r \in Cell
  PROVE  CellOf(q * Size + r) = r
BY Sizes DEF CellOf, Cell

\* The positions are a whole number of laps.
LEMMA PosModDivides == \E m \in Int : PosMod = m * Size
<1>1. PosMod % Size = 0
  BY QueueAssumption
<1>2. PosMod = (PosMod \div Size) * Size /\ PosMod \div Size \in Int
  BY <1>1, Sizes
<1>3. QED
  BY <1>2

\* Two positions in one cell are a number of laps apart.
LEMMA SameCell ==
  ASSUME NEW a \in Pos, NEW b \in Pos, CellOf(a) = CellOf(b), Off(a, b) < 2 * Size
  PROVE  Off(a, b) = 0 \/ Off(a, b) = Size
<1>1. PICK q \in Int : a = q * Size + CellOf(a)
  BY CellDivides DEF Pos
<1>2. PICK r \in Int : b = r * Size + CellOf(b)
  BY CellDivides DEF Pos
<1>3. PICK m \in Int : PosMod = m * Size
  BY PosModDivides
<1>4. PICK k \in Int : Off(a, b) = k * Size
  <2>1. CellOf(a) \in Int
    BY CellIsCell DEF Cell
  <2>2. a - b = (q - r) * Size
    BY <1>1, <1>2, <2>1, Sizes
  <2>3. CASE a >= b
    BY <2>2, <2>3 DEF Off
  <2>4. CASE ~(a >= b)
    <3>1. Off(a, b) = (q - r + m) * Size
      BY <1>3, <2>2, <2>4, Sizes DEF Off
    <3>2. QED
      BY <3>1
  <2>5. QED
    BY <2>3, <2>4
<1>5. Off(a, b) \in Nat
  BY Sizes DEF Off, Pos
<1>6. k = 0 \/ k = 1
  BY <1>4, <1>5, Sizes
<1>7. QED
  BY <1>4, <1>6, Sizes

\* Less than a lap apart, they are the same.
LEMMA NearCell ==
  ASSUME NEW a \in Pos, NEW b \in Pos, CellOf(a) = CellOf(b), Off(a, b) < Size
  PROVE  a = b
<1>1. Off(a, b) \in Nat
  BY Sizes DEF Off, Pos
<1>2. Off(a, b) = 0
  BY <1>1, SameCell, Sizes
<1>3. QED
  BY <1>2, Sizes DEF Off, Pos

\* One lap apart, two positions are in one cell.
LEMMA LapCell ==
  ASSUME NEW a \in Pos, NEW b \in Pos, Off(a, b) = Size
  PROVE  CellOf(a) = CellOf(b)
<1>1. PICK r \in Int : b = r * Size + CellOf(b)
  BY CellDivides DEF Pos
<1>2. PICK m \in Int : PosMod = m * Size
  BY PosModDivides
<1>3. CellOf(b) \in Cell /\ CellOf(b) \in Int
  BY CellIsCell DEF Cell
<1>4. CASE a >= b
  <2>1. a = (r + 1) * Size + CellOf(b)
    BY <1>1, <1>3, <1>4, Sizes DEF Off, Pos
  <2>2. QED
    BY <1>3, <2>1, CellUnique
<1>5. CASE ~(a >= b)
  <2>1. a = (r + 1 - m) * Size + CellOf(b)
    BY <1>1, <1>2, <1>3, <1>5, Sizes DEF Off, Pos
  <2>2. QED
    BY <1>3, <2>1, CellUnique
<1>6. QED
  BY <1>4, <1>5

----------------------------------------------------------------------------
(* The invariant: whose turn the number of every cell says it is.          *)

PutPC == {"enqData", "enqStore"}
TakePC == {"deqData", "deqStore"}

NumberAt(pos) == sequence[CellOf(pos)]

Length == Off(enqueue_pos, dequeue_pos)
InQueue(pos) == Off(pos, dequeue_pos) < Length
InRoom(pos)  == Off(pos, enqueue_pos) < Size - Length

\* The cell of a position that was given out for an item is empty, or has the
\* item; that of a position to be given out next is empty, or is being emptied of
\* the item of the lap before.
Numbers ==
  /\ Length <= Size
  /\ \A pos \in Pos : InQueue(pos) =>
       \/ NumberAt(pos) = pos
       \/ NumberAt(pos) = Plus(pos, 1) /\ data[CellOf(pos)] \in Data
  /\ \A pos \in Pos : InRoom(pos) =>
       NumberAt(pos) = pos \/ Off(pos, NumberAt(pos)) = Size - 1

\* Who puts an item does so in the queue, and who takes one is not a lap behind.
Held ==
  \A p \in Callers :
    /\ call[p].pc \in PutPC => InQueue(call[p].pos) /\ Number(p) = call[p].pos
    /\ call[p].pc = "enqStore" => data[MyCell(p)] \in Data
    /\ call[p].pc \in TakePC =>
         /\ Off(dequeue_pos, call[p].pos) >= 1
         /\ Off(dequeue_pos, call[p].pos) + Length <= Size
         /\ Number(p) = Plus(call[p].pos, 1)
    /\ call[p].pc = "deqData" => data[MyCell(p)] \in Data

\* A position is given out once.
Sole ==
  \A p, q \in Callers :
    /\ call[p].pos = call[q].pos
    /\ \/ call[p].pc \in PutPC /\ call[q].pc \in PutPC
       \/ call[p].pc \in TakePC /\ call[q].pc \in TakePC
    => p = q

\* Who is after a position has not fallen far behind, and what it read of the
\* number of the cell holds while the position is not given out.
Sought ==
  \A p \in Callers :
    /\ call[p].pc \in {"enqSeq", "enqCas"} => Off(enqueue_pos, call[p].pos) <= MaxLag
    /\ call[p].pc \in {"deqSeq", "deqCas"} => Off(dequeue_pos, call[p].pos) <= MaxLag
    /\ call[p].pc = "enqCas" /\ call[p].pos = enqueue_pos => Number(p) = call[p].pos
    /\ call[p].pc = "deqCas" /\ call[p].pos = dequeue_pos => Number(p) = Plus(call[p].pos, 1)

RingInv == Numbers /\ Held /\ Sole /\ Sought

\* The types, and those of what is read through a call or a position.
LEMMA RingTypes ==
  ASSUME TypeOK
  PROVE  /\ sequence \in [Cell -> Pos] /\ data \in [Cell -> Data \cup {NoData}]
         /\ enqueue_pos \in Pos /\ dequeue_pos \in Pos
         /\ call \in [Callers -> [pc : CallPC, pos : Pos, data : Data \cup {NoData}]]
         /\ \A p \in Callers : call[p].pos \in Pos /\ MyCell(p) \in Cell /\ Number(p) \in Pos
         /\ \A pos \in Pos : NumberAt(pos) \in Pos
         /\ NoCall \in [pc : CallPC, pos : Pos, data : Data \cup {NoData}]
<1>1. 0 \in Pos
  BY Sizes DEF Pos
<1>2. QED
  BY <1>1, CellIsCell DEF TypeOK, MyCell, Number, NumberAt, NoCall, CallPC

\* Two callers that are in a cell are in different cells.
LEMMA Apart ==
  ASSUME TypeOK, RingInv, NEW p \in Callers, NEW q \in Callers, p # q,
         call[p].pc \in InCell, call[q].pc \in InCell
  PROVE  MyCell(p) # MyCell(q)
<1>1. /\ call[p].pos \in Pos /\ call[q].pos \in Pos
      /\ enqueue_pos \in Pos /\ dequeue_pos \in Pos
  BY RingTypes
<1>2. Length <= Size
  BY DEF RingInv, Numbers
<1> SUFFICES ASSUME CellOf(call[p].pos) = CellOf(call[q].pos) PROVE FALSE
  BY DEF MyCell
<1>3. \A r \in {p, q} :
        /\ call[r].pc \in PutPC => InQueue(call[r].pos)
        /\ call[r].pc \in TakePC =>
             /\ Off(dequeue_pos, call[r].pos) >= 1
             /\ Off(dequeue_pos, call[r].pos) + Length <= Size
  BY DEF RingInv, Held
<1>4. \/ Off(call[p].pos, call[q].pos) < Size
      \/ Off(call[q].pos, call[p].pos) < Size
  <2>1. CASE call[p].pc \in PutPC /\ call[q].pc \in PutPC
    BY <1>1, <1>2, <1>3, <2>1, Sizes DEF InQueue, Length, Off, Pos
  <2>2. CASE call[p].pc \in PutPC /\ call[q].pc \in TakePC
    BY <1>1, <1>2, <1>3, <2>2, Sizes DEF InQueue, Length, Off, Pos
  <2>3. CASE call[p].pc \in TakePC /\ call[q].pc \in PutPC
    BY <1>1, <1>2, <1>3, <2>3, Sizes DEF InQueue, Length, Off, Pos
  <2>4. CASE call[p].pc \in TakePC /\ call[q].pc \in TakePC
    BY <1>1, <1>2, <1>3, <2>4, Sizes DEF InQueue, Length, Off, Pos
  <2>5. QED
    BY <2>1, <2>2, <2>3, <2>4 DEF InCell, PutPC, TakePC
<1>5. call[p].pos = call[q].pos
  BY <1>1, <1>4, NearCell
<1>6. ~(call[p].pc \in PutPC /\ call[q].pc \in TakePC)
      /\ ~(call[q].pc \in PutPC /\ call[p].pc \in TakePC)
  BY <1>1, <1>2, <1>3, <1>5, Sizes DEF InQueue, Length, Off, Pos
<1>7. QED
  BY <1>5, <1>6 DEF RingInv, Sole, InCell, PutPC, TakePC

----------------------------------------------------------------------------
(* Steps outside the cells.                                                *)

Inside(p) == call[p].pc \in InCell

\* A step outside the cells that changes only what p is after.
LEMMA QuietStep ==
  ASSUME TypeOK, RingInv, NEW p \in Callers, UNCHANGED <<ring, positions>>,
         \A q \in Callers \ {p} : call'[q] = call[q],
         call'[p].pc \notin InCell,
         call'[p].pc \in {"enqSeq", "enqCas"} => Off(enqueue_pos, call'[p].pos) <= MaxLag,
         call'[p].pc \in {"deqSeq", "deqCas"} => Off(dequeue_pos, call'[p].pos) <= MaxLag,
         call'[p].pc = "enqCas" => NumberAt(call'[p].pos) = call'[p].pos,
         call'[p].pc = "deqCas" => NumberAt(call'[p].pos) = Plus(call'[p].pos, 1)
  PROVE  RingInv'
<1>1. UNCHANGED <<sequence, data, enqueue_pos, dequeue_pos>>
  BY DEF ring, positions
<1>2. Numbers'
  BY <1>1 DEF RingInv, Numbers, InQueue, InRoom, Length, NumberAt
<1>3. Held'
  BY <1>1 DEF RingInv, Held, InQueue, Length, Number, MyCell, InCell, PutPC, TakePC
<1>4. Sole'
  BY DEF RingInv, Sole, InCell, PutPC, TakePC
<1>5. Sought'
  BY <1>1 DEF RingInv, Sought, Number, MyCell, NumberAt
<1>6. QED
  BY <1>2, <1>3, <1>4, <1>5 DEF RingInv

\* A step inside a cell, which gives out no position.
LEMMA CellStep ==
  ASSUME TypeOK, RingInv, NEW p \in Callers, Inside(p), UNCHANGED positions,
         \A q \in Callers \ {p} : call'[q] = call[q],
         \/ call'[p].pc = "idle"
         \/ /\ call'[p].pos = call[p].pos
            /\ \/ call[p].pc \in PutPC /\ call'[p].pc \in PutPC
               \/ call[p].pc \in TakePC /\ call'[p].pc \in TakePC
  PROVE  /\ Sole'
         /\ \A q \in Callers :
              /\ call'[q].pc \in PutPC => call[q].pc \in PutPC /\ call'[q].pos = call[q].pos
              /\ call'[q].pc \in TakePC => call[q].pc \in TakePC /\ call'[q].pos = call[q].pos
              /\ call'[q].pc \in {"enqSeq", "enqCas", "deqSeq", "deqCas"} =>
                   q # p /\ call'[q] = call[q]
         /\ enqueue_pos' = enqueue_pos /\ dequeue_pos' = dequeue_pos
         /\ \A pos \in Pos : (InQueue(pos)' <=> InQueue(pos)) /\ (InRoom(pos)' <=> InRoom(pos))
<1>1. UNCHANGED <<enqueue_pos, dequeue_pos>>
  BY DEF positions
<1>2. \A q \in Callers :
        /\ call'[q].pc \in PutPC => call[q].pc \in PutPC /\ call'[q].pos = call[q].pos
        /\ call'[q].pc \in TakePC => call[q].pc \in TakePC /\ call'[q].pos = call[q].pos
  BY DEF PutPC, TakePC
<1>3. Sole'
  BY <1>2 DEF RingInv, Sole
<1>4. ASSUME NEW q \in Callers, call'[q].pc \in {"enqSeq", "enqCas", "deqSeq", "deqCas"}
      PROVE  q # p /\ call'[q] = call[q]
  BY <1>4 DEF PutPC, TakePC
<1>5. QED
  BY <1>1, <1>2, <1>3, <1>4 DEF InQueue, InRoom, Length

\* The compare_exchange of enqueue: the position is p's, its cell is empty.
LEMMA EnqCasGives ==
  ASSUME TypeOK, RingInv, NEW p \in Callers, At(p, "enqCas"),
         enqueue_pos = call[p].pos, InStep,
         enqueue_pos' = Plus(enqueue_pos, 1), Goto(p, "enqData"),
         UNCHANGED <<ring, dequeue_pos>>
  PROVE  RingInv'
<1>0. /\ enqueue_pos \in Pos /\ dequeue_pos \in Pos /\ enqueue_pos' \in Pos
      /\ \A q \in Callers : call[q].pos \in Pos
      /\ \A pos \in Pos : NumberAt(pos) \in Pos
      /\ UNCHANGED <<sequence, data, dequeue_pos>>
      /\ call'[p].pc = "enqData" /\ call'[p].pos = enqueue_pos
      /\ \A q \in Callers \ {p} : call'[q] = call[q]
      /\ \A q \in Callers : call'[q].pos = call[q].pos
      /\ Length \in Nat /\ Length <= Size
  BY RingTypes, NextIs, Sizes DEF Goto, RingInv, Numbers, ring, Length, Off, Pos
<1>1. NumberAt(enqueue_pos) = enqueue_pos
  BY DEF RingInv, Sought, At, Number, MyCell, NumberAt
<1>2. Length < Size
  <2> SUFFICES ASSUME Length = Size PROVE FALSE
    BY <1>0, Sizes
  <2>1. CellOf(enqueue_pos) = CellOf(dequeue_pos)
    BY <1>0, LapCell DEF Length
  <2>2. InQueue(dequeue_pos)
    BY <1>0, Sizes DEF InQueue, Off, Pos
  <2>3. enqueue_pos = dequeue_pos \/ enqueue_pos = Plus(dequeue_pos, 1)
    BY <1>0, <1>1, <2>1, <2>2 DEF RingInv, Numbers, NumberAt
  <2>4. QED
    BY <1>0, <2>3, NextIs, Sizes DEF Length, Off, Pos
<1>3. ASSUME NEW q \in Callers, call[q].pc \in TakePC
      PROVE  Off(dequeue_pos, call[q].pos) + Length < Size
  <2>1. /\ Off(dequeue_pos, call[q].pos) >= 1
        /\ Off(dequeue_pos, call[q].pos) + Length <= Size
        /\ NumberAt(call[q].pos) = Plus(call[q].pos, 1)
    BY <1>3 DEF RingInv, Held, Number, MyCell, NumberAt
  <2> SUFFICES ASSUME Off(dequeue_pos, call[q].pos) + Length = Size PROVE FALSE
    BY <1>0, <2>1, Sizes DEF Off, Pos
  <2>2. Off(enqueue_pos, call[q].pos) = Size
    BY <1>0, <2>1, Sizes DEF Length, Off, Pos
  <2>3. enqueue_pos = Plus(call[q].pos, 1)
    BY <1>0, <1>1, <2>1, <2>2, LapCell DEF NumberAt
  <2>4. QED
    BY <1>0, <2>2, <2>3, OffNext, Sizes
<1>4. Length' = Length + 1
  BY <1>0, <1>2, OffNext, Sizes DEF Length
<1>5. \A pos \in Pos : InQueue(pos)' <=> InQueue(pos) \/ pos = enqueue_pos
  BY <1>0, <1>2, <1>4, Sizes DEF InQueue, Length, Off, Pos
<1>6. \A pos \in Pos : InRoom(pos)' => InRoom(pos)
  BY <1>0, <1>2, <1>4, NextIs, Sizes DEF InRoom, Off, Pos
<1>7. Numbers'
  <2>1. \A pos \in Pos : NumberAt(pos)' = NumberAt(pos)
    BY <1>0 DEF NumberAt
  <2>2. Length' <= Size
    BY <1>0, <1>2, <1>4, Sizes
  <2>3. \A pos \in Pos : InQueue(pos)' =>
          \/ NumberAt(pos) = pos
          \/ NumberAt(pos) = Plus(pos, 1) /\ data[CellOf(pos)] \in Data
    BY <1>1, <1>5 DEF RingInv, Numbers
  <2>4. \A pos \in Pos : InRoom(pos)' =>
          NumberAt(pos) = pos \/ Off(pos, NumberAt(pos)) = Size - 1
    BY <1>6 DEF RingInv, Numbers
  <2>5. QED
    BY <1>0, <2>1, <2>2, <2>3, <2>4 DEF Numbers
<1>8. Held'
  <2> SUFFICES ASSUME NEW q \in Callers
               PROVE  /\ call'[q].pc \in PutPC =>
                           InQueue(call[q].pos)' /\ NumberAt(call[q].pos) = call[q].pos
                      /\ call'[q].pc = "enqStore" => data[CellOf(call[q].pos)] \in Data
                      /\ call'[q].pc \in TakePC =>
                           /\ Off(dequeue_pos, call[q].pos) >= 1
                           /\ Off(dequeue_pos, call[q].pos) + Length' <= Size
                           /\ NumberAt(call[q].pos) = Plus(call[q].pos, 1)
                      /\ call'[q].pc = "deqData" => data[CellOf(call[q].pos)] \in Data
    BY <1>0 DEF Held, Number, MyCell, NumberAt, InQueue, Length
  <2>1. CASE q = p
    BY <1>0, <1>1, <1>5, <2>1 DEF PutPC, TakePC
  <2>2. CASE q # p
    <3>1. call'[q] = call[q]
      BY <1>0, <2>2
    <3>2. call[q].pc \in TakePC => Off(dequeue_pos, call[q].pos) + Length' <= Size
      BY <1>0, <1>3, <1>4, Sizes DEF Off, Pos
    <3>3. call[q].pc \in PutPC => InQueue(call[q].pos)'
      BY <1>0, <1>5 DEF RingInv, Held
    <3>4. QED
      BY <3>1, <3>2, <3>3 DEF RingInv, Held, Number, MyCell, NumberAt
  <2>3. QED
    BY <2>1, <2>2
<1>9. Sole'
  <2>1. ASSUME NEW q \in Callers, call[q].pc \in PutPC
        PROVE  call[q].pos # enqueue_pos
    BY <1>0, <2>1 DEF RingInv, Held, InQueue, Length
  <2>2. QED
    BY <1>0, <2>1 DEF RingInv, Sole, PutPC, TakePC
<1>10. Sought'
  <2> SUFFICES ASSUME NEW q \in Callers, q # p
               PROVE  /\ call[q].pc \in {"enqSeq", "enqCas"} =>
                           /\ Off(enqueue_pos', call[q].pos) <= MaxLag
                           /\ call[q].pos # enqueue_pos'
                      /\ call[q].pc \in {"deqSeq", "deqCas"} =>
                           Off(dequeue_pos, call[q].pos) <= MaxLag
                      /\ call[q].pc = "deqCas" /\ call[q].pos = dequeue_pos =>
                           Number(q) = Plus(call[q].pos, 1)
    BY <1>0 DEF Sought, Number, MyCell
  <2>1. ASSUME call[q].pc \in {"enqSeq", "enqCas"}
        PROVE  Off(enqueue_pos', call[q].pos) <= MaxLag /\ call[q].pos # enqueue_pos'
    <3>1. Off(enqueue_pos, call[q].pos) <= MaxLag
      BY <2>1 DEF RingInv, Sought
    <3>2. Off(enqueue_pos, call[q].pos) < MaxLag
      BY <1>0, <2>1, <3>1, DifIs DEF InStep
    <3>3. QED
      BY <1>0, <3>2, NextIs, Sizes DEF Off, Pos
  <2>2. QED
    BY <2>1 DEF RingInv, Sought
<1>11. QED
  BY <1>7, <1>8, <1>9, <1>10 DEF RingInv

\* The compare_exchange of dequeue: the position is p's, its item is there.
LEMMA DeqCasGives ==
  ASSUME TypeOK, RingInv, NEW p \in Callers, At(p, "deqCas"),
         dequeue_pos = call[p].pos, InStep,
         dequeue_pos' = Plus(dequeue_pos, 1), Goto(p, "deqData"),
         UNCHANGED <<ring, enqueue_pos>>
  PROVE  RingInv'
<1>0. /\ enqueue_pos \in Pos /\ dequeue_pos \in Pos /\ dequeue_pos' \in Pos
      /\ \A q \in Callers : call[q].pos \in Pos
      /\ \A pos \in Pos : NumberAt(pos) \in Pos
      /\ UNCHANGED <<sequence, data, enqueue_pos>>
      /\ call'[p].pc = "deqData" /\ call'[p].pos = dequeue_pos
      /\ \A q \in Callers \ {p} : call'[q] = call[q]
      /\ \A q \in Callers : call'[q].pos = call[q].pos
      /\ Length \in Nat /\ Length <= Size
  BY RingTypes, NextIs, Sizes DEF Goto, RingInv, Numbers, ring, Length, Off, Pos
<1>1. NumberAt(dequeue_pos) = Plus(dequeue_pos, 1) /\ Plus(dequeue_pos, 1) # dequeue_pos
  BY <1>0, NextIs, Sizes DEF RingInv, Sought, At, Number, MyCell, NumberAt, Pos
<1>2. Length >= 1
  <2> SUFFICES ASSUME Length = 0 PROVE FALSE
    BY <1>0
  <2>1. enqueue_pos = dequeue_pos
    BY <1>0, OffNext DEF Length
  <2>2. InRoom(dequeue_pos)
    BY <1>0, <2>1, OffNext, Sizes DEF InRoom
  <2>3. Off(dequeue_pos, Plus(dequeue_pos, 1)) = Size - 1
    BY <1>0, <1>1, <2>2 DEF RingInv, Numbers
  <2>4. QED
    BY <1>0, <2>3, NextIs, Sizes DEF Off, Pos
<1>3. data[CellOf(dequeue_pos)] \in Data
  <2>1. InQueue(dequeue_pos)
    BY <1>0, <1>2, OffNext DEF InQueue
  <2>2. QED
    BY <1>0, <1>1, <2>1 DEF RingInv, Numbers
<1>4. Length' = Length - 1
  BY <1>0, <1>2, OffNext, Sizes DEF Length
<1>5. \A pos \in Pos : InQueue(pos)' <=> InQueue(pos) /\ pos # dequeue_pos
  BY <1>0, <1>2, <1>4, OffNext, Sizes DEF InQueue
<1>6. \A pos \in Pos : InRoom(pos)' => InRoom(pos) \/ Off(pos, dequeue_pos) = Size
  <2> SUFFICES ASSUME NEW pos \in Pos, InRoom(pos)', ~InRoom(pos)
               PROVE  Off(pos, dequeue_pos) = Size
    OBVIOUS
  <2>1. Off(pos, enqueue_pos) + Length = Size
    BY <1>0, <1>4, OffNext, Sizes DEF InRoom
  <2>2. QED
    BY <1>0, <2>1, Sizes DEF Length, Off, Pos
<1>7. Numbers'
  <2>1. \A pos \in Pos : NumberAt(pos)' = NumberAt(pos)
    BY <1>0 DEF NumberAt
  <2>2. Length' <= Size
    BY <1>0, <1>4, Sizes
  <2>3. \A pos \in Pos : InQueue(pos)' =>
          \/ NumberAt(pos) = pos
          \/ NumberAt(pos) = Plus(pos, 1) /\ data[CellOf(pos)] \in Data
    BY <1>5 DEF RingInv, Numbers
  <2>4. ASSUME NEW pos \in Pos, InRoom(pos)'
        PROVE  NumberAt(pos) = pos \/ Off(pos, NumberAt(pos)) = Size - 1
    <3>1. CASE InRoom(pos)
      BY <3>1 DEF RingInv, Numbers
    <3>2. CASE Off(pos, dequeue_pos) = Size
      <4>1. NumberAt(pos) = Plus(dequeue_pos, 1)
        BY <1>0, <1>1, <3>2, LapCell DEF NumberAt
      <4>2. Off(pos, Plus(dequeue_pos, 1)) = Size - 1
        BY <1>0, <3>2, OffNext, Sizes
      <4>3. QED
        BY <4>1, <4>2
    <3>3. QED
      BY <1>6, <2>4, <3>1, <3>2
  <2>5. QED
    BY <1>0, <2>1, <2>2, <2>3, <2>4 DEF Numbers
<1>8. Held'
  <2> SUFFICES ASSUME NEW q \in Callers
               PROVE  /\ call'[q].pc \in PutPC =>
                           InQueue(call[q].pos)' /\ NumberAt(call[q].pos) = call[q].pos
                      /\ call'[q].pc = "enqStore" => data[CellOf(call[q].pos)] \in Data
                      /\ call'[q].pc \in TakePC =>
                           /\ Off(dequeue_pos', call[q].pos) >= 1
                           /\ Off(dequeue_pos', call[q].pos) + Length' <= Size
                           /\ NumberAt(call[q].pos) = Plus(call[q].pos, 1)
                      /\ call'[q].pc = "deqData" => data[CellOf(call[q].pos)] \in Data
    BY <1>0 DEF Held, Number, MyCell, NumberAt, InQueue, Length
  <2>1. CASE q = p
    <3>1. Off(dequeue_pos', call[q].pos) = 1
      BY <1>0, <2>1, OffNext
    <3>2. QED
      BY <1>0, <1>1, <1>3, <1>4, <2>1, <3>1 DEF PutPC, TakePC
  <2>2. CASE q # p
    <3>1. call'[q] = call[q]
      BY <1>0, <2>2
    <3>2. ASSUME call[q].pc \in TakePC
          PROVE  /\ Off(dequeue_pos', call[q].pos) >= 1
                 /\ Off(dequeue_pos', call[q].pos) + Length' <= Size
      <4>1. /\ Off(dequeue_pos, call[q].pos) >= 1
            /\ Off(dequeue_pos, call[q].pos) + Length <= Size
        BY <3>2 DEF RingInv, Held
      <4>2. Off(dequeue_pos', call[q].pos) = Off(dequeue_pos, call[q].pos) + 1
        BY <1>0, <4>1, OffNext, Sizes
      <4>3. QED
        BY <1>0, <1>4, <4>1, <4>2, OffNext
    <3>3. ASSUME call[q].pc \in PutPC
          PROVE  InQueue(call[q].pos)'
      <4>1. InQueue(call[q].pos) /\ NumberAt(call[q].pos) = call[q].pos
        BY <3>3 DEF RingInv, Held, Number, MyCell, NumberAt
      <4>2. call[q].pos # dequeue_pos
        BY <1>1, <4>1
      <4>3. QED
        BY <1>0, <1>5, <4>1, <4>2
    <3>4. QED
      BY <3>1, <3>2, <3>3 DEF RingInv, Held, Number, MyCell, NumberAt
  <2>3. QED
    BY <2>1, <2>2
<1>9. Sole'
  <2>1. ASSUME NEW q \in Callers, call[q].pc \in TakePC
        PROVE  call[q].pos # dequeue_pos
    <3>1. Off(dequeue_pos, call[q].pos) >= 1
      BY <2>1 DEF RingInv, Held
    <3>2. QED
      BY <1>0, <3>1, OffNext
  <2>2. QED
    BY <1>0, <2>1 DEF RingInv, Sole, PutPC, TakePC
<1>10. Sought'
  <2> SUFFICES ASSUME NEW q \in Callers, q # p
               PROVE  /\ call[q].pc \in {"deqSeq", "deqCas"} =>
                           /\ Off(dequeue_pos', call[q].pos) <= MaxLag
                           /\ call[q].pos # dequeue_pos'
                      /\ call[q].pc \in {"enqSeq", "enqCas"} =>
                           Off(enqueue_pos, call[q].pos) <= MaxLag
                      /\ call[q].pc = "enqCas" /\ call[q].pos = enqueue_pos =>
                           Number(q) = call[q].pos
    BY <1>0 DEF Sought, Number, MyCell
  <2>1. ASSUME call[q].pc \in {"deqSeq", "deqCas"}
        PROVE  Off(dequeue_pos', call[q].pos) <= MaxLag /\ call[q].pos # dequeue_pos'
    <3>1. Off(dequeue_pos, call[q].pos) <= MaxLag
      BY <2>1 DEF RingInv, Sought
    <3>2. Off(dequeue_pos, call[q].pos) < MaxLag
      BY <1>0, <2>1, <3>1, DifIs DEF InStep
    <3>3. QED
      BY <1>0, <3>2, NextIs, Sizes DEF Off, Pos
  <2>2. QED
    BY <2>1 DEF RingInv, Sought
<1>11. QED
  BY <1>7, <1>8, <1>9, <1>10 DEF RingInv

----------------------------------------------------------------------------
(* Steps in a cell.                                                        *)

\* Data written to, or read from, the cell of p.
LEMMA DataStep ==
  ASSUME TypeOK, RingInv, NEW p \in Callers, EnqData(p) \/ DeqData(p)
  PROVE  RingInv'
<1>1. /\ UNCHANGED <<sequence, positions>> /\ Inside(p)
      /\ \A q \in Callers \ {p} : call'[q] = call[q]
      /\ call'[p].pos = call[p].pos
      /\ \/ call[p].pc = "enqData" /\ call'[p].pc = "enqStore" /\ call[p].data \in Data
            /\ data' = [data EXCEPT ![MyCell(p)] = call[p].data]
         \/ call[p].pc = "deqData" /\ call'[p].pc = "deqStore" /\ data' = data
  BY RingTypes DEF EnqData, DeqData, At, Goto, ring, Inside, InCell, TypeOK, HasData
<1>2. /\ Sole'
      /\ \A q \in Callers :
           /\ call'[q].pc \in PutPC => call[q].pc \in PutPC /\ call'[q].pos = call[q].pos
           /\ call'[q].pc \in TakePC => call[q].pc \in TakePC /\ call'[q].pos = call[q].pos
           /\ call'[q].pc \in {"enqSeq", "enqCas", "deqSeq", "deqCas"} =>
                q # p /\ call'[q] = call[q]
      /\ enqueue_pos' = enqueue_pos /\ dequeue_pos' = dequeue_pos
      /\ \A pos \in Pos : (InQueue(pos)' <=> InQueue(pos)) /\ (InRoom(pos)' <=> InRoom(pos))
  BY <1>1, CellStep DEF PutPC, TakePC
<1>3. \A c \in Cell : data[c] \in Data => data'[c] \in Data
  BY <1>1, RingTypes
<1>4. Numbers'
  <2>1. \A pos \in Pos : NumberAt(pos)' = NumberAt(pos)
    BY <1>1 DEF NumberAt
  <2>2. Length' = Length
    BY <1>2 DEF Length
  <2>3. QED
    BY <1>2, <1>3, <2>1, <2>2, CellIsCell DEF RingInv, Numbers
<1>5. Held'
  <2> SUFFICES ASSUME NEW q \in Callers
               PROVE  /\ call'[q].pc \in PutPC =>
                           InQueue(call'[q].pos) /\ sequence[CellOf(call'[q].pos)] = call'[q].pos
                      /\ call'[q].pc = "enqStore" => data'[CellOf(call'[q].pos)] \in Data
                      /\ call'[q].pc \in TakePC =>
                           /\ Off(dequeue_pos, call'[q].pos) >= 1
                           /\ Off(dequeue_pos, call'[q].pos) + Length <= Size
                           /\ sequence[CellOf(call'[q].pos)] = Plus(call'[q].pos, 1)
                      /\ call'[q].pc = "deqData" => data'[CellOf(call'[q].pos)] \in Data
    BY <1>1, <1>2 DEF Held, Number, MyCell, InQueue, Length
  <2>1. MyCell(q) \in Cell
    BY RingTypes
  <2>2. CASE q = p
    BY <1>1, <2>1, <2>2, RingTypes DEF RingInv, Held, PutPC, TakePC, Number, MyCell
  <2>3. CASE q # p
    BY <1>1, <1>3, <2>1, <2>3 DEF RingInv, Held, Number, MyCell
  <2>4. QED
    BY <2>2, <2>3
<1>6. Sought'
  BY <1>1, <1>2 DEF RingInv, Sought, Number, MyCell
<1>7. QED
  BY <1>2, <1>4, <1>5, <1>6 DEF RingInv

\* A store to the number of the cell of p spares what the others have read of
\* theirs, and those in other cells.
LEMMA StoreStep ==
  ASSUME TypeOK, RingInv, NEW p \in Callers, Inside(p), UNCHANGED <<data, positions>>,
         \A q \in Callers \ {p} : call'[q] = call[q],
         call'[p].pc = "idle",
         NEW n, sequence' = [sequence EXCEPT ![MyCell(p)] = n],
         Numbers'
  PROVE  RingInv'
<1>0. /\ enqueue_pos \in Pos /\ dequeue_pos \in Pos
      /\ sequence \in [Cell -> Pos]
      /\ \A q \in Callers : call[q].pos \in Pos /\ MyCell(q) \in Cell
      /\ Length \in Nat /\ Length <= Size
  BY RingTypes, OffNext DEF RingInv, Numbers, Length
<1>1. /\ Sole'
      /\ \A q \in Callers :
           /\ call'[q].pc \in PutPC => call[q].pc \in PutPC /\ call'[q].pos = call[q].pos
           /\ call'[q].pc \in TakePC => call[q].pc \in TakePC /\ call'[q].pos = call[q].pos
           /\ call'[q].pc \in {"enqSeq", "enqCas", "deqSeq", "deqCas"} =>
                q # p /\ call'[q] = call[q]
      /\ enqueue_pos' = enqueue_pos /\ dequeue_pos' = dequeue_pos
      /\ \A pos \in Pos : (InQueue(pos)' <=> InQueue(pos)) /\ (InRoom(pos)' <=> InRoom(pos))
  BY CellStep
\* Where p is, and the number its cell has.
<1>2. \/ /\ Off(call[p].pos, dequeue_pos) < Length /\ Number(p) = call[p].pos
      \/ /\ Off(dequeue_pos, call[p].pos) >= 1
         /\ Off(dequeue_pos, call[p].pos) + Length <= Size
         /\ Number(p) = Plus(call[p].pos, 1)
  BY DEF RingInv, Held, Inside, InCell, PutPC, TakePC, InQueue
<1>3. \A q \in Callers :
        /\ call'[q].pc \in InCell => MyCell(q) # MyCell(p) /\ q # p /\ call'[q] = call[q]
  BY Apart DEF InCell, Inside
<1>4. Held'
  <2> SUFFICES ASSUME NEW q \in Callers, call'[q].pc \in InCell
               PROVE  /\ call'[q].pc \in PutPC =>
                           InQueue(call'[q].pos) /\ sequence'[CellOf(call'[q].pos)] = call'[q].pos
                      /\ call'[q].pc = "enqStore" => data[CellOf(call'[q].pos)] \in Data
                      /\ call'[q].pc \in TakePC =>
                           /\ Off(dequeue_pos, call'[q].pos) >= 1
                           /\ Off(dequeue_pos, call'[q].pos) + Length <= Size
                           /\ sequence'[CellOf(call'[q].pos)] = Plus(call'[q].pos, 1)
                      /\ call'[q].pc = "deqData" => data[CellOf(call'[q].pos)] \in Data
    BY <1>1 DEF Held, Number, MyCell, InQueue, Length, InCell, PutPC, TakePC
  <2>1. call'[q] = call[q] /\ MyCell(q) # MyCell(p)
    BY <1>3
  <2>2. sequence'[MyCell(q)] = sequence[MyCell(q)]
    BY <1>0, <2>1
  <2>3. QED
    BY <2>1, <2>2 DEF RingInv, Held, Number, MyCell
<1>5. NumberAt(enqueue_pos) = enqueue_pos => CellOf(enqueue_pos) # MyCell(p)
  <2> SUFFICES ASSUME Number(p) = enqueue_pos, CellOf(enqueue_pos) = CellOf(call[p].pos)
               PROVE  FALSE
    BY DEF Number, NumberAt, MyCell
  <2>1. CASE /\ Off(call[p].pos, dequeue_pos) < Length /\ Number(p) = call[p].pos
    BY <1>0, <2>1 DEF Length
  <2>2. CASE /\ Off(dequeue_pos, call[p].pos) >= 1
             /\ Off(dequeue_pos, call[p].pos) + Length <= Size
             /\ Number(p) = Plus(call[p].pos, 1)
    <3>1. Off(enqueue_pos, call[p].pos) = 1
      BY <1>0, <2>2, OffNext
    <3>2. QED
      BY <1>0, <3>1, SameCell, Sizes
  <2>3. QED
    BY <1>2, <2>1, <2>2
<1>6. NumberAt(dequeue_pos) = Plus(dequeue_pos, 1) => CellOf(dequeue_pos) # MyCell(p)
  <2> SUFFICES ASSUME Number(p) = Plus(dequeue_pos, 1), CellOf(dequeue_pos) = CellOf(call[p].pos)
               PROVE  FALSE
    BY DEF Number, NumberAt, MyCell
  <2>1. CASE /\ Off(call[p].pos, dequeue_pos) < Length /\ Number(p) = call[p].pos
    <3>1. Off(call[p].pos, dequeue_pos) = 1
      BY <1>0, <2>1, OffNext
    <3>2. QED
      BY <1>0, <3>1, SameCell, Sizes
  <2>2. CASE /\ Off(dequeue_pos, call[p].pos) >= 1
             /\ Off(dequeue_pos, call[p].pos) + Length <= Size
             /\ Number(p) = Plus(call[p].pos, 1)
    <3>1. dequeue_pos = call[p].pos
      BY <1>0, <2>2, NextIs DEF Pos
    <3>2. QED
      BY <1>0, <2>2, <3>1, OffNext
  <2>3. QED
    BY <1>2, <2>1, <2>2
<1>7. Sought'
  <2> SUFFICES ASSUME NEW q \in Callers,
                      call'[q].pc \in {"enqSeq", "enqCas", "deqSeq", "deqCas"}
               PROVE  /\ call[q].pc \in {"enqSeq", "enqCas"} =>
                           Off(enqueue_pos, call[q].pos) <= MaxLag
                      /\ call[q].pc \in {"deqSeq", "deqCas"} =>
                           Off(dequeue_pos, call[q].pos) <= MaxLag
                      /\ call[q].pc = "enqCas" /\ call[q].pos = enqueue_pos =>
                           sequence'[CellOf(call[q].pos)] = call[q].pos
                      /\ call[q].pc = "deqCas" /\ call[q].pos = dequeue_pos =>
                           sequence'[CellOf(call[q].pos)] = Plus(call[q].pos, 1)
    BY <1>1 DEF Sought, Number, MyCell
  <2>1. \A c \in Cell : c # MyCell(p) => sequence'[c] = sequence[c]
    BY <1>0
  <2>2. QED
    BY <1>0, <1>5, <1>6, <2>1 DEF RingInv, Sought, Number, NumberAt, MyCell
<1>8. QED
  BY <1>1, <1>4, <1>7 DEF RingInv

\* The other positions of the cell p puts its item in, and of the one it takes its
\* item from.
LEMMA CellOfPut ==
  ASSUME TypeOK, RingInv, NEW p \in Callers, call[p].pc \in PutPC, NEW pos \in Pos,
         CellOf(pos) = MyCell(p)
  PROVE  (InQueue(pos) => pos = call[p].pos) /\ ~InRoom(pos)
<1>1. /\ enqueue_pos \in Pos /\ dequeue_pos \in Pos /\ call[p].pos \in Pos
      /\ Length \in Nat /\ Length <= Size
      /\ InQueue(call[p].pos)
  BY RingTypes, OffNext DEF RingInv, Numbers, Held, Length
<1>2. CellOf(pos) = CellOf(call[p].pos)
  BY DEF MyCell
<1>3. ASSUME InQueue(pos)
      PROVE  pos = call[p].pos
  <2>1. Off(pos, call[p].pos) < Size \/ Off(call[p].pos, pos) < Size
    BY <1>1, <1>3, Sizes DEF InQueue, Off, Pos
  <2>2. QED
    BY <1>1, <1>2, <2>1, NearCell
<1>4. ASSUME InRoom(pos)
      PROVE  FALSE
  <2>1. Off(pos, call[p].pos) < Size /\ pos # call[p].pos
    BY <1>1, <1>4, Sizes DEF InQueue, InRoom, Length, Off, Pos
  <2>2. QED
    BY <1>1, <1>2, <2>1, NearCell
<1>5. QED
  BY <1>3, <1>4

\* A position in the cell that a caller takes from is not in the queue; if it is in the
\* room, it is one lap on.
LEMMA CellOfTake ==
  ASSUME TypeOK, RingInv, NEW p \in Callers, call[p].pc \in TakePC, NEW pos \in Pos,
         CellOf(pos) = MyCell(p)
  PROVE  ~InQueue(pos) /\ (InRoom(pos) => Off(pos, call[p].pos) = Size)
<1>1. /\ enqueue_pos \in Pos /\ dequeue_pos \in Pos /\ call[p].pos \in Pos
      /\ Length \in Nat /\ Length <= Size
      /\ Off(dequeue_pos, call[p].pos) >= 1
      /\ Off(dequeue_pos, call[p].pos) + Length <= Size
  BY RingTypes, OffNext DEF RingInv, Numbers, Held, Length
<1>2. CellOf(pos) = CellOf(call[p].pos)
  BY DEF MyCell
<1>3. ASSUME InQueue(pos)
      PROVE  FALSE
  <2>1. Off(pos, call[p].pos) < Size /\ pos # call[p].pos
    BY <1>1, <1>3, Sizes DEF InQueue, Length, Off, Pos
  <2>2. QED
    BY <1>1, <1>2, <2>1, NearCell
<1>4. ASSUME InRoom(pos)
      PROVE  Off(pos, call[p].pos) = Size
  <2>1. Off(pos, call[p].pos) < 2 * Size /\ Off(pos, call[p].pos) # 0
    BY <1>1, <1>4, Sizes DEF InRoom, Length, Off, Pos
  <2>2. QED
    BY <1>1, <1>2, <2>1, SameCell
<1>5. QED
  BY <1>3, <1>4

\* The item is complete.
LEMMA EnqStoreGives ==
  ASSUME TypeOK, RingInv, NEW p \in Callers, EnqStore(p)
  PROVE  RingInv'
<1>0. /\ call[p].pos \in Pos /\ call[p].pc \in PutPC
      /\ sequence \in [Cell -> Pos] /\ MyCell(p) \in Cell
      /\ UNCHANGED <<data, enqueue_pos, dequeue_pos>> /\ UNCHANGED <<data, positions>>
      /\ Inside(p) /\ call'[p].pc = "idle"
      /\ \A q \in Callers \ {p} : call'[q] = call[q]
      /\ sequence' = [sequence EXCEPT ![MyCell(p)] = Plus(call[p].pos, 1)]
  BY RingTypes DEF EnqStore, At, Inside, InCell, PutPC, Return, NoCall, positions
<1>1. data[MyCell(p)] \in Data
  BY DEF RingInv, Held, EnqStore, At
<1>2. \A pos \in Pos : CellOf(pos) # MyCell(p) => NumberAt(pos)' = NumberAt(pos)
  BY <1>0, CellIsCell DEF NumberAt
<1>3. \A pos \in Pos : CellOf(pos) = MyCell(p) => NumberAt(pos)' = Plus(call[p].pos, 1)
  BY <1>0 DEF NumberAt
<1>4. \A pos \in Pos : CellOf(pos) = MyCell(p) =>
        (InQueue(pos) => pos = call[p].pos) /\ ~InRoom(pos)
  BY <1>0, CellOfPut
<1>5. Numbers'
  <2>1. /\ Length' = Length
        /\ \A pos \in Pos : (InQueue(pos)' <=> InQueue(pos)) /\ (InRoom(pos)' <=> InRoom(pos))
    BY <1>0 DEF Length, InQueue, InRoom
  <2>2. QED
    BY <1>0, <1>1, <1>2, <1>3, <1>4, <2>1 DEF RingInv, Numbers
<1>6. QED
  BY <1>0, <1>5, StoreStep

\* The cell is empty for the next lap.
LEMMA DeqStoreGives ==
  ASSUME TypeOK, RingInv, NEW p \in Callers, DeqStore(p)
  PROVE  RingInv'
<1>0. /\ call[p].pos \in Pos /\ call[p].pc \in TakePC
      /\ sequence \in [Cell -> Pos] /\ MyCell(p) \in Cell
      /\ UNCHANGED <<data, enqueue_pos, dequeue_pos>> /\ UNCHANGED <<data, positions>>
      /\ Inside(p) /\ call'[p].pc = "idle"
      /\ \A q \in Callers \ {p} : call'[q] = call[q]
      /\ sequence' = [sequence EXCEPT ![MyCell(p)] = Plus(call[p].pos, Size)]
  BY RingTypes DEF DeqStore, At, Inside, InCell, TakePC, Return, NoCall, positions
<1>1. \A pos \in Pos : CellOf(pos) # MyCell(p) => NumberAt(pos)' = NumberAt(pos)
  BY <1>0, CellIsCell DEF NumberAt
<1>2. \A pos \in Pos : InQueue(pos) => CellOf(pos) # MyCell(p)
  BY <1>0, CellOfTake
<1>3. \A pos \in Pos : InRoom(pos) /\ CellOf(pos) = MyCell(p) => NumberAt(pos)' = pos
  <2> SUFFICES ASSUME NEW pos \in Pos, InRoom(pos), CellOf(pos) = MyCell(p)
               PROVE  NumberAt(pos)' = pos
    OBVIOUS
  <2>1. pos = Plus(call[p].pos, Size)
    BY <1>0, CellOfTake, LapIs, Sizes DEF Off, Pos
  <2>2. QED
    BY <1>0, <2>1 DEF NumberAt
<1>4. Numbers'
  <2>1. /\ Length' = Length
        /\ \A pos \in Pos : (InQueue(pos)' <=> InQueue(pos)) /\ (InRoom(pos)' <=> InRoom(pos))
    BY <1>0 DEF Length, InQueue, InRoom
  <2>2. QED
    BY <1>0, <1>1, <1>2, <1>3, <2>1 DEF RingInv, Numbers
<1>5. QED
  BY <1>0, <1>4, StoreStep

----------------------------------------------------------------------------
(* The steps of the system.                                                *)

\* Every number and position is one of size_t, and what is put in a cell, or
\* taken out of one, is an item.
LEMMA NextType ==
  ASSUME TypeOK, RingInv, NEW p \in Callers, Step(p)
  PROVE  TypeOK'
<1>1. /\ sequence \in [Cell -> Pos] /\ data \in [Cell -> Data \cup {NoData}]
      /\ enqueue_pos \in Pos /\ dequeue_pos \in Pos
      /\ call \in [Callers -> [pc : CallPC, pos : Pos, data : Data \cup {NoData}]]
      /\ call[p] \in [pc : CallPC, pos : Pos, data : Data \cup {NoData}]
      /\ \A q \in Callers :
           call[q].pc \in HasData => call[q].data \in Data
      /\ NoCall \in [pc : CallPC, pos : Pos, data : Data \cup {NoData}]
      /\ MyCell(p) \in Cell /\ 0 \in Pos
      /\ Plus(enqueue_pos, 1) \in Pos /\ Plus(dequeue_pos, 1) \in Pos
      /\ Plus(call[p].pos, 1) \in Pos /\ Plus(call[p].pos, Size) \in Pos
  BY RingTypes, NextIs, LapIs, Sizes DEF TypeOK, Pos
<1>2. call[p].pc = "deqData" => data[MyCell(p)] \in Data
  BY DEF RingInv, Held
<1> USE <1>1 DEF TypeOK, HasData, At, Goto, Load, Return, NoCall, CallPC, ring, positions
<1>3. CASE \E d \in Data : Enqueue(p, d)
  BY <1>3 DEF Enqueue
<1>4. CASE EnqLoad(p) \/ Dequeue(p) \/ DeqLoad(p)
  BY <1>4 DEF EnqLoad, Dequeue, DeqLoad
<1>5. CASE EnqSeq(p)
  BY <1>5 DEF EnqSeq
<1>6. CASE EnqCas(p)
  BY <1>6 DEF EnqCas
<1>7. CASE EnqData(p)
  BY <1>7 DEF EnqData
<1>8. CASE EnqStore(p)
  BY <1>8 DEF EnqStore
<1>9. CASE DeqSeq(p)
  BY <1>9 DEF DeqSeq
<1>10. CASE DeqCas(p)
  BY <1>10 DEF DeqCas
<1>11. CASE DeqData(p)
  BY <1>2, <1>11 DEF DeqData
<1>12. CASE DeqStore(p)
  BY <1>12 DEF DeqStore
<1>13. QED
  BY <1>3, <1>4, <1>5, <1>6, <1>7, <1>8, <1>9, <1>10, <1>11, <1>12 DEF Step

\* Every step of a caller keeps RingInv.
LEMMA NextRing ==
  ASSUME TypeOK, RingInv, NEW p \in Callers, Step(p)
  PROVE  RingInv'
<1>1. /\ call \in [Callers -> [pc : CallPC, pos : Pos, data : Data \cup {NoData}]]
      /\ enqueue_pos \in Pos /\ dequeue_pos \in Pos
      /\ call[p].pos \in Pos /\ Number(p) \in Pos
      /\ Plus(call[p].pos, 1) \in Pos
  BY RingTypes, NextIs
<1>2. /\ Off(enqueue_pos, enqueue_pos) = 0 /\ Off(dequeue_pos, dequeue_pos) = 0
      /\ 0 <= MaxLag
  BY <1>1, OffNext, Sizes
<1>3. /\ call[p].pc \in {"enqSeq", "enqCas"} => Off(enqueue_pos, call[p].pos) <= MaxLag
      /\ call[p].pc \in {"deqSeq", "deqCas"} => Off(dequeue_pos, call[p].pos) <= MaxLag
  BY DEF RingInv, Sought
<1>4. CASE (\E d \in Data : Enqueue(p, d)) \/ Dequeue(p)
  <2>1. /\ call'[p].pc \in {"enqLoad", "deqLoad"}
        /\ \A q \in Callers \ {p} : call'[q] = call[q]
        /\ UNCHANGED <<ring, positions>>
    BY <1>1, <1>4 DEF Enqueue, Dequeue, Goto
  <2>2. QED
    BY <2>1, QuietStep DEF InCell
<1>5. CASE EnqLoad(p) \/ DeqLoad(p)
  <2>1. /\ \/ call'[p].pc = "enqSeq" /\ call'[p].pos = enqueue_pos
           \/ call'[p].pc = "deqSeq" /\ call'[p].pos = dequeue_pos
        /\ \A q \in Callers \ {p} : call'[q] = call[q]
        /\ UNCHANGED <<ring, positions>>
    BY <1>1, <1>5 DEF EnqLoad, DeqLoad, Load
  <2>2. QED
    BY <1>2, <2>1, QuietStep DEF InCell
<1>6. CASE EnqSeq(p)
  <2>1. /\ call[p].pc = "enqSeq"
        /\ \/ call'[p].pc = "enqCas" /\ call'[p].pos = call[p].pos
              /\ Dif(Number(p), call[p].pos) = 0
           \/ call'[p].pc \in {"idle", "enqLoad"}
        /\ \A q \in Callers \ {p} : call'[q] = call[q]
        /\ UNCHANGED <<ring, positions>>
    BY <1>1, <1>6 DEF EnqSeq, At, Goto, Return, NoCall
  <2>2. call'[p].pc = "enqCas" => NumberAt(call'[p].pos) = call'[p].pos
    BY <1>1, <2>1, DifIs DEF Number, MyCell, NumberAt
  <2>3. QED
    BY <1>3, <2>1, <2>2, QuietStep DEF InCell
<1>7. CASE DeqSeq(p)
  <2>1. /\ call[p].pc = "deqSeq"
        /\ \/ call'[p].pc = "deqCas" /\ call'[p].pos = call[p].pos
              /\ Dif(Number(p), Plus(call[p].pos, 1)) = 0
           \/ call'[p].pc \in {"idle", "deqLoad"}
        /\ \A q \in Callers \ {p} : call'[q] = call[q]
        /\ UNCHANGED <<ring, positions>>
    BY <1>1, <1>7 DEF DeqSeq, At, Goto, Return, NoCall
  <2>2. call'[p].pc = "deqCas" => NumberAt(call'[p].pos) = Plus(call'[p].pos, 1)
    BY <1>1, <2>1, DifIs DEF Number, MyCell, NumberAt
  <2>3. QED
    BY <1>3, <2>1, <2>2, QuietStep DEF InCell
<1>8. CASE EnqCas(p)
  <2>1. CASE enqueue_pos = call[p].pos
    BY <1>8, <2>1, EnqCasGives DEF EnqCas
  <2>2. CASE enqueue_pos # call[p].pos
    <3>1. /\ call'[p].pc = "enqSeq" /\ call'[p].pos = enqueue_pos
          /\ \A q \in Callers \ {p} : call'[q] = call[q]
          /\ UNCHANGED <<ring, positions>>
      BY <1>1, <1>8, <2>2 DEF EnqCas, Load, positions
    <3>2. QED
      BY <1>2, <3>1, QuietStep DEF InCell
  <2>3. QED
    BY <2>1, <2>2
<1>9. CASE DeqCas(p)
  <2>1. CASE dequeue_pos = call[p].pos
    BY <1>9, <2>1, DeqCasGives DEF DeqCas
  <2>2. CASE dequeue_pos # call[p].pos
    <3>1. /\ call'[p].pc = "deqSeq" /\ call'[p].pos = dequeue_pos
          /\ \A q \in Callers \ {p} : call'[q] = call[q]
          /\ UNCHANGED <<ring, positions>>
      BY <1>1, <1>9, <2>2 DEF DeqCas, Load, positions
    <3>2. QED
      BY <1>2, <3>1, QuietStep DEF InCell
  <2>3. QED
    BY <2>1, <2>2
<1>10. CASE EnqData(p) \/ DeqData(p) \/ EnqStore(p) \/ DeqStore(p)
  BY <1>10, DataStep, EnqStoreGives, DeqStoreGives
<1>11. QED
  BY <1>4, <1>5, <1>6, <1>7, <1>8, <1>9, <1>10 DEF Step

\* In the new queue every cell has the number of its position, so all is room.
LEMMA InitRing == Init => TypeOK /\ RingInv
<1> SUFFICES ASSUME Init PROVE TypeOK /\ RingInv
  OBVIOUS
<1>1. /\ 0 \in Pos /\ Cell \subseteq Pos /\ Off(0, 0) = 0
  BY Sizes DEF Pos, Cell, Off
<1>2. TypeOK
  BY <1>1 DEF Init, TypeOK, HasData, NoCall, CallPC
<1>3. /\ Length = 0 /\ \A p \in Callers : call[p].pc = "idle"
  BY <1>1 DEF Init, Length, NoCall
<1>4. ASSUME NEW pos \in Pos, InRoom(pos)
      PROVE  NumberAt(pos) = pos
  <2>1. pos \in Cell
    BY <1>3, <1>4, Sizes DEF InRoom, Init, Off, Pos, Cell
  <2>2. CellOf(pos) = pos
    BY <2>1, Sizes DEF CellOf, Cell
  <2>3. QED
    BY <2>1, <2>2 DEF Init, NumberAt
<1>5. \A pos \in Pos : ~InQueue(pos)
  BY <1>2, <1>3, OffNext DEF InQueue, TypeOK
<1>6. Numbers
  BY <1>3, <1>4, <1>5, Sizes DEF Numbers
<1>7. Held /\ Sole /\ Sought
  BY <1>3 DEF Held, Sole, Sought, PutPC, TakePC
<1>8. QED
  BY <1>2, <1>6, <1>7 DEF RingInv

\* The types and RingInv hold throughout.
LEMMA RingKept == Spec => [](TypeOK /\ RingInv)
<1>1. TypeOK /\ RingInv /\ [Next]_vars => TypeOK' /\ RingInv'
  <2>1. ASSUME TypeOK, RingInv, UNCHANGED vars
        PROVE  TypeOK' /\ RingInv'
    <3>1. UNCHANGED <<sequence, data, enqueue_pos, dequeue_pos, call, outcome>>
      BY <2>1 DEF vars
    <3>2. TypeOK'
      BY <2>1, <3>1 DEF TypeOK
    <3>3. Numbers'
      BY <2>1, <3>1 DEF RingInv, Numbers, InQueue, InRoom, Length, NumberAt
    <3>4. Held' /\ Sole' /\ Sought'
      BY <2>1, <3>1 DEF RingInv, Held, Sole, Sought, InQueue, Length, Number, MyCell
    <3>5. QED
      BY <3>2, <3>3, <3>4 DEF RingInv
  <2>2. QED
    BY <2>1, NextType, NextRing DEF Next
<1>2. QED
  BY <1>1, InitRing, PTL DEF Spec

\* Every variable keeps its type; what enqueue stores and dequeue returns is an
\* item, so no cell is read before the item of its position is in it.
THEOREM TypeCorrect == Spec => []TypeOK
BY RingKept, PTL

\* A caller between its compare_exchange and its store to sequence_ has its cell
\* to itself, however often the positions have wrapped around.
THEOREM OneInCell == Spec => []CellExclusive
<1>1. TypeOK /\ RingInv => CellExclusive
  BY Apart DEF CellExclusive
<1>2. QED
  BY <1>1, RingKept, PTL

----------------------------------------------------------------------------
(* The ring of detail::mpmc_queue implements the queue of BoundedQueue for *)
(* any number of callers, any size, and positions that wrap around.        *)

----------------------------------------------------------------------------
(* A cell that is not ready has somebody at work in it.                    *)

WhoPuts ==
  \A pos \in Pos : InQueue(pos) /\ NumberAt(pos) = pos =>
    \E p \in Callers : call[p].pc \in PutPC /\ call[p].pos = pos

WhoTakes ==
  \A pos \in Pos : InRoom(pos) /\ NumberAt(pos) # pos =>
    \E p \in Callers : call[p].pc \in TakePC /\ Off(pos, call[p].pos) = Size

\* A caller has an item in hand from the call of enqueue, or from its read of the
\* cell, and what it has put in a cell stays until it is complete.
DataKept ==
  \A p \in Callers :
    /\ call[p].pc = "enqStore" => data[MyCell(p)] = call[p].data
    /\ call[p].pc \notin HasData => call[p].data = NoData

WorkInv == WhoPuts /\ WhoTakes /\ DataKept

\* Steps that begin or end no work in a cell.
LEMMA WorkGoesOn ==
  ASSUME WorkInv, NEW p \in Callers, UNCHANGED <<sequence, enqueue_pos, dequeue_pos>>,
         \A q \in Callers \ {p} : call'[q] = call[q],
         \/ call[p].pc \notin InCell
         \/ /\ call'[p].pos = call[p].pos
            /\ call[p].pc \in PutPC => call'[p].pc \in PutPC
            /\ call[p].pc \in TakePC => call'[p].pc \in TakePC
  PROVE  (WhoPuts /\ WhoTakes)'
<1>2. \A pos \in Pos :
        /\ InQueue(pos)' <=> InQueue(pos)
        /\ InRoom(pos)' <=> InRoom(pos)
        /\ NumberAt(pos)' = NumberAt(pos)
  BY DEF InQueue, InRoom, Length, NumberAt
<1>3. \A q \in Callers :
        /\ call[q].pc \in PutPC => call'[q].pc \in PutPC /\ call'[q].pos = call[q].pos
        /\ call[q].pc \in TakePC => call'[q].pc \in TakePC /\ call'[q].pos = call[q].pos
  BY DEF InCell, PutPC, TakePC
<1>4. WhoPuts'
  BY <1>2, <1>3 DEF WorkInv, WhoPuts
<1>5. WhoTakes'
  BY <1>2, <1>3 DEF WorkInv, WhoTakes
<1>6. QED
  BY <1>4, <1>5

\* What the compare_exchange of enqueue gives: the queue grows by its position.
LEMMA QueueGrows ==
  ASSUME TypeOK, RingInv, NEW p \in Callers, Step(p),
         EnqCas(p), enqueue_pos = call[p].pos
  PROVE  /\ Length \in Nat /\ Length < Size /\ Length' = Length + 1
         /\ \A pos \in Pos : InQueue(pos)' => InQueue(pos) \/ pos = enqueue_pos
         /\ \A pos \in Pos : InRoom(pos)' => InRoom(pos)
<1>1. /\ enqueue_pos \in Pos /\ dequeue_pos \in Pos
      /\ enqueue_pos' = Plus(enqueue_pos, 1) /\ dequeue_pos' = dequeue_pos
      /\ Length \in Nat /\ Length <= Size
  BY RingTypes, OffNext DEF EnqCas, RingInv, Numbers, Length
<1>2. Length' = Length + 1
  BY <1>1, OffNext, Sizes DEF Length
<1>3. Length' <= Size
  BY NextRing DEF RingInv, Numbers
<1>4. Length < Size
  BY <1>1, <1>2, <1>3, Sizes
<1>5. \A pos \in Pos : InQueue(pos)' => InQueue(pos) \/ pos = enqueue_pos
  BY <1>1, <1>2, <1>4, Sizes DEF InQueue, Length, Off, Pos
<1>6. \A pos \in Pos : InRoom(pos)' => InRoom(pos)
  BY <1>1, <1>2, <1>4, NextIs, Sizes DEF InRoom, Off, Pos
<1>7. QED
  BY <1>1, <1>2, <1>4, <1>5, <1>6

\* What the compare_exchange of dequeue gives: the queue begins after its position,
\* whose item is complete.
LEMMA QueueShrinks ==
  ASSUME TypeOK, RingInv, NEW p \in Callers, DeqCas(p), dequeue_pos = call[p].pos
  PROVE  /\ Length \in Nat /\ 1 <= Length /\ Length <= Size /\ Length' = Length - 1
         /\ NumberAt(dequeue_pos) = Plus(dequeue_pos, 1)
         /\ \A pos \in Pos : InQueue(pos)' => InQueue(pos)
         /\ \A pos \in Pos : InRoom(pos)' => InRoom(pos) \/ Off(pos, dequeue_pos) = Size
<1>1. /\ enqueue_pos \in Pos /\ dequeue_pos \in Pos
      /\ dequeue_pos' = Plus(dequeue_pos, 1) /\ enqueue_pos' = enqueue_pos
      /\ Length \in Nat /\ Length <= Size
  BY RingTypes, OffNext DEF DeqCas, RingInv, Numbers, Length
<1>2. NumberAt(dequeue_pos) = Plus(dequeue_pos, 1)
  BY DEF RingInv, Sought, DeqCas, At, Number, MyCell, NumberAt
<1>3. Length >= 1
  <2> SUFFICES ASSUME Length = 0 PROVE FALSE
    BY <1>1
  <2>1. enqueue_pos = dequeue_pos
    BY <1>1, OffNext DEF Length
  <2>2. InRoom(dequeue_pos)
    BY <1>1, <2>1, OffNext, Sizes DEF InRoom
  <2>3. \/ Plus(dequeue_pos, 1) = dequeue_pos
        \/ Off(dequeue_pos, Plus(dequeue_pos, 1)) = Size - 1
    BY <1>1, <1>2, <2>2 DEF RingInv, Numbers
  <2>4. QED
    BY <1>1, <2>3, NextIs, Sizes DEF Off, Pos
<1>4. Length' = Length - 1
  BY <1>1, <1>3, OffNext, Sizes DEF Length
<1>5. \A pos \in Pos : InQueue(pos)' => InQueue(pos)
  BY <1>1, <1>3, <1>4, OffNext, Sizes DEF InQueue, Length
<1>6. \A pos \in Pos : InRoom(pos)' => InRoom(pos) \/ Off(pos, dequeue_pos) = Size
  <2> SUFFICES ASSUME NEW pos \in Pos, InRoom(pos)', ~InRoom(pos)
               PROVE  Off(pos, dequeue_pos) = Size
    OBVIOUS
  <2>1. /\ Off(pos, enqueue_pos) \in Nat
        /\ Off(pos, enqueue_pos) < Size - (Length - 1)
        /\ ~(Off(pos, enqueue_pos) < Size - Length)
    BY <1>1, <1>4, OffNext DEF InRoom
  <2>2. Off(pos, enqueue_pos) + Length = Size
    BY <1>1, <2>1, Sizes
  <2>3. QED
    BY <1>1, <2>2, Sizes DEF Length, Off, Pos
<1>7. QED
  BY <1>1, <1>2, <1>3, <1>4, <1>5, <1>6

\* Every step of a caller keeps WorkInv.
LEMMA NextWork ==
  ASSUME TypeOK, RingInv, WorkInv, NEW p \in Callers, Step(p)
  PROVE  WorkInv'
<1>1. /\ sequence \in [Cell -> Pos] /\ data \in [Cell -> Data \cup {NoData}]
      /\ enqueue_pos \in Pos /\ dequeue_pos \in Pos
      /\ call \in [Callers -> [pc : CallPC, pos : Pos, data : Data \cup {NoData}]]
      /\ \A q \in Callers : call[q].pos \in Pos /\ MyCell(q) \in Cell
  BY RingTypes
<1>2. \A q \in Callers \ {p} : call'[q] = call[q]
  BY <1>1 DEF Step, Enqueue, EnqLoad, EnqSeq, EnqCas, EnqData, EnqStore,
              Dequeue, DeqLoad, DeqSeq, DeqCas, DeqData, DeqStore, Goto, Load, Return
<1>3. DataKept'
  <2>1. DataKept
    BY DEF WorkInv
  <2>2. \A q \in Callers : call[q].pc = "enqStore" /\ call'[q] = call[q] =>
          data'[MyCell(q)] = data[MyCell(q)]
    <3> SUFFICES ASSUME NEW q \in Callers, call[q].pc = "enqStore", call'[q] = call[q],
                        data'[MyCell(q)] # data[MyCell(q)]
                 PROVE  FALSE
      OBVIOUS
    <3>1. EnqData(p)
      BY DEF Step, Enqueue, EnqLoad, EnqSeq, EnqCas, EnqData, EnqStore,
             Dequeue, DeqLoad, DeqSeq, DeqCas, DeqData, DeqStore, ring
    <3>2. p # q /\ call[p].pc = "enqData"
      BY <3>1 DEF EnqData, At
    <3>3. MyCell(p) # MyCell(q)
      BY <3>2, Apart DEF InCell
    <3>4. QED
      BY <1>1, <3>1, <3>3 DEF EnqData
  <2>3. /\ call'[p].pc = "enqStore" => data'[MyCell(p)] = call'[p].data /\ call'[p].pos = call[p].pos
        /\ call'[p].pc \notin HasData => call'[p].data = NoData
    BY <1>1, <2>1 DEF DataKept, HasData, NoCall, At, Step, Enqueue, EnqLoad, EnqSeq, EnqCas, EnqData,
              EnqStore, Dequeue, DeqLoad, DeqSeq, DeqCas, DeqData, DeqStore, Goto, Load, Return
  <2>4. QED
    BY <1>2, <2>1, <2>2, <2>3 DEF DataKept, MyCell
<1>4. (WhoPuts /\ WhoTakes)'
  <2>1. CASE EnqCas(p) /\ enqueue_pos = call[p].pos
    <3>1. /\ call'[p].pc \in PutPC /\ call'[p].pos = enqueue_pos /\ call[p].pc \notin InCell
          /\ sequence' = sequence
      BY <1>1, <2>1 DEF EnqCas, Goto, At, PutPC, InCell, ring
    <3>2. WhoPuts'
      BY <1>2, <2>1, <3>1, QueueGrows DEF WorkInv, WhoPuts, NumberAt, PutPC, InCell
    <3>3. WhoTakes'
      BY <1>2, <2>1, <3>1, QueueGrows DEF WorkInv, WhoTakes, NumberAt, TakePC, InCell
    <3>4. QED
      BY <3>2, <3>3
  <2>2. CASE DeqCas(p) /\ dequeue_pos = call[p].pos
    <3>1. /\ call'[p].pc \in TakePC /\ call'[p].pos = dequeue_pos /\ call[p].pc \notin InCell
          /\ sequence' = sequence
      BY <1>1, <2>2 DEF DeqCas, Goto, At, TakePC, InCell, ring
    <3>2. WhoPuts'
      BY <1>2, <2>2, <3>1, QueueShrinks DEF WorkInv, WhoPuts, NumberAt, PutPC, InCell
    <3>3. WhoTakes'
      BY <1>2, <2>2, <3>1, QueueShrinks DEF WorkInv, WhoTakes, NumberAt, TakePC, InCell
    <3>4. QED
      BY <3>2, <3>3
  <2>3. CASE EnqStore(p) \/ DeqStore(p)
    <3>1. \A pos \in Pos : (InQueue(pos)' <=> InQueue(pos)) /\ (InRoom(pos)' <=> InRoom(pos))
      BY <2>3 DEF EnqStore, DeqStore, positions, InQueue, InRoom, Length
    <3>2. \A pos \in Pos : CellOf(pos) # MyCell(p) => NumberAt(pos)' = NumberAt(pos)
      BY <1>1, <2>3, CellIsCell DEF EnqStore, DeqStore, NumberAt
    <3>3. \A pos \in Pos : CellOf(pos) = MyCell(p) /\ InQueue(pos) => NumberAt(pos)' # pos
      <4> SUFFICES ASSUME NEW pos \in Pos, CellOf(pos) = MyCell(p), InQueue(pos)
                   PROVE  NumberAt(pos)' # pos
        OBVIOUS
      <4>1. EnqStore(p) /\ pos = call[p].pos
        BY <2>3, CellOfPut, CellOfTake DEF EnqStore, DeqStore, At, PutPC, TakePC
      <4>2. NumberAt(pos)' = Plus(pos, 1)
        BY <1>1, <4>1 DEF EnqStore, NumberAt, MyCell
      <4>3. QED
        BY <4>2, NextIs, Sizes DEF Pos
    <3>4. \A pos \in Pos : CellOf(pos) = MyCell(p) /\ InRoom(pos) => NumberAt(pos)' = pos
      <4> SUFFICES ASSUME NEW pos \in Pos, CellOf(pos) = MyCell(p), InRoom(pos)
                   PROVE  NumberAt(pos)' = pos
        OBVIOUS
      <4>1. DeqStore(p) /\ Off(pos, call[p].pos) = Size
        BY <2>3, CellOfPut, CellOfTake DEF EnqStore, DeqStore, At, PutPC, TakePC
      <4>2. call[p].pos \in Pos
        BY <1>1
      <4>3. pos = Plus(call[p].pos, Size)
        BY <4>1, <4>2, LapIs, Sizes DEF Off, Pos
      <4>4. QED
        BY <1>1, <4>1, <4>3 DEF DeqStore, NumberAt, MyCell
    <3>5. WhoPuts'
      <4> SUFFICES ASSUME NEW pos \in Pos, InQueue(pos)', NumberAt(pos)' = pos
                   PROVE  \E q \in Callers : call'[q].pc \in PutPC /\ call'[q].pos = pos
        BY DEF WhoPuts
      <4>1. CellOf(pos) # MyCell(p)
        BY <3>1, <3>3
      <4>2. PICK q \in Callers : call[q].pc \in PutPC /\ call[q].pos = pos
        BY <3>1, <3>2, <4>1 DEF WorkInv, WhoPuts
      <4>3. q # p
        BY <4>1, <4>2 DEF MyCell
      <4>4. QED
        BY <1>2, <4>2, <4>3
    <3>6. WhoTakes'
      <4> SUFFICES ASSUME NEW pos \in Pos, InRoom(pos)', NumberAt(pos)' # pos
                   PROVE  \E q \in Callers : call'[q].pc \in TakePC /\ Off(pos, call'[q].pos) = Size
        BY DEF WhoTakes, Off
      <4>1. CellOf(pos) # MyCell(p)
        BY <3>1, <3>4
      <4>2. PICK q \in Callers : call[q].pc \in TakePC /\ Off(pos, call[q].pos) = Size
        BY <3>1, <3>2, <4>1 DEF WorkInv, WhoTakes
      <4>3. q # p
        BY <1>1, <4>1, <4>2, LapCell DEF MyCell
      <4>4. QED
        BY <1>2, <4>2, <4>3
    <3>7. QED
      BY <3>5, <3>6
  <2>4. CASE /\ ~(EnqCas(p) /\ enqueue_pos = call[p].pos)
             /\ ~(DeqCas(p) /\ dequeue_pos = call[p].pos)
             /\ ~EnqStore(p) /\ ~DeqStore(p) /\ ~EnqData(p)
    <3>1. /\ UNCHANGED <<sequence, enqueue_pos, dequeue_pos>>
          /\ \/ call[p].pc \notin InCell
             \/ /\ call'[p].pos = call[p].pos
                /\ call[p].pc = "deqData" /\ call'[p].pc = "deqStore"
      BY <1>1, <2>4 DEF Step, Enqueue, EnqLoad, EnqSeq, EnqCas, Dequeue, DeqLoad, DeqSeq, DeqCas,
                        DeqData, At, Goto, Load, Return, InCell, ring, positions
    <3>2. QED
      BY <1>2, <3>1, WorkGoesOn DEF PutPC, TakePC
  <2>5. CASE EnqData(p)
    <3>1. /\ UNCHANGED <<sequence, enqueue_pos, dequeue_pos>>
          /\ call[p].pc = "enqData" /\ call'[p].pc = "enqStore" /\ call'[p].pos = call[p].pos
      BY <1>1, <2>5 DEF EnqData, At, Goto, positions
    <3>2. QED
      BY <1>2, <3>1, WorkGoesOn DEF PutPC, TakePC
  <2>6. QED
    BY <2>1, <2>2, <2>3, <2>4, <2>5
<1>5. QED
  BY <1>3, <1>4 DEF WorkInv

----------------------------------------------------------------------------
(* A refusal means what BoundedQueue says, however old the position is.    *)

\* Among Size positions in a row there is one of every cell.
LEMMA WindowCell ==
  ASSUME NEW a \in Pos, NEW b \in Pos
  PROVE  \E c \in Pos : CellOf(c) = CellOf(a) /\ Off(c, b) < Size
<1>1. PICK r \in Int : b = r * Size + CellOf(b)
  BY CellDivides DEF Pos
<1>2. PICK m \in Int : PosMod = m * Size
  BY PosModDivides
<1>3. /\ CellOf(a) \in Cell /\ CellOf(b) \in Cell
      /\ CellOf(a) \in 0 .. Size - 1 /\ CellOf(b) \in 0 .. Size - 1
  BY CellIsCell DEF Cell
<1>4. PICK n \in {0, 1} : CellOf(a) - CellOf(b) + n * Size \in 0 .. Size - 1
  BY <1>3, Sizes
<1> DEFINE c == (r + n) * Size + CellOf(a)
<1>5. c \in Int /\ c = (r + n) * Size + CellOf(a) /\ c - b \in 0 .. Size - 1
  <2>1. c \in Int
    BY <1>3, Sizes
  <2>2. c - b = CellOf(a) - CellOf(b) + n * Size
    BY <1>1, <1>3, Sizes
  <2>3. QED
    BY <1>4, <2>1, <2>2
<1> HIDE DEF c
<1>6. CASE c < PosMod
  <2>1. c \in Pos /\ Off(c, b) < Size
    BY <1>5, <1>6, Sizes DEF Off, Pos
  <2>2. CellOf(c) = CellOf(a)
    BY <1>3, <1>5, CellUnique
  <2>3. QED
    BY <2>1, <2>2
<1>7. CASE c >= PosMod
  <2>1. c - PosMod \in Pos /\ Off(c - PosMod, b) < Size
    BY <1>5, <1>7, Sizes DEF Off, Pos
  <2>2. c - PosMod = (r + n - m) * Size + CellOf(a)
    BY <1>2, <1>3, <1>5, Sizes
  <2>3. CellOf(c - PosMod) = CellOf(a)
    BY <1>3, <2>2, CellUnique
  <2>4. QED
    BY <2>1, <2>3
<1>8. QED
  BY <1>5, <1>6, <1>7, Sizes

\* A number less than half of all positions ahead is not behind.
LEMMA DifAhead ==
  ASSUME NEW a \in Pos, NEW b \in Pos, Off(a, b) < Size + MaxLag
  PROVE  ~(Dif(a, b) < 0)
<1>1. (a - b) % PosMod = Off(a, b) /\ Off(a, b) \in Nat
  BY Sizes DEF Pos, Off
<1>2. Size + MaxLag <= PosMod \div 2 /\ PosMod \div 2 \in Nat
  BY QueueAssumption, Sizes
<1>3. (a - b) % PosMod < PosMod \div 2
  BY <1>1, <1>2, Sizes
<1>4. QED
  BY <1>1, <1>3 DEF Dif

\* enqueue finds no room only if there is none or somebody is reading.
LEMMA RefusedPut ==
  ASSUME TypeOK, RingInv, WorkInv, NEW p \in Callers, call[p].pc = "enqSeq",
         Dif(Number(p), call[p].pos) < 0
  PROVE  Length = Size \/ \E q \in Callers : call[q].pc \in TakePC
<1> DEFINE pos == call[p].pos
<1>1. /\ pos \in Pos /\ Number(p) \in Pos /\ enqueue_pos \in Pos /\ dequeue_pos \in Pos
      /\ Off(enqueue_pos, pos) \in Nat /\ Off(enqueue_pos, pos) <= MaxLag
      /\ Length \in Nat /\ Length <= Size
  BY RingTypes, OffNext DEF RingInv, Sought, Numbers, Length
<1> SUFFICES ASSUME Length < Size, \A q \in Callers : call[q].pc \notin TakePC
             PROVE  Off(Number(p), pos) < Size + MaxLag
  BY <1>1, DifAhead, Sizes
<1>2. PICK c \in Pos : CellOf(c) = CellOf(pos) /\ Off(c, dequeue_pos) < Size
  BY <1>1, WindowCell
<1>3. Number(p) = NumberAt(c)
  BY <1>2 DEF Number, NumberAt, MyCell
<1>4. Off(c, dequeue_pos) \in Nat /\ Off(enqueue_pos, c) \in Nat
  BY <1>1, OffNext
<1>5. CASE InQueue(c)
  <2>1. 1 <= Off(enqueue_pos, c) /\ Off(enqueue_pos, c) < Size
    BY <1>1, <1>5, Sizes DEF InQueue, Length, Off, Pos
  <2>2. Off(enqueue_pos, c) <= Off(enqueue_pos, pos)
    <3> SUFFICES ASSUME Off(enqueue_pos, pos) < Off(enqueue_pos, c) PROVE FALSE
      BY <1>1, <1>4
    <3>1. Off(pos, c) < Size /\ pos # c
      BY <1>1, <2>1, Sizes DEF Off, Pos
    <3>2. QED
      BY <1>1, <1>2, <3>1, NearCell
  <2>3. Off(c, pos) < MaxLag
    BY <1>1, <2>1, <2>2, Sizes DEF Off, Pos
  <2>4. Number(p) = c \/ Number(p) = Plus(c, 1)
    BY <1>3, <1>5 DEF RingInv, Numbers
  <2>5. QED
    BY <1>1, <2>3, <2>4, NextIs, Sizes DEF Off, Pos
<1>6. CASE ~InQueue(c)
  <2>1. Off(c, enqueue_pos) < Size - Length
    BY <1>1, <1>2, <1>6, Sizes DEF InQueue, Length, Off, Pos
  <2>2. Number(p) = c
    BY <1>3, <2>1 DEF InRoom, WorkInv, WhoTakes
  <2>3. QED
    BY <1>1, <2>1, <2>2, Sizes DEF Off, Pos
<1>7. QED
  BY <1>5, <1>6

\* dequeue finds nothing only if the queue is empty or its first item is not complete.
LEMMA RefusedGet ==
  ASSUME TypeOK, RingInv, WorkInv, NEW p \in Callers, call[p].pc = "deqSeq",
         Dif(Number(p), Plus(call[p].pos, 1)) < 0
  PROVE  Length = 0 \/ \E q \in Callers : call[q].pc \in PutPC /\ call[q].pos = dequeue_pos
<1> DEFINE pos == call[p].pos
<1>1. /\ pos \in Pos /\ Number(p) \in Pos /\ enqueue_pos \in Pos /\ dequeue_pos \in Pos
      /\ Off(dequeue_pos, pos) \in Nat /\ Off(dequeue_pos, pos) <= MaxLag
      /\ Length \in Nat /\ Length <= Size /\ Plus(pos, 1) \in Pos
  BY RingTypes, OffNext, NextIs DEF RingInv, Sought, Numbers, Length
<1> SUFFICES ASSUME Length >= 1,
                    ~\E q \in Callers : call[q].pc \in PutPC /\ call[q].pos = dequeue_pos
             PROVE  Off(Number(p), Plus(pos, 1)) < Size + MaxLag
  BY <1>1, DifAhead
<1>2. PICK c \in Pos : CellOf(c) = CellOf(pos) /\ Off(c, dequeue_pos) < Size
  BY <1>1, WindowCell
<1>3. Number(p) = NumberAt(c)
  BY <1>2 DEF Number, NumberAt, MyCell
<1>4. CASE pos = dequeue_pos
  <2>1. c = pos /\ InQueue(c)
    BY <1>1, <1>2, <1>4, NearCell, OffNext DEF InQueue
  <2>2. Number(p) = Plus(pos, 1)
    BY <1>3, <1>4, <2>1 DEF RingInv, Numbers, WorkInv, WhoPuts
  <2>3. QED
    BY <1>1, <2>2, OffNext, Sizes
<1>5. CASE pos # dequeue_pos
  <2>1. /\ Off(c, pos) = Off(c, dequeue_pos) + Off(dequeue_pos, pos)
        /\ Off(c, pos) < Size + MaxLag /\ c # pos
    BY <1>1, <1>2, <1>5, Sizes DEF Off, Pos
  <2>2. Off(c, pos) >= Size /\ Off(c, pos) \in Nat
    BY <1>1, <1>2, <2>1, NearCell, OffNext, Sizes
  <2>3. \/ Number(p) = c \/ Number(p) = Plus(c, 1)
        \/ Off(c, Number(p)) = Size - 1
    <3>1. CASE InQueue(c)
      BY <1>3, <3>1 DEF RingInv, Numbers
    <3>2. CASE ~InQueue(c)
      <4>1. Off(c, enqueue_pos) < Size - Length
        BY <1>1, <1>2, <3>2, Sizes DEF InQueue, Length, Off, Pos
      <4>2. QED
        BY <1>3, <4>1 DEF InRoom, RingInv, Numbers
    <3>3. QED
      BY <3>1, <3>2
  <2>4. QED
    BY <1>1, <2>1, <2>2, <2>3, NextIs, Sizes DEF Off, Pos
<1>6. QED
  BY <1>4, <1>5

----------------------------------------------------------------------------
(* What the refinement mapping shows.                                      *)

Item == [data : Data \cup {NoData}, by : Callers \cup {NoCaller}]

\* The items are those of the positions in the queue; that of a position at which
\* a caller is at work is the caller's, any other is what its cell has.
View ==
  /\ Items \in Seq(Item) /\ Len(Items) = Length
  /\ \A k \in 1 .. Length : Items[k] = ItemAt(Plus(dequeue_pos, k - 1))
  /\ \A pos \in Pos, p \in Callers : call[p].pc \in PutPC /\ call[p].pos = pos =>
       ItemAt(pos) = [data |-> call[p].data, by |-> p]
  /\ \A pos \in Pos : (\A p \in Callers : ~(call[p].pc \in PutPC /\ call[p].pos = pos)) =>
       ItemAt(pos) = [data |-> data[CellOf(pos)], by |-> NoCaller]

\* A function on 1 .. n is a sequence of length n.
LEMMA SeqOf ==
  ASSUME NEW S, NEW n \in Nat, NEW f \in [1 .. n -> S]
  PROVE  f \in Seq(S) /\ Len(f) = n
<1>1. f \in Seq(S)
  BY SeqDef
<1>2. Len(f) \in Nat /\ DOMAIN f = 1 .. Len(f) /\ DOMAIN f = 1 .. n
  BY <1>1, LenProperties
<1>3. QED
  BY <1>1, <1>2

\* The places of the items are in the queue.
LEMMA PlaceIs ==
  ASSUME TypeOK, RingInv, NEW k \in 1 .. Length
  PROVE  /\ Plus(dequeue_pos, k - 1) \in Pos /\ Off(Plus(dequeue_pos, k - 1), dequeue_pos) = k - 1
         /\ InQueue(Plus(dequeue_pos, k - 1)) /\ Plus(dequeue_pos, k - 1) # enqueue_pos
<1>1. /\ dequeue_pos \in Pos /\ enqueue_pos \in Pos
      /\ Length \in Nat /\ Length <= Size
  BY RingTypes, OffNext DEF RingInv, Numbers, Length
<1>2. k \in Nat /\ 1 <= k /\ k <= Length
  BY <1>1
<1>3. Plus(dequeue_pos, k - 1) = IF dequeue_pos + k - 1 < PosMod
                                   THEN dequeue_pos + k - 1 ELSE dequeue_pos + k - 1 - PosMod
  BY <1>1, <1>2, Sizes DEF Plus, Pos
<1>4. /\ Plus(dequeue_pos, k - 1) \in Pos
      /\ Off(Plus(dequeue_pos, k - 1), dequeue_pos) = k - 1
  BY <1>1, <1>2, <1>3, Sizes DEF Off, Pos
<1>5. QED
  BY <1>1, <1>2, <1>4 DEF InQueue, Length

\* What the refinement mapping is made of has the types BoundedQueue wants.
LEMMA ViewIs ==
  ASSUME TypeOK, RingInv
  PROVE  View
<1>1. /\ dequeue_pos \in Pos /\ enqueue_pos \in Pos /\ Length \in Nat
      /\ data \in [Cell -> Data \cup {NoData}]
      /\ \A p \in Callers : call[p].pos \in Pos /\ call[p].data \in Data \cup {NoData}
  BY RingTypes, OffNext DEF Length
<1>2. (enqueue_pos - dequeue_pos) % PosMod = Length
  BY <1>1, Sizes DEF Length, Off, Pos
<1>3. ASSUME NEW pos \in Pos, NEW p \in Callers, call[p].pc \in PutPC, call[p].pos = pos
      PROVE  ItemAt(pos) = [data |-> call[p].data, by |-> p]
  <2>1. Putting(pos) = {p}
    BY <1>3 DEF Putting, PutPC, RingInv, Sole
  <2>2. (CHOOSE q \in Putting(pos) : TRUE) = p
    BY <2>1
  <2>3. QED
    BY <2>1, <2>2 DEF ItemAt
<1>4. ASSUME NEW pos \in Pos,
             \A p \in Callers : ~(call[p].pc \in PutPC /\ call[p].pos = pos)
      PROVE  ItemAt(pos) = [data |-> data[CellOf(pos)], by |-> NoCaller]
  <2>1. Putting(pos) = {}
    BY <1>4 DEF Putting, PutPC
  <2>2. QED
    BY <2>1 DEF ItemAt
<1>5. \A pos \in Pos : ItemAt(pos) \in Item
  <2> SUFFICES ASSUME NEW pos \in Pos PROVE ItemAt(pos) \in Item
    OBVIOUS
  <2>1. CellOf(pos) \in Cell
    BY CellIsCell
  <2>2. CASE \A p \in Callers : ~(call[p].pc \in PutPC /\ call[p].pos = pos)
    BY <1>1, <1>4, <2>1, <2>2 DEF Item
  <2>3. CASE \E p \in Callers : call[p].pc \in PutPC /\ call[p].pos = pos
    BY <1>1, <1>3, <2>3 DEF Item
  <2>4. QED
    BY <2>2, <2>3
<1>6. Items = [k \in 1 .. Length |-> ItemAt(Plus(dequeue_pos, k - 1))]
  BY <1>2 DEF Items
<1>7. Items \in [1 .. Length -> Item]
  BY <1>5, <1>6, PlaceIs
<1>8. Items \in Seq(Item) /\ Len(Items) = Length
  BY <1>1, <1>7, SeqOf
<1>9. QED
  BY <1>3, <1>4, <1>6, <1>8 DEF View

\* A step that gives out no position and puts nothing in its place.
LEMMA SameItems ==
  ASSUME TypeOK, RingInv, View, View', UNCHANGED positions,
         \A q \in Callers :
           /\ call'[q].pc \in PutPC <=> call[q].pc \in PutPC
           /\ call[q].pc \in PutPC => call'[q].pos = call[q].pos /\ call'[q].data = call[q].data,
         \A pos \in Pos :
           InQueue(pos) /\ (\A q \in Callers : ~(call[q].pc \in PutPC /\ call[q].pos = pos)) =>
             data'[CellOf(pos)] = data[CellOf(pos)]
  PROVE  Items' = Items
<1>1. dequeue_pos' = dequeue_pos /\ Length' = Length
  BY DEF positions, Length
<1>2. ASSUME NEW k \in 1 .. Length
      PROVE  Items'[k] = Items[k]
  <2>1. PICK pos \in Pos : pos = Plus(dequeue_pos, k - 1) /\ InQueue(pos)
    BY PlaceIs
  <2>2. Items[k] = ItemAt(pos) /\ Items'[k] = ItemAt(pos)'
    BY <1>1, <2>1 DEF View
  <2>3. CASE \A q \in Callers : ~(call[q].pc \in PutPC /\ call[q].pos = pos)
    <3>1. \A q \in Callers : ~(call'[q].pc \in PutPC /\ call'[q].pos = pos)
      BY <2>3
    <3>2. ItemAt(pos)' = [data |-> data'[CellOf(pos)], by |-> NoCaller]
      BY <2>1, <3>1 DEF View
    <3>3. QED
      BY <2>1, <2>2, <2>3, <3>2 DEF View
  <2>4. CASE \E q \in Callers : call[q].pc \in PutPC /\ call[q].pos = pos
    BY <2>1, <2>2, <2>4 DEF View
  <2>5. QED
    BY <2>3, <2>4
<1>3. Items \in Seq(Item) /\ Items' \in Seq(Item) /\ Len(Items) = Length /\ Len(Items') = Length
  BY <1>1 DEF View
<1>4. QED
  BY <1>2, <1>3, SeqEqual

\* What a caller is doing for the queue, where it is in its call.
Roles ==
  /\ Doing = [p \in Callers |-> Doing[p]]
  /\ \A p \in Callers :
       /\ call[p].pc = "idle" => Doing[p] = [op |-> "none", data |-> call[p].data]
       /\ call[p].pc \in {"enqLoad", "enqSeq", "enqCas"} =>
            Doing[p] = [op |-> "put", data |-> call[p].data]
       /\ call[p].pc \in PutPC => Doing[p] = [op |-> "placed", data |-> call[p].data]
       /\ call[p].pc \in {"deqLoad", "deqSeq", "deqCas"} =>
            Doing[p] = [op |-> "get", data |-> call[p].data]
       /\ call[p].pc = "deqData" => Doing[p] = [op |-> "taken", data |-> data[MyCell(p)]]
       /\ call[p].pc = "deqStore" => Doing[p] = [op |-> "taken", data |-> call[p].data]

\* What each place of a caller is to BoundedQueue.
LEMMA RolesAre == Roles
<1>1. Doing = [p \in Callers |-> Doing[p]]
  BY DEF Doing
<1>2. ASSUME NEW p \in Callers
      PROVE  /\ call[p].pc = "idle" => Doing[p] = [op |-> "none", data |-> call[p].data]
             /\ call[p].pc \in {"enqLoad", "enqSeq", "enqCas"} =>
                  Doing[p] = [op |-> "put", data |-> call[p].data]
             /\ call[p].pc \in PutPC => Doing[p] = [op |-> "placed", data |-> call[p].data]
             /\ call[p].pc \in {"deqLoad", "deqSeq", "deqCas"} =>
                  Doing[p] = [op |-> "get", data |-> call[p].data]
             /\ call[p].pc = "deqData" => Doing[p] = [op |-> "taken", data |-> data[MyCell(p)]]
             /\ call[p].pc = "deqStore" => Doing[p] = [op |-> "taken", data |-> call[p].data]
  BY DEF Doing, PutPC
<1>3. QED
  BY <1>1, <1>2 DEF Roles

\* A step of p changes what p is doing and nobody else.
LEMMA OnlyOne ==
  ASSUME TypeOK, RingInv, NEW p \in Callers, Step(p)
  PROVE  /\ \A q \in Callers \ {p} : call'[q] = call[q] /\ Doing'[q] = Doing[q]
         /\ \A d : Doing'[p] = d => Doing' = [Doing EXCEPT ![p] = d]
<1>1. call \in [Callers -> [pc : CallPC, pos : Pos, data : Data \cup {NoData}]]
      /\ data \in [Cell -> Data \cup {NoData}]
  BY RingTypes
<1>2. \A q \in Callers \ {p} : call'[q] = call[q]
  BY <1>1 DEF Step, Enqueue, EnqLoad, EnqSeq, EnqCas, EnqData, EnqStore,
              Dequeue, DeqLoad, DeqSeq, DeqCas, DeqData, DeqStore, Goto, Load, Return
<1>3. ASSUME NEW q \in Callers \ {p}
      PROVE  call[q].pc = "deqData" => data'[MyCell(q)] = data[MyCell(q)]
  <2> SUFFICES ASSUME call[q].pc = "deqData", data'[MyCell(q)] # data[MyCell(q)]
               PROVE  FALSE
    OBVIOUS
  <2>1. EnqData(p)
    BY DEF Step, Enqueue, EnqLoad, EnqSeq, EnqCas, EnqData, EnqStore,
           Dequeue, DeqLoad, DeqSeq, DeqCas, DeqData, DeqStore, ring
  <2>2. MyCell(p) # MyCell(q)
    BY <2>1, Apart DEF InCell, EnqData, At
  <2>3. QED
    BY <1>1, <2>1, <2>2 DEF EnqData
<1>4. \A q \in Callers \ {p} : Doing'[q] = Doing[q]
  BY <1>2, <1>3 DEF Doing, MyCell
<1>5. Doing = [q \in Callers |-> Doing[q]] /\ Doing' = [q \in Callers |-> Doing'[q]]
  BY DEF Doing
<1>6. \A d : Doing'[p] = d => Doing' = [Doing EXCEPT ![p] = d]
  BY <1>4, <1>5
<1>7. QED
  BY <1>2, <1>4, <1>6

----------------------------------------------------------------------------
(* Every step is one of the queue, or none.                                *)

Inv == TypeOK /\ RingInv /\ WorkInv /\ View /\ Roles

\* The steps outside the cells keep the items.
LEMMA OutsideKeeps ==
  ASSUME Inv, Inv', NEW p \in Callers, Step(p), UNCHANGED <<ring, positions>>,
         call[p].pc \notin PutPC, call'[p].pc \notin PutPC
  PROVE  Items' = Items
<1>1. \A q \in Callers \ {p} : call'[q] = call[q]
  BY OnlyOne DEF Inv
<1>2. \A q \in Callers :
        /\ call'[q].pc \in PutPC <=> call[q].pc \in PutPC
        /\ call[q].pc \in PutPC => call'[q].pos = call[q].pos /\ call'[q].data = call[q].data
  BY <1>1
<1>3. data' = data
  BY DEF ring
<1>4. QED
  BY <1>2, <1>3, SameItems DEF Inv

\* A call of the ring is a call of the queue.
LEMMA CallSteps ==
  ASSUME Inv, Inv', NEW p \in Callers, Step(p),
         (\E d \in Data : Enqueue(p, d)) \/ Dequeue(p)
  PROVE  Queue!Call(p)
<1>1. call \in [Callers -> [pc : CallPC, pos : Pos, data : Data \cup {NoData}]]
  BY RingTypes DEF Inv
<1>2. /\ call[p].pc = "idle" /\ call[p].data = NoData
      /\ UNCHANGED <<ring, positions>> /\ outcome' = [outcome EXCEPT ![p] = NoData]
  BY DEF Enqueue, Dequeue, At, Inv, WorkInv, DataKept, HasData
<1>3. /\ call'[p].pc \in {"enqLoad", "deqLoad"}
      /\ call'[p].pc = "enqLoad" => call'[p].data \in Data
      /\ call'[p].pc = "deqLoad" => call'[p].data = NoData
  BY <1>1, <1>2 DEF Enqueue, Dequeue, Goto
<1>4. Items' = Items
  BY <1>2, <1>3, OutsideKeeps DEF PutPC
<1>5. Doing[p].op = "none"
  BY <1>2 DEF Inv, Roles
<1>6. \/ \E d \in Data : Doing'[p] = [op |-> "put", data |-> d]
      \/ Doing'[p] = [op |-> "get", data |-> NoData]
  BY <1>3 DEF Inv, Roles
<1>7. \/ \E d \in Data : Doing' = [Doing EXCEPT ![p] = [op |-> "put", data |-> d]]
      \/ Doing' = [Doing EXCEPT ![p] = [op |-> "get", data |-> NoData]]
  BY <1>6, OnlyOne DEF Inv
<1>8. QED
  BY <1>2, <1>4, <1>5, <1>7 DEF Queue!Call, Queue!Is, Queue!Becomes

\* Loading a position, reading a number that fits or is newer, losing the
\* compare_exchange, and reading or writing the data are no steps of the queue.
LEMMA SilentSteps ==
  ASSUME Inv, Inv', NEW p \in Callers, Step(p),
         \/ EnqLoad(p) \/ DeqLoad(p)
         \/ EnqSeq(p) /\ call'[p].pc # "idle"
         \/ DeqSeq(p) /\ call'[p].pc # "idle"
         \/ EnqCas(p) /\ enqueue_pos # call[p].pos
         \/ DeqCas(p) /\ dequeue_pos # call[p].pos
         \/ DeqData(p)
  PROVE  UNCHANGED Queue!queueVars
<1>1. call \in [Callers -> [pc : CallPC, pos : Pos, data : Data \cup {NoData}]]
  BY RingTypes DEF Inv
<1>2. /\ UNCHANGED <<ring, positions>> /\ UNCHANGED outcome
      /\ \/ /\ call[p].pc \in {"enqLoad", "enqSeq", "enqCas"}
            /\ call'[p].pc \in {"enqLoad", "enqSeq", "enqCas"}
            /\ call'[p].data = call[p].data
         \/ /\ call[p].pc \in {"deqLoad", "deqSeq", "deqCas"}
            /\ call'[p].pc \in {"deqLoad", "deqSeq", "deqCas"}
            /\ call'[p].data = call[p].data
         \/ /\ call[p].pc = "deqData" /\ call'[p].pc = "deqStore"
            /\ call'[p].data = data[MyCell(p)]
  BY <1>1 DEF EnqLoad, DeqLoad, EnqSeq, DeqSeq, EnqCas, DeqCas, DeqData,
              At, Goto, Load, Return, NoCall, positions
<1>3. Items' = Items
  BY <1>2, OutsideKeeps DEF PutPC
<1>4. Doing'[p] = Doing[p]
  BY <1>2 DEF Inv, Roles
<1>5. Doing' = [Doing EXCEPT ![p] = Doing[p]]
  BY <1>4, OnlyOne DEF Inv
<1>6. Doing' = Doing
  BY <1>5 DEF Inv, Roles
<1>7. QED
  BY <1>2, <1>3, <1>6 DEF Queue!queueVars

\* Writing the data: the item had it from the caller, and has it still.
LEMMA DataSteps ==
  ASSUME Inv, Inv', NEW p \in Callers, Step(p), EnqData(p)
  PROVE  UNCHANGED Queue!queueVars
<1>1. /\ call \in [Callers -> [pc : CallPC, pos : Pos, data : Data \cup {NoData}]]
      /\ data \in [Cell -> Data \cup {NoData}]
  BY RingTypes DEF Inv
<1>2. /\ call[p].pc = "enqData" /\ call'[p].pc = "enqStore"
      /\ call'[p].pos = call[p].pos /\ call'[p].data = call[p].data
      /\ UNCHANGED positions /\ UNCHANGED outcome
      /\ data' = [data EXCEPT ![MyCell(p)] = call[p].data]
      /\ \A q \in Callers \ {p} : call'[q] = call[q]
  BY <1>1 DEF EnqData, At, Goto
<1>3. \A q \in Callers :
        /\ call'[q].pc \in PutPC <=> call[q].pc \in PutPC
        /\ call[q].pc \in PutPC => call'[q].pos = call[q].pos /\ call'[q].data = call[q].data
  BY <1>2 DEF PutPC
<1>4. ASSUME NEW pos \in Pos, InQueue(pos), ~(call[p].pc \in PutPC /\ call[p].pos = pos)
      PROVE  data'[CellOf(pos)] = data[CellOf(pos)]
  <2>1. CellOf(pos) # MyCell(p)
    BY <1>2, <1>4, CellOfPut DEF Inv, PutPC
  <2>2. QED
    BY <1>1, <1>2, <2>1, CellIsCell
<1>5. Items' = Items
  BY <1>2, <1>3, <1>4, SameItems DEF Inv
<1>6. Doing'[p] = Doing[p]
  BY <1>2 DEF Inv, Roles, PutPC
<1>7. Doing' = [Doing EXCEPT ![p] = Doing[p]]
  BY <1>6, OnlyOne DEF Inv
<1>8. Doing' = Doing
  BY <1>7 DEF Inv, Roles
<1>9. QED
  BY <1>2, <1>5, <1>8 DEF Queue!queueVars

\* A refusal.
LEMMA RefusalSteps ==
  ASSUME Inv, Inv', NEW p \in Callers, Step(p), EnqSeq(p) \/ DeqSeq(p), call'[p].pc = "idle"
  PROVE  Queue!NoRoom(p) \/ Queue!Nothing(p)
<1>1. /\ call \in [Callers -> [pc : CallPC, pos : Pos, data : Data \cup {NoData}]]
      /\ dequeue_pos \in Pos /\ enqueue_pos \in Pos /\ Length \in Nat
  BY RingTypes, OffNext DEF Inv, Length
<1>2. /\ UNCHANGED <<ring, positions>> /\ outcome' = [outcome EXCEPT ![p] = FALSE]
      /\ call'[p].data = NoData
      /\ \/ call[p].pc = "enqSeq" /\ Dif(Number(p), call[p].pos) < 0
         \/ call[p].pc = "deqSeq" /\ Dif(Number(p), Plus(call[p].pos, 1)) < 0
  BY <1>1 DEF EnqSeq, DeqSeq, At, Goto, Return, NoCall
<1>3. Items' = Items
  BY <1>2, OutsideKeeps DEF PutPC
<1>4. Doing'[p] = [op |-> "none", data |-> NoData]
  BY <1>2 DEF Inv, Roles
<1>5. Doing' = [Doing EXCEPT ![p] = [op |-> "none", data |-> NoData]]
  BY <1>4, OnlyOne DEF Inv
<1>6. CASE call[p].pc = "enqSeq" /\ Dif(Number(p), call[p].pos) < 0
  <2>1. Length = Size \/ \E q \in Callers : call[q].pc \in TakePC
    BY <1>6, RefusedPut DEF Inv
  <2>2. Len(Items) = Size \/ \E q \in Callers : Doing[q].op = "taken"
    BY <2>1 DEF Inv, View, Roles, TakePC
  <2>3. Doing[p].op = "put"
    BY <1>6 DEF Inv, Roles
  <2>4. QED
    BY <1>2, <1>3, <1>5, <2>2, <2>3 DEF Queue!NoRoom, Queue!Is, Queue!Returns, Queue!Idle
<1>7. CASE call[p].pc = "deqSeq" /\ Dif(Number(p), Plus(call[p].pos, 1)) < 0
  <2>1. Length = 0 \/ \E q \in Callers : call[q].pc \in PutPC /\ call[q].pos = dequeue_pos
    BY <1>7, RefusedGet DEF Inv
  <2>2. Items = <<>> \/ Head(Items).by # NoCaller
    <3>1. CASE Length = 0
      BY <3>1, EmptySeq DEF Inv, View
    <3>2. CASE Length # 0
      <4>1. PICK q \in Callers : call[q].pc \in PutPC /\ call[q].pos = dequeue_pos
        BY <2>1, <3>2
      <4>2. Plus(dequeue_pos, 1 - 1) = dequeue_pos /\ 1 \in 1 .. Length
        BY <1>1, <3>2, Sizes DEF Plus, Pos
      <4>3. Items[1] = [data |-> call[q].data, by |-> q]
        BY <1>1, <4>1, <4>2 DEF Inv, View
      <4>4. QED
        BY <4>3, QueueAssumption
    <3>3. QED
      BY <3>1, <3>2
  <2>3. Doing[p].op = "get"
    BY <1>7 DEF Inv, Roles
  <2>4. QED
    BY <1>2, <1>3, <1>5, <2>2, <2>3 DEF Queue!Nothing, Queue!Is, Queue!Returns, Queue!Idle
<1>8. QED
  BY <1>2, <1>6, <1>7

\* The compare_exchange of enqueue puts the item at the end of the queue.
LEMMA PutStep ==
  ASSUME Inv, Inv', NEW p \in Callers, Step(p), EnqCas(p), enqueue_pos = call[p].pos
  PROVE  Queue!Put(p)
<1>1. /\ call \in [Callers -> [pc : CallPC, pos : Pos, data : Data \cup {NoData}]]
      /\ dequeue_pos \in Pos /\ enqueue_pos \in Pos
  BY RingTypes DEF Inv
<1>2. Length \in Nat /\ Length < Size /\ Length' = Length + 1
  BY QueueGrows DEF Inv
<1>3. /\ call[p].pc = "enqCas" /\ call'[p].pc = "enqData"
      /\ call'[p].pos = enqueue_pos /\ call'[p].data = call[p].data
      /\ data' = data /\ dequeue_pos' = dequeue_pos /\ outcome' = outcome
      /\ \A q \in Callers \ {p} : call'[q] = call[q]
  BY <1>1 DEF EnqCas, At, Goto, ring
<1> DEFINE new == [data |-> call[p].data, by |-> p]
<1>4. \A k \in 1 .. Length : Items'[k] = Items[k]
  <2> SUFFICES ASSUME NEW k \in 1 .. Length PROVE Items'[k] = Items[k]
    OBVIOUS
  <2>1. PICK pos \in Pos : pos = Plus(dequeue_pos, k - 1) /\ pos # enqueue_pos
    BY PlaceIs DEF Inv
  <2>2. Items[k] = ItemAt(pos) /\ Items'[k] = ItemAt(pos)'
    BY <1>2, <1>3, <2>1 DEF Inv, View
  <2>3. \A q \in Callers : call'[q].pc \in PutPC /\ call'[q].pos = pos
                        <=> call[q].pc \in PutPC /\ call[q].pos = pos
    BY <1>3, <2>1 DEF PutPC
  <2>4. CASE \A q \in Callers : ~(call[q].pc \in PutPC /\ call[q].pos = pos)
    <3>1. ItemAt(pos)' = [data |-> data'[CellOf(pos)], by |-> NoCaller]
      BY <2>3, <2>4 DEF Inv, View
    <3>2. QED
      BY <1>3, <2>2, <2>4, <3>1 DEF Inv, View
  <2>5. CASE \E q \in Callers : call[q].pc \in PutPC /\ call[q].pos = pos
    <3>1. PICK q \in Callers : call[q].pc \in PutPC /\ call[q].pos = pos
      BY <2>5
    <3>2. q # p
      BY <1>3, <3>1 DEF PutPC
    <3>3. QED
      BY <1>3, <2>2, <2>3, <3>1, <3>2 DEF Inv, View
  <2>6. QED
    BY <2>4, <2>5
<1>5. Items'[Length + 1] = new
  <2>1. Plus(dequeue_pos, Length + 1 - 1) = enqueue_pos /\ Length + 1 \in 1 .. Length'
    BY <1>1, <1>2, Sizes DEF Plus, Length, Off, Pos
  <2>2. PICK pos \in Pos : pos = enqueue_pos
    BY <1>1
  <2>3. Items'[Length + 1] = ItemAt(pos)'
    BY <1>3, <2>1, <2>2 DEF Inv, View
  <2>4. ItemAt(pos)' = new
    BY <1>3, <2>2 DEF Inv, View, PutPC
  <2>5. QED
    BY <2>3, <2>4
<1>6. Items' = Append(Items, new)
  <2>1. /\ Items \in Seq(Item) /\ Len(Items) = Length
        /\ Items' \in Seq(Item) /\ Len(Items') = Length + 1
    BY <1>2 DEF Inv, View
  <2>2. new \in Item
    BY <1>1 DEF Item
  <2> HIDE DEF new
  <2>3. /\ Append(Items, new) \in Seq(Item) /\ Len(Append(Items, new)) = Length + 1
        /\ \A k \in 1 .. Length : Append(Items, new)[k] = Items[k]
        /\ Append(Items, new)[Length + 1] = new
    BY <2>1, <2>2, AppendProperties
  <2>4. \A k \in 1 .. Length + 1 : Items'[k] = Append(Items, new)[k]
    <3> SUFFICES ASSUME NEW k \in 1 .. Length + 1 PROVE Items'[k] = Append(Items, new)[k]
      OBVIOUS
    <3>1. k \in 1 .. Length \/ k = Length + 1
      BY <1>2
    <3>2. QED
      BY <1>4, <1>5, <2>3, <3>1
  <2>5. QED
    BY <2>1, <2>3, <2>4, SeqEqual
<1>7. Doing[p] = [op |-> "put", data |-> call[p].data]
  BY <1>3 DEF Inv, Roles
<1>8. Doing' = [Doing EXCEPT ![p] = [op |-> "placed", data |-> call[p].data]]
  <2>1. Doing'[p] = [op |-> "placed", data |-> call[p].data]
    BY <1>3 DEF Inv, Roles, PutPC
  <2>2. QED
    BY <2>1, OnlyOne DEF Inv
<1>9. Len(Items) < Size
  BY <1>2 DEF Inv, View
<1>10. QED
  BY <1>3, <1>6, <1>7, <1>8, <1>9 DEF Queue!Put, Queue!Is, Queue!Becomes

\* Its store to sequence_ completes the item.
LEMMA PutEndsStep ==
  ASSUME Inv, Inv', NEW p \in Callers, Step(p), EnqStore(p)
  PROVE  Queue!PutEnds(p)
<1>1. /\ call \in [Callers -> [pc : CallPC, pos : Pos, data : Data \cup {NoData}]]
      /\ dequeue_pos \in Pos /\ Length \in Nat /\ call[p].pos \in Pos
  BY RingTypes, OffNext DEF Inv, Length
<1>2. /\ call[p].pc = "enqStore" /\ call'[p].pc = "idle" /\ call'[p].data = NoData
      /\ UNCHANGED <<data, enqueue_pos, dequeue_pos>>
      /\ outcome' = [outcome EXCEPT ![p] = TRUE]
      /\ \A q \in Callers \ {p} : call'[q] = call[q]
  BY <1>1 DEF EnqStore, At, Return, NoCall, positions
<1>3. data[MyCell(p)] = call[p].data
  BY <1>2 DEF Inv, WorkInv, DataKept
<1>4. ASSUME NEW k \in 1 .. Length
      PROVE  Items'[k] = IF Items[k].by = p THEN [Items[k] EXCEPT !.by = NoCaller] ELSE Items[k]
  <2>1. PICK pos \in Pos : pos = Plus(dequeue_pos, k - 1)
    BY PlaceIs DEF Inv
  <2>2. Items[k] = ItemAt(pos) /\ Items'[k] = ItemAt(pos)'
    BY <1>2, <2>1 DEF Inv, View, Length
  <2>3. CASE pos = call[p].pos
    <3>1. Items[k] = [data |-> call[p].data, by |-> p]
      BY <1>2, <2>2, <2>3 DEF Inv, View, PutPC
    <3>2. \A q \in Callers : ~(call'[q].pc \in PutPC /\ call'[q].pos = pos)
      BY <1>2, <2>3 DEF Inv, RingInv, Sole, PutPC
    <3>3. ItemAt(pos)' = [data |-> data'[CellOf(pos)], by |-> NoCaller]
      BY <3>2 DEF Inv, View
    <3>4. Items'[k] = [data |-> call[p].data, by |-> NoCaller]
      BY <1>2, <1>3, <2>2, <2>3, <3>3 DEF MyCell
    <3>5. QED
      BY <3>1, <3>4
  <2>4. CASE \E q \in Callers \ {p} : call[q].pc \in PutPC /\ call[q].pos = pos
    <3>1. PICK q \in Callers \ {p} : call[q].pc \in PutPC /\ call[q].pos = pos
      BY <2>4
    <3>2. ItemAt(pos) = [data |-> call[q].data, by |-> q]
      BY <3>1 DEF Inv, View
    <3>3. ItemAt(pos)' = [data |-> call[q].data, by |-> q]
      BY <1>2, <3>1 DEF Inv, View
    <3>4. QED
      BY <2>2, <3>1, <3>2, <3>3
  <2>5. CASE \A q \in Callers : ~(call[q].pc \in PutPC /\ call[q].pos = pos)
    <3>1. \A q \in Callers : ~(call'[q].pc \in PutPC /\ call'[q].pos = pos)
      BY <1>2, <2>5 DEF PutPC
    <3>2. ItemAt(pos)' = [data |-> data'[CellOf(pos)], by |-> NoCaller]
      BY <3>1 DEF Inv, View
    <3>3. ItemAt(pos) = [data |-> data[CellOf(pos)], by |-> NoCaller]
      BY <2>5 DEF Inv, View
    <3>4. QED
      BY <1>2, <2>2, <3>2, <3>3, QueueAssumption
  <2>6. QED
    BY <2>3, <2>4, <2>5
<1>5. Items' = [k \in DOMAIN Items |->
                 IF Items[k].by = p THEN [Items[k] EXCEPT !.by = NoCaller] ELSE Items[k]]
  <2>1. Length' = Length
    BY <1>2 DEF Length
  <2>2. /\ DOMAIN Items = 1 .. Length /\ DOMAIN Items' = 1 .. Length
        /\ Items' = [k \in DOMAIN Items' |-> Items'[k]]
    BY <2>1, LenProperties DEF Inv, View
  <2>3. QED
    BY <1>4, <2>2
<1>6. Doing[p].op = "placed"
  BY <1>2 DEF Inv, Roles, PutPC
<1>7. Doing' = [Doing EXCEPT ![p] = [op |-> "none", data |-> NoData]]
  <2>1. Doing'[p] = [op |-> "none", data |-> NoData]
    BY <1>2 DEF Inv, Roles
  <2>2. QED
    BY <2>1, OnlyOne DEF Inv
<1>8. QED
  BY <1>2, <1>5, <1>6, <1>7 DEF Queue!PutEnds, Queue!Is, Queue!Returns, Queue!Idle

\* The compare_exchange of dequeue takes the first item, which is complete.
LEMMA GetStep ==
  ASSUME Inv, Inv', NEW p \in Callers, Step(p), DeqCas(p), dequeue_pos = call[p].pos
  PROVE  Queue!Get(p)
<1>1. /\ call \in [Callers -> [pc : CallPC, pos : Pos, data : Data \cup {NoData}]]
      /\ dequeue_pos \in Pos /\ enqueue_pos \in Pos
  BY RingTypes DEF Inv
<1>2. /\ Length \in Nat /\ 1 <= Length /\ Length <= Size /\ Length' = Length - 1
      /\ NumberAt(dequeue_pos) = Plus(dequeue_pos, 1)
  BY QueueShrinks DEF Inv
<1>3. /\ call[p].pc = "deqCas" /\ call'[p].pc = "deqData" /\ call'[p].pos = dequeue_pos
      /\ data' = data /\ dequeue_pos' = Plus(dequeue_pos, 1) /\ outcome' = outcome
      /\ \A q \in Callers \ {p} : call'[q] = call[q]
  BY <1>1 DEF DeqCas, At, Goto, ring
<1>4. /\ Items \in Seq(Item) /\ Len(Items) = Length
      /\ Items' \in Seq(Item) /\ Len(Items') = Length - 1
      /\ Items # <<>>
  BY <1>2, EmptySeq DEF Inv, View
<1>5. Head(Items) = [data |-> data[CellOf(dequeue_pos)], by |-> NoCaller]
  <2>1. Plus(dequeue_pos, 1 - 1) = dequeue_pos /\ 1 \in 1 .. Length
    BY <1>1, <1>2, Sizes DEF Plus, Pos
  <2>2. ASSUME NEW q \in Callers, call[q].pc \in PutPC, call[q].pos = dequeue_pos
        PROVE  FALSE
    <3>1. NumberAt(dequeue_pos) = dequeue_pos
      BY <2>2 DEF Inv, RingInv, Held, Number, NumberAt, MyCell
    <3>2. QED
      BY <1>1, <1>2, <3>1, NextIs, Sizes DEF Pos
  <2>3. Items[1] = [data |-> data[CellOf(dequeue_pos)], by |-> NoCaller]
    BY <1>1, <2>1, <2>2 DEF Inv, View
  <2>4. QED
    BY <1>4, <2>3
<1>6. Items' = Tail(Items)
  <2>1. /\ Tail(Items) \in Seq(Item) /\ Len(Tail(Items)) = Length - 1
        /\ \A k \in 1 .. Length - 1 : Tail(Items)[k] = Items[k + 1]
    BY <1>4, HeadTailProperties
  <2>2. ASSUME NEW k \in 1 .. Length - 1
        PROVE  Items'[k] = Items[k + 1]
    <3>1. k + 1 \in 1 .. Length /\ k \in Nat /\ k >= 1
      BY <1>2
    <3>2. Plus(dequeue_pos', k - 1) = Plus(dequeue_pos, k + 1 - 1)
      <4>1. k \in Nat /\ 1 <= k /\ k < PosMod
        BY <1>2, Sizes
      <4>2. CASE dequeue_pos + 1 = PosMod
        <5>1. dequeue_pos' = 0 /\ Plus(0, k - 1) = k - 1
          BY <1>1, <1>3, <4>1, <4>2, NextIs, Sizes DEF Plus
        <5>2. (dequeue_pos + (k + 1 - 1)) % PosMod = k - 1
          BY <1>1, <4>1, <4>2, Sizes DEF Pos
        <5>3. QED
          BY <5>1, <5>2 DEF Plus
      <4>3. CASE dequeue_pos + 1 # PosMod
        <5>1. dequeue_pos' = dequeue_pos + 1
          BY <1>1, <1>3, <4>3, NextIs
        <5>2. dequeue_pos + 1 + (k - 1) = dequeue_pos + (k + 1 - 1)
          BY <1>1, <4>1 DEF Pos
        <5>3. QED
          BY <5>1, <5>2 DEF Plus
      <4>4. QED
        BY <4>2, <4>3
    <3>3. PICK pos \in Pos : pos = Plus(dequeue_pos, k + 1 - 1)
      BY <3>1, PlaceIs DEF Inv
    <3>4. Items[k + 1] = ItemAt(pos) /\ Items'[k] = ItemAt(pos)'
      <4>1. Items[k + 1] = ItemAt(pos)
        BY <3>1, <3>3 DEF Inv, View
      <4>2. pos = Plus(dequeue_pos', k - 1) /\ k \in 1 .. Length'
        BY <1>2, <3>2, <3>3
      <4>3. Items'[k] = ItemAt(pos)'
        BY <4>2 DEF Inv, View
      <4>4. QED
        BY <4>1, <4>3
    <3>5. \A q \in Callers : call'[q].pc \in PutPC /\ call'[q].pos = pos
                          <=> call[q].pc \in PutPC /\ call[q].pos = pos
      BY <1>3 DEF PutPC
    <3>6. CASE \A q \in Callers : ~(call[q].pc \in PutPC /\ call[q].pos = pos)
      <4>1. ItemAt(pos)' = [data |-> data'[CellOf(pos)], by |-> NoCaller]
        BY <3>5, <3>6 DEF Inv, View
      <4>2. QED
        BY <1>3, <3>4, <3>6, <4>1 DEF Inv, View
    <3>7. CASE \E q \in Callers : call[q].pc \in PutPC /\ call[q].pos = pos
      <4>1. PICK q \in Callers : call[q].pc \in PutPC /\ call[q].pos = pos
        BY <3>7
      <4>2. q # p
        BY <1>3, <4>1 DEF PutPC
      <4>3. QED
        BY <1>3, <3>4, <3>5, <4>1, <4>2 DEF Inv, View
    <3>8. QED
      BY <3>6, <3>7
  <2>3. \A k \in 1 .. Len(Items') : Items'[k] = Tail(Items)[k]
    BY <1>4, <2>1, <2>2
  <2>4. QED
    BY <1>4, <2>1, <2>3, SeqEqual
<1>7. Doing[p].op = "get"
  BY <1>3 DEF Inv, Roles
<1>8. Head(Items).by = NoCaller /\ Head(Items).data = data[CellOf(dequeue_pos)]
  BY <1>5
<1>9. Doing' = [Doing EXCEPT ![p] = [op |-> "taken", data |-> Head(Items).data]]
  <2>1. Doing'[p] = [op |-> "taken", data |-> data[CellOf(dequeue_pos)]]
    BY <1>3 DEF Inv, Roles, MyCell
  <2>2. Doing'[p] = [op |-> "taken", data |-> Head(Items).data]
    BY <1>8, <2>1
  <2>3. QED
    BY <2>2, OnlyOne DEF Inv
<1>10. QED
  BY <1>3, <1>4, <1>6, <1>7, <1>8, <1>9 DEF Queue!Get, Queue!Is, Queue!Becomes

\* The store of a dequeue ends its Get.
LEMMA GetEndsStep ==
  ASSUME Inv, Inv', NEW p \in Callers, Step(p), DeqStore(p)
  PROVE  Queue!GetEnds(p)
<1>1. call \in [Callers -> [pc : CallPC, pos : Pos, data : Data \cup {NoData}]]
  BY RingTypes DEF Inv
<1>2. /\ call[p].pc = "deqStore" /\ call'[p].pc = "idle" /\ call'[p].data = NoData
      /\ UNCHANGED data /\ UNCHANGED positions
      /\ outcome' = [outcome EXCEPT ![p] = call[p].data]
      /\ \A q \in Callers \ {p} : call'[q] = call[q]
  BY <1>1 DEF DeqStore, At, Return, NoCall
<1>3. \A q \in Callers :
        /\ call'[q].pc \in PutPC <=> call[q].pc \in PutPC
        /\ call[q].pc \in PutPC => call'[q].pos = call[q].pos /\ call'[q].data = call[q].data
  BY <1>2 DEF PutPC
<1>4. Items' = Items
  BY <1>2, <1>3, SameItems DEF Inv
<1>5. Doing[p] = [op |-> "taken", data |-> call[p].data]
  BY <1>2 DEF Inv, Roles
<1>6. Doing' = [Doing EXCEPT ![p] = [op |-> "none", data |-> NoData]]
  <2>1. Doing'[p] = [op |-> "none", data |-> NoData]
    BY <1>2 DEF Inv, Roles
  <2>2. QED
    BY <2>1, OnlyOne DEF Inv
<1>7. QED
  BY <1>2, <1>4, <1>5, <1>6 DEF Queue!GetEnds, Queue!Is, Queue!Returns, Queue!Idle

\* Every step of a caller is one of BoundedQueue, or a stutter.
LEMMA StepImplements ==
  ASSUME Inv, Inv', NEW p \in Callers, Step(p)
  PROVE  Queue!Next \/ UNCHANGED Queue!queueVars
<1>1. CASE (\E d \in Data : Enqueue(p, d)) \/ Dequeue(p)
  BY <1>1, CallSteps DEF Queue!Next
<1>2. CASE EnqLoad(p) \/ DeqLoad(p) \/ DeqData(p)
  BY <1>2, SilentSteps
<1>3. CASE EnqSeq(p) \/ DeqSeq(p)
  BY <1>3, SilentSteps, RefusalSteps DEF Queue!Next
<1>4. CASE EnqCas(p)
  BY <1>4, SilentSteps, PutStep DEF Queue!Next
<1>5. CASE DeqCas(p)
  BY <1>5, SilentSteps, GetStep DEF Queue!Next
<1>6. CASE EnqData(p)
  BY <1>6, DataSteps
<1>7. CASE EnqStore(p)
  BY <1>7, PutEndsStep DEF Queue!Next
<1>8. CASE DeqStore(p)
  BY <1>8, GetEndsStep DEF Queue!Next
<1>9. QED
  BY <1>1, <1>2, <1>3, <1>4, <1>5, <1>6, <1>7, <1>8 DEF Step

\* At the start nobody is at work.
LEMMA InitWork == Init => WorkInv
<1> SUFFICES ASSUME Init PROVE WorkInv
  OBVIOUS
<1>1. \A p \in Callers : call[p].pc = "idle" /\ call[p].data = NoData
  BY DEF Init, NoCall
<1>2. dequeue_pos \in Pos /\ Length = 0
  BY Sizes DEF Init, Length, Off, Pos
<1>3. WhoPuts
  BY <1>2, OffNext DEF WhoPuts, InQueue
<1>4. WhoTakes
  <2> SUFFICES ASSUME NEW pos \in Pos, InRoom(pos) PROVE NumberAt(pos) = pos
    BY DEF WhoTakes
  <2>1. pos \in Cell
    BY <1>2, Sizes DEF InRoom, Init, Off, Pos, Cell
  <2>2. CellOf(pos) = pos
    BY <2>1, Sizes DEF CellOf, Cell
  <2>3. QED
    BY <2>1, <2>2 DEF Init, NumberAt
<1>5. DataKept
  BY <1>1 DEF DataKept, HasData
<1>6. QED
  BY <1>3, <1>4, <1>5 DEF WorkInv

\* WorkInv holds throughout, with RingInv and the types.
LEMMA WorkKept == Spec => []Inv
<1>1. TypeOK /\ RingInv /\ WorkInv /\ [Next]_vars => WorkInv'
  <2>1. ASSUME WorkInv, UNCHANGED vars
        PROVE  WorkInv'
    <3>1. UNCHANGED <<sequence, data, enqueue_pos, dequeue_pos, call>>
      BY <2>1 DEF vars
    <3>2. WhoPuts' /\ WhoTakes'
      BY <2>1, <3>1 DEF WorkInv, WhoPuts, WhoTakes, InQueue, InRoom, Length, NumberAt
    <3>3. DataKept'
      BY <2>1, <3>1 DEF WorkInv, DataKept, MyCell
    <3>4. QED
      BY <3>2, <3>3 DEF WorkInv
  <2>2. QED
    BY <2>1, NextWork DEF Next
<1>2. TypeOK /\ RingInv /\ WorkInv => Inv
  BY ViewIs, RolesAre DEF Inv
<1>3. QED
  BY <1>1, <1>2, InitWork, RingKept, PTL DEF Spec

\* In the new queue there is nothing, and nobody is doing anything.
LEMMA InitImplements == Init /\ Inv => Queue!Init
<1> SUFFICES ASSUME Init, Inv PROVE Queue!Init
  OBVIOUS
<1>1. Length = 0
  BY Sizes DEF Init, Length, Off, Pos
<1>2. Items = <<>>
  BY <1>1, EmptySeq DEF Inv, View
<1>3. \A p \in Callers : Doing[p] = [op |-> "none", data |-> NoData]
  BY DEF Init, NoCall, Inv, Roles
<1>4. Doing = [p \in Callers |-> [op |-> "none", data |-> NoData]]
  BY <1>3 DEF Inv, Roles
<1>5. QED
  BY <1>2, <1>4 DEF Queue!Init, Queue!Idle, Init

\* The ring is a bounded queue whose operations are atomic: for any size, any
\* number of callers and positions that wrap around, what comes out is what went
\* in, in that order, each item once, and a refusal has its reason.
THEOREM RingIsBoundedQueue == Spec => IsBoundedQueue
<1>1. Inv /\ Inv' /\ [Next]_vars => [Queue!Next]_(Queue!queueVars)
  <2>1. ASSUME UNCHANGED vars
        PROVE  UNCHANGED Queue!queueVars
    <3>1. UNCHANGED <<sequence, data, enqueue_pos, dequeue_pos, call, outcome>>
      BY <2>1 DEF vars
    <3>2. Items' = Items
      BY <3>1 DEF Items, ItemAt, Putting
    <3>3. Doing' = Doing
      BY <3>1 DEF Doing, MyCell
    <3>4. QED
      BY <3>1, <3>2, <3>3 DEF Queue!queueVars
  <2>2. QED
    BY <2>1, StepImplements DEF Next
<1>2. QED
  BY <1>1, WorkKept, InitImplements, PTL DEF Spec, IsBoundedQueue, Queue!Spec
==============================================================================
