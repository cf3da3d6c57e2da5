----------------------------- MODULE MpmcQueue -----------------------------
(***************************************************************************)
(* detail::mpmc_queue (include/fiber/detail/mpmc_queue.h), the queue of    *)
(* jobs of each priority: a ring of cells, each with a sequence number     *)
(* that says whose turn it is.  The cell of position pos can be filled     *)
(* when its number is pos and emptied when it is pos + 1; emptying it      *)
(* makes the number pos + Size, the position of the next lap.              *)
(*                                                                         *)
(* An action is one access to an atomic variable or to the data of a cell. *)
(* Positions are size_t: they wrap at PosMod, and are compared by the sign *)
(* of their difference in intptr_t.                                        *)
(***************************************************************************)
EXTENDS Integers, Sequences

CONSTANTS
  Callers,    \* the threads that use the queue
  Data,       \* the jobs
  Size,       \* buffer_size
  PosMod,     \* 2^32 or 2^64, the number of values of size_t
  MaxLag,     \* the most positions given out while a caller is between two steps
  NoData, NoCaller

PowerOf2(n) == \E k \in 1 .. n : 2^k = n

\* The assertion of the constructor; PosMod is a power of 2 as well, and so a
\* multiple of Size, and MaxLag a bound of the model.
ASSUME QueueAssumption ==
  /\ Size \in Nat /\ Size >= 2 /\ PowerOf2(Size)
  /\ PosMod \in Nat /\ PowerOf2(PosMod) /\ PosMod % Size = 0
  /\ MaxLag \in Nat
  /\ Size + MaxLag <= PosMod \div 2
  /\ NoData \notin Data
  /\ NoCaller \notin Callers

VARIABLES
  sequence,      \* sequence_ of each cell
  data,          \* data_ of each cell
  enqueue_pos,   \* enqueue_pos_
  dequeue_pos,   \* dequeue_pos_
  call,          \* where a call is, its pos and its data
  outcome        \* what a caller got from its last call, until the next

vars == <<sequence, data, enqueue_pos, dequeue_pos, call, outcome>>

Pos  == 0 .. PosMod - 1
Cell == 0 .. Size - 1

CallPC == { "idle", "enqLoad", "enqSeq", "enqCas", "enqData", "enqStore",
            "deqLoad", "deqSeq", "deqCas", "deqData", "deqStore" }
NoCall == [pc |-> "idle", pos |-> 0, data |-> NoData]

Init ==
  /\ sequence = [c \in Cell |-> c]
  /\ data = [c \in Cell |-> NoData]
  /\ enqueue_pos = 0
  /\ dequeue_pos = 0
  /\ call = [p \in Callers |-> NoCall]
  /\ outcome = [p \in Callers |-> NoData]

----------------------------------------------------------------------------
Plus(pos, n) == (pos + n) % PosMod
CellOf(pos) == pos % Size

\* (intptr_t)a - (intptr_t)b
Dif(a, b) == LET d == (a - b) % PosMod IN IF d < PosMod \div 2 THEN d ELSE d - PosMod

At(p, pc) == call[p].pc = pc
Goto(p, pc) == call' = [call EXCEPT ![p].pc = pc]
Load(p, pc, pos) == call' = [call EXCEPT ![p].pc = pc, ![p].pos = pos]
MyCell(p) == CellOf(call[p].pos)
Number(p) == sequence[MyCell(p)]

Return(p, what) ==
  /\ call' = [call EXCEPT ![p] = NoCall]
  /\ outcome' = [outcome EXCEPT ![p] = what]

ring == <<sequence, data>>
positions == <<enqueue_pos, dequeue_pos>>

\* The bound: no caller falls behind the position it is after by more than MaxLag,
\* which is far less than a size_t takes to come round.
InStep ==
  \A q \in Callers :
    /\ call[q].pc \in {"enqSeq", "enqCas"} => Dif(enqueue_pos, call[q].pos) < MaxLag
    /\ call[q].pc \in {"deqSeq", "deqCas"} => Dif(dequeue_pos, call[q].pos) < MaxLag

----------------------------------------------------------------------------
(* enqueue                                                                 *)

Enqueue(p, d) ==
  /\ At(p, "idle")
  /\ call' = [call EXCEPT ![p] = [pc |-> "enqLoad", pos |-> 0, data |-> d]]
  /\ outcome' = [outcome EXCEPT ![p] = NoData]
  /\ UNCHANGED <<ring, positions>>

EnqLoad(p) ==
  /\ At(p, "enqLoad")
  /\ Load(p, "enqSeq", enqueue_pos)
  /\ UNCHANGED <<ring, positions, outcome>>

\* A bug: a cell that is not empty yet is good enough.
EnqSeqUnchecked(p) ==
  /\ At(p, "enqSeq")
  /\ Goto(p, IF Dif(Number(p), call[p].pos) <= 0 THEN "enqCas" ELSE "enqLoad")
  /\ UNCHANGED <<ring, positions, outcome>>

\* The cell is empty, or full from the lap before, or somebody was faster.
EnqSeq(p) ==
  /\ At(p, "enqSeq")
  /\ LET dif == Dif(Number(p), call[p].pos) IN
       \/ dif = 0 /\ Goto(p, "enqCas") /\ UNCHANGED outcome
       \/ dif < 0 /\ Return(p, FALSE)
       \/ dif > 0 /\ Goto(p, "enqLoad") /\ UNCHANGED outcome
  /\ UNCHANGED <<ring, positions>>

\* compare_exchange: the position is ours, or pos is the one to try next.
EnqCas(p) ==
  /\ At(p, "enqCas")
  /\ \/ /\ enqueue_pos = call[p].pos
        /\ InStep
        /\ enqueue_pos' = Plus(enqueue_pos, 1)
        /\ Goto(p, "enqData")
     \/ /\ enqueue_pos # call[p].pos
        /\ Load(p, "enqSeq", enqueue_pos)
        /\ UNCHANGED enqueue_pos
  /\ UNCHANGED <<ring, dequeue_pos, outcome>>

EnqData(p) ==
  /\ At(p, "enqData")
  /\ data' = [data EXCEPT ![MyCell(p)] = call[p].data]
  /\ Goto(p, "enqStore")
  /\ UNCHANGED <<sequence, positions, outcome>>

EnqStore(p) ==
  /\ At(p, "enqStore")
  /\ sequence' = [sequence EXCEPT ![MyCell(p)] = Plus(call[p].pos, 1)]
  /\ Return(p, TRUE)
  /\ UNCHANGED <<data, positions>>

----------------------------------------------------------------------------
(* dequeue                                                                 *)

Dequeue(p) ==
  /\ At(p, "idle")
  /\ Goto(p, "deqLoad")
  /\ outcome' = [outcome EXCEPT ![p] = NoData]
  /\ UNCHANGED <<ring, positions>>

DeqLoad(p) ==
  /\ At(p, "deqLoad")
  /\ Load(p, "deqSeq", dequeue_pos)
  /\ UNCHANGED <<ring, positions, outcome>>

DeqSeq(p) ==
  /\ At(p, "deqSeq")
  /\ LET dif == Dif(Number(p), Plus(call[p].pos, 1)) IN
       \/ dif = 0 /\ Goto(p, "deqCas") /\ UNCHANGED outcome
       \/ dif < 0 /\ Return(p, FALSE)
       \/ dif > 0 /\ Goto(p, "deqLoad") /\ UNCHANGED outcome
  /\ UNCHANGED <<ring, positions>>

DeqCas(p) ==
  /\ At(p, "deqCas")
  /\ \/ /\ dequeue_pos = call[p].pos
        /\ InStep
        /\ dequeue_pos' = Plus(dequeue_pos, 1)
        /\ Goto(p, "deqData")
     \/ /\ dequeue_pos # call[p].pos
        /\ Load(p, "deqSeq", dequeue_pos)
        /\ UNCHANGED dequeue_pos
  /\ UNCHANGED <<ring, enqueue_pos, outcome>>

\* A bug: the cell is released with what it held before it was read.
DeqDataNot(p) ==
  /\ At(p, "deqData")
  /\ Goto(p, "deqStore")
  /\ UNCHANGED <<ring, positions, outcome>>

DeqData(p) ==
  /\ At(p, "deqData")
  /\ call' = [call EXCEPT ![p].pc = "deqStore", ![p].data = data[MyCell(p)]]
  /\ UNCHANGED <<ring, positions, outcome>>

\* A bug: pos + buffer_mask_.
DeqStoreMask(p) ==
  /\ At(p, "deqStore")
  /\ sequence' = [sequence EXCEPT ![MyCell(p)] = Plus(call[p].pos, Size - 1)]
  /\ Return(p, call[p].data)
  /\ UNCHANGED <<data, positions>>

DeqStore(p) ==
  /\ At(p, "deqStore")
  /\ sequence' = [sequence EXCEPT ![MyCell(p)] = Plus(call[p].pos, Size)]
  /\ Return(p, call[p].data)
  /\ UNCHANGED <<data, positions>>

Step(p) ==
  \/ \E d \in Data : Enqueue(p, d)
  \/ EnqLoad(p) \/ EnqSeq(p) \/ EnqCas(p) \/ EnqData(p) \/ EnqStore(p)
  \/ Dequeue(p)
  \/ DeqLoad(p) \/ DeqSeq(p) \/ DeqCas(p) \/ DeqData(p) \/ DeqStore(p)

Next == \E p \in Callers : Step(p)
Spec == Init /\ [][Next]_vars

----------------------------------------------------------------------------
HasData == {"enqLoad", "enqSeq", "enqCas", "enqData", "enqStore", "deqStore"}

TypeOK ==
  /\ sequence \in [Cell -> Pos]
  /\ data \in [Cell -> Data \cup {NoData}]
  /\ enqueue_pos \in Pos
  /\ dequeue_pos \in Pos
  /\ call \in [Callers -> [pc : CallPC, pos : Pos, data : Data \cup {NoData}]]
  /\ \A p \in Callers :
       call[p].pc \in HasData => call[p].data \in Data

InCell == {"enqData", "enqStore", "deqData", "deqStore"}

\* mpmc_queue.h:66-67,92-94.  Between its compare_exchange and its store to
\* sequence_ a caller has its cell to itself: data_ is a plain field.
CellExclusive ==
  \A p, q \in Callers :
    call[p].pc \in InCell /\ call[q].pc \in InCell /\ MyCell(p) = MyCell(q) => p = q

----------------------------------------------------------------------------
(* The ring as a queue: the items are at the positions from dequeue_pos to *)
(* enqueue_pos; a call has taken effect when its compare_exchange has.     *)

Putting(pos) ==
  {p \in Callers : call[p].pc \in {"enqData", "enqStore"} /\ call[p].pos = pos}

ItemAt(pos) ==
  IF Putting(pos) = {}
    THEN [data |-> data[CellOf(pos)], by |-> NoCaller]
    ELSE LET p == CHOOSE p \in Putting(pos) : TRUE IN [data |-> call[p].data, by |-> p]

Items ==
  [k \in 1 .. (enqueue_pos - dequeue_pos) % PosMod |-> ItemAt(Plus(dequeue_pos, k - 1))]

Doing ==
  [p \in Callers |->
     [op |-> CASE call[p].pc = "idle" -> "none"
               [] call[p].pc \in {"enqLoad", "enqSeq", "enqCas"} -> "put"
               [] call[p].pc \in {"enqData", "enqStore"} -> "placed"
               [] call[p].pc \in {"deqLoad", "deqSeq", "deqCas"} -> "get"
               [] call[p].pc \in {"deqData", "deqStore"} -> "taken",
      data |-> IF call[p].pc = "deqData" THEN data[MyCell(p)] ELSE call[p].data]]

Queue == INSTANCE BoundedQueue WITH items <- Items, doing <- Doing

\* mpmc_queue.h:45-96.  The ring is a bounded queue whose operations are atomic.
IsBoundedQueue == Queue!Spec
=============================================================================
