---------------------------- MODULE BoundedQueue ----------------------------
(***************************************************************************)
(* What the callers of mpmc_queue may rely on.  Both operations take       *)
(* effect at one moment between call and return: the items come out in the *)
(* order they went in, each once, and there are never more than Size.      *)
(*                                                                         *)
(* It is weaker than a locked queue in what a refusal means.  An item is   *)
(* in its place before its data is, so get may find nothing while the      *)
(* oldest item is still being put, even if later ones are complete; and    *)
(* the room of an item is free again only when its data has been read, so  *)
(* put may find no room while somebody is reading.                         *)
(***************************************************************************)
EXTENDS Naturals, Sequences

CONSTANTS Callers, Data, Size, NoData, NoCaller

VARIABLES
  items,    \* oldest first: its data, and who is still putting it
  doing,    \* what each caller is doing, with the data it has in hand
  outcome   \* what it got from its last call, until the next

queueVars == <<items, doing, outcome>>

Idle == [op |-> "none", data |-> NoData]

Init ==
  /\ items = <<>>
  /\ doing = [p \in Callers |-> Idle]
  /\ outcome = [p \in Callers |-> NoData]

Is(p, op) == doing[p].op = op
Becomes(p, op, d) == doing' = [doing EXCEPT ![p] = [op |-> op, data |-> d]]
Returns(p, what) ==
  /\ doing' = [doing EXCEPT ![p] = Idle]
  /\ outcome' = [outcome EXCEPT ![p] = what]

Call(p) ==
  /\ Is(p, "none")
  /\ \/ \E d \in Data : Becomes(p, "put", d)
     \/ Becomes(p, "get", NoData)
  /\ outcome' = [outcome EXCEPT ![p] = NoData]
  /\ UNCHANGED items

Put(p) ==
  /\ Is(p, "put")
  /\ Len(items) < Size
  /\ items' = Append(items, [data |-> doing[p].data, by |-> p])
  /\ Becomes(p, "placed", doing[p].data)
  /\ UNCHANGED outcome

\* The data of the item is there; until then nobody could take the item.
PutEnds(p) ==
  /\ Is(p, "placed")
  /\ items' = [k \in DOMAIN items |->
                IF items[k].by = p THEN [items[k] EXCEPT !.by = NoCaller] ELSE items[k]]
  /\ Returns(p, TRUE)

NoRoom(p) ==
  /\ Is(p, "put")
  /\ Len(items) = Size \/ \E q \in Callers : Is(q, "taken")
  /\ Returns(p, FALSE)
  /\ UNCHANGED items

Get(p) ==
  /\ Is(p, "get")
  /\ items # <<>>
  /\ Head(items).by = NoCaller
  /\ items' = Tail(items)
  /\ Becomes(p, "taken", Head(items).data)
  /\ UNCHANGED outcome

GetEnds(p) ==
  /\ Is(p, "taken")
  /\ Returns(p, doing[p].data)
  /\ UNCHANGED items

Nothing(p) ==
  /\ Is(p, "get")
  /\ items = <<>> \/ Head(items).by # NoCaller
  /\ Returns(p, FALSE)
  /\ UNCHANGED items

Next ==
  \E p \in Callers :
    Call(p) \/ Put(p) \/ PutEnds(p) \/ NoRoom(p) \/ Get(p) \/ GetEnds(p) \/ Nothing(p)

Spec == Init /\ [][Next]_queueVars
=============================================================================
