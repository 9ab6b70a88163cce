---------------------------- MODULE FreeRTOSList ----------------------------
(***************************************************************************)
(* The doubly linked list of list.c.  A list is the ring of its items, the *)
(* end marker xListEnd among them, read in the direction of pxNext from    *)
(* the item pxIndex points to.                                             *)
(***************************************************************************)
EXTENDS Naturals, Sequences, SequencesExt

CONSTANT xListEnd       \* the end marker every list contains

vListInitialise == <<xListEnd>>

\* The items from the head on, in the order of the walks of the kernel.
Items(list) ==
    LET end == CHOOSE i \in DOMAIN list : list[i] = xListEnd
    IN  SubSeq(list, end + 1, Len(list)) \o SubSeq(list, 1, end - 1)

IsEmpty(list) == list = vListInitialise
HeadEntry(list) == Head(Items(list))
Holds(list, item) == item # xListEnd /\ \E i \in DOMAIN list : list[i] = item

\* Mutant: the new item goes right behind pxIndex.
vListInsertEnd_Front(list, item) == <<Head(list), item>> \o Tail(list)

\* The new item is the last one that a walk from pxIndex reaches.
vListInsertEnd(list, item) == Append(list, item)

\* Sorted insertion by the values of the items, behind those of the same value; the index of a list
\* in sorted use stays at xListEnd.
vListInsert(list, item, value) ==
    LET items == Items(list)
        later == {i \in DOMAIN items : value[items[i]] > value[item]}
    IN  <<xListEnd>> \o IF later = {} THEN Append(items, item) ELSE InsertAt(items, Min(later), item)

\* Removing the item at the index moves the index back by one.  A list that
\* does not hold the item stays as it is.
uxListRemove(list, item) ==
    IF ~Holds(list, item) THEN list
    ELSE IF Head(list) = item THEN <<Last(list)>> \o SubSeq(list, 2, Len(list) - 1)
    ELSE RemoveAt(list, CHOOSE i \in DOMAIN list : list[i] = item)

\* listGET_OWNER_OF_NEXT_ENTRY: the index moves to the next item and never
\* rests on the end marker; the owner is that of the new index.
NextEntry(list) ==
    LET Rotate(ring) == Append(Tail(ring), Head(ring))
        moved == Rotate(list)
    IN  IF Head(moved) = xListEnd THEN Rotate(moved) ELSE moved
=============================================================================
