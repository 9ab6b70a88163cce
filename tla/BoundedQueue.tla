---------------------------- MODULE BoundedQueue ----------------------------
(***************************************************************************)
(* What queue.h promises: a queue of at most room items, sent to its back  *)
(* or its front or over its newest item, and received from its front.      *)
(***************************************************************************)
EXTENDS Naturals, Sequences

CONSTANT Messages

VARIABLES
    room,           \* the items it has room for, fixed
    content         \* its items, the one to be received first

PutBack(m)   == Len(content) < room /\ content' = Append(content, m)
PutFront(m)  == Len(content) < room /\ content' = <<m>> \o content
Overwrite(m) == room = 1 /\ content' = <<m>>
Get          == content # <<>> /\ content' = Tail(content)
Clear        == content' = <<>>

QueueStep ==
    \/ Get \/ Clear
    \/ \E m \in Messages : PutBack(m) \/ PutFront(m) \/ Overwrite(m)

QueueNext == QueueStep /\ UNCHANGED room

QueueSpec == content = <<>> /\ [][QueueNext]_<<room, content>>
=============================================================================
