------------------------ MODULE FreeRTOSQueue_proofs ------------------------
(***************************************************************************)
(* Proofs about the queue for every application.  Its ring of slots, for   *)
(* any length and any items: each function of queue.c that moves an item   *)
(* does to the content what BoundedQueue says, and keeps the two pointers  *)
(* in step.  And the queue under any calls in any order and any            *)
(* interrupts between them.                                                *)
(***************************************************************************)
EXTENDS FreeRTOSHistory, TLAPS

-----------------------------------------------------------------------------
(* The ring of slots. *)


Fields == {"uxLength", "slots", "waiting", "writeTo", "readFrom", "rxLock", "txLock"}

\* The slot n places behind slot i, for n up to the length.
Onward(q, i, n) == IF i + n >= q.uxLength THEN i + n - q.uxLength ELSE i + n

\* The items lie between the slot read last and the slot to write next.
StorageOK(q) ==
    /\ q = [f \in Fields |-> q[f]]
    /\ q.uxLength \in Nat \ {0}
    /\ q.slots \in [Slots(q) -> Messages \cup {NoMessage}]
    /\ q.waiting \in 0 .. q.uxLength
    /\ q.readFrom \in Slots(q)
    /\ q.writeTo = Behind(q, Onward(q, q.readFrom, q.waiting))

\* The pointers stay in the ring, and one step back undoes one forward.
LEMMA Ring ==
    ASSUME NEW q, q.uxLength \in Nat \ {0}, NEW i \in Slots(q), NEW n \in 0 .. q.uxLength
    PROVE  /\ Behind(q, i) \in Slots(q) /\ Before(q, i) \in Slots(q) /\ Onward(q, i, n) \in Slots(q)
           /\ Behind(q, Before(q, i)) = i /\ Before(q, Behind(q, i)) = i
           /\ n < q.uxLength => Onward(q, i, n + 1) = Behind(q, Onward(q, i, n))
           /\ n > 0 => Onward(q, Behind(q, i), n - 1) = Onward(q, i, n)
<1> DEFINE len == q.uxLength
<1>1. len \in Nat /\ len > 0 /\ i \in Nat /\ i < len /\ n \in Nat /\ n <= len
  BY DEF Slots
<1> HIDE DEF len
<1>2. \A j : /\ Behind(q, j) = IF j + 1 >= len THEN 0 ELSE j + 1
             /\ Before(q, j) = IF j - 1 < 0 THEN len - 1 ELSE j - 1
             /\ \A m : Onward(q, j, m) = IF j + m >= len THEN j + m - len ELSE j + m
  BY DEF Behind, Before, Onward, len
<1>3. \A j \in Nat : j \in Slots(q) <=> j < len
  BY <1>1 DEF Slots, len
<1>4. Behind(q, i) \in Slots(q) /\ Before(q, i) \in Slots(q) /\ Onward(q, i, n) \in Slots(q)
  BY <1>1, <1>2, <1>3
<1>5. Behind(q, Before(q, i)) = i /\ Before(q, Behind(q, i)) = i
  BY <1>1, <1>2
<1>6. n < len => Onward(q, i, n + 1) = Behind(q, Onward(q, i, n))
  BY <1>1, <1>2
<1>7. n > 0 => Onward(q, Behind(q, i), n - 1) = Onward(q, i, n)
  BY <1>1, <1>2
<1> QED BY <1>4, <1>5, <1>6, <1>7 DEF len

\* The i-th item to be received.
Item(q, i) == q.slots[Onward(q, q.readFrom, i)]

\* The content, item by item.
LEMMA ContentIs ==
    ASSUME NEW q, q.waiting \in Nat
    PROVE  Content(q) = [i \in 1 .. q.waiting |-> Item(q, i)] /\ Len(Content(q)) = q.waiting
BY DEF Content, Onward, Item

\* An item to be received later is in another slot.
LEMMA SlotsDiffer ==
    ASSUME NEW q, q.uxLength \in Nat \ {0}, NEW i \in Slots(q),
           NEW m \in 0 .. q.uxLength, NEW n \in 0 .. q.uxLength, m < n, n - m < q.uxLength
    PROVE  Onward(q, i, m) # Onward(q, i, n)
BY DEF Slots, Onward

-----------------------------------------------------------------------------
\* An item sent to the back of a queue that is not full is received last.
THEOREM SendToBack ==
    ASSUME NEW q, StorageOK(q), NEW item \in Messages, ~prvIsQueueFull(q)
    PROVE  LET sent == prvCopyDataToQueue(q, item, "queueSEND_TO_BACK")
           IN  StorageOK(sent) /\ Content(sent) = Append(Content(q), item)
<1> DEFINE sent == prvCopyDataToQueue(q, item, "queueSEND_TO_BACK")
<1>1. /\ sent = [f \in Fields |-> sent[f]] /\ sent.uxLength = q.uxLength
      /\ sent.slots = [q.slots EXCEPT ![q.writeTo] = item]
      /\ sent.writeTo = Behind(q, q.writeTo) /\ sent.waiting = q.waiting + 1
      /\ sent.readFrom = q.readFrom
  BY DEF prvCopyDataToQueue, StorageOK, Fields
<1>2. /\ q.uxLength \in Nat \ {0} /\ q.waiting \in Nat /\ q.waiting < q.uxLength
      /\ q.readFrom \in Slots(q) /\ q.slots \in [Slots(q) -> Messages \cup {NoMessage}]
      /\ q.writeTo = Behind(q, Onward(q, q.readFrom, q.waiting))
  BY DEF StorageOK, prvIsQueueFull
<1>3. q.writeTo = Onward(q, q.readFrom, q.waiting + 1) /\ q.writeTo \in Slots(q)
  BY <1>2, Ring
<1>4. /\ Slots(sent) = Slots(q)
      /\ \A i : Behind(sent, i) = Behind(q, i)
      /\ \A i, n : Onward(sent, i, n) = Onward(q, i, n)
  BY <1>1 DEF Slots, Behind, Onward
<1> HIDE DEF sent
<1>5. StorageOK(sent)
  BY <1>1, <1>2, <1>3, <1>4 DEF StorageOK
<1>6. ASSUME NEW i \in 1 .. q.waiting PROVE Item(sent, i) = Item(q, i)
  <2>1. /\ i \in 0 .. q.uxLength /\ q.waiting + 1 \in 0 .. q.uxLength
        /\ i < q.waiting + 1 /\ q.waiting + 1 - i < q.uxLength
    BY <1>2
  <2>2. Onward(q, q.readFrom, i) \in Slots(q)
    BY <1>2, <2>1, Ring
  <2>3. Onward(q, q.readFrom, i) # q.writeTo
    BY <1>2, <1>3, <2>1, SlotsDiffer
  <2> QED BY <1>1, <1>2, <1>4, <2>2, <2>3 DEF Item
<1>7. Item(sent, q.waiting + 1) = item
  BY <1>1, <1>2, <1>3, <1>4 DEF Item
<1>8. Content(q) = [i \in 1 .. q.waiting |-> Item(q, i)] /\ Len(Content(q)) = q.waiting
  BY <1>2, ContentIs
<1>9. Content(sent) = [i \in 1 .. q.waiting + 1 |-> Item(sent, i)]
  <2>1. sent.waiting \in Nat
    BY <1>1, <1>2
  <2>2. Content(sent) = [i \in 1 .. sent.waiting |-> Item(sent, i)]
    BY <2>1, ContentIs
  <2> QED BY <1>1, <2>2
<1>10. Append(Content(q), item) =
          [i \in 1 .. q.waiting + 1 |-> IF i = q.waiting + 1 THEN item ELSE Content(q)[i]]
  BY <1>2, <1>8
<1>11. Content(sent) = Append(Content(q), item)
  BY <1>2, <1>6, <1>7, <1>8, <1>9, <1>10
<1> QED BY <1>5, <1>11 DEF sent

\* An item sent to the front is received first.
THEOREM SendToFront ==
    ASSUME NEW q, StorageOK(q), NEW item \in Messages, ~prvIsQueueFull(q)
    PROVE  LET sent == prvCopyDataToQueue(q, item, "queueSEND_TO_FRONT")
           IN  StorageOK(sent) /\ Content(sent) = <<item>> \o Content(q)
<1> DEFINE sent == prvCopyDataToQueue(q, item, "queueSEND_TO_FRONT")
           first == Before(q, q.readFrom)
<1>1. /\ sent = [f \in Fields |-> sent[f]] /\ sent.uxLength = q.uxLength
      /\ sent.slots = [q.slots EXCEPT ![q.readFrom] = item]
      /\ sent.writeTo = q.writeTo /\ sent.waiting = q.waiting + 1
      /\ sent.readFrom = first
  BY DEF prvCopyDataToQueue, StorageOK, Fields
<1>2. /\ q.uxLength \in Nat \ {0} /\ q.waiting \in Nat /\ q.waiting < q.uxLength
      /\ q.readFrom \in Slots(q) /\ q.slots \in [Slots(q) -> Messages \cup {NoMessage}]
      /\ q.writeTo = Behind(q, Onward(q, q.readFrom, q.waiting))
  BY DEF StorageOK, prvIsQueueFull
<1>3. /\ Slots(sent) = Slots(q)
      /\ \A i : Behind(sent, i) = Behind(q, i)
      /\ \A i, n : Onward(sent, i, n) = Onward(q, i, n)
  BY <1>1 DEF Slots, Behind, Onward
<1> HIDE DEF sent
<1>4. first \in Slots(q) /\ Behind(q, first) = q.readFrom
  BY <1>2, Ring
<1> HIDE DEF first
<1>5. ASSUME NEW i \in 0 .. q.waiting PROVE Onward(q, first, i + 1) = Onward(q, q.readFrom, i)
  <2>1. i + 1 \in 0 .. q.uxLength /\ i + 1 > 0 /\ (i + 1) - 1 = i
    BY <1>2
  <2> QED BY <1>2, <1>4, <2>1, Ring
<1>6. StorageOK(sent)
  <2>1. sent.waiting \in 0 .. sent.uxLength
    BY <1>1, <1>2
  <2>2. sent.writeTo = Behind(sent, Onward(sent, sent.readFrom, sent.waiting))
    BY <1>1, <1>2, <1>3, <1>5
  <2> QED BY <1>1, <1>2, <1>3, <1>4, <2>1, <2>2 DEF StorageOK
<1>7. ASSUME NEW i \in 1 .. q.waiting PROVE Item(sent, i + 1) = Item(q, i)
  <2>1. /\ 0 \in 0 .. q.uxLength /\ i \in 0 .. q.uxLength /\ 0 < i /\ i - 0 < q.uxLength
        /\ i \in 0 .. q.waiting
    BY <1>2
  <2>2. Onward(q, q.readFrom, i) \in Slots(q)
    BY <1>2, <2>1, Ring
  <2>3. Onward(q, q.readFrom, 0) # Onward(q, q.readFrom, i)
    BY <1>2, <2>1, SlotsDiffer
  <2>4. Onward(q, q.readFrom, 0) = q.readFrom
    BY <1>2 DEF Onward, Slots
  <2> QED BY <1>1, <1>2, <1>3, <1>5, <2>1, <2>2, <2>3, <2>4 DEF Item
<1>8. Item(sent, 1) = item
  <2>1. Onward(q, q.readFrom, 0) = q.readFrom
    BY <1>2 DEF Onward, Slots
  <2>2. Onward(q, first, 1) = q.readFrom
    BY <1>2, <1>5, <2>1
  <2> QED BY <1>1, <1>2, <1>3, <2>2 DEF Item
<1>9. Content(q) = [i \in 1 .. q.waiting |-> Item(q, i)] /\ Len(Content(q)) = q.waiting
  BY <1>2, ContentIs
<1>10. Content(sent) = [i \in 1 .. q.waiting + 1 |-> Item(sent, i)]
  <2>1. sent.waiting \in Nat
    BY <1>1, <1>2
  <2>2. Content(sent) = [i \in 1 .. sent.waiting |-> Item(sent, i)]
    BY <2>1, ContentIs
  <2> QED BY <1>1, <2>2
<1>11. <<item>> \o Content(q) =
          [i \in 1 .. q.waiting + 1 |-> IF i = 1 THEN item ELSE Content(q)[i - 1]]
  BY <1>2, <1>9
<1>12. ASSUME NEW i \in 1 .. q.waiting + 1
       PROVE  Item(sent, i) = IF i = 1 THEN item ELSE Content(q)[i - 1]
  <2>1. CASE i # 1
    <3>1. i - 1 \in 1 .. q.waiting /\ (i - 1) + 1 = i
      BY <1>2, <2>1
    <3> QED BY <1>7, <1>9, <2>1, <3>1
  <2> QED BY <1>8, <2>1
<1>13. Content(sent) = <<item>> \o Content(q)
  BY <1>10, <1>11, <1>12
<1> QED BY <1>6, <1>13 DEF sent

\* An item that overwrites a queue of one item is the only one, whether the
\* queue was empty or not.
THEOREM OverwriteOnly ==
    ASSUME NEW q, StorageOK(q), NEW item \in Messages, q.uxLength = 1
    PROVE  LET sent == prvCopyDataToQueue(q, item, "queueOVERWRITE")
           IN  StorageOK(sent) /\ Content(sent) = <<item>>
<1> DEFINE sent == prvCopyDataToQueue(q, item, "queueOVERWRITE")
<1>1. Slots(q) = {0} /\ Before(q, 0) = 0 /\ Onward(q, 0, 1) = 0
  BY DEF Slots, Before, Onward
<1>2. /\ q.readFrom = 0 /\ q.waiting \in {0, 1} /\ q.slots \in [{0} -> Messages \cup {NoMessage}]
      /\ q.writeTo \in {Behind(q, Onward(q, 0, 0)), Behind(q, Onward(q, 0, 1))}
  <2>1. q.readFrom = 0 /\ q.waiting \in 0 .. 1
    BY <1>1 DEF StorageOK
  <2>2. q.waiting \in {0, 1}
    BY <2>1
  <2> QED BY <1>1, <2>1, <2>2 DEF StorageOK
<1>3. q.writeTo = 0
  BY <1>2 DEF Behind, Onward
<1>4. /\ sent = [f \in Fields |-> sent[f]] /\ sent.uxLength = 1
      /\ sent.slots = [q.slots EXCEPT ![q.readFrom] = item]
      /\ sent.writeTo = q.writeTo /\ sent.readFrom = Before(q, q.readFrom)
      /\ sent.waiting = IF q.waiting > 0 THEN q.waiting ELSE q.waiting + 1
  BY DEF prvCopyDataToQueue, StorageOK, Fields
<1> HIDE DEF sent
<1>5. sent.waiting = 1 /\ sent.readFrom = 0
  BY <1>1, <1>2, <1>4
<1>6. sent.slots[0] = item /\ sent.slots \in [{0} -> Messages \cup {NoMessage}]
  BY <1>2, <1>4
<1>7. StorageOK(sent)
  <2>1. Slots(sent) = {0} /\ Behind(sent, Onward(sent, 0, 1)) = 0
    BY <1>4 DEF Slots, Behind, Onward
  <2>2. sent.uxLength \in Nat \ {0} /\ sent.waiting \in 0 .. sent.uxLength
    BY <1>4, <1>5
  <2>3. sent.slots \in [Slots(sent) -> Messages \cup {NoMessage}] /\ sent.readFrom \in Slots(sent)
    BY <1>5, <1>6, <2>1
  <2>4. sent.writeTo = Behind(sent, Onward(sent, sent.readFrom, sent.waiting))
    BY <1>3, <1>4, <1>5, <2>1
  <2> QED BY <1>4, <2>2, <2>3, <2>4 DEF StorageOK
<1>8. Content(sent) = <<item>>
  <2>1. Content(sent) = [i \in 1 .. sent.waiting |-> Item(sent, i)] /\ Len(Content(sent)) = sent.waiting
    <3>1. sent.waiting \in Nat
      BY <1>5
    <3> QED BY <3>1, ContentIs
  <2>2. Item(sent, 1) = item
    BY <1>4, <1>5, <1>6 DEF Item, Onward
  <2> QED BY <1>5, <2>1, <2>2
<1> QED BY <1>7, <1>8 DEF sent

\* The item read is the first of the content, and what remains is the rest; a
\* peek leaves everything.
THEOREM ReceiveFirst ==
    ASSUME NEW q, StorageOK(q), ~prvIsQueueEmpty(q)
    PROVE  LET copied == prvCopyDataFromQueue(q)
               received == [copied.queue EXCEPT !.waiting = @ - 1]
               peeked == [copied.queue EXCEPT !.readFrom = q.readFrom]
           IN  /\ copied.item = Head(Content(q))
               /\ StorageOK(received) /\ Content(received) = Tail(Content(q))
               /\ peeked = q
<1> DEFINE copied == prvCopyDataFromQueue(q)
           received == [copied.queue EXCEPT !.waiting = @ - 1]
           peeked == [copied.queue EXCEPT !.readFrom = q.readFrom]
           next == Behind(q, q.readFrom)
<1>1. /\ received = [f \in Fields |-> received[f]] /\ received.uxLength = q.uxLength
      /\ received.slots = q.slots /\ received.writeTo = q.writeTo
      /\ received.waiting = q.waiting - 1 /\ received.readFrom = next
  BY DEF prvCopyDataFromQueue, StorageOK, Fields
<1>2. peeked = q
  BY DEF prvCopyDataFromQueue, StorageOK, Fields
<1>3. copied.item = q.slots[next]
  BY DEF prvCopyDataFromQueue
<1>4. /\ q.uxLength \in Nat \ {0} /\ q.waiting \in Nat /\ 0 < q.waiting /\ q.waiting <= q.uxLength
      /\ q.readFrom \in Slots(q) /\ q.slots \in [Slots(q) -> Messages \cup {NoMessage}]
      /\ q.writeTo = Behind(q, Onward(q, q.readFrom, q.waiting))
  BY DEF StorageOK, prvIsQueueEmpty
<1>5. /\ Slots(received) = Slots(q)
      /\ \A i : Behind(received, i) = Behind(q, i)
      /\ \A i, n : Onward(received, i, n) = Onward(q, i, n)
  BY <1>1 DEF Slots, Behind, Onward
<1> HIDE DEF copied, received, peeked
<1>6. next \in Slots(q)
  BY <1>4, Ring
<1> HIDE DEF next
<1>7. ASSUME NEW i \in 1 .. q.waiting PROVE Onward(q, next, i - 1) = Onward(q, q.readFrom, i)
  <2>1. i \in 0 .. q.uxLength /\ i > 0
    BY <1>4
  <2> QED BY <1>4, <2>1, Ring DEF next
<1>8. StorageOK(received)
  <2>1. received.waiting \in 0 .. received.uxLength
    BY <1>1, <1>4
  <2>2. received.writeTo = Behind(received, Onward(received, received.readFrom, received.waiting))
    BY <1>1, <1>4, <1>5, <1>7
  <2> QED BY <1>1, <1>4, <1>5, <1>6, <2>1, <2>2 DEF StorageOK
<1>9. Content(q) = [i \in 1 .. q.waiting |-> Item(q, i)] /\ Len(Content(q)) = q.waiting
  BY <1>4, ContentIs
<1>10. copied.item = Head(Content(q))
  <2>1. Onward(q, q.readFrom, 1) = next
    BY <1>4 DEF next, Onward, Behind, Slots
  <2> QED BY <1>3, <1>4, <1>9, <2>1 DEF Item
<1>11. Content(received) = [i \in 1 .. q.waiting - 1 |-> Item(received, i)]
  <2>1. received.waiting \in Nat
    BY <1>1, <1>4
  <2>2. Content(received) = [i \in 1 .. received.waiting |-> Item(received, i)]
    BY <2>1, ContentIs
  <2> QED BY <1>1, <2>2
<1>12. ASSUME NEW i \in 1 .. q.waiting - 1 PROVE Item(received, i) = Item(q, i + 1)
  <2>1. i + 1 \in 1 .. q.waiting /\ (i + 1) - 1 = i
    BY <1>4
  <2> QED BY <1>1, <1>5, <1>7, <2>1 DEF Item
<1>13. Tail(Content(q)) = [i \in 1 .. q.waiting - 1 |-> Item(q, i + 1)]
  BY <1>4, <1>9
<1>14. Content(received) = Tail(Content(q))
  BY <1>11, <1>12, <1>13
<1> QED BY <1>2, <1>8, <1>10, <1>14 DEF copied, received, peeked

-----------------------------------------------------------------------------
(* The queue of an application. *)


\* What an application that keeps to the assertions of queue.c may send.
MaySend(c) ==
    c.op = "xQueueSend" =>
        /\ c.item \in Messages
        /\ \/ c.position \in {"queueSEND_TO_BACK", "queueSEND_TO_FRONT"}
           \/ c.position = "queueOVERWRITE" /\ queue.uxLength = 1

\* The labels of a call on the queue, and those of a call about to go on.
Asking == {"try", "suspend", "lock", "test", "place"}
Unwinding == {"unlockTx", "unlockRx", "resume", "catchUp", "yield", "held"}

\* A task in the middle of a call keeps the call it was given.
CallsInv ==
    /\ plan \in Plans /\ queue.uxLength = plan.length
    /\ pc = [t \in Tasks |-> pc[t]] /\ local = [t \in Tasks |-> local[t]]
    /\ \A t \in Tasks :
        /\ pc[t] \in Asking => MaySend(local[t])
        /\ pc[t] \in Unwinding =>
            /\ local[t].then \notin (Asking \cup Unwinding) \ {"try"}
            /\ local[t].then = "try" => MaySend(local[t].call)

QueueInv == CallsInv /\ StorageOK(queue)

\* The lock counts of a queue are no part of its content.
LEMMA LocksApart ==
    ASSUME NEW q, StorageOK(q), NEW r, NEW rx, NEW tx,
           r = [q EXCEPT !.rxLock = rx, !.txLock = tx]
    PROVE  StorageOK(r) /\ Content(r) = Content(q) /\ r.uxLength = q.uxLength
<1>1. /\ r = [f \in Fields |-> r[f]] /\ r.uxLength = q.uxLength /\ r.slots = q.slots
      /\ r.waiting = q.waiting /\ r.readFrom = q.readFrom /\ r.writeTo = q.writeTo
  BY DEF StorageOK, Fields
<1>2. /\ Slots(r) = Slots(q)
      /\ \A i : Behind(r, i) = Behind(q, i)
      /\ \A i, n : Onward(r, i, n) = Onward(q, i, n)
  BY <1>1 DEF Slots, Behind, Onward
<1>3. StorageOK(r)
  <2>1. q.writeTo = Behind(q, Onward(q, q.readFrom, q.waiting))
    BY DEF StorageOK
  <2>2. r.writeTo = Behind(r, Onward(r, r.readFrom, r.waiting))
    BY <1>1, <1>2, <2>1
  <2> QED BY <1>1, <1>2, <2>2 DEF StorageOK
<1>4. Content(r) = Content(q)
  BY <1>1 DEF Content
<1> QED BY <1>1, <1>3, <1>4

\* A reset empties the queue.
LEMMA ResetEmpties ==
    ASSUME NEW q, q.uxLength \in Nat \ {0}, q = [f \in Fields |-> q[f]],
           q.slots \in [Slots(q) -> Messages \cup {NoMessage}]
    PROVE  /\ StorageOK(ResetQueue(q)) /\ Content(ResetQueue(q)) = <<>>
           /\ ResetQueue(q).uxLength = q.uxLength
<1> DEFINE r == ResetQueue(q)
<1>1. /\ r = [f \in Fields |-> r[f]] /\ r.uxLength = q.uxLength /\ r.slots = q.slots
      /\ r.waiting = 0 /\ r.writeTo = 0 /\ r.readFrom = q.uxLength - 1
  BY DEF ResetQueue, ResetStorage, Fields
<1> HIDE DEF r
<1>2. Slots(r) = Slots(q) /\ r.readFrom \in Slots(r)
  BY <1>1 DEF Slots
<1>3. r.writeTo = Behind(r, Onward(r, r.readFrom, r.waiting))
  BY <1>1 DEF Behind, Onward
<1>4. Content(r) = <<>>
  BY <1>1 DEF Content
<1>5. StorageOK(r)
  BY <1>1, <1>2, <1>3 DEF StorageOK
<1> QED BY <1>1, <1>4, <1>5 DEF r

\* A send to a queue that may take it is a step of BoundedQueue.
LEMMA SendStep ==
    ASSUME NEW q, StorageOK(q), NEW c, c.item \in Messages, HasRoom(q, c.position),
           \/ c.position \in {"queueSEND_TO_BACK", "queueSEND_TO_FRONT"}
           \/ c.position = "queueOVERWRITE" /\ q.uxLength = 1
    PROVE  LET sent == prvCopyDataToQueue(q, c.item, c.position)
           IN  /\ StorageOK(sent) /\ sent.uxLength = q.uxLength
               /\ \/ Len(Content(q)) < q.uxLength /\ Content(sent) = Append(Content(q), c.item)
                  \/ Len(Content(q)) < q.uxLength /\ Content(sent) = <<c.item>> \o Content(q)
                  \/ q.uxLength = 1 /\ Content(sent) = <<c.item>>
<1> DEFINE sent == prvCopyDataToQueue(q, c.item, c.position)
<1>1. sent.uxLength = q.uxLength
  BY DEF prvCopyDataToQueue, StorageOK, Fields
<1>2. Len(Content(q)) = q.waiting
  BY ContentIs DEF StorageOK
<1>3. CASE c.position = "queueSEND_TO_BACK"
  <2>1. q.waiting < q.uxLength /\ ~prvIsQueueFull(q)
    BY <1>3 DEF HasRoom, prvIsQueueFull, StorageOK
  <2> QED BY <1>1, <1>2, <1>3, <2>1, SendToBack
<1>4. CASE c.position = "queueSEND_TO_FRONT"
  <2>1. q.waiting < q.uxLength /\ ~prvIsQueueFull(q)
    BY <1>4 DEF HasRoom, prvIsQueueFull, StorageOK
  <2> QED BY <1>1, <1>2, <1>4, <2>1, SendToFront
<1>5. CASE c.position = "queueOVERWRITE" /\ q.uxLength = 1
  BY <1>1, <1>5, OverwriteOnly
<1> QED BY <1>3, <1>4, <1>5

\* So is a receive; a peek changes nothing.
LEMMA ReceiveStep ==
    ASSUME NEW q, StorageOK(q), ~prvIsQueueEmpty(q)
    PROVE  LET received == [prvCopyDataFromQueue(q).queue EXCEPT !.waiting = @ - 1]
           IN  /\ StorageOK(received) /\ received.uxLength = q.uxLength
               /\ Content(q) # <<>> /\ Content(received) = Tail(Content(q))
               /\ [prvCopyDataFromQueue(q).queue EXCEPT !.readFrom = q.readFrom] = q
<1>1. Len(Content(q)) = q.waiting /\ q.waiting # 0
  BY ContentIs DEF StorageOK, prvIsQueueEmpty
<1>2. [prvCopyDataFromQueue(q).queue EXCEPT !.waiting = @ - 1].uxLength = q.uxLength
  BY DEF prvCopyDataFromQueue, StorageOK, Fields
<1> QED BY <1>1, <1>2, ReceiveFirst

\* The invariant looks at each task alone.
LEMMA CallsKept ==
    ASSUME CallsInv, plan' = plan, queue'.uxLength = queue.uxLength,
           pc' = [u \in Tasks |-> pc'[u]], local' = [u \in Tasks |-> local'[u]],
           \A u \in Tasks :
              \/ pc'[u] = pc[u] /\ local'[u] = local[u]
              \/ pc'[u] \notin Asking \cup Unwinding
              \/ pc'[u] \in Asking /\ MaySend(local'[u])
              \/ /\ pc'[u] \in Unwinding
                 /\ local'[u].then \notin (Asking \cup Unwinding) \ {"try"}
                 /\ local'[u].then = "try" => MaySend(local'[u].call)
    PROVE  CallsInv'
<1>1. \A c : MaySend(c) <=> MaySend(c)'
  BY DEF MaySend
<1>2. Asking \cap Unwinding = {}
  BY DEF Asking, Unwinding
<1> QED BY <1>1, <1>2 DEF CallsInv

\* What a running call is given up for or goes on with.
LEMMA CallsTask ==
    ASSUME CallsInv, NEW t \in Tasks, TaskStep(t), queue'.uxLength = queue.uxLength
    PROVE  CallsInv'
<1>1. /\ pc = [u \in Tasks |-> pc[u]] /\ local = [u \in Tasks |-> local[u]]
      /\ pc[t] \in Asking => MaySend(local[t])
      /\ pc[t] \in Unwinding =>
            /\ local[t].then \notin (Asking \cup Unwinding) \ {"try"}
            /\ local[t].then = "try" => MaySend(local[t].call)
      /\ plan \in Plans /\ queue.uxLength = plan.length
  BY DEF CallsInv
<1>2. ASSUME NEW c \in plan.calls[t] PROVE MaySend(c)
  <2>1. c.op = "xQueueSend" => c \in Sends(plan)
    BY <1>2 DEF Sends
  <2> QED BY <1>1, <2>1, PlanAssumption DEF MaySend
<1>3. CASE taskYIELD(t) \/ Resuming(t) \/ IdleYield(t)
  BY <1>3, <1>1, CallsKept DEF taskYIELD, Resuming, IdleYield
<1>4. CASE Resume(t)
  BY <1>4, <1>1, CallsKept DEF Resume, Goto, At, Asking, Unwinding
<1>5. CASE ResumeEnd(t) \/ Yield(t)
  BY <1>5, <1>1, CallsKept DEF ResumeEnd, Yield, Goto, Keep, At, Asking, Unwinding
<1>6. CASE SuspendForQueue(t) \/ Lock(t)
  BY <1>6, <1>1, CallsKept DEF SuspendForQueue, Lock, Goto, At, Asking
<1>7. CASE Test(t)
  <2>1. At(t, "test") /\ plan' = plan
    BY <1>7 DEF Test
  <2>2. MaySend(local[t])
    BY <2>1, <1>1 DEF At, Asking
  <2>3. PICK timeOut, ticks : LET call == [local[t] EXCEPT !.timeOut = timeOut, !.ticks = ticks]
           IN  \/ Goto(t, "place") /\ Keep(t, call)
               \/ \E label \in {"user", "try"} : \E mustYield :
                    /\ Goto(t, "unlockTx")
                    /\ Keep(t, [call |-> IF label = "user" THEN NoCall ELSE call,
                                then |-> label, mustYield |-> mustYield])
    BY <1>7 DEF Test
  <2> DEFINE call == [local[t] EXCEPT !.timeOut = timeOut, !.ticks = ticks]
  <2>4. MaySend(call)
    BY <2>2 DEF MaySend
  <2> HIDE DEF call
  <2>5. CASE Goto(t, "place") /\ Keep(t, call)
    BY <1>1, <2>1, <2>4, <2>5, CallsKept DEF Goto, Keep, Asking
  <2>6. ASSUME NEW label \in {"user", "try"}, NEW mustYield, Goto(t, "unlockTx"),
               Keep(t, [call |-> IF label = "user" THEN NoCall ELSE call,
                        then |-> label, mustYield |-> mustYield])
        PROVE  CallsInv'
    BY <1>1, <2>1, <2>4, <2>6, CallsKept DEF Goto, Keep, Asking, Unwinding
  <2> QED BY <2>3, <2>5, <2>6 DEF call
<1>8. CASE Place(t)
  BY <1>8, <1>1, CallsKept DEF Place, Goto, Keep, At, Asking, Unwinding
<1>9. CASE Unlock(t)
  BY <1>9, <1>1, CallsKept DEF Unlock, Goto, At, Asking, Unwinding
<1>10. CASE CollectNotification(t)
  BY <1>10, <1>1, CallsKept DEF CollectNotification, Return, Goto, At, Asking, Unwinding
<1>11. CASE Add(t)
  BY <1>11, <1>1, CallsKept DEF Add, Keep, At, Asking, Unwinding, NoCall
<1>12. CASE ResetNext(t)
  BY <1>12, <1>1, CallsKept DEF ResetNext, Goto, At, Asking, Unwinding
<1>13. CASE IdleLook(t)
  BY <1>13, <1>1, CallsKept DEF IdleLook, ResumeThen, Goto, Keep, At, Asking, Unwinding
<1>14. CASE Reclaimed(t)
  BY <1>14, <1>1, CallsKept DEF Reclaimed, Keep, At, Asking, Unwinding
<1>15. ASSUME NEW c \in Calls(t), SuspendAll(t, c) \/ vTaskDelay(t, c) \/ vTaskDelayUntil(t, c)
       PROVE  CallsInv'
  BY <1>15, <1>1, CallsKept
     DEF SuspendAll, vTaskDelay, vTaskDelayUntil, ResumeThen, Goto, Keep, Asking, Unwinding
<1>16. ASSUME NEW c \in Calls(t), TrySend(t, c) \/ TryReceive(t, c) PROVE CallsInv'
  <2>1. \E possible, done : TryQueue(t, c, possible, done)
    BY <1>16 DEF TrySend, TryReceive
  <2>2. MaySend(c)
    <3>1. c \in plan.calls[t] \/ (pc[t] = "try" /\ c = local[t])
      BY <2>1 DEF TryQueue, Calling, At
    <3> QED BY <3>1, <1>1, <1>2 DEF Asking
  <2>3. \A timeOut : MaySend([c EXCEPT !.timeOut = timeOut])
    BY <2>2 DEF MaySend
  <2>4. CASE Return(t)
    BY <2>1, <2>4, <1>1, CallsKept DEF TryQueue, Return, Goto, Asking, Unwinding
  <2>5. CASE \E call : Goto(t, "suspend") /\ Keep(t, call) /\ MaySend(call)
    BY <2>1, <2>5, <1>1, CallsKept DEF TryQueue, Goto, Keep, Asking
  <2> QED BY <2>1, <2>2, <2>3, <2>4, <2>5 DEF TryQueue
<1>17. ASSUME NEW c \in Calls(t), Reset(t, c) \/ SendNotification(t, c) PROVE CallsInv'
  BY <1>17, <1>1, CallsKept DEF Reset, SendNotification
<1>18. ASSUME NEW c \in Calls(t), AwaitNotify(t, c) PROVE CallsInv'
  BY <1>18, <1>1, CallsKept DEF AwaitNotify, Goto, Keep, Asking, Unwinding
<1>19. ASSUME NEW c \in Calls(t), Allocate(t, c) PROVE CallsInv'
  BY <1>19, <1>1, CallsKept DEF Allocate, ResumeThen, Goto, Keep, Asking, Unwinding
<1>20. ASSUME NEW c \in Calls(t), vTaskDelete(t, c) PROVE CallsInv'
  BY <1>20, <1>1, CallsKept DEF vTaskDelete, Goto, Keep, Asking, Unwinding
<1> QED BY <1>3, <1>4, <1>5, <1>6, <1>7, <1>8, <1>9, <1>10, <1>11, <1>12, <1>13, <1>14,
           <1>15, <1>16, <1>17, <1>18, <1>19, <1>20 DEF TaskStep

\* What may become of a queue in one step: its content changes as BoundedQueue
\* says, or not at all.
Moves(q, r) ==
    /\ StorageOK(r) /\ r.uxLength = q.uxLength
    /\ \/ Content(r) = Content(q)
       \/ Content(q) # <<>> /\ Content(r) = Tail(Content(q))
       \/ Content(r) = <<>>
       \/ \E m \in Messages :
            \/ Len(Content(q)) < q.uxLength /\ Content(r) = Append(Content(q), m)
            \/ Len(Content(q)) < q.uxLength /\ Content(r) = <<m>> \o Content(q)
            \/ q.uxLength = 1 /\ Content(r) = <<m>>

\* The lock counts make no difference.
LEMMA MovesLocked ==
    ASSUME NEW q, NEW r, Moves(q, r), NEW rx, NEW tx,
           NEW s, s = [r EXCEPT !.rxLock = rx, !.txLock = tx]
    PROVE  Moves(q, s)
<1>1. StorageOK(s) /\ Content(s) = Content(r) /\ s.uxLength = r.uxLength
  BY LocksApart DEF Moves
<1> QED BY <1>1 DEF Moves

\* Each call and interrupt that reaches the queue moves it so.
LEMMA TaskMoves ==
    ASSUME QueueInv, NEW t \in Tasks, TaskStep(t)
    PROVE  plan' = plan /\ Moves(queue, queue')
<1> DEFINE q == queue
<1>1. StorageOK(q) /\ CallsInv
  BY DEF QueueInv
<1>2. q = [f \in Fields |-> q[f]]
  BY <1>1 DEF StorageOK
<1>3. ASSUME queue' = queue PROVE Moves(queue, queue')
  BY <1>1, <1>3 DEF Moves
<1>4. CASE Lock(t)
  <2>1. plan' = plan /\ queue' = [q EXCEPT !.rxLock = Max2(@, queueLOCKED_UNMODIFIED),
                                           !.txLock = Max2(@, queueLOCKED_UNMODIFIED)]
    BY <1>4 DEF Lock, prvLockQueue
  <2> QED BY <2>1, <1>1, LocksApart DEF Moves
<1>5. CASE Unlock(t)
  <2>1. plan' = plan /\ \/ queue' = [q EXCEPT !.txLock = queueUNLOCKED]
                        \/ queue' = [q EXCEPT !.rxLock = queueUNLOCKED]
    BY <1>5 DEF Unlock, UnlockTx, UnlockRx
  <2>2. \/ queue' = [q EXCEPT !.rxLock = q.rxLock, !.txLock = queueUNLOCKED]
        \/ queue' = [q EXCEPT !.rxLock = queueUNLOCKED, !.txLock = q.txLock]
    BY <2>1, <1>2 DEF Fields
  <2>3. PICK rx, tx : queue' = [q EXCEPT !.rxLock = rx, !.txLock = tx]
    BY <2>2
  <2> QED BY <2>1, <2>3, <1>1, LocksApart DEF Moves
<1>6. ASSUME NEW c \in Calls(t), Reset(t, c) PROVE plan' = plan /\ Moves(queue, queue')
  <2>1. plan' = plan /\ queue' = ResetQueue(q)
    BY <1>6 DEF Reset, xQueueReset
  <2> QED BY <2>1, <1>1, ResetEmpties DEF Moves, StorageOK
<1>7. ASSUME NEW c \in Calls(t), TrySend(t, c) PROVE plan' = plan /\ Moves(queue, queue')
  <2>1. /\ plan' = plan /\ c.op = "xQueueSend"
        /\ \/ HasRoom(q, c.position) /\ queue' = prvCopyDataToQueue(q, c.item, c.position)
           \/ queue' = q
    BY <1>7 DEF TrySend, TryQueue, SendItem
  <2>2. c \in plan.calls[t] \/ (pc[t] = "try" /\ c = local[t])
    BY <1>7 DEF TrySend, TryQueue, Calling, At
  <2>3. MaySend(c)
    <3>1. CASE c \in plan.calls[t]
      BY <1>1, <2>1, <3>1, PlanAssumption DEF CallsInv, Sends, MaySend
    <3> QED BY <1>1, <2>2, <3>1 DEF CallsInv, Asking
  <2>4. CASE queue' = q
    BY <2>1, <2>4, <1>3
  <2>5. CASE HasRoom(q, c.position) /\ queue' = prvCopyDataToQueue(q, c.item, c.position)
    BY <2>1, <2>3, <2>5, <1>1, SendStep DEF MaySend, Moves
  <2> QED BY <2>1, <2>4, <2>5
<1>8. ASSUME NEW c \in Calls(t), TryReceive(t, c) PROVE plan' = plan /\ Moves(queue, queue')
  <2>1. /\ plan' = plan
        /\ \/ ~prvIsQueueEmpty(q) /\ queue' = [prvCopyDataFromQueue(q).queue EXCEPT !.waiting = @ - 1]
           \/ ~prvIsQueueEmpty(q) /\ queue' = [prvCopyDataFromQueue(q).queue EXCEPT !.readFrom = q.readFrom]
           \/ queue' = q
    BY <1>8 DEF TryReceive, TryQueue, ReceiveItem, PeekItem
  <2> QED BY <2>1, <1>1, <1>3, ReceiveStep DEF Moves
<1>9. ASSUME \/ taskYIELD(t) \/ Yield(t) \/ Resume(t) \/ Resuming(t) \/ ResumeEnd(t)
             \/ SuspendForQueue(t) \/ Test(t) \/ Place(t)
             \/ CollectNotification(t) \/ Add(t) \/ ResetNext(t)
             \/ IdleLook(t) \/ Reclaimed(t) \/ IdleYield(t)
             \/ \E c \in Calls(t) :
                   \/ SuspendAll(t, c) \/ vTaskDelay(t, c) \/ vTaskDelayUntil(t, c)
                   \/ AwaitNotify(t, c) \/ SendNotification(t, c)
                   \/ Allocate(t, c) \/ vTaskDelete(t, c)
      PROVE  plan' = plan /\ queue' = queue
  BY <1>9 DEF taskYIELD, Yield, Resume, Resuming, ResumeEnd, SuspendForQueue, Test, Place,
      CollectNotification, Add, ResetNext, IdleLook, Reclaimed, IdleYield, SuspendAll,
      vTaskDelay, vTaskDelayUntil, AwaitNotify, SendNotification, Allocate, vTaskDelete
<1> HIDE DEF q
<1> QED BY <1>3, <1>4, <1>5, <1>6, <1>7, <1>8, <1>9 DEF TaskStep

\* A handler that uses a queue leaves it as one operation of the bounded queue
\* does, or as it was.
LEMMA InterruptMoves ==
    ASSUME QueueInv, NEW irq \in plan.irqs, Interrupt(irq)
    PROVE  plan' = plan /\ Moves(queue, queue')
<1> DEFINE q == queue
<1>1. StorageOK(q) /\ CallsInv
  BY DEF QueueInv
<1>2. CASE irq.op = "xQueueSendFromISR" /\ HasRoom(q, irq.position)
           /\ queue' = SendFromISR(kernel, q, irq.item, irq.position).queue
  <2> DEFINE sent == prvCopyDataToQueue(q, irq.item, irq.position)
  <2>1. irq \in Sends(plan) /\ plan \in Plans /\ q.uxLength = plan.length
    BY <1>1, <1>2 DEF Sends, CallsInv
  <2>2. Moves(q, sent)
    BY <1>1, <1>2, <2>1, SendStep, PlanAssumption DEF Moves
  <2>3. \E tx : queue' = [sent EXCEPT !.txLock = tx]
    BY <1>2 DEF SendFromISR
  <2> HIDE DEF sent
  <2>4. \E rx, tx : queue' = [sent EXCEPT !.rxLock = rx, !.txLock = tx]
    <3>1. sent = [sent EXCEPT !.rxLock = sent.rxLock]
      BY <2>2 DEF Moves, StorageOK, Fields
    <3> QED BY <2>3, <3>1
  <2>5. Moves(q, queue')
    BY <2>2, <2>4, MovesLocked
  <2> QED BY <2>5 DEF Interrupt
<1>3. CASE irq.op = "xQueueReceiveFromISR" /\ ~prvIsQueueEmpty(q)
           /\ queue' = ReceiveFromISR(kernel, q).queue
  <2> DEFINE received == [prvCopyDataFromQueue(q).queue EXCEPT !.waiting = @ - 1]
  <2>1. Moves(q, received)
    BY <1>1, <1>3, ReceiveStep DEF Moves
  <2>2. \E rx : queue' = [received EXCEPT !.rxLock = rx]
    BY <1>3 DEF ReceiveFromISR
  <2> HIDE DEF received
  <2>3. \E rx, tx : queue' = [received EXCEPT !.rxLock = rx, !.txLock = tx]
    <3>1. PICK rx : queue' = [received EXCEPT !.rxLock = rx]
      BY <2>2
    <3>2. queue' = [received EXCEPT !.rxLock = rx, !.txLock = received.txLock]
      BY <2>1, <3>1 DEF Moves, StorageOK, Fields
    <3> QED BY <3>2
  <2>4. Moves(q, queue')
    BY <2>1, <2>3, MovesLocked
  <2> QED BY <2>4 DEF Interrupt
<1>4. CASE queue' = q
  BY <1>1, <1>4 DEF Moves, Interrupt
<1> QED BY <1>2, <1>3, <1>4 DEF Interrupt

-----------------------------------------------------------------------------
\* The queue starts empty.
LEMMA QueueStarts == Init => QueueInv /\ Content(queue) = <<>>
<1> SUFFICES ASSUME Init PROVE QueueInv /\ Content(queue) = <<>>
  OBVIOUS
<1> DEFINE new == [uxLength |-> plan.length, slots |-> [i \in 0 .. plan.length - 1 |-> NoMessage],
                   waiting |-> 0, writeTo |-> 0, readFrom |-> 0, rxLock |-> 0, txLock |-> 0]
<1>1. /\ plan \in Plans /\ queue = ResetQueue(new)
      /\ pc = [t \in Tasks |-> pc[t]] /\ local = [t \in Tasks |-> local[t]]
      /\ \A t \in Tasks : pc[t] \in {"idle", "user", "none"}
  BY DEF Init, NewQueue
<1>2. /\ new.uxLength = plan.length /\ plan.length \in Nat \ {0} /\ new = [f \in Fields |-> new[f]]
      /\ new.slots \in [Slots(new) -> Messages \cup {NoMessage}]
  BY <1>1, PlanAssumption DEF Fields, Slots
<1> HIDE DEF new
<1>3. StorageOK(queue) /\ Content(queue) = <<>> /\ queue.uxLength = plan.length
  BY <1>1, <1>2, ResetEmpties
<1>4. CallsInv
  BY <1>1, <1>3 DEF CallsInv, Asking, Unwinding
<1> QED BY <1>3, <1>4 DEF QueueInv

\* Every step keeps the invariant, and moves the queue as BoundedQueue says.
LEMMA QueueKept ==
    ASSUME QueueInv, [Next]_vars
    PROVE  QueueInv' /\ Moves(queue, queue')
<1>1. CASE \E t \in Tasks : TaskStep(t)
  <2>1. PICK t \in Tasks : TaskStep(t)
    BY <1>1
  <2>2. Moves(queue, queue')
    BY <2>1, TaskMoves
  <2>3. CallsInv'
    BY <2>1, <2>2, CallsTask DEF QueueInv, Moves
  <2> QED BY <2>2, <2>3 DEF QueueInv, Moves
<1>2. CASE \E irq \in plan.irqs : Interrupt(irq)
  <2>1. PICK irq \in plan.irqs : Interrupt(irq)
    BY <1>2
  <2>2. plan' = plan /\ Moves(queue, queue') /\ UNCHANGED <<pc, local>>
    BY <2>1, InterruptMoves DEF Interrupt
  <2>3. CallsInv'
    BY <2>2, CallsKept DEF QueueInv, Moves, CallsInv
  <2> QED BY <2>2, <2>3 DEF QueueInv, Moves
<1>3. CASE Tick \/ UNCHANGED vars
  <2>1. UNCHANGED <<plan, queue, pc, local>>
    BY <1>3 DEF Tick, vars
  <2>2. CallsInv'
    BY <2>1, CallsKept DEF QueueInv, CallsInv
  <2> QED BY <2>1, <2>2 DEF QueueInv, Moves, StorageOK, Slots, Behind, Onward
<1> QED BY <1>1, <1>2, <1>3 DEF Next

\* The invariant of the queue and of the calls under way holds always.
LEMMA QueueInvHolds == HistorySpec => []QueueInv
<1>1. HistoryInit => QueueInv
  BY QueueStarts DEF HistoryInit
<1>2. QueueInv /\ [HistoryNext]_<<vars, historyVars>> => QueueInv'
  BY QueueKept DEF HistoryNext, HistoryTick, HistoryTask, HistoryInterrupt, Next
<1> QED BY <1>1, <1>2, PTL DEF HistorySpec

\* FifoImplemented: a queue of any length behaves as BoundedQueue, whatever
\* tasks and interrupts send to it, in whatever order, and however often a call
\* is begun again.
THEOREM QueueIsFifo == HistorySpec => FifoImplemented
<1>1. HistoryInit => Content(queue) = <<>>
  BY QueueStarts DEF HistoryInit
<1>2. QueueInv /\ [HistoryNext]_<<vars, historyVars>>
      => [Fifo!QueueNext]_<<queue.uxLength, Content(queue)>>
  <2> SUFFICES ASSUME QueueInv, [HistoryNext]_<<vars, historyVars>>
               PROVE  [Fifo!QueueNext]_<<queue.uxLength, Content(queue)>>
    OBVIOUS
  <2>1. [Next]_vars
    BY DEF HistoryNext, HistoryTick, HistoryTask, HistoryInterrupt, Next
  <2>2. Moves(queue, queue')
    BY <2>1, QueueKept
  <2>3. Content(queue)' = Content(queue')
    BY DEF Content
  <2> QED BY <2>2, <2>3 DEF Moves, Fifo!QueueNext, Fifo!QueueStep, Fifo!PutBack, Fifo!PutFront,
        Fifo!Overwrite, Fifo!Get, Fifo!Clear
<1> QED BY <1>1, <1>2, QueueInvHolds, PTL DEF HistorySpec, FifoImplemented, Fifo!QueueSpec
=============================================================================
