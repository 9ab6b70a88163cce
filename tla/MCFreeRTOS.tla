----------------------------- MODULE MCFreeRTOS -----------------------------
(***************************************************************************)
(* Applications for FreeRTOS.                                              *)
(***************************************************************************)
EXTENDS FreeRTOS

MCTasks == {"idle", "a", "b", "c"}

\* An application without calls; the plans below override what they need.
Demo ==     \* main.c: two tasks of priority 1 that yield
    [prio |-> [t \in Tasks |-> 1], start |-> <<"a", "b">>,
     calls |-> [t \in Tasks |-> {}], yields |-> TRUE, irqs |-> {}, lastTick |-> 2 * TickMod, length |-> 2]

Suspend == [op |-> "vTaskSuspendAll"]
Delay(n) == [op |-> "vTaskDelay", ticks |-> n]
DelayUntil(n) == [op |-> "vTaskDelayUntil", increment |-> n]
Send(n, where) == [op |-> "xQueueSend", ticks |-> n, item |-> "m1", position |-> where,
                   timeOut |-> NoTimeOut]
Receive(n, peek) == [op |-> "xQueueReceive", ticks |-> n, peek |-> peek, timeOut |-> NoTimeOut]
Take(n, clear) == [op |-> "ulTaskNotifyTake", ticks |-> n, clearOnExit |-> clear]
Wait(n, clear) == [op |-> "xTaskNotifyWait", ticks |-> n, clearOnEntry |-> clear, clearOnExit |-> TRUE]
NotifyCall(t, action) == [op |-> "xTaskNotify", target |-> t, action |-> action]
Create(t, p) == [op |-> "xTaskCreate", target |-> t, prio |-> p]
Delete(t) == [op |-> "vTaskDelete", target |-> t]

\* Three tasks that sleep across the wrap of the tick counter.
Sleepers ==
    [Demo EXCEPT !.prio = [idle |-> 0, a |-> 2, b |-> 1, c |-> 1], !.start = <<"a", "b", "c">>,
                 !.calls["a"] = {DelayUntil(3)},
                 !.calls["b"] = {Delay(2), Suspend},
                 !.calls["c"] = {Delay(4), Delay(0)}]

SendIrq(m) == [op |-> "xQueueSendFromISR", item |-> m, position |-> "queueSEND_TO_BACK"]
ReceiveIrq == [op |-> "xQueueReceiveFromISR"]

\* Two receivers that an interrupt supplies.
Receivers ==
    [Demo EXCEPT !.prio = [idle |-> 0, a |-> 2, b |-> 1, c |-> 1],
                 !.calls["a"] = {Receive(1, FALSE)}, !.calls["b"] = {Receive(3, FALSE)},
                 !.yields = FALSE, !.lastTick = 2, !.irqs = {SendIrq("m1")}]

\* Two senders that an interrupt makes room for.
Senders ==
    [Receivers EXCEPT !.calls["a"] = {Send(1, "queueSEND_TO_BACK")},
                      !.calls["b"] = {Send(2, "queueSEND_TO_BACK")}, !.irqs = {ReceiveIrq}]

\* A sender, a receiver of higher priority that first looks, and a second receiver.
Pipe ==
    [Receivers EXCEPT !.start = <<"a", "b", "c">>,
                      !.calls["a"] = {Receive(1, TRUE)},
                      !.calls["b"] = {Send(1, "queueSEND_TO_BACK")},
                      !.calls["c"] = {Receive(2, FALSE)}, !.yields = TRUE, !.irqs = {}]

\* Every way in and out, without waiting: the order of the items.
Order ==
    [Demo EXCEPT !.calls["a"] = {Receive(0, FALSE), Receive(0, TRUE), [op |-> "xQueueReset"]},
                 !.calls["b"] = {Send(0, "queueSEND_TO_BACK"), Send(0, "queueSEND_TO_FRONT")},
                 !.irqs = {SendIrq("m2"), ReceiveIrq}]

\* A mailbox: a queue of one item, overwritten by interrupts.
Mailbox ==
    [Demo EXCEPT !.length = 1,
                 !.calls["a"] = {Receive(0, FALSE), Receive(0, TRUE)},
                 !.calls["b"] = {Send(0, "queueOVERWRITE"), Send(0, "queueSEND_TO_FRONT")},
                 !.irqs = {[SendIrq("m2") EXCEPT !.position = "queueOVERWRITE"]}]

\* A receiver that is deleted and created again, while it waits or runs.
Cancel ==
    [Receivers EXCEPT !.calls["a"] = {Receive(2, FALSE)},
                      !.calls["b"] = {Delete("a"), Create("a", 2)}, !.yields = TRUE]

\* Notifications from a task and from an interrupt.
Signals ==
    [Demo EXCEPT !.prio = [idle |-> 0, a |-> 2, b |-> 1, c |-> 1], !.start = <<"a", "b">>,
                 !.calls["a"] = {Take(2, TRUE), Take(3, FALSE), Wait(2, TRUE)},
                 !.calls["b"] = {NotifyCall("a", "eIncrement"), NotifyCall("a", "eNoAction"), Suspend},
                 !.irqs = {[op |-> "xTaskNotifyFromISR", target |-> "a", action |-> "eIncrement"]}]

\* A notification that comes when its task has timed out and not yet run, under
\* a scheduler that a task of higher priority has suspended; a third task takes turns with it.
LateSignals ==
    [Signals EXCEPT !.prio = [idle |-> 0, a |-> 1, b |-> 2, c |-> 1], !.start = <<"a", "b", "c">>,
                    !.calls["a"] = {Take(1, TRUE), Take(0, FALSE), Wait(0, TRUE)},
                    !.calls["b"] = {Delay(1), Suspend, NotifyCall("a", "eIncrement")}]

\* Tasks that come and go.
Lives ==
    [Demo EXCEPT !.prio = [idle |-> 0, a |-> 1, b |-> 2, c |-> 1], !.start = <<"a", "b">>,
                 !.calls["a"] = {Create("c", 1), Create("b", 2), Delete("b"), Delete("c"), Delay(2)},
                 !.calls["b"] = {Delay(3), Delete("b")},
                 !.calls["c"] = {Delay(2), Delete("c")}]
MCPlans ==
    {Demo, Sleepers, Receivers, Senders, Pipe, Order, Mailbox, Cancel, Signals, LateSignals, Lives}

\* A receiver of lower priority waits while the counter wraps.
Wrapping ==
    [Demo EXCEPT !.prio = [idle |-> 0, a |-> 2, b |-> 1, c |-> 1],
                 !.calls["a"] = {Delay(3)}, !.calls["b"] = {Receive(3, FALSE)}, !.yields = FALSE]
TimeoutPlans == {Wrapping}
=============================================================================
