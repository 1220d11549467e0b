--------------------------- MODULE CircularQueue ---------------------------
(***************************************************************************)
(* circularQueue.h of the sensor board: index arithmetic for a queue whose *)
(* elements are kept in an array elsewhere.  The queue runs from front     *)
(* downwards to back, modulo size; front = back = size marks it empty.     *)
(*                                                                         *)
(* Each function returns the queue it leaves behind and, as ok, whether it *)
(* returned SUCCESS.                                                       *)
(***************************************************************************)
EXTENDS Integers, Sequences, SequencesExt

Queues(size) ==
    {[front |-> size, back |-> size, size |-> size]}
        \cup [front : 0 .. size - 1, back : 0 .. size - 1, size : {size}]

cqueue_initZero(size) == [front |-> 0, back |-> 0, size |-> size]
cqueue_init(size) == [front |-> size, back |-> size, size |-> size]

cqueue_privInc(cq, n) == IF n + 1 = cq.size THEN 0 ELSE n + 1
cqueue_privDec(cq, n) == IF n # 0 THEN n - 1 ELSE cq.size - 1

cqueue_isEmpty(cq) == cq.front = cq.size
cqueue_isFull(cq) == cqueue_privDec(cq, cq.back) = cq.front

cqueue_numElements(cq) ==
    IF cqueue_isEmpty(cq) THEN 0
    ELSE IF cq.front >= cq.back THEN cq.front - cq.back + 1
    ELSE cq.size + cq.front - cq.back + 1

Returns(cq, ok) == [queue |-> cq, ok |-> ok]
OnlyElement(cq) == [cq EXCEPT !.front = 0, !.back = 0]
NoElement(cq) == [cq EXCEPT !.front = cq.size, !.back = cq.size]

cqueue_pushFront(cq) ==
    LET newfront == cqueue_privInc(cq, cq.front)
    IN  IF cqueue_isEmpty(cq) THEN Returns(OnlyElement(cq), TRUE)
        ELSE IF newfront = cq.back THEN Returns(cq, FALSE)
        ELSE Returns([cq EXCEPT !.front = newfront], TRUE)

cqueue_pushBackNoCheck(cq) ==
    IF cqueue_isEmpty(cq) THEN Returns(OnlyElement(cq), TRUE)
    ELSE Returns([cq EXCEPT !.back = cqueue_privDec(cq, cq.back)], TRUE)

cqueue_pushBack(cq) ==
    LET newback == cqueue_privDec(cq, cq.back)
    IN  IF cqueue_isEmpty(cq) THEN Returns(OnlyElement(cq), TRUE)
        ELSE IF newback = cq.front THEN Returns(cq, FALSE)
        ELSE Returns([cq EXCEPT !.back = newback], TRUE)

\* Popping the last element succeeds in emptying the queue but returns FAIL.
cqueue_popFront(cq) ==
    IF cqueue_isEmpty(cq) THEN Returns(cq, FALSE)
    ELSE IF cq.front = cq.back THEN Returns(NoElement(cq), FALSE)
    ELSE Returns([cq EXCEPT !.front = cqueue_privDec(cq, cq.front)], TRUE)

cqueue_popBack(cq) ==
    IF cqueue_isEmpty(cq) THEN Returns(cq, FALSE)
    ELSE IF cq.front = cq.back THEN Returns(NoElement(cq), FALSE)
    ELSE Returns([cq EXCEPT !.back = cqueue_privInc(cq, cq.back)], TRUE)

cqueue_forciblyPushFront(cq) ==
    LET newfront == cqueue_privInc(cq, cq.front)
    IN  IF cqueue_isEmpty(cq) THEN Returns(OnlyElement(cq), TRUE)
        ELSE Returns([cq EXCEPT
                !.front = newfront,
                !.back = IF newfront = @ THEN cqueue_privInc(cq, @) ELSE @], TRUE)

cqueue_forciblyPushBack(cq) ==
    LET newback == cqueue_privDec(cq, cq.back)
    IN  IF cqueue_isEmpty(cq) THEN Returns(OnlyElement(cq), TRUE)
        ELSE Returns([cq EXCEPT
                !.back = newback,
                !.front = IF newback = @ THEN cqueue_privDec(cq, @) ELSE @], TRUE)

-----------------------------------------------------------------------------
(***************************************************************************)
(* The reference: a queue is the sequence of the slots it uses, front      *)
(* first.  A push takes a slot no element uses, unless it is a forcible    *)
(* one of a full queue, which takes that of the element at the other end.  *)
(***************************************************************************)
Slots(cq) ==
    [i \in 1 .. cqueue_numElements(cq) |-> (cq.front - (i - 1)) % cq.size]

Unused(cq) == (0 .. cq.size - 1) \ {Slots(cq)[i] : i \in DOMAIN Slots(cq)}

\* What each function promises of the slots s it finds and t it leaves.
PushesFront(r, s, t) ==
    IF r.ok THEN Len(t) = Len(s) + 1 /\ Tail(t) = s ELSE t = s
PushesBack(r, s, t) ==
    IF r.ok THEN Len(t) = Len(s) + 1 /\ Front(t) = s ELSE t = s

PushesAreSafe(cq) ==
    LET s == Slots(cq)
        full == Len(s) = cq.size
        front == cqueue_pushFront(cq)
        back == cqueue_pushBack(cq)
        forcedFront == Slots(cqueue_forciblyPushFront(cq).queue)
        forcedBack == Slots(cqueue_forciblyPushBack(cq).queue)
    IN  /\ front.ok = ~full /\ back.ok = ~full
        /\ cqueue_isFull(cq) = full
        /\ IsInjective(Slots(front.queue)) /\ IsInjective(Slots(back.queue))
        /\ s # <<>> => /\ PushesFront(front, s, Slots(front.queue))
                       /\ PushesBack(back, s, Slots(back.queue))
        /\ s = <<>> => Len(Slots(front.queue)) = 1 /\ Len(Slots(back.queue)) = 1
        /\ full => /\ Len(forcedFront) = cq.size /\ Tail(forcedFront) = Front(s)
                   /\ Len(forcedBack) = cq.size /\ Front(forcedBack) = Tail(s)
        /\ ~full => /\ forcedFront = Slots(front.queue)
                    /\ forcedBack = Slots(back.queue)

PopsAreSafe(cq) ==
    LET s == Slots(cq)
        front == cqueue_popFront(cq)
        back == cqueue_popBack(cq)
    IN  /\ Slots(front.queue) = IF s = <<>> THEN <<>> ELSE Tail(s)
        /\ Slots(back.queue) = IF s = <<>> THEN <<>> ELSE Front(s)
        /\ front.ok = (Len(s) > 1) /\ back.ok = (Len(s) > 1)
=============================================================================
