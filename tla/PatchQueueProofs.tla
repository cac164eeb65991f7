------------------------- MODULE PatchQueueProofs -------------------------
(* What holds of PatchQueue for any tanks, any size of the pool and any     *)
(* number of messages.                                                      *)
EXTENDS PatchQueue, TLAPS

FlagsOK == connectado \in BOOLEAN /\ tokenOk \in BOOLEAN

\* Types, but for the flags and the lengths of the queues.
Typed ==
  /\ waiting \in [Tanks -> OrNone]
  /\ started \in [Kinds -> Nat]
  /\ started["level"] <= MaxLevels /\ started["event"] <= MaxEvents
  /\ rx \in {"idle", "coalesce", "index", "again", "fill", "send", "ack"}
  /\ msg \in OrNone
  /\ idx \in 0 .. Slots
  /\ cache \subseteq Messages
  /\ state \in [Index -> {"free", "queued", "processing"}]
  /\ pool \in [Index -> OrNone]
  /\ patch \in {"none", "wait", "mark", "gate", "send", "free"}
  /\ held \in 0 .. Slots
  /\ sending \in OrNone
  /\ mutexFails \in 0 .. MutexFailLimit - 1
  /\ level \in [Tanks -> 0 .. MaxMessages]
  /\ posted \subseteq Messages
  /\ accepted \subseteq Messages
  /\ skipped \in [Tanks -> 0 .. MaxMessages]
  /\ missed \in 0 .. MaxMisses
QueuesTyped == free \in Seq(Index) /\ queue \in Seq(Index)

\* A task has an index just while it works on one, ...
Working == {"mark", "gate", "send", "free"}
InHand ==
  /\ idx # 0 <=> rx \in {"fill", "send"}
  /\ held # 0 <=> patch \in Working

\* ... and no index is in two places.
NoRepeat(s) == \A j, k \in 1 .. Len(s) : s[j] = s[k] => j = k
OnePlace ==
  /\ NoRepeat(free) /\ NoRepeat(queue)
  /\ \A i \in Index : ~(InFree(i) /\ InQueue(i))
  /\ \A i \in {idx, held} \ {0} : ~InFree(i) /\ ~InQueue(i)
  /\ idx # 0 => idx # held

\* The cache has only what the tanks still repeat and what was accepted, and
\* nothing of the tank whose new message is in hand.
Remembered ==
  /\ \A t \in Tanks : waiting[t] # NoMessage => waiting[t].tank = t
  /\ rx # "idle" => msg \in Messages
  /\ rx \in {"coalesce", "again"} => msg.kind = "level"
  /\ \A m \in cache : waiting[m.tank] = m /\ m \in accepted
  /\ rx \notin {"idle", "ack"} => \A m \in cache : m.tank # msg.tank
  /\ AckMeansAccepted

\* A request has its message from the time it is filled to the time it is freed;
\* an event stays what it is until the server has it.
Filled ==
  /\ rx = "send" => pool[idx] = msg
  /\ \A i \in Index : state[i] = "queued" \/ InQueue(i) \/ held = i => pool[i] \in Messages
  /\ patch = "send" => sending \in Messages /\ (pool[held].kind = "event" => sending = pool[held])
  /\ patch = "free" /\ pool[held].kind = "event" => pool[held] \in posted

\* While patch_pool_mutex answers, the marks of the pool tell where a request is.
Marked ==
  /\ \A i \in Index :
       /\ state[i] = "queued" <=>
            InQueue(i) \/ (held = i /\ patch = "mark") \/ (idx = i /\ rx = "send")
       /\ state[i] = "processing" <=> held = i /\ patch # "mark"
  /\ patch = "send" => sending = pool[held]

LevelOf(m, t) == m # NoMessage /\ m.kind = "level" /\ m.tank = t

\* So a tank has one level in the queue, into which the next is coalesced, ...
OneQueued ==
  /\ \A i, j \in Index, t \in Tanks :
       /\ state[i] = "queued" /\ LevelOf(pool[i], t)
       /\ state[j] = "queued" /\ LevelOf(pool[j], t)
       => i = j
  /\ rx \in {"index", "fill"} /\ msg.kind = "level" => \A i \in Index : ~SameLevel(i)

\* ... and the levels of a tank are in their order: the server, the request being
\* sent, the one in the queue, the message in hand, what the tank repeats.
Live(i, t) == state[i] # "free" /\ LevelOf(pool[i], t)
Newest(t, n) ==
  /\ level[t] <= n
  /\ \A i \in Index : Live(i, t) => pool[i].n <= n
InLine ==
  /\ \A i \in Index, t \in Tanks : Live(i, t) => level[t] <= pool[i].n
  /\ \A i, j \in Index, t \in Tanks :
       /\ state[i] = "processing" /\ LevelOf(pool[i], t)
       /\ state[j] = "queued" /\ LevelOf(pool[j], t)
       => pool[i].n <= pool[j].n
  /\ \A t \in Tanks :
       /\ Newest(t, started["level"])
       /\ LevelOf(waiting[t], t) =>
            Newest(t, waiting[t].n) /\ waiting[t].n <= started["level"]
       /\ rx # "idle" /\ LevelOf(msg, t) =>
            /\ Newest(t, msg.n) /\ msg.n <= started["level"]
            /\ LevelOf(waiting[t], t) => msg.n <= waiting[t].n

\* What was accepted is not older than what waits, and was sent when it is freed.
AcceptedInLine ==
  /\ \A a \in accepted, i \in Index :
       /\ LevelOf(a, a.tank) /\ LevelOf(pool[i], a.tank)
       /\ InQueue(i) \/ held = i
       => pool[i].n <= a.n
  /\ patch = "free" => \A t \in Tanks : LevelOf(pool[held], t) => level[t] = pool[held].n

LevelsInv == missed = 0 => Marked /\ OneQueued /\ InLine /\ AcceptedInLine

PoolInv ==
  /\ FlagsOK /\ Typed /\ QueuesTyped
  /\ InHand /\ OnePlace /\ SlotsConserved
  /\ Remembered /\ Filled /\ EventsKept
  /\ LevelsInv /\ LastLevelKept

-----------------------------------------------------------------------------
(* Messages and queues.                                                     *)

LEMMA MessageFields ==
  /\ NoMessage \notin Messages
  /\ \A m \in Messages :
       /\ m.tank \in Tanks /\ m.kind \in {"level", "event"}
       /\ m.n \in 1 .. MaxMessages /\ m.n \in Nat
  /\ MaxMessages \in Nat
BY PatchQueueAssumption DEF NoMessage, Messages, MaxMessages, Kinds

Has(s, e) == \E k \in 1 .. Len(s) : s[k] = e

LEMMA Appended ==
  ASSUME NEW S, NEW s \in Seq(S), NEW e \in S
  PROVE  /\ Append(s, e) \in Seq(S)
         /\ Len(s) \in Nat /\ Len(Append(s, e)) = Len(s) + 1
         /\ \A x : Has(Append(s, e), x) <=> Has(s, x) \/ x = e
         /\ NoRepeat(s) /\ ~Has(s, e) => NoRepeat(Append(s, e))
<1>1. /\ Append(s, e) \in Seq(S)
      /\ Len(s) \in Nat /\ Len(Append(s, e)) = Len(s) + 1
      /\ \A i \in 1 .. Len(s) : Append(s, e)[i] = s[i]
      /\ Append(s, e)[Len(s) + 1] = e
  OBVIOUS
<1>2. 1 .. Len(Append(s, e)) = (1 .. Len(s)) \cup {Len(s) + 1}
  BY <1>1
<1> DEFINE a == Append(s, e)
<1> HIDE DEF a
<1>3. \A x : Has(a, x) <=> Has(s, x) \/ x = e
  BY <1>1, <1>2 DEF Has, a
<1>4. NoRepeat(s) /\ ~Has(s, e) => NoRepeat(a)
  BY <1>1, <1>2 DEF Has, NoRepeat, a
<1> QED BY <1>1, <1>3, <1>4 DEF a

LEMMA TailOf ==
  ASSUME NEW S, NEW s \in Seq(S), s # <<>>
  PROVE  /\ Head(s) \in S /\ Tail(s) \in Seq(S)
         /\ Len(s) \in Nat \ {0} /\ Len(Tail(s)) = Len(s) - 1
         /\ \A x : Has(s, x) <=> Has(Tail(s), x) \/ x = Head(s)
         /\ NoRepeat(s) => NoRepeat(Tail(s)) /\ ~Has(Tail(s), Head(s))
<1>1. /\ Head(s) \in S /\ Tail(s) \in Seq(S)
      /\ Len(s) \in Nat \ {0} /\ Len(Tail(s)) = Len(s) - 1
      /\ \A i \in 1 .. Len(Tail(s)) : Tail(s)[i] = s[i + 1]
      /\ Head(s) = s[1]
  OBVIOUS
<1>2. /\ 1 \in 1 .. Len(s)
      /\ \A i \in 1 .. Len(s) : i = 1 \/ i - 1 \in 1 .. Len(Tail(s))
      /\ \A i \in 1 .. Len(Tail(s)) : i + 1 \in 1 .. Len(s) /\ i + 1 # 1
      /\ \A i \in 1 .. Len(s) : i = 1 \/ (i - 1) + 1 = i
  BY <1>1
<1> DEFINE t == Tail(s)
<1> HIDE DEF t
<1>3. \A i \in 1 .. Len(s) : i = 1 \/ t[i - 1] = s[i]
  BY <1>1, <1>2 DEF t
<1>4. \A x : Has(s, x) <=> Has(t, x) \/ x = Head(s)
  BY <1>1, <1>2, <1>3 DEF Has, t
<1>5. NoRepeat(s) => NoRepeat(t) /\ ~Has(t, Head(s))
  BY <1>1, <1>2 DEF Has, NoRepeat, t
<1> QED BY <1>1, <1>4, <1>5 DEF t

LEMMA AllFree ==
  LET all == [i \in Index |-> i]
  IN  /\ all \in Seq(Index) /\ Len(all) = Slots /\ NoRepeat(all)
      /\ \A i : Has(all, i) <=> i \in Index
BY PatchQueueAssumption DEF Has, NoRepeat, Index

LEMMA NoneQueued ==
  LET none == << >>
  IN  none \in Seq(Index) /\ Len(none) = 0 /\ NoRepeat(none) /\ \A i : ~Has(none, i)
BY DEF Has, NoRepeat

-----------------------------------------------------------------------------
(* Types and places.                                                        *)

\* What the server makes of a message keeps its types.
LEMMA Delivers ==
  ASSUME NEW m \in Messages, Typed,
         UNCHANGED serverVars \/ Deliver(m)
  PROVE  level' \in [Tanks -> 0 .. MaxMessages] /\ posted' \subseteq Messages
<1>1. CASE UNCHANGED serverVars
  BY <1>1 DEF serverVars, Typed
<1>2. CASE Deliver(m)
  <2>1. m.n \in 0 .. MaxMessages
    BY MessageFields
  <2> QED BY <1>2, <2>1 DEF Deliver, Typed
<1> QED BY <1>1, <1>2

LEMMA FlagsStep ==
  ASSUME FlagsOK, [Next]_vars
  PROVE  FlagsOK'
<1> USE DEF tankVars, rxVars, poolVars, patchVars, netVars, serverVars, ghosts, FlagsOK
<1>1. ASSUME NEW t \in Tanks, TankBegins(t)
     PROVE  FlagsOK'
  BY <1>1 DEF TankBegins
<1>2. ASSUME NEW t \in Tanks, Receive(t)
     PROVE  FlagsOK'
  BY <1>2 DEF Receive, Duplicate
<1>3. CASE Coalesce
  BY <1>3 DEF Coalesce, Accept
<1>4. CASE CoalesceFails
  BY <1>4 DEF CoalesceFails, Accept
<1>5. CASE TakeIndex
  BY <1>5 DEF TakeIndex
<1>6. CASE NoIndex
  BY <1>6 DEF NoIndex
<1>7. CASE Fill
  BY <1>7 DEF Fill, SlotSet
<1>8. CASE Enqueue
  BY <1>8 DEF Enqueue, Accept
<1>9. CASE Ack
  BY <1>9 DEF Ack
<1>10. ASSUME NEW m \in cache, Forget(m)
     PROVE  FlagsOK'
  BY <1>10 DEF Forget
<1>11. CASE PatchReceives
  BY <1>11 DEF PatchReceives
<1>12. CASE PatchMarks
  BY <1>12 DEF PatchMarks, SlotSet
<1>13. CASE PatchSends
  BY <1>13 DEF PatchSends
<1>14. CASE PatchMisses
  BY <1>14 DEF PatchMisses
<1>15. CASE PatchRestarts
  BY <1>15 DEF PatchRestarts
<1>16. CASE PatchSucceeds
  BY <1>16 DEF PatchSucceeds, PatchReturns, Deliver
<1>17. CASE PatchFails
  BY <1>17 DEF PatchFails, PatchReturns, Deliver
<1>18. CASE PatchRefused
  BY <1>18 DEF PatchRefused, PatchReturns
<1>19. CASE PatchFrees
  BY <1>19 DEF PatchFrees, SlotSet
<1>20. CASE Login
  BY <1>20 DEF Login, NetUnchanged
<1>21. CASE SetConnectado
  BY <1>21 DEF SetConnectado, NetUnchanged
<1>22. CASE UNCHANGED vars
  BY <1>22 DEF vars
<1> QED
  BY <1>1, <1>2, <1>3, <1>4, <1>5, <1>6, <1>7, <1>8, <1>9, <1>10, <1>11, <1>12,
     <1>13, <1>14, <1>15, <1>16, <1>17, <1>18, <1>19, <1>20, <1>21, <1>22
     DEF Next, RxTask, PatchTask

LEMMA TypedStep ==
  ASSUME Typed, QueuesTyped, InHand, Remembered, Filled, [Next]_vars
  PROVE  Typed'
<1> USE DEF tankVars, rxVars, poolVars, patchVars, netVars, serverVars, ghosts, Typed
<1>1. ASSUME NEW t \in Tanks, TankBegins(t)
     PROVE  Typed'
  <2>1. PICK k \in Kinds :
          /\ started[k] < IF k = "level" THEN MaxLevels ELSE MaxEvents
          /\ started' = [started EXCEPT ![k] = started[k] + 1]
          /\ waiting' = [waiting EXCEPT ![t] = [tank |-> t, n |-> started[k] + 1, kind |-> k]]
    BY <1>1 DEF TankBegins
  <2>2. started[k] \in Nat /\ started[k] + 1 \in 1 .. MaxMessages
    BY <2>1, PatchQueueAssumption DEF MaxMessages, Kinds
  <2>3. [tank |-> t, n |-> started[k] + 1, kind |-> k] \in Messages
    BY <2>2 DEF Messages
  <2>4. waiting' \in [Tanks -> OrNone]
    BY <2>1, <2>3 DEF OrNone
  <2>5. /\ started' \in [Kinds -> Nat]
        /\ started'["level"] <= MaxLevels /\ started'["event"] <= MaxEvents
    <3>1. CASE k = "level"
      BY <2>1, <2>2, <3>1, PatchQueueAssumption DEF Kinds
    <3>2. CASE k = "event"
      BY <2>1, <2>2, <3>2, PatchQueueAssumption DEF Kinds
    <3> QED BY <3>1, <3>2 DEF Kinds
  <2> QED BY <1>1, <2>4, <2>5 DEF TankBegins
<1>2. ASSUME NEW t \in Tanks, Receive(t)
     PROVE  Typed'
  BY <1>2, MessageFields, PatchQueueAssumption DEF Receive, Duplicate, OrNone
<1>3. CASE Coalesce
  <2>1. msg \in Messages /\ accepted' \subseteq Messages
    BY <1>3 DEF Coalesce, Accept, Remembered
  <2>2. pool' \in [Index -> OrNone]
    BY <1>3 DEF Coalesce
  <2> QED BY <1>3, <2>1, <2>2 DEF Coalesce, Accept
<1>4. CASE CoalesceFails
  BY <1>4, MessageFields, PatchQueueAssumption DEF CoalesceFails, Accept, Remembered
<1>5. CASE TakeIndex
  <2>1. idx' \in Index
    BY <1>5, TailOf DEF TakeIndex, QueuesTyped
  <2>2. idx' \in 0 .. Slots
    BY <2>1 DEF Index
  <2> QED BY <1>5, <2>2 DEF TakeIndex
<1>6. CASE NoIndex
  BY <1>6, MessageFields, PatchQueueAssumption DEF NoIndex
<1>7. CASE Fill
  BY <1>7, MessageFields, PatchQueueAssumption DEF Fill, SlotSet, InHand, Index
<1>8. CASE Enqueue
  <2>1. msg \in Messages /\ accepted' \subseteq Messages
    BY <1>8 DEF Enqueue, Accept, Remembered
  <2>2. idx' \in 0 .. Slots
    BY <1>8, PatchQueueAssumption DEF Enqueue
  <2> QED BY <1>8, <2>1, <2>2 DEF Enqueue, Accept
<1>9. CASE Ack
  <2>1. msg \in Messages
    BY <1>9 DEF Ack, Remembered
  <2>2. waiting' \in [Tanks -> OrNone] /\ cache' \subseteq Messages
    BY <1>9, <2>1, MessageFields DEF Ack, OrNone
  <2> QED BY <1>9, <2>2 DEF Ack, OrNone
<1>10. ASSUME NEW m \in cache, Forget(m)
     PROVE  Typed'
  BY <1>10, MessageFields, PatchQueueAssumption DEF Forget
<1>11. CASE PatchReceives
  <2>1. held' \in Index
    BY <1>11, TailOf DEF PatchReceives, QueuesTyped
  <2>2. held' \in 0 .. Slots
    BY <2>1 DEF Index
  <2> QED BY <1>11, <2>2 DEF PatchReceives
<1>12. CASE PatchMarks
  BY <1>12, MessageFields, PatchQueueAssumption DEF PatchMarks, SlotSet,
     InHand, Working, Index
<1>13. CASE PatchSends
  BY <1>13, MessageFields, PatchQueueAssumption DEF PatchSends, InHand, Working, Index
<1>14. CASE PatchMisses
  BY <1>14, MessageFields, PatchQueueAssumption DEF PatchMisses
<1>15. CASE PatchRestarts
  BY <1>15, MessageFields, PatchQueueAssumption DEF PatchRestarts, OrNone
<1>16. CASE PatchSucceeds
  <2>1. sending \in Messages
    BY <1>16 DEF PatchSucceeds, PatchReturns, Filled
  <2>2. level' \in [Tanks -> 0 .. MaxMessages] /\ posted' \subseteq Messages
    BY <1>16, <2>1, Delivers DEF PatchSucceeds
  <2> QED BY <1>16, <2>2 DEF PatchSucceeds, PatchReturns, OrNone
<1>17. CASE PatchFails
  <2>1. sending \in Messages
    BY <1>17 DEF PatchFails, PatchReturns, Filled
  <2>2. level' \in [Tanks -> 0 .. MaxMessages] /\ posted' \subseteq Messages
    BY <1>17, <2>1, Delivers DEF PatchFails
  <2> QED BY <1>17, <2>2 DEF PatchFails, PatchReturns, OrNone
<1>18. CASE PatchRefused
  BY <1>18, MessageFields, PatchQueueAssumption DEF PatchRefused, PatchReturns, OrNone
<1>19. CASE PatchFrees
  <2>1. held \in Index
    BY <1>19, PatchQueueAssumption DEF PatchFrees, InHand, Working, Index
  <2>2. /\ state' \in [Index -> {"free", "queued", "processing"}]
        /\ missed' \in 0 .. MaxMisses
    BY <1>19, <2>1, PatchQueueAssumption DEF PatchFrees, SlotSet
  <2>3. pool' \in [Index -> OrNone]
    BY <1>19, <2>1 DEF PatchFrees, OrNone
  <2>4. held' \in 0 .. Slots /\ patch' = "wait"
    BY <1>19, PatchQueueAssumption DEF PatchFrees
  <2> QED BY <1>19, <2>2, <2>3, <2>4 DEF PatchFrees
<1>20. CASE Login
  BY <1>20, MessageFields, PatchQueueAssumption DEF Login, NetUnchanged
<1>21. CASE SetConnectado
  BY <1>21, MessageFields, PatchQueueAssumption DEF SetConnectado, NetUnchanged
<1>22. CASE UNCHANGED vars
  BY <1>22 DEF vars
<1> QED
  BY <1>1, <1>2, <1>3, <1>4, <1>5, <1>6, <1>7, <1>8, <1>9, <1>10, <1>11, <1>12,
     <1>13, <1>14, <1>15, <1>16, <1>17, <1>18, <1>19, <1>20, <1>21, <1>22
     DEF Next, RxTask, PatchTask

LEMMA QueuesStep ==
  ASSUME Typed, QueuesTyped, InHand, [Next]_vars
  PROVE  QueuesTyped'
<1> USE DEF tankVars, rxVars, poolVars, patchVars, netVars, serverVars, ghosts,
     QueuesTyped
<1>1. ASSUME NEW t \in Tanks, TankBegins(t)
     PROVE  QueuesTyped'
  BY <1>1 DEF TankBegins
<1>2. ASSUME NEW t \in Tanks, Receive(t)
     PROVE  QueuesTyped'
  BY <1>2 DEF Receive, Duplicate
<1>3. CASE Coalesce
  BY <1>3 DEF Coalesce, Accept
<1>4. CASE CoalesceFails
  BY <1>4 DEF CoalesceFails, Accept
<1>5. CASE TakeIndex
  BY <1>5, TailOf DEF TakeIndex
<1>6. CASE NoIndex
  BY <1>6 DEF NoIndex
<1>7. CASE Fill
  BY <1>7 DEF Fill, SlotSet
<1>8. CASE Enqueue
  <2>1. idx \in Index
    BY <1>8 DEF Enqueue, Typed, InHand, Index
  <2> QED BY <1>8, <2>1, Appended DEF Enqueue
<1>9. CASE Ack
  BY <1>9 DEF Ack
<1>10. ASSUME NEW m \in cache, Forget(m)
     PROVE  QueuesTyped'
  BY <1>10 DEF Forget
<1>11. CASE PatchReceives
  BY <1>11, TailOf DEF PatchReceives
<1>12. CASE PatchMarks
  BY <1>12 DEF PatchMarks, SlotSet
<1>13. CASE PatchSends
  BY <1>13 DEF PatchSends
<1>14. CASE PatchMisses
  BY <1>14 DEF PatchMisses
<1>15. CASE PatchRestarts
  BY <1>15, AllFree, NoneQueued DEF PatchRestarts
<1>16. CASE PatchSucceeds
  BY <1>16 DEF PatchSucceeds, PatchReturns, Deliver
<1>17. CASE PatchFails
  BY <1>17 DEF PatchFails, PatchReturns, Deliver
<1>18. CASE PatchRefused
  BY <1>18 DEF PatchRefused, PatchReturns
<1>19. CASE PatchFrees
  <2>1. held \in Index
    BY <1>19 DEF PatchFrees, Typed, InHand, Index, Working
  <2> QED BY <1>19, <2>1, Appended DEF PatchFrees
<1>20. CASE Login
  BY <1>20 DEF Login, NetUnchanged
<1>21. CASE SetConnectado
  BY <1>21 DEF SetConnectado, NetUnchanged
<1>22. CASE UNCHANGED vars
  BY <1>22 DEF vars
<1> QED
  BY <1>1, <1>2, <1>3, <1>4, <1>5, <1>6, <1>7, <1>8, <1>9, <1>10, <1>11, <1>12,
     <1>13, <1>14, <1>15, <1>16, <1>17, <1>18, <1>19, <1>20, <1>21, <1>22
     DEF Next, RxTask, PatchTask

LEMMA InHandStep ==
  ASSUME Typed, QueuesTyped, InHand, [Next]_vars
  PROVE  InHand'
<1> USE DEF tankVars, rxVars, poolVars, patchVars, netVars, serverVars, ghosts, InHand,
     Working
<1>1. ASSUME NEW t \in Tanks, TankBegins(t)
     PROVE  InHand'
  BY <1>1 DEF TankBegins
<1>2. ASSUME NEW t \in Tanks, Receive(t)
     PROVE  InHand'
  BY <1>2 DEF Receive, Duplicate
<1>3. CASE Coalesce
  BY <1>3 DEF Coalesce, Accept
<1>4. CASE CoalesceFails
  BY <1>4 DEF CoalesceFails, Accept
<1>5. CASE TakeIndex
  <2>1. idx' \in Index
    BY <1>5, TailOf DEF TakeIndex, QueuesTyped
  <2> QED BY <1>5, <2>1 DEF TakeIndex, Index
<1>6. CASE NoIndex
  BY <1>6 DEF NoIndex
<1>7. CASE Fill
  BY <1>7 DEF Fill, SlotSet
<1>8. CASE Enqueue
  BY <1>8 DEF Enqueue, Accept
<1>9. CASE Ack
  BY <1>9 DEF Ack
<1>10. ASSUME NEW m \in cache, Forget(m)
     PROVE  InHand'
  BY <1>10 DEF Forget
<1>11. CASE PatchReceives
  <2>1. held' \in Index
    BY <1>11, TailOf DEF PatchReceives, QueuesTyped
  <2> QED BY <1>11, <2>1 DEF PatchReceives, Index
<1>12. CASE PatchMarks
  BY <1>12 DEF PatchMarks, SlotSet
<1>13. CASE PatchSends
  BY <1>13 DEF PatchSends
<1>14. CASE PatchMisses
  BY <1>14 DEF PatchMisses
<1>15. CASE PatchRestarts
  BY <1>15 DEF PatchRestarts
<1>16. CASE PatchSucceeds
  BY <1>16 DEF PatchSucceeds, PatchReturns, Deliver
<1>17. CASE PatchFails
  BY <1>17 DEF PatchFails, PatchReturns, Deliver
<1>18. CASE PatchRefused
  BY <1>18 DEF PatchRefused, PatchReturns
<1>19. CASE PatchFrees
  BY <1>19 DEF PatchFrees, SlotSet
<1>20. CASE Login
  BY <1>20 DEF Login, NetUnchanged
<1>21. CASE SetConnectado
  BY <1>21 DEF SetConnectado, NetUnchanged
<1>22. CASE UNCHANGED vars
  BY <1>22 DEF vars
<1> QED
  BY <1>1, <1>2, <1>3, <1>4, <1>5, <1>6, <1>7, <1>8, <1>9, <1>10, <1>11, <1>12,
     <1>13, <1>14, <1>15, <1>16, <1>17, <1>18, <1>19, <1>20, <1>21, <1>22
     DEF Next, RxTask, PatchTask

\* What each step of an index does to the queues.
LEMMA IndexTaken ==
  ASSUME Typed, QueuesTyped, TakeIndex
  PROVE  /\ idx' \in Index /\ queue' = queue /\ held' = held
         /\ \A i : InFree(i) <=> InFree(i)' \/ i = idx'
         /\ Len(free) \in Nat \ {0} /\ Len(free') = Len(free) - 1
         /\ NoRepeat(free) => NoRepeat(free') /\ \A i : i = idx' => ~InFree(i)'
<1>1. free # <<>> /\ idx' = Head(free) /\ free' = Tail(free) /\ queue' = queue /\ held' = held
  BY DEF TakeIndex, patchVars
<1>2. /\ Head(free) \in Index /\ Len(free) \in Nat \ {0} /\ Len(free') = Len(free) - 1
      /\ \A i : Has(free, i) <=> Has(free', i) \/ i = Head(free)
      /\ NoRepeat(free) => NoRepeat(free') /\ ~Has(free', Head(free))
  BY <1>1, TailOf DEF QueuesTyped
<1>3. \A i : (InFree(i) <=> Has(free, i)) /\ (InFree(i)' <=> Has(free', i))
  BY DEF InFree, Has
<1> QED BY <1>1, <1>2, <1>3

LEMMA IndexQueued ==
  ASSUME Typed, QueuesTyped, InHand, Enqueue
  PROVE  /\ idx \in Index /\ idx' = 0 /\ free' = free /\ held' = held
         /\ \A i : InQueue(i)' <=> InQueue(i) \/ i = idx
         /\ Len(queue) \in Nat /\ Len(queue') = Len(queue) + 1
         /\ NoRepeat(queue) /\ ~InQueue(idx) => NoRepeat(queue')
<1>1. /\ idx \in Index /\ idx' = 0 /\ queue' = Append(queue, idx)
      /\ free' = free /\ held' = held
  BY DEF Enqueue, Typed, InHand, Index, patchVars
<1> QED BY <1>1, Appended DEF QueuesTyped, InQueue, Has

LEMMA IndexReceived ==
  ASSUME Typed, QueuesTyped, InHand, PatchReceives
  PROVE  /\ held' \in Index /\ held = 0 /\ free' = free /\ idx' = idx
         /\ \A i : InQueue(i) <=> InQueue(i)' \/ i = held'
         /\ Len(queue) \in Nat \ {0} /\ Len(queue') = Len(queue) - 1
         /\ NoRepeat(queue) => NoRepeat(queue') /\ \A i : i = held' => ~InQueue(i)'
<1>1. /\ queue # <<>> /\ held' = Head(queue) /\ queue' = Tail(queue)
      /\ free' = free /\ idx' = idx /\ held = 0
  BY DEF PatchReceives, InHand, Working, rxVars
<1>2. /\ Head(queue) \in Index /\ Len(queue) \in Nat \ {0} /\ Len(queue') = Len(queue) - 1
      /\ \A i : Has(queue, i) <=> Has(queue', i) \/ i = Head(queue)
      /\ NoRepeat(queue) => NoRepeat(queue') /\ ~Has(queue', Head(queue))
  BY <1>1, TailOf DEF QueuesTyped
<1>3. \A i : (InQueue(i) <=> Has(queue, i)) /\ (InQueue(i)' <=> Has(queue', i))
  BY DEF InQueue, Has
<1> QED BY <1>1, <1>2, <1>3

LEMMA IndexFreed ==
  ASSUME Typed, QueuesTyped, InHand, PatchFrees
  PROVE  /\ held \in Index /\ held' = 0 /\ queue' = queue /\ idx' = idx
         /\ \A i : InFree(i)' <=> InFree(i) \/ i = held
         /\ Len(free) \in Nat /\ Len(free') = Len(free) + 1
         /\ NoRepeat(free) /\ ~InFree(held) => NoRepeat(free')
<1>1. /\ held \in Index /\ held' = 0 /\ free' = Append(free, held)
      /\ queue' = queue /\ idx' = idx
  BY DEF PatchFrees, Typed, InHand, Working, Index, rxVars
<1> QED BY <1>1, Appended DEF QueuesTyped, InFree, Has

\* Every other step leaves them alone.
LEMMA IndexesStay ==
  ASSUME free' = free, queue' = queue
  PROVE  \A i : (InFree(i)' <=> InFree(i)) /\ (InQueue(i)' <=> InQueue(i))
BY DEF InFree, InQueue

LEMMA Emptied ==
  ASSUME free' = [i \in Index |-> i], queue' = <<>>
  PROVE  /\ \A i : (InFree(i)' <=> i \in Index) /\ ~InQueue(i)'
         /\ Len(free') = Slots /\ Len(queue') = 0
         /\ NoRepeat(free') /\ NoRepeat(queue')
BY AllFree, NoneQueued DEF InFree, InQueue, Has

LEMMA OnePlaceStep ==
  ASSUME Typed, QueuesTyped, InHand, OnePlace, [Next]_vars
  PROVE  OnePlace'
<1> USE DEF tankVars, rxVars, poolVars, patchVars, netVars, serverVars, ghosts
<1>1. ASSUME NEW t \in Tanks, TankBegins(t)
     PROVE  OnePlace'
  BY <1>1, IndexesStay DEF TankBegins, OnePlace
<1>2. ASSUME NEW t \in Tanks, Receive(t)
     PROVE  OnePlace'
  BY <1>2, IndexesStay DEF Receive, Duplicate, OnePlace
<1>3. CASE Coalesce
  BY <1>3, IndexesStay DEF Coalesce, Accept, OnePlace
<1>4. CASE CoalesceFails
  BY <1>4, IndexesStay DEF CoalesceFails, Accept, OnePlace
<1>5. CASE TakeIndex
  <2>1. \A i : InQueue(i)' <=> InQueue(i)
    BY <1>5 DEF TakeIndex, InQueue, patchVars
  <2>2. 0 \notin Index
    BY DEF Index
  <2> QED BY <2>1, <2>2, <1>5, IndexTaken DEF OnePlace
<1>6. CASE NoIndex
  BY <1>6, IndexesStay DEF NoIndex, OnePlace
<1>7. CASE Fill
  BY <1>7, IndexesStay DEF Fill, SlotSet, OnePlace
<1>8. CASE Enqueue
  <2>1. \A i : InFree(i)' <=> InFree(i)
    BY <1>8 DEF Enqueue, InFree, patchVars
  <2>2. 0 \notin Index
    BY DEF Index
  <2> QED BY <2>1, <2>2, <1>8, IndexQueued DEF OnePlace
<1>9. CASE Ack
  BY <1>9, IndexesStay DEF Ack, OnePlace
<1>10. ASSUME NEW m \in cache, Forget(m)
     PROVE  OnePlace'
  BY <1>10, IndexesStay DEF Forget, OnePlace
<1>11. CASE PatchReceives
  <2>1. \A i : InFree(i)' <=> InFree(i)
    BY <1>11 DEF PatchReceives, InFree, rxVars
  <2>2. 0 \notin Index
    BY DEF Index
  <2> QED BY <2>1, <2>2, <1>11, IndexReceived DEF OnePlace
<1>12. CASE PatchMarks
  BY <1>12, IndexesStay DEF PatchMarks, SlotSet, OnePlace
<1>13. CASE PatchSends
  BY <1>13, IndexesStay DEF PatchSends, OnePlace
<1>14. CASE PatchMisses
  BY <1>14, IndexesStay DEF PatchMisses, OnePlace
<1>15. CASE PatchRestarts
  <2>1. idx' = 0 /\ held' = 0 /\ 0 \notin Index
    BY <1>15 DEF PatchRestarts, Index
  <2> QED BY <1>15, <2>1, Emptied DEF PatchRestarts, OnePlace
<1>16. CASE PatchSucceeds
  BY <1>16, IndexesStay DEF PatchSucceeds, PatchReturns, Deliver, OnePlace
<1>17. CASE PatchFails
  BY <1>17, IndexesStay DEF PatchFails, PatchReturns, Deliver, OnePlace
<1>18. CASE PatchRefused
  BY <1>18, IndexesStay DEF PatchRefused, PatchReturns, OnePlace
<1>19. CASE PatchFrees
  <2>1. \A i : InQueue(i)' <=> InQueue(i)
    BY <1>19 DEF PatchFrees, InQueue, rxVars
  <2>2. 0 \notin Index
    BY DEF Index
  <2> QED BY <2>1, <2>2, <1>19, IndexFreed DEF OnePlace
<1>20. CASE Login
  BY <1>20, IndexesStay DEF Login, NetUnchanged, OnePlace
<1>21. CASE SetConnectado
  BY <1>21, IndexesStay DEF SetConnectado, NetUnchanged, OnePlace
<1>22. CASE UNCHANGED vars
  BY <1>22 DEF vars, OnePlace, InFree, InQueue
<1> QED
  BY <1>1, <1>2, <1>3, <1>4, <1>5, <1>6, <1>7, <1>8, <1>9, <1>10, <1>11, <1>12,
     <1>13, <1>14, <1>15, <1>16, <1>17, <1>18, <1>19, <1>20, <1>21, <1>22
     DEF Next, RxTask, PatchTask

LEMMA Lengths ==
  ASSUME QueuesTyped
  PROVE  Len(free) \in Nat /\ Len(queue) \in Nat
BY DEF QueuesTyped

LEMMA SlotsStep ==
  ASSUME Typed, QueuesTyped, InHand, SlotsConserved, [Next]_vars
  PROVE  SlotsConserved'
<1> USE DEF tankVars, rxVars, poolVars, patchVars, netVars, serverVars, ghosts
<1>1. ASSUME NEW t \in Tanks, TankBegins(t)
     PROVE  SlotsConserved'
  BY <1>1, IndexesStay DEF TankBegins, SlotsConserved
<1>2. ASSUME NEW t \in Tanks, Receive(t)
     PROVE  SlotsConserved'
  BY <1>2, IndexesStay DEF Receive, Duplicate, SlotsConserved
<1>3. CASE Coalesce
  BY <1>3, IndexesStay DEF Coalesce, Accept, SlotsConserved
<1>4. CASE CoalesceFails
  BY <1>4, IndexesStay DEF CoalesceFails, Accept, SlotsConserved
<1>5. CASE TakeIndex
  <2>1. \A i : InQueue(i)' <=> InQueue(i)
    BY <1>5 DEF TakeIndex, InQueue, patchVars
  <2>2. \A i \in Index : (InFree(i) \/ InQueue(i) \/ idx = i \/ held = i)'
    BY <1>5, <2>1, IndexTaken DEF TakeIndex, SlotsConserved, Index, InHand, Working
  <2>3. Len(free) \in Nat /\ Len(queue) \in Nat
    BY Lengths
  <2> QED BY <1>5, <2>2, <2>3, IndexTaken DEF TakeIndex, SlotsConserved, Index, InHand, Working
<1>6. CASE NoIndex
  BY <1>6, IndexesStay DEF NoIndex, SlotsConserved
<1>7. CASE Fill
  BY <1>7, IndexesStay DEF Fill, SlotSet, SlotsConserved
<1>8. CASE Enqueue
  <2>1. \A i : InFree(i)' <=> InFree(i)
    BY <1>8 DEF Enqueue, InFree, patchVars
  <2>2. \A i \in Index : (InFree(i) \/ InQueue(i) \/ idx = i \/ held = i)'
    BY <1>8, <2>1, IndexQueued DEF Enqueue, SlotsConserved, Index, InHand, Working
  <2>3. Len(free) \in Nat /\ Len(queue) \in Nat
    BY Lengths
  <2> QED BY <1>8, <2>2, <2>3, IndexQueued DEF Enqueue, SlotsConserved, Index, InHand, Working
<1>9. CASE Ack
  BY <1>9, IndexesStay DEF Ack, SlotsConserved
<1>10. ASSUME NEW m \in cache, Forget(m)
     PROVE  SlotsConserved'
  BY <1>10, IndexesStay DEF Forget, SlotsConserved
<1>11. CASE PatchReceives
  <2>1. \A i : InFree(i)' <=> InFree(i)
    BY <1>11 DEF PatchReceives, InFree, rxVars
  <2>2. \A i \in Index : (InFree(i) \/ InQueue(i) \/ idx = i \/ held = i)'
    BY <1>11, <2>1, IndexReceived DEF PatchReceives, SlotsConserved, Index, InHand, Working
  <2>3. Len(free) \in Nat /\ Len(queue) \in Nat
    BY Lengths
  <2> QED BY <1>11, <2>2, <2>3, IndexReceived DEF PatchReceives, SlotsConserved, Index, InHand, Working
<1>12. CASE PatchMarks
  BY <1>12, IndexesStay DEF PatchMarks, SlotSet, SlotsConserved
<1>13. CASE PatchSends
  BY <1>13, IndexesStay DEF PatchSends, SlotsConserved
<1>14. CASE PatchMisses
  BY <1>14, IndexesStay DEF PatchMisses, SlotsConserved
<1>15. CASE PatchRestarts
  BY <1>15, Emptied, PatchQueueAssumption DEF PatchRestarts, SlotsConserved
<1>16. CASE PatchSucceeds
  BY <1>16, IndexesStay DEF PatchSucceeds, PatchReturns, Deliver, SlotsConserved
<1>17. CASE PatchFails
  BY <1>17, IndexesStay DEF PatchFails, PatchReturns, Deliver, SlotsConserved
<1>18. CASE PatchRefused
  BY <1>18, IndexesStay DEF PatchRefused, PatchReturns, SlotsConserved
<1>19. CASE PatchFrees
  <2>1. \A i : InQueue(i)' <=> InQueue(i)
    BY <1>19 DEF PatchFrees, InQueue, rxVars
  <2>2. \A i \in Index : (InFree(i) \/ InQueue(i) \/ idx = i \/ held = i)'
    BY <1>19, <2>1, IndexFreed DEF PatchFrees, SlotsConserved, Index, InHand, Working
  <2>3. Len(free) \in Nat /\ Len(queue) \in Nat
    BY Lengths
  <2> QED BY <1>19, <2>2, <2>3, IndexFreed DEF PatchFrees, SlotsConserved, Index, InHand, Working
<1>20. CASE Login
  BY <1>20, IndexesStay DEF Login, NetUnchanged, SlotsConserved
<1>21. CASE SetConnectado
  BY <1>21, IndexesStay DEF SetConnectado, NetUnchanged, SlotsConserved
<1>22. CASE UNCHANGED vars
  BY <1>22 DEF vars, SlotsConserved, InFree, InQueue
<1> QED
  BY <1>1, <1>2, <1>3, <1>4, <1>5, <1>6, <1>7, <1>8, <1>9, <1>10, <1>11, <1>12,
     <1>13, <1>14, <1>15, <1>16, <1>17, <1>18, <1>19, <1>20, <1>21, <1>22
     DEF Next, RxTask, PatchTask

-----------------------------------------------------------------------------
(* What is remembered and what is kept of a message.                        *)

LEMMA RememberedStep ==
  ASSUME Typed, QueuesTyped, InHand, Remembered, [Next]_vars
  PROVE  Remembered'
<1> USE DEF tankVars, rxVars, poolVars, patchVars, netVars, serverVars, ghosts
<1>1. ASSUME NEW t \in Tanks, TankBegins(t)
     PROVE  Remembered'
  BY <1>1, MessageFields DEF TankBegins, Remembered, AckMeansAccepted, Typed, OrNone
<1>2. ASSUME NEW t \in Tanks, Receive(t)
     PROVE  Remembered'
  BY <1>2, MessageFields DEF Receive, Duplicate,
     Remembered, AckMeansAccepted, Typed, OrNone
<1>3. CASE Coalesce
  BY <1>3, MessageFields DEF Coalesce, Accept,
     Remembered, AckMeansAccepted, Typed, OrNone
<1>4. CASE CoalesceFails
  BY <1>4, MessageFields DEF CoalesceFails, Accept,
     Remembered, AckMeansAccepted, Typed, OrNone
<1>5. CASE TakeIndex
  BY <1>5, MessageFields DEF TakeIndex, Remembered, AckMeansAccepted, Typed, OrNone
<1>6. CASE NoIndex
  BY <1>6, MessageFields DEF NoIndex, Remembered, AckMeansAccepted, Typed, OrNone
<1>7. CASE Fill
  BY <1>7, MessageFields DEF Fill, SlotSet, Remembered, AckMeansAccepted, Typed, OrNone
<1>8. CASE Enqueue
  BY <1>8, MessageFields DEF Enqueue, Accept,
     Remembered, AckMeansAccepted, Typed, OrNone
<1>9. CASE Ack
  BY <1>9, MessageFields DEF Ack, Remembered, AckMeansAccepted, Typed, OrNone
<1>10. ASSUME NEW m \in cache, Forget(m)
     PROVE  Remembered'
  BY <1>10, MessageFields DEF Forget, Remembered, AckMeansAccepted, Typed, OrNone
<1>11. CASE PatchReceives
  BY <1>11, MessageFields DEF PatchReceives, Remembered, AckMeansAccepted, Typed, OrNone
<1>12. CASE PatchMarks
  BY <1>12, MessageFields DEF PatchMarks, SlotSet,
     Remembered, AckMeansAccepted, Typed, OrNone
<1>13. CASE PatchSends
  BY <1>13, MessageFields DEF PatchSends, Remembered, AckMeansAccepted, Typed, OrNone
<1>14. CASE PatchMisses
  BY <1>14, MessageFields DEF PatchMisses, Remembered, AckMeansAccepted, Typed, OrNone
<1>15. CASE PatchRestarts
  BY <1>15, MessageFields DEF PatchRestarts, Remembered, AckMeansAccepted, Typed, OrNone
<1>16. CASE PatchSucceeds
  BY <1>16, MessageFields DEF PatchSucceeds, PatchReturns, Deliver,
     Remembered, AckMeansAccepted, Typed, OrNone
<1>17. CASE PatchFails
  BY <1>17, MessageFields DEF PatchFails, PatchReturns, Deliver,
     Remembered, AckMeansAccepted, Typed, OrNone
<1>18. CASE PatchRefused
  BY <1>18, MessageFields DEF PatchRefused, PatchReturns,
     Remembered, AckMeansAccepted, Typed, OrNone
<1>19. CASE PatchFrees
  BY <1>19, MessageFields DEF PatchFrees, SlotSet,
     Remembered, AckMeansAccepted, Typed, OrNone
<1>20. CASE Login
  BY <1>20, MessageFields DEF Login, NetUnchanged,
     Remembered, AckMeansAccepted, Typed, OrNone
<1>21. CASE SetConnectado
  BY <1>21, MessageFields DEF SetConnectado, NetUnchanged,
     Remembered, AckMeansAccepted, Typed, OrNone
<1>22. CASE UNCHANGED vars
  BY <1>22 DEF vars, Remembered, AckMeansAccepted
<1> QED
  BY <1>1, <1>2, <1>3, <1>4, <1>5, <1>6, <1>7, <1>8, <1>9, <1>10, <1>11, <1>12,
     <1>13, <1>14, <1>15, <1>16, <1>17, <1>18, <1>19, <1>20, <1>21, <1>22
     DEF Next, RxTask, PatchTask

LEMMA FilledStep ==
  ASSUME Typed, QueuesTyped, InHand, OnePlace, Remembered, Filled, [Next]_vars
  PROVE  Filled'
<1> USE DEF tankVars, rxVars, poolVars, patchVars, netVars, serverVars, ghosts
<1>1. ASSUME NEW t \in Tanks, TankBegins(t)
     PROVE  Filled'
  BY <1>1, IndexesStay DEF TankBegins, Filled, Typed
<1>2. ASSUME NEW t \in Tanks, Receive(t)
     PROVE  Filled'
  BY <1>2, IndexesStay DEF Receive, Duplicate, Filled, Typed
<1>3. CASE Coalesce
  <2>1. msg \in Messages /\ msg.kind = "level"
    BY <1>3 DEF Coalesce, Remembered
  <2>2. \A i \in Index : pool'[i] = pool[i] \/ pool'[i] = msg
    BY <1>3 DEF Coalesce, Typed
  <2>3. held # 0 => held \in Index
    BY DEF Typed, Index
  <2>4. patch = "send" \/ patch = "free" => held # 0
    BY DEF InHand, Working
  <2>5. \A i : InQueue(i)' <=> InQueue(i)
    BY <1>3, IndexesStay DEF Coalesce
  <2> QED BY <1>3, <2>1, <2>2, <2>3, <2>4, <2>5 DEF Coalesce, Accept, Filled
<1>4. CASE CoalesceFails
  BY <1>4, IndexesStay DEF CoalesceFails, Accept, Filled, Typed
<1>5. CASE TakeIndex
  <2>1. \A i : InQueue(i)' <=> InQueue(i)
    BY <1>5 DEF TakeIndex, InQueue
  <2> QED BY <1>5, <2>1 DEF TakeIndex, Filled
<1>6. CASE NoIndex
  BY <1>6, IndexesStay DEF NoIndex, Filled, Typed
<1>7. CASE Fill
  <2>1. msg \in Messages /\ idx \in Index /\ idx # held
    BY <1>7 DEF Fill, Remembered, InHand, Typed, Index, OnePlace
  <2>2. pool'[idx] = msg /\ \A i \in Index \ {idx} : pool'[i] = pool[i] /\ state'[i] = state[i]
    BY <1>7, <2>1 DEF Fill, SlotSet, Typed
  <2>3. patch = "send" \/ patch = "free" => held \in Index
    BY DEF InHand, Working, Typed, Index
  <2>4. \A i : InQueue(i)' <=> InQueue(i)
    BY <1>7, IndexesStay DEF Fill
  <2> QED BY <1>7, <2>1, <2>2, <2>3, <2>4 DEF Fill, Filled
<1>8. CASE Enqueue
  <2>1. pool[idx] \in Messages /\ idx \in Index
    BY <1>8, IndexQueued DEF Enqueue, Filled, Remembered
  <2> QED BY <1>8, <2>1, IndexQueued DEF Enqueue, Accept, Filled
<1>9. CASE Ack
  BY <1>9, IndexesStay DEF Ack, Filled, Typed
<1>10. ASSUME NEW m \in cache, Forget(m)
     PROVE  Filled'
  BY <1>10, IndexesStay DEF Forget, Filled, Typed
<1>11. CASE PatchReceives
  <2> QED BY <1>11, IndexReceived DEF PatchReceives, Filled
<1>12. CASE PatchMarks
  BY <1>12, IndexesStay DEF PatchMarks, SlotSet, Filled, Typed
<1>13. CASE PatchSends
  <2>1. held \in Index
    BY <1>13 DEF PatchSends, InHand, Working, Typed, Index
  <2>2. \A i : InQueue(i)' <=> InQueue(i)
    BY <1>13, IndexesStay DEF PatchSends
  <2> QED BY <1>13, <2>1, <2>2 DEF PatchSends, Filled
<1>14. CASE PatchMisses
  BY <1>14, IndexesStay DEF PatchMisses, Filled, Typed
<1>15. CASE PatchRestarts
  <2>1. \A i \in Index : i # 0
    BY DEF Index
  <2> QED BY <1>15, <2>1, Emptied DEF PatchRestarts, Filled
<1>16. CASE PatchSucceeds
  BY <1>16, IndexesStay DEF PatchSucceeds, PatchReturns, Deliver, Filled, Typed
<1>17. CASE PatchFails
  BY <1>17, IndexesStay DEF PatchFails, PatchReturns, Deliver, Filled, Typed
<1>18. CASE PatchRefused
  BY <1>18, IndexesStay DEF PatchRefused, PatchReturns, Filled, Typed
<1>19. CASE PatchFrees
  <2>1. held \in Index /\ held' = 0 /\ 0 \notin Index
    BY <1>19, IndexFreed DEF Index
  <2>2. \A i : InQueue(i)' <=> InQueue(i)
    BY <1>19 DEF PatchFrees, InQueue
  <2>3. ~InQueue(held) /\ idx # held
    BY <2>1 DEF OnePlace
  <2>4. \A i \in Index \ {held} : pool'[i] = pool[i] /\ state'[i] = state[i]
    BY <1>19, <2>1 DEF PatchFrees, SlotSet, Typed
  <2>5. state'[held] = "queued" => pool'[held] = pool[held]
    BY <1>19, <2>1 DEF PatchFrees, Typed
  <2>6. rx = "send" => idx \in Index
    BY DEF InHand, Typed, Index
  <2> QED BY <1>19, <2>1, <2>2, <2>3, <2>4, <2>5, <2>6 DEF PatchFrees, Filled
<1>20. CASE Login
  BY <1>20, IndexesStay DEF Login, NetUnchanged, Filled, Typed
<1>21. CASE SetConnectado
  BY <1>21, IndexesStay DEF SetConnectado, NetUnchanged, Filled, Typed
<1>22. CASE UNCHANGED vars
  BY <1>22 DEF vars, Filled, InQueue
<1> QED
  BY <1>1, <1>2, <1>3, <1>4, <1>5, <1>6, <1>7, <1>8, <1>9, <1>10, <1>11, <1>12,
     <1>13, <1>14, <1>15, <1>16, <1>17, <1>18, <1>19, <1>20, <1>21, <1>22
     DEF Next, RxTask, PatchTask

\* An event stays kept if its request does, or the server has it.
LEMMA EventsKeep ==
  ASSUME EventsKept, posted \subseteq posted',
         \A m \in accepted' : m.kind = "event" => m \in accepted,
         \A i \in Pending : pool[i].kind = "event" =>
           pool[i] \in posted' \/ (i \in Pending' /\ pool'[i] = pool[i])
  PROVE  EventsKept'
BY DEF EventsKept

LEMMA PendingStays ==
  ASSUME queue' = queue, held' = held
  PROVE  Pending' = Pending
BY DEF Pending, InQueue

LEMMA EventsStep ==
  ASSUME Typed, QueuesTyped, InHand, OnePlace, Remembered, Filled, EventsKept, [Next]_vars
  PROVE  EventsKept'
<1> USE DEF tankVars, rxVars, poolVars, patchVars, netVars, serverVars, ghosts
<1>1. ASSUME NEW t \in Tanks, TankBegins(t)
     PROVE  EventsKept'
  BY <1>1, PendingStays, EventsKeep DEF TankBegins
<1>2. ASSUME NEW t \in Tanks, Receive(t)
     PROVE  EventsKept'
  BY <1>2, PendingStays, EventsKeep DEF Receive, Duplicate
<1>3. CASE Coalesce
  <2>1. msg \in Messages /\ msg.kind = "level"
    BY <1>3 DEF Coalesce, Remembered
  <2>2. \A m \in accepted' : m.kind = "event" => m \in accepted
    BY <1>3, <2>1 DEF Coalesce, Accept
  <2>3. PICK i \in Index : SameLevel(i) /\ pool' = [pool EXCEPT ![i] = msg]
    BY <1>3 DEF Coalesce
  <2>4. \A j \in Pending : pool[j].kind = "event" => j # i
    BY <2>3 DEF SameLevel
  <2>5. \A j \in Pending : pool[j].kind = "event" => pool'[j] = pool[j]
    BY <2>3, <2>4 DEF Typed, Pending
  <2>6. Pending' = Pending /\ posted' = posted
    BY <1>3, PendingStays DEF Coalesce
  <2> QED BY <2>2, <2>5, <2>6, EventsKeep
<1>4. CASE CoalesceFails
  <2>1. \A m \in accepted' : m.kind = "event" => m \in accepted
    BY <1>4 DEF CoalesceFails, Accept, Remembered
  <2>2. Pending' = Pending /\ posted' = posted /\ pool' = pool
    BY <1>4, PendingStays DEF CoalesceFails
  <2> QED BY <2>1, <2>2, EventsKeep
<1>5. CASE TakeIndex
  <2>1. /\ Pending' = Pending /\ posted' = posted /\ pool' = pool
        /\ accepted' = accepted
    BY <1>5, PendingStays DEF TakeIndex
  <2> QED BY <2>1, EventsKeep
<1>6. CASE NoIndex
  BY <1>6, PendingStays, EventsKeep DEF NoIndex
<1>7. CASE Fill
  <2>1. Pending' = Pending /\ posted' = posted /\ accepted' = accepted
    BY <1>7, PendingStays DEF Fill
  <2>2. idx \notin Pending
    BY <1>7 DEF Fill, Pending, InHand, OnePlace
  <2>3. \A i \in Pending : pool'[i] = pool[i]
    BY <1>7, <2>2 DEF Fill, Typed, Pending
  <2> QED BY <2>1, <2>3, EventsKeep
<1>8. CASE Enqueue
  <2>1. pool[idx] = msg /\ msg \in Messages /\ idx \in Pending'
    BY <1>8, IndexQueued DEF Enqueue, Filled, Remembered, Pending
  <2>2. \A i \in Pending : i \in Pending'
    BY <1>8, IndexQueued DEF Pending
  <2>3. /\ pool' = pool /\ posted' = posted
        /\ \A m \in accepted' : m \in accepted \/ m = msg
    BY <1>8 DEF Enqueue, Accept
  <2> QED BY <2>1, <2>2, <2>3 DEF EventsKept
<1>9. CASE Ack
  BY <1>9, PendingStays, EventsKeep DEF Ack
<1>10. ASSUME NEW m \in cache, Forget(m)
     PROVE  EventsKept'
  BY <1>10, PendingStays, EventsKeep DEF Forget
<1>11. CASE PatchReceives
  <2>1. \A i \in Pending : i \in Pending'
    BY <1>11, IndexReceived DEF Pending, Index
  <2>2. pool' = pool /\ posted' = posted /\ accepted' = accepted
    BY <1>11 DEF PatchReceives
  <2> QED BY <2>1, <2>2, EventsKeep
<1>12. CASE PatchMarks
  BY <1>12, PendingStays, EventsKeep DEF PatchMarks, SlotSet
<1>13. CASE PatchSends
  BY <1>13, PendingStays, EventsKeep DEF PatchSends
<1>14. CASE PatchMisses
  BY <1>14, PendingStays, EventsKeep DEF PatchMisses
<1>15. CASE PatchRestarts
  BY <1>15 DEF PatchRestarts, EventsKept
<1>16. CASE PatchSucceeds
  <2>1. Pending' = Pending /\ pool' = pool /\ accepted' = accepted
    BY <1>16, PendingStays DEF PatchSucceeds, PatchReturns
  <2>2. posted \subseteq posted'
    BY <1>16 DEF PatchSucceeds, Deliver
  <2> QED BY <2>1, <2>2, EventsKeep
<1>17. CASE PatchFails
  <2>1. Pending' = Pending /\ pool' = pool /\ accepted' = accepted
    BY <1>17, PendingStays DEF PatchFails, PatchReturns
  <2>2. posted \subseteq posted'
    BY <1>17 DEF PatchFails, Deliver
  <2> QED BY <2>1, <2>2, EventsKeep
<1>18. CASE PatchRefused
  BY <1>18, PendingStays, EventsKeep DEF PatchRefused, PatchReturns
<1>19. CASE PatchFrees
  <2>1. held \in Index /\ held' = 0 /\ 0 \notin Index
    BY <1>19, IndexFreed DEF Index
  <2>2. \A i : InQueue(i)' <=> InQueue(i)
    BY <1>19 DEF PatchFrees, InQueue
  <2>3. \A i \in Index \ {held} : pool'[i] = pool[i]
    BY <1>19, <2>1 DEF PatchFrees, Typed
  <2>4. \A i \in Pending : i \in Pending' \/ i = held
    BY <2>2 DEF Pending
  <2>5. pool[held].kind = "event" => pool[held] \in posted
    BY <1>19 DEF PatchFrees, Filled
  <2>6. posted' = posted /\ accepted' = accepted
    BY <1>19 DEF PatchFrees
  <2> QED BY <2>3, <2>4, <2>5, <2>6, EventsKeep DEF Pending
<1>20. CASE Login
  BY <1>20, PendingStays, EventsKeep DEF Login, NetUnchanged
<1>21. CASE SetConnectado
  BY <1>21, PendingStays, EventsKeep DEF SetConnectado, NetUnchanged
<1>22. CASE UNCHANGED vars
  BY <1>22 DEF vars, EventsKept, Pending, InQueue
<1> QED
  BY <1>1, <1>2, <1>3, <1>4, <1>5, <1>6, <1>7, <1>8, <1>9, <1>10, <1>11, <1>12,
     <1>13, <1>14, <1>15, <1>16, <1>17, <1>18, <1>19, <1>20, <1>21, <1>22
     DEF Next, RxTask, PatchTask

-----------------------------------------------------------------------------
(* The order of the levels, while patch_pool_mutex answers.                 *)

\* The index a task works on is one of the pool.
LEMMA HandsTyped ==
  ASSUME Typed, InHand, OnePlace
  PROVE  /\ rx \in {"fill", "send"} => idx \in Index /\ idx # held /\ ~InQueue(idx)
         /\ patch \in Working => held \in Index /\ held # idx /\ ~InQueue(held)
         /\ 0 \notin Index
BY DEF Typed, InHand, OnePlace, Index, Working

LEMMA MarkedStep ==
  ASSUME Typed, QueuesTyped, InHand, OnePlace, Remembered, Filled, missed = 0, missed' = 0,
         Marked, [Next]_vars
  PROVE  Marked'
<1> USE DEF tankVars, rxVars, poolVars, patchVars, netVars, serverVars, ghosts
<1>1. ASSUME NEW t \in Tanks, TankBegins(t)
     PROVE  Marked'
  BY <1>1, IndexesStay DEF TankBegins, Marked
<1>2. ASSUME NEW t \in Tanks, Receive(t)
     PROVE  Marked'
  BY <1>2, IndexesStay DEF Receive, Duplicate, Marked
<1>3. CASE Coalesce
  <2>1. PICK i \in Index : SameLevel(i) /\ pool' = [pool EXCEPT ![i] = msg]
    BY <1>3 DEF Coalesce
  <2>2. patch = "send" => pool'[held] = pool[held]
    BY <2>1, HandsTyped DEF SameLevel, Marked, Typed, Working
  <2> QED BY <1>3, <2>2, IndexesStay DEF Coalesce, Accept, Marked
<1>4. CASE CoalesceFails
  BY <1>4, IndexesStay DEF CoalesceFails, Accept, Marked
<1>5. CASE TakeIndex
  <2>1. \A i : InQueue(i)' <=> InQueue(i)
    BY <1>5 DEF TakeIndex, InQueue
  <2> QED BY <1>5, <2>1 DEF TakeIndex, Marked
<1>6. CASE NoIndex
  BY <1>6, IndexesStay DEF NoIndex, Marked
<1>7. CASE Fill
  <2>1. state' = [state EXCEPT ![idx] = "queued"]
    BY <1>7 DEF Fill, SlotSet
  <2>2. idx \in Index /\ idx # held /\ ~InQueue(idx)
    BY <1>7, HandsTyped DEF Fill
  <2>3. \A i : InQueue(i)' <=> InQueue(i)
    BY <1>7, IndexesStay DEF Fill
  <2>4. /\ state'[idx] = "queued"
        /\ \A i \in Index \ {idx} : state'[i] = state[i] /\ pool'[i] = pool[i]
    BY <1>7, <2>1, <2>2 DEF Fill, Typed
  <2>5. patch = "send" => held \in Index
    BY HandsTyped DEF Working
  <2> QED BY <1>7, <2>2, <2>3, <2>4, <2>5 DEF Fill, Marked
<1>8. CASE Enqueue
  <2>1. 0 \notin Index
    BY HandsTyped
  <2>2. idx \in Index /\ idx # held
    BY <1>8, HandsTyped DEF Enqueue
  <2> QED BY <1>8, <2>1, <2>2, IndexQueued DEF Enqueue, Accept, Marked
<1>9. CASE Ack
  BY <1>9, IndexesStay DEF Ack, Marked
<1>10. ASSUME NEW m \in cache, Forget(m)
     PROVE  Marked'
  BY <1>10, IndexesStay DEF Forget, Marked
<1>11. CASE PatchReceives
  <2>1. 0 \notin Index
    BY HandsTyped
  <2> QED BY <1>11, <2>1, IndexReceived DEF PatchReceives, Marked
<1>12. CASE PatchMarks
  <2>1. held \in Index /\ held # idx /\ ~InQueue(held)
    BY <1>12, HandsTyped DEF PatchMarks, Working
  <2>2. state' = [state EXCEPT ![held] = "processing"]
    BY <1>12 DEF PatchMarks, SlotSet
  <2>3. \A i : InQueue(i)' <=> InQueue(i)
    BY <1>12, IndexesStay DEF PatchMarks
  <2> QED BY <1>12, <2>1, <2>2, <2>3 DEF PatchMarks, Marked, Typed
<1>13. CASE PatchSends
  BY <1>13, IndexesStay DEF PatchSends, Marked
<1>14. CASE PatchMisses
  BY <1>14, IndexesStay DEF PatchMisses, Marked
<1>15. CASE PatchRestarts
  <2>1. 0 \notin Index
    BY HandsTyped
  <2> QED BY <1>15, <2>1, Emptied DEF PatchRestarts, Marked
<1>16. CASE PatchSucceeds
  BY <1>16, IndexesStay DEF PatchSucceeds, PatchReturns, Deliver, Marked
<1>17. CASE PatchFails
  BY <1>17, IndexesStay DEF PatchFails, PatchReturns, Deliver, Marked
<1>18. CASE PatchRefused
  BY <1>18, IndexesStay DEF PatchRefused, PatchReturns, Marked
<1>19. CASE PatchFrees
  <2>1. held \in Index /\ held # idx /\ ~InQueue(held) /\ 0 \notin Index
    BY <1>19, HandsTyped DEF PatchFrees, Working
  <2>2. state' = [state EXCEPT ![held] = "free"]
    BY <1>19 DEF PatchFrees, SlotSet
  <2>3. \A i : InQueue(i)' <=> InQueue(i)
    BY <1>19 DEF PatchFrees, InQueue
  <2>4. state'[held] = "free" /\ \A i \in Index \ {held} : state'[i] = state[i]
    BY <2>1, <2>2 DEF Typed
  <2> QED BY <1>19, <2>1, <2>3, <2>4 DEF PatchFrees, Marked
<1>20. CASE Login
  BY <1>20, IndexesStay DEF Login, NetUnchanged, Marked
<1>21. CASE SetConnectado
  BY <1>21, IndexesStay DEF SetConnectado, NetUnchanged, Marked
<1>22. CASE UNCHANGED vars
  BY <1>22 DEF vars, Marked, InQueue
<1> QED
  BY <1>1, <1>2, <1>3, <1>4, <1>5, <1>6, <1>7, <1>8, <1>9, <1>10, <1>11, <1>12,
     <1>13, <1>14, <1>15, <1>16, <1>17, <1>18, <1>19, <1>20, <1>21, <1>22
     DEF Next, RxTask, PatchTask

LEMMA OneQueuedStep ==
  ASSUME Typed, QueuesTyped, InHand, OnePlace, Remembered, Filled, missed = 0, missed' = 0,
         OneQueued, [Next]_vars
  PROVE  OneQueued'
<1> USE DEF tankVars, rxVars, poolVars, patchVars, netVars, serverVars, ghosts
<1>1. ASSUME NEW t \in Tanks, TankBegins(t)
     PROVE  OneQueued'
  BY <1>1 DEF TankBegins, OneQueued, SameLevel
<1>2. ASSUME NEW t \in Tanks, Receive(t)
     PROVE  OneQueued'
  BY <1>2 DEF Receive, Duplicate, OneQueued, SameLevel
<1>3. CASE Coalesce
  <2>1. PICK i \in Index : SameLevel(i) /\ pool' = [pool EXCEPT ![i] = msg]
    BY <1>3 DEF Coalesce
  <2>2. \A j \in Index, t \in Tanks : LevelOf(pool'[j], t) => LevelOf(pool[j], t)
    <3>1. pool[i] \in Messages /\ msg \in Messages
      BY <1>3, <2>1 DEF SameLevel, Filled, Coalesce, Remembered
    <3>2. LevelOf(pool[i], msg.tank) /\ \A t \in Tanks : LevelOf(msg, t) => t = msg.tank
      BY <2>1, <3>1, MessageFields DEF SameLevel, LevelOf
    <3> QED BY <2>1, <3>2 DEF Typed
  <2>3. state' = state /\ rx' = "ack"
    BY <1>3 DEF Coalesce, Accept
  <2> QED BY <2>2, <2>3 DEF OneQueued
<1>4. CASE CoalesceFails
  <2>1. rx' = "index" => \A i \in Index : ~SameLevel(i)
    BY <1>4 DEF CoalesceFails, Accept
  <2>2. /\ pool' = pool /\ state' = state /\ msg' = msg
        /\ rx' \in {"index", "ack"}
    BY <1>4 DEF CoalesceFails, Accept
  <2> QED BY <2>1, <2>2 DEF OneQueued, SameLevel
<1>5. CASE TakeIndex
  BY <1>5 DEF TakeIndex, OneQueued, SameLevel
<1>6. CASE NoIndex
  BY <1>6 DEF NoIndex, OneQueued, SameLevel
<1>7. CASE Fill
  <2>1. idx \in Index /\ msg \in Messages
    BY <1>7, HandsTyped DEF Fill, Remembered
  <2>2. /\ state'[idx] = "queued" /\ pool'[idx] = msg
        /\ \A i \in Index \ {idx} : state'[i] = state[i] /\ pool'[i] = pool[i]
    BY <1>7, <2>1 DEF Fill, SlotSet, Typed
  <2>3. \A i \in Index, t \in Tanks :
          state[i] = "queued" /\ LevelOf(pool[i], t) => ~LevelOf(msg, t)
    BY <1>7 DEF OneQueued, SameLevel, LevelOf, Fill
  <2>4. rx' = "send"
    BY <1>7 DEF Fill
  <2> QED BY <2>1, <2>2, <2>3, <2>4 DEF OneQueued
<1>8. CASE Enqueue
  BY <1>8 DEF Enqueue, Accept, OneQueued, SameLevel
<1>9. CASE Ack
  BY <1>9 DEF Ack, OneQueued, SameLevel
<1>10. ASSUME NEW m \in cache, Forget(m)
     PROVE  OneQueued'
  BY <1>10 DEF Forget, OneQueued, SameLevel
<1>11. CASE PatchReceives
  BY <1>11 DEF PatchReceives, OneQueued, SameLevel
<1>12. CASE PatchMarks
  <2>1. held \in Index
    BY <1>12, HandsTyped DEF PatchMarks, Working
  <2>2. \A i \in Index : state'[i] = "queued" => state[i] = "queued"
    BY <1>12, <2>1 DEF PatchMarks, SlotSet, Typed
  <2>3. pool' = pool /\ rx' = rx /\ msg' = msg
    BY <1>12 DEF PatchMarks
  <2> QED BY <2>2, <2>3 DEF OneQueued, SameLevel
<1>13. CASE PatchSends
  BY <1>13 DEF PatchSends, OneQueued, SameLevel
<1>14. CASE PatchMisses
  BY <1>14 DEF PatchMisses, OneQueued, SameLevel
<1>15. CASE PatchRestarts
  <2>1. \A i \in Index : state'[i] = "free"
    BY <1>15 DEF PatchRestarts
  <2>2. rx' = "idle"
    BY <1>15 DEF PatchRestarts
  <2> QED BY <2>1, <2>2 DEF OneQueued
<1>16. CASE PatchSucceeds
  BY <1>16 DEF PatchSucceeds, PatchReturns, Deliver, OneQueued, SameLevel
<1>17. CASE PatchFails
  BY <1>17 DEF PatchFails, PatchReturns, Deliver, OneQueued, SameLevel
<1>18. CASE PatchRefused
  BY <1>18 DEF PatchRefused, PatchReturns, OneQueued, SameLevel
<1>19. CASE PatchFrees
  <2>1. held \in Index
    BY <1>19, HandsTyped DEF PatchFrees, Working
  <2>2. \A i \in Index : state'[i] = "queued" => state[i] = "queued" /\ pool'[i] = pool[i]
    BY <1>19, <2>1 DEF PatchFrees, SlotSet, Typed
  <2>3. rx' = rx /\ msg' = msg
    BY <1>19 DEF PatchFrees
  <2> QED BY <2>2, <2>3 DEF OneQueued, SameLevel
<1>20. CASE Login
  BY <1>20 DEF Login, NetUnchanged, OneQueued, SameLevel
<1>21. CASE SetConnectado
  BY <1>21 DEF SetConnectado, NetUnchanged, OneQueued, SameLevel
<1>22. CASE UNCHANGED vars
  BY <1>22 DEF vars, OneQueued, SameLevel
<1> QED
  BY <1>1, <1>2, <1>3, <1>4, <1>5, <1>6, <1>7, <1>8, <1>9, <1>10, <1>11, <1>12,
     <1>13, <1>14, <1>15, <1>16, <1>17, <1>18, <1>19, <1>20, <1>21, <1>22
     DEF Next, RxTask, PatchTask

LEMMA Numbers ==
  ASSUME Typed
  PROVE  /\ \A t \in Tanks : level[t] \in Nat /\ (waiting[t] # NoMessage => waiting[t].n \in Nat)
         /\ \A i \in Index : pool[i] # NoMessage => pool[i].n \in Nat
         /\ msg # NoMessage => msg.n \in Nat
         /\ started["level"] \in Nat /\ started["event"] \in Nat
BY MessageFields DEF Typed, OrNone, Kinds

\* The message in hand is put into a request that waits.
LEMMA LevelPut ==
  ASSUME Typed, Remembered, InLine, rx # "idle",
         NEW i \in Index, state'[i] = "queued", pool'[i] = msg,
         \A j \in Index \ {i} : state'[j] = state[j] /\ pool'[j] = pool[j],
         msg' = msg, waiting' = waiting, started' = started, level' = level
  PROVE  InLine'
<1>1. msg \in Messages /\ msg # NoMessage /\ msg.n \in Nat
  BY MessageFields DEF Remembered
<1>2. \A t \in Tanks : LevelOf(msg, t) =>
        /\ level[t] <= msg.n /\ msg.n <= started["level"]
        /\ \A j \in Index : Live(j, t) => pool[j].n <= msg.n
        /\ LevelOf(waiting[t], t) => msg.n <= waiting[t].n
  BY DEF InLine, Newest
<1>3. \A j \in Index, t \in Tanks :
        Live(j, t)' => (j # i /\ Live(j, t)) \/ (j = i /\ LevelOf(msg, t))
  BY DEF Live
<1>4. \A j \in Index, t \in Tanks : Live(j, t)' => level'[t] <= pool'[j].n
  BY <1>2, <1>3 DEF InLine
<1>5. \A j, k \in Index, t \in Tanks :
        /\ state'[j] = "processing" /\ LevelOf(pool'[j], t)
        /\ state'[k] = "queued" /\ LevelOf(pool'[k], t)
        => pool'[j].n <= pool'[k].n
  BY <1>2 DEF InLine, Live
<1>6. \A t \in Tanks, n \in Nat :
        Newest(t, n) /\ (LevelOf(msg, t) => msg.n <= n) => Newest(t, n)'
  BY <1>3 DEF Newest
<1>7. \A t \in Tanks : Newest(t, started["level"])'
  BY <1>2, <1>6, Numbers DEF InLine
<1>8. \A t \in Tanks : LevelOf(waiting[t], t) => Newest(t, waiting[t].n)'
  BY <1>2, <1>6, Numbers DEF InLine, LevelOf
<1>9. \A t \in Tanks : LevelOf(msg, t) => Newest(t, msg.n)'
  BY <1>1, <1>6 DEF InLine
<1> QED BY <1>2, <1>4, <1>5, <1>7, <1>8, <1>9 DEF InLine, Newest, Live

\* The server takes the level that is being sent.
LEMMA LevelDelivered ==
  ASSUME Typed, InHand, OnePlace, Filled, Marked, InLine, patch = "send",
         UNCHANGED serverVars \/ Deliver(sending),
         UNCHANGED <<tankVars, rxVars, poolVars>>
  PROVE  InLine'
<1>1. CASE UNCHANGED serverVars
  BY <1>1 DEF InLine, Newest, Live, tankVars, rxVars, poolVars, serverVars
<1>2. CASE Deliver(sending)
  <2>1. held \in Index /\ state[held] = "processing" /\ sending = pool[held] /\ sending \in Messages
    BY HandsTyped DEF Working, Marked, Filled
  <2>2. \A i \in Index : state[i] = "processing" => i = held
    BY DEF Marked
  <2>3. sending # NoMessage /\ sending.tank \in Tanks /\ sending.n \in Nat
    BY <2>1, MessageFields
  <2>4. /\ \A i \in Index, t \in Tanks : Live(i, t)' <=> Live(i, t)
        /\ \A t \in Tanks : LevelOf(waiting'[t], t) <=> LevelOf(waiting[t], t)
        /\ \A t \in Tanks : LevelOf(msg', t) <=> LevelOf(msg, t)
        /\ pool' = pool /\ state' = state /\ msg' = msg /\ rx' = rx
        /\ waiting' = waiting /\ started' = started
    BY DEF Live, tankVars, rxVars, poolVars
  <2>5. \A t \in Tanks : level'[t] = level[t] \/ (LevelOf(sending, t) /\ level'[t] = sending.n)
    BY <1>2, <2>3 DEF Deliver, LevelOf, Typed
  <2>6. \A t \in Tanks : LevelOf(sending, t) => Live(held, t)
    BY <2>1 DEF Live
  <2>7. \A i \in Index, t \in Tanks : Live(i, t) => level'[t] <= pool[i].n
    <3> SUFFICES ASSUME NEW i \in Index, NEW t \in Tanks, Live(i, t), LevelOf(sending, t)
                 PROVE  sending.n <= pool[i].n
      BY <2>5 DEF InLine
    <3>1. CASE i = held
      BY <3>1, <2>1, <2>3
    <3>2. CASE i # held
      <4>1. state[i] = "queued"
        BY <2>2, <3>2 DEF Live, Typed
      <4> QED BY <4>1, <2>1 DEF InLine, Live
    <3> QED BY <3>1, <3>2
  <2> DEFINE NewestNext(t, n) ==
        level'[t] <= n /\ \A i \in Index : Live(i, t) => pool[i].n <= n
  <2>8. \A t \in Tanks, n \in Nat : Newest(t, n) => NewestNext(t, n)
    <3> SUFFICES ASSUME NEW t \in Tanks, NEW n \in Nat, Newest(t, n)
                 PROVE  level'[t] <= n
      BY DEF Newest
    <3> QED BY <2>1, <2>5, <2>6 DEF Newest
  <2> HIDE DEF NewestNext
  <2>9. \A t \in Tanks : NewestNext(t, started["level"])
    BY <2>8, Numbers DEF InLine
  <2>10. \A t \in Tanks : LevelOf(waiting[t], t) => NewestNext(t, waiting[t].n)
    BY <2>8, Numbers DEF InLine, LevelOf
  <2>11. \A t \in Tanks : rx # "idle" /\ LevelOf(msg, t) => NewestNext(t, msg.n)
    BY <2>8, Numbers DEF InLine, LevelOf
  <2> QED BY <2>4, <2>7, <2>9, <2>10, <2>11 DEF InLine, Newest, NewestNext
<1> QED BY <1>1, <1>2

LEMMA InLineStep ==
  ASSUME Typed, QueuesTyped, InHand, OnePlace, Remembered, Filled, missed = 0, missed' = 0,
         Marked, OneQueued, InLine, [Next]_vars
  PROVE  InLine'
<1> USE DEF tankVars, rxVars, poolVars, patchVars, netVars, serverVars, ghosts
<1>1. ASSUME NEW t \in Tanks, TankBegins(t)
     PROVE  InLine'
  <2>1. PICK k \in Kinds :
          /\ started' = [started EXCEPT ![k] = started[k] + 1]
          /\ waiting' = [waiting EXCEPT ![t] = [tank |-> t, n |-> started[k] + 1, kind |-> k]]
    BY <1>1 DEF TankBegins
  <2>2. /\ started["level"] \in Nat /\ started'["level"] \in Nat
        /\ started["level"] <= started'["level"]
        /\ k = "level" => started'["level"] = started["level"] + 1
    BY <2>1 DEF Typed, Kinds
  <2>3. /\ pool' = pool /\ state' = state /\ level' = level /\ msg' = msg /\ rx' = rx
    BY <1>1 DEF TankBegins
  <2>4. \A u \in Tanks : waiting'[u] = waiting[u] \/ (u = t /\
          waiting'[u] = [tank |-> t, n |-> started[k] + 1, kind |-> k])
    BY <2>1 DEF Typed
  <2>5. \A u \in Tanks : LevelOf(waiting'[u], u) =>
          \/ waiting'[u] = waiting[u] /\ LevelOf(waiting[u], u)
          \/ waiting'[u].n = started["level"] + 1 /\ k = "level"
    BY <2>4 DEF LevelOf
  <2>6. \A u \in Tanks, m, n \in Nat : Newest(u, m) /\ m <= n => Newest(u, n)
    BY Numbers DEF Newest, Live, LevelOf
  <2>7. \A u \in Tanks : Newest(u, started["level"])
    BY DEF InLine
  <2>8. \A u \in Tanks : Newest(u, started'["level"])
    BY <2>2, <2>6, <2>7
  <2>9. \A u \in Tanks : LevelOf(waiting'[u], u) =>
           Newest(u, waiting'[u].n) /\ waiting'[u].n <= started'["level"]
    <3> SUFFICES ASSUME NEW u \in Tanks, LevelOf(waiting'[u], u)
                 PROVE  Newest(u, waiting'[u].n) /\ waiting'[u].n <= started'["level"]
      OBVIOUS
    <3>1. CASE waiting'[u] = waiting[u] /\ LevelOf(waiting[u], u)
      <4>1. waiting[u].n \in Nat
        BY <3>1, Numbers DEF LevelOf
      <4>2. Newest(u, waiting[u].n) /\ waiting[u].n <= started["level"]
        BY <3>1 DEF InLine
      <4> QED BY <2>2, <3>1, <4>1, <4>2
    <3>2. CASE waiting'[u].n = started["level"] + 1 /\ k = "level"
      <4>1. waiting'[u].n = started'["level"]
        BY <2>2, <3>2
      <4> QED BY <2>2, <2>8, <4>1
    <3> QED BY <2>5, <3>1, <3>2
  <2>10. \A u \in Tanks : rx # "idle" /\ LevelOf(msg, u) =>
           /\ Newest(u, msg.n) /\ msg.n <= started'["level"]
           /\ LevelOf(waiting'[u], u) => msg.n <= waiting'[u].n
    <3> SUFFICES ASSUME NEW u \in Tanks, rx # "idle", LevelOf(msg, u)
                 PROVE  /\ Newest(u, msg.n) /\ msg.n <= started'["level"]
                        /\ LevelOf(waiting'[u], u) => msg.n <= waiting'[u].n
      OBVIOUS
    <3>1. msg.n \in Nat
      BY Numbers DEF LevelOf
    <3>2. /\ Newest(u, msg.n) /\ msg.n <= started["level"]
          /\ LevelOf(waiting[u], u) => msg.n <= waiting[u].n
      BY DEF InLine
    <3> QED BY <2>2, <2>5, <3>1, <3>2
  <2>11. /\ \A i \in Index, u \in Tanks : Live(i, u)' => level'[u] <= pool'[i].n
         /\ \A i, j \in Index, u \in Tanks :
              /\ state'[i] = "processing" /\ LevelOf(pool'[i], u)
              /\ state'[j] = "queued" /\ LevelOf(pool'[j], u)
              => pool'[i].n <= pool'[j].n
    BY <2>3 DEF InLine, Live
  <2> QED BY <2>3, <2>8, <2>9, <2>10, <2>11 DEF InLine, Newest, Live
<1>2. ASSUME NEW t \in Tanks, Receive(t)
     PROVE  InLine'
  <2>1. msg' = waiting[t] /\ waiting[t] # NoMessage
    BY <1>2 DEF Receive
  <2>2. \A u \in Tanks : LevelOf(waiting[t], u) => u = t
    BY <2>1 DEF Remembered, LevelOf
  <2>3. /\ pool' = pool /\ state' = state /\ level' = level
        /\ waiting' = waiting /\ started' = started
    BY <1>2 DEF Receive
  <2>4. waiting[t].n \in Nat
    BY <2>1, Numbers
  <2> QED BY <2>1, <2>2, <2>3, <2>4 DEF InLine, Newest, Live
<1>3. CASE Coalesce
  <2>1. PICK i \in Index : SameLevel(i) /\ pool' = [pool EXCEPT ![i] = msg]
    BY <1>3 DEF Coalesce
  <2>2. /\ state' = state /\ state[i] = "queued" /\ pool'[i] = msg
        /\ \A j \in Index \ {i} : pool'[j] = pool[j]
    BY <1>3, <2>1 DEF Coalesce, SameLevel, Typed
  <2> QED BY <1>3, <2>2, LevelPut DEF Coalesce
<1>4. CASE CoalesceFails
  BY <1>4 DEF CoalesceFails, Accept, InLine, Newest, Live
<1>5. CASE TakeIndex
  BY <1>5 DEF TakeIndex, InLine, Newest, Live
<1>6. CASE NoIndex
  BY <1>6 DEF NoIndex, InLine, Newest, Live
<1>7. CASE Fill
  <2>1. idx \in Index
    BY <1>7, HandsTyped DEF Fill
  <2>2. /\ state'[idx] = "queued" /\ pool'[idx] = msg
        /\ \A i \in Index \ {idx} : state'[i] = state[i] /\ pool'[i] = pool[i]
    BY <1>7, <2>1 DEF Fill, SlotSet, Typed
  <2> QED BY <1>7, <2>1, <2>2, LevelPut DEF Fill
<1>8. CASE Enqueue
  BY <1>8 DEF Enqueue, Accept, InLine, Newest, Live
<1>9. CASE Ack
  <2>1. /\ pool' = pool /\ state' = state /\ level' = level /\ started' = started
        /\ rx' = "idle"
    BY <1>9 DEF Ack
  <2>2. \A t \in Tanks : waiting'[t] = waiting[t] \/ waiting'[t] = NoMessage
    BY <1>9 DEF Ack, Typed
  <2>3. \A t \in Tanks : LevelOf(waiting'[t], t) => waiting'[t] = waiting[t] /\ LevelOf(waiting[t], t)
    BY <2>2 DEF LevelOf
  <2> QED BY <2>1, <2>3 DEF InLine, Newest, Live
<1>10. ASSUME NEW m \in cache, Forget(m)
     PROVE  InLine'
  BY <1>10 DEF Forget, InLine, Newest, Live
<1>11. CASE PatchReceives
  BY <1>11 DEF PatchReceives, InLine, Newest, Live
<1>12. CASE PatchMarks
  <2>1. held \in Index
    BY <1>12, HandsTyped DEF PatchMarks, Working
  <2>2. /\ state[held] = "queued" /\ state'[held] = "processing"
        /\ \A i \in Index \ {held} : state'[i] = state[i] /\ state[i] # "processing"
    BY <1>12, <2>1 DEF PatchMarks, SlotSet, Typed, Marked
  <2>3. \A i \in Index : state'[i] # "free" <=> state[i] # "free"
    BY <2>2
  <2>4. /\ pool' = pool /\ level' = level /\ msg' = msg /\ rx' = rx
        /\ waiting' = waiting /\ started' = started
    BY <1>12 DEF PatchMarks
  <2>5. \A i, j \in Index, u \in Tanks :
          ~(/\ state'[i] = "processing" /\ LevelOf(pool[i], u)
            /\ state'[j] = "queued" /\ LevelOf(pool[j], u))
    BY <2>2 DEF OneQueued
  <2> QED BY <2>3, <2>4, <2>5 DEF InLine, Newest, Live
<1>13. CASE PatchSends
  BY <1>13 DEF PatchSends, InLine, Newest, Live
<1>14. CASE PatchMisses
  BY <1>14 DEF PatchMisses, InLine, Newest, Live
<1>15. CASE PatchRestarts
  <2>1. /\ \A i \in Index : state'[i] = "free"
        /\ level' = level /\ rx' = "idle" /\ waiting' = waiting /\ started' = started
    BY <1>15 DEF PatchRestarts
  <2> QED BY <2>1 DEF InLine, Newest, Live
<1>16. CASE PatchSucceeds
  BY <1>16, LevelDelivered DEF PatchSucceeds, PatchReturns
<1>17. CASE PatchFails
  BY <1>17, LevelDelivered DEF PatchFails, PatchReturns
<1>18. CASE PatchRefused
  BY <1>18 DEF PatchRefused, PatchReturns, InLine, Newest, Live
<1>19. CASE PatchFrees
  <2>1. held \in Index
    BY <1>19, HandsTyped DEF PatchFrees, Working
  <2>2. /\ state'[held] = "free"
        /\ \A i \in Index \ {held} : state'[i] = state[i] /\ pool'[i] = pool[i]
    BY <1>19, <2>1 DEF PatchFrees, SlotSet, Typed
  <2>3. /\ level' = level /\ msg' = msg /\ rx' = rx
        /\ waiting' = waiting /\ started' = started
    BY <1>19 DEF PatchFrees
  <2> QED BY <2>1, <2>2, <2>3 DEF InLine, Newest, Live
<1>20. CASE Login
  BY <1>20 DEF Login, NetUnchanged, InLine, Newest, Live
<1>21. CASE SetConnectado
  BY <1>21 DEF SetConnectado, NetUnchanged, InLine, Newest, Live
<1>22. CASE UNCHANGED vars
  BY <1>22 DEF vars, InLine, Newest, Live
<1> QED
  BY <1>1, <1>2, <1>3, <1>4, <1>5, <1>6, <1>7, <1>8, <1>9, <1>10, <1>11, <1>12,
     <1>13, <1>14, <1>15, <1>16, <1>17, <1>18, <1>19, <1>20, <1>21, <1>22
     DEF Next, RxTask, PatchTask

\* A request that waits is marked as such.
LEMMA PendingIsLive ==
  ASSUME Marked, NEW i \in Index, InQueue(i) \/ held = i
  PROVE  state[i] # "free"
BY DEF Marked

\* What a level accepted leaves of what was accepted.
LEMMA Accepts ==
  ASSUME NEW m \in Messages, accepted \subseteq Messages, Accept(m)
  PROVE  \A a \in accepted' :
           \/ a = m
           \/ a \in accepted /\ (m.kind = "level" /\ a.kind = "level" => a.tank # m.tank)
BY MessageFields DEF Accept

LEMMA AcceptedStep ==
  ASSUME Typed, QueuesTyped, InHand, OnePlace, Remembered, Filled, missed = 0, missed' = 0,
         Marked, OneQueued, InLine, AcceptedInLine, [Next]_vars
  PROVE  AcceptedInLine'
<1> USE DEF tankVars, rxVars, poolVars, patchVars, netVars, serverVars, ghosts
<1>1. ASSUME NEW t \in Tanks, TankBegins(t)
     PROVE  AcceptedInLine'
  BY <1>1, IndexesStay DEF TankBegins, AcceptedInLine
<1>2. ASSUME NEW t \in Tanks, Receive(t)
     PROVE  AcceptedInLine'
  BY <1>2, IndexesStay DEF Receive, Duplicate, AcceptedInLine
<1>3. CASE Coalesce
  <2>1. msg \in Messages /\ msg.kind = "level" /\ Accept(msg) /\ accepted \subseteq Messages
    BY <1>3 DEF Coalesce, Remembered, Typed
  <2>2. PICK i \in Index : SameLevel(i) /\ pool' = [pool EXCEPT ![i] = msg]
    BY <1>3 DEF Coalesce
  <2>3. pool'[i] = msg /\ \A j \in Index \ {i} : pool'[j] = pool[j]
    BY <2>2 DEF Typed
  <2>4. \A j : InQueue(j)' <=> InQueue(j)
    BY <1>3, IndexesStay DEF Coalesce
  <2>5. msg.n \in Nat /\ msg # NoMessage /\ msg.tank \in Tanks
    BY <2>1, MessageFields
  <2>6. \A j \in Index : LevelOf(pool[j], msg.tank) /\ (InQueue(j) \/ held = j) => pool[j].n <= msg.n
    BY <2>1, <2>5, <1>3, PendingIsLive DEF InLine, Newest, Live, LevelOf, Coalesce
  <2>7. \A a \in accepted', j \in Index :
          /\ LevelOf(a, a.tank) /\ LevelOf(pool'[j], a.tank)
          /\ InQueue(j) \/ held = j
          => pool'[j].n <= a.n
    <3> SUFFICES ASSUME NEW a \in accepted', NEW j \in Index,
                        LevelOf(a, a.tank), LevelOf(pool'[j], a.tank),
                        InQueue(j) \/ held = j
                 PROVE  pool'[j].n <= a.n
      OBVIOUS
    <3>1. CASE a = msg
      BY <2>3, <2>5, <2>6, <3>1
    <3>2. CASE a # msg
      <4>1. a \in accepted /\ a.tank # msg.tank
        BY <2>1, <3>2, Accepts DEF LevelOf
      <4>2. j # i
        BY <2>3, <4>1 DEF LevelOf
      <4> QED BY <2>3, <4>1, <4>2 DEF AcceptedInLine
    <3> QED BY <3>1, <3>2
  <2>8. patch = "free" => held \in Index /\ held # i
    BY <2>2, HandsTyped DEF SameLevel, Marked, Working
  <2> QED BY <1>3, <2>3, <2>4, <2>7, <2>8 DEF Coalesce, AcceptedInLine
<1>4. CASE CoalesceFails
  <2>1. msg \in Messages /\ msg.kind = "level" /\ accepted \subseteq Messages
    BY <1>4 DEF CoalesceFails, Remembered, Typed
  <2>2. \A j : InQueue(j)' <=> InQueue(j)
    BY <1>4, IndexesStay DEF CoalesceFails
  <2>3. msg.n \in Nat /\ msg # NoMessage /\ msg.tank \in Tanks
    BY <2>1, MessageFields
  <2>4. \A j \in Index : LevelOf(pool[j], msg.tank) /\ (InQueue(j) \/ held = j) => pool[j].n <= msg.n
    BY <2>1, <2>3, <1>4, PendingIsLive DEF InLine, Newest, Live, LevelOf, CoalesceFails
  <2>5. accepted' = accepted \/ Accept(msg)
    BY <1>4 DEF CoalesceFails
  <2>6. \A a \in accepted', j \in Index :
          /\ LevelOf(a, a.tank) /\ LevelOf(pool[j], a.tank)
          /\ InQueue(j) \/ held = j
          => pool[j].n <= a.n
    BY <2>1, <2>4, <2>5, Accepts DEF AcceptedInLine
  <2> QED BY <1>4, <2>2, <2>6 DEF CoalesceFails, AcceptedInLine
<1>5. CASE TakeIndex
  <2>1. \A i : InQueue(i)' <=> InQueue(i)
    BY <1>5 DEF TakeIndex, InQueue
  <2> QED BY <1>5, <2>1 DEF TakeIndex, AcceptedInLine
<1>6. CASE NoIndex
  BY <1>6, IndexesStay DEF NoIndex, AcceptedInLine
<1>7. CASE Fill
  <2>1. idx \in Index /\ idx # held /\ ~InQueue(idx)
    BY <1>7, HandsTyped DEF Fill
  <2>2. \A i \in Index \ {idx} : pool'[i] = pool[i]
    BY <1>7, <2>1 DEF Fill, Typed
  <2>3. \A i : InQueue(i)' <=> InQueue(i)
    BY <1>7, IndexesStay DEF Fill
  <2>4. patch = "free" => held \in Index
    BY HandsTyped DEF Working
  <2> QED BY <1>7, <2>1, <2>2, <2>3, <2>4 DEF Fill, AcceptedInLine
<1>8. CASE Enqueue
  <2>1. /\ msg \in Messages /\ Accept(msg) /\ pool[idx] = msg /\ pool' = pool
        /\ accepted \subseteq Messages
    BY <1>8 DEF Enqueue, Remembered, Filled, Typed
  <2>2. msg.n \in Nat /\ msg # NoMessage /\ msg.tank \in Tanks
    BY <2>1, MessageFields
  <2>3. \A j \in Index : LevelOf(msg, msg.tank) /\ LevelOf(pool[j], msg.tank) /\ (InQueue(j) \/ held = j)
          => pool[j].n <= msg.n
    BY <2>2, <1>8, PendingIsLive DEF InLine, Newest, Live, Enqueue
  <2>4. \A i : InQueue(i)' <=> InQueue(i) \/ i = idx
    BY <1>8, IndexQueued
  <2>5. \A a \in accepted', j \in Index :
          /\ LevelOf(a, a.tank) /\ LevelOf(pool[j], a.tank)
          /\ InQueue(j) \/ held = j \/ j = idx
          => pool[j].n <= a.n
    <3> SUFFICES ASSUME NEW a \in accepted', NEW j \in Index,
                        LevelOf(a, a.tank), LevelOf(pool[j], a.tank),
                        InQueue(j) \/ held = j \/ j = idx
                 PROVE  pool[j].n <= a.n
      OBVIOUS
    <3>1. CASE a = msg
      BY <2>1, <2>2, <2>3, <3>1
    <3>2. CASE a # msg
      <4>1. a \in accepted /\ (LevelOf(msg, msg.tank) => a.tank # msg.tank)
        BY <2>1, <2>2, <3>2, Accepts DEF LevelOf
      <4>2. j # idx
        BY <2>1, <2>2, <4>1 DEF LevelOf
      <4> QED BY <4>1, <4>2 DEF AcceptedInLine
    <3> QED BY <3>1, <3>2
  <2> QED BY <1>8, <2>1, <2>4, <2>5 DEF Enqueue, AcceptedInLine
<1>9. CASE Ack
  BY <1>9, IndexesStay DEF Ack, AcceptedInLine
<1>10. ASSUME NEW m \in cache, Forget(m)
     PROVE  AcceptedInLine'
  BY <1>10, IndexesStay DEF Forget, AcceptedInLine
<1>11. CASE PatchReceives
  BY <1>11, IndexReceived, HandsTyped DEF PatchReceives, AcceptedInLine
<1>12. CASE PatchMarks
  BY <1>12, IndexesStay DEF PatchMarks, SlotSet, AcceptedInLine
<1>13. CASE PatchSends
  BY <1>13, IndexesStay DEF PatchSends, AcceptedInLine
<1>14. CASE PatchMisses
  BY <1>14, IndexesStay DEF PatchMisses, AcceptedInLine
<1>15. CASE PatchRestarts
  BY <1>15 DEF PatchRestarts, AcceptedInLine
<1>16. CASE PatchSucceeds
  <2>1. held \in Index /\ sending = pool[held] /\ sending \in Messages
    BY <1>16, HandsTyped DEF PatchSucceeds, PatchReturns, Working, Marked, Filled
  <2>2. \A t \in Tanks : LevelOf(pool[held], t) => level'[t] = pool[held].n
    BY <1>16, <2>1 DEF PatchSucceeds, Deliver, LevelOf, Typed
  <2>3. \A j : InQueue(j)' <=> InQueue(j)
    BY <1>16, IndexesStay DEF PatchSucceeds, PatchReturns
  <2> QED BY <1>16, <2>2, <2>3 DEF PatchSucceeds, PatchReturns, AcceptedInLine
<1>17. CASE PatchFails
  BY <1>17, IndexesStay DEF PatchFails, PatchReturns, AcceptedInLine
<1>18. CASE PatchRefused
  BY <1>18, IndexesStay DEF PatchRefused, PatchReturns, AcceptedInLine
<1>19. CASE PatchFrees
  <2>1. held \in Index /\ held' = 0 /\ 0 \notin Index /\ ~InQueue(held)
    BY <1>19, IndexFreed, HandsTyped DEF PatchFrees, Working
  <2>2. \A i : InQueue(i)' <=> InQueue(i)
    BY <1>19 DEF PatchFrees, InQueue
  <2>3. \A i \in Index \ {held} : pool'[i] = pool[i]
    BY <1>19, <2>1 DEF PatchFrees, Typed
  <2> QED BY <1>19, <2>1, <2>2, <2>3 DEF PatchFrees, AcceptedInLine
<1>20. CASE Login
  BY <1>20, IndexesStay DEF Login, NetUnchanged, AcceptedInLine
<1>21. CASE SetConnectado
  BY <1>21, IndexesStay DEF SetConnectado, NetUnchanged, AcceptedInLine
<1>22. CASE UNCHANGED vars
  BY <1>22 DEF vars, AcceptedInLine, InQueue
<1> QED
  BY <1>1, <1>2, <1>3, <1>4, <1>5, <1>6, <1>7, <1>8, <1>9, <1>10, <1>11, <1>12,
     <1>13, <1>14, <1>15, <1>16, <1>17, <1>18, <1>19, <1>20, <1>21, <1>22
     DEF Next, RxTask, PatchTask

\* An accepted level stays kept if what it was kept by stays.
LastKept(m) ==
  \/ m.n \in {level[m.tank], skipped[m.tank]}
  \/ \E i \in Pending : pool[i] = m
AllLastKept == \A m \in accepted : m.kind = "level" => LastKept(m)

LEMMA LastKeep ==
  ASSUME AllLastKept, accepted' = accepted,
         level' = level, skipped' = skipped,
         \A i \in Pending : i \in Pending' /\ pool'[i] = pool[i]
  PROVE  AllLastKept'
BY DEF AllLastKept, LastKept

\* The server only takes the level that was accepted last, or an older one.
LEMMA LastDelivered ==
  ASSUME Typed, InHand, OnePlace, Filled, Marked, InLine, AcceptedInLine, patch = "send",
         UNCHANGED serverVars \/ Deliver(sending),
         NEW m \in accepted, m.kind = "level"
  PROVE  m.n = level[m.tank] => m.n = level'[m.tank]
<1>1. CASE UNCHANGED serverVars
  BY <1>1 DEF serverVars
<1>2. CASE Deliver(sending)
  <2>1. held \in Index /\ sending = pool[held] /\ sending \in Messages
    BY HandsTyped DEF Working, Marked, Filled
  <2>2. /\ m \in Messages /\ m.tank \in Tanks /\ m.n \in Nat /\ m # NoMessage
        /\ sending.n \in Nat /\ sending # NoMessage
    BY <2>1, MessageFields DEF Typed
  <2>3. level'[m.tank] = level[m.tank] \/ (LevelOf(sending, m.tank) /\ level'[m.tank] = sending.n)
    BY <1>2, <2>2 DEF Deliver, LevelOf, Typed
  <2>4. LevelOf(sending, m.tank) => sending.n <= m.n
    BY <2>1, <2>2 DEF AcceptedInLine, LevelOf
  <2>5. LevelOf(sending, m.tank) => level[m.tank] <= sending.n
    BY <2>1, <2>2, PendingIsLive DEF InLine, Live
  <2> QED BY <2>2, <2>3, <2>4, <2>5
<1> QED BY <1>1, <1>2

LEMMA LastLevelStep ==
  ASSUME Typed, QueuesTyped, InHand, OnePlace, Remembered, Filled, missed = 0, missed' = 0,
         Marked, OneQueued, InLine, AcceptedInLine, AllLastKept, [Next]_vars
  PROVE  AllLastKept'
<1> USE DEF tankVars, rxVars, poolVars, patchVars, netVars, serverVars, ghosts,
     AllLastKept
<1>1. ASSUME NEW t \in Tanks, TankBegins(t)
     PROVE  AllLastKept'
  BY <1>1, PendingStays, LastKeep DEF TankBegins
<1>2. ASSUME NEW t \in Tanks, Receive(t)
     PROVE  AllLastKept'
  BY <1>2, PendingStays, LastKeep DEF Receive, Duplicate
<1>3. CASE Coalesce
  <2>1. msg \in Messages /\ msg.kind = "level" /\ Accept(msg) /\ accepted \subseteq Messages
    BY <1>3 DEF Coalesce, Remembered, Typed
  <2>2. PICK i \in Index : SameLevel(i) /\ pool' = [pool EXCEPT ![i] = msg]
    BY <1>3 DEF Coalesce
  <2>3. pool'[i] = msg /\ \A j \in Index \ {i} : pool'[j] = pool[j]
    BY <2>2 DEF Typed
  <2>4. Pending' = Pending /\ level' = level /\ skipped' = skipped
    BY <1>3, PendingStays DEF Coalesce
  <2>5. i \in Pending
    BY <1>3, <2>2 DEF Coalesce, SameLevel, Marked, Pending
  <2>6. \A m \in accepted' : m.kind = "level" => m = msg \/ (m \in accepted /\ m # pool[i])
    BY <2>1, <2>2, Accepts DEF SameLevel
  <2>7. \A j \in Pending : j \in Index
    BY DEF Pending
  <2> QED BY <2>3, <2>4, <2>5, <2>6, <2>7 DEF LastKept
<1>4. CASE CoalesceFails
  <2>1. msg \in Messages /\ msg.kind = "level" /\ accepted \subseteq Messages /\ msg.tank \in Tanks
    BY <1>4, MessageFields DEF CoalesceFails, Remembered, Typed
  <2>2. Pending' = Pending /\ level' = level /\ pool' = pool
    BY <1>4, PendingStays DEF CoalesceFails
  <2>3. CASE accepted' = accepted /\ skipped' = skipped
    BY <2>2, <2>3, LastKeep
  <2>4. CASE Accept(msg) /\ skipped' = [skipped EXCEPT ![msg.tank] = msg.n]
    <3>1. \A m \in accepted' : m.kind = "level" =>
            m = msg \/ (m \in accepted /\ m \in Messages /\ m.tank # msg.tank)
      BY <2>1, <2>4, Accepts
    <3>2. skipped'[msg.tank] = msg.n
      BY <2>1, <2>4 DEF Typed
    <3>3. \A t \in Tanks : t # msg.tank => skipped'[t] = skipped[t]
      BY <2>4 DEF Typed
    <3> QED BY <2>2, <3>1, <3>2, <3>3, MessageFields DEF LastKept
  <2> QED BY <1>4, <2>3, <2>4 DEF CoalesceFails
<1>5. CASE TakeIndex
  BY <1>5, PendingStays, LastKeep DEF TakeIndex
<1>6. CASE NoIndex
  BY <1>6, PendingStays, LastKeep DEF NoIndex
<1>7. CASE Fill
  <2>1. idx \in Index /\ idx \notin Pending
    BY <1>7, HandsTyped DEF Fill, Pending
  <2>2. \A i \in Pending : pool'[i] = pool[i]
    BY <1>7, <2>1 DEF Fill, Typed, Pending
  <2> QED BY <1>7, <2>2, PendingStays, LastKeep DEF Fill
<1>8. CASE Enqueue
  <2>1. /\ msg \in Messages /\ Accept(msg) /\ pool[idx] = msg
        /\ accepted \subseteq Messages /\ pool' = pool /\ level' = level /\ skipped' = skipped
    BY <1>8 DEF Enqueue, Remembered, Filled, Typed
  <2>2. idx \in Pending' /\ \A i \in Pending : i \in Pending'
    BY <1>8, IndexQueued DEF Pending
  <2>3. \A m \in accepted' : m = msg \/ m \in accepted
    BY <2>1, Accepts
  <2> QED BY <2>1, <2>2, <2>3 DEF LastKept
<1>9. CASE Ack
  BY <1>9, PendingStays, LastKeep DEF Ack
<1>10. ASSUME NEW m \in cache, Forget(m)
     PROVE  AllLastKept'
  BY <1>10, PendingStays, LastKeep DEF Forget
<1>11. CASE PatchReceives
  <2>1. \A i \in Pending : i \in Pending'
    BY <1>11, IndexReceived DEF Pending, Index
  <2> QED BY <1>11, <2>1, LastKeep DEF PatchReceives
<1>12. CASE PatchMarks
  BY <1>12, PendingStays, LastKeep DEF PatchMarks, SlotSet
<1>13. CASE PatchSends
  BY <1>13, PendingStays, LastKeep DEF PatchSends
<1>14. CASE PatchMisses
  BY <1>14, PendingStays, LastKeep DEF PatchMisses
<1>15. CASE PatchRestarts
  BY <1>15 DEF PatchRestarts
<1>16. CASE PatchSucceeds
  <2>1. \A m \in accepted : m.kind = "level" => (m.n = level[m.tank] => m.n = level'[m.tank])
    BY <1>16, LastDelivered DEF PatchSucceeds, PatchReturns
  <2>2. /\ Pending' = Pending /\ pool' = pool /\ accepted' = accepted
        /\ skipped' = skipped
    BY <1>16, PendingStays DEF PatchSucceeds, PatchReturns
  <2> QED BY <2>1, <2>2 DEF LastKept
<1>17. CASE PatchFails
  <2>1. \A m \in accepted : m.kind = "level" => (m.n = level[m.tank] => m.n = level'[m.tank])
    BY <1>17, LastDelivered DEF PatchFails, PatchReturns
  <2>2. /\ Pending' = Pending /\ pool' = pool /\ accepted' = accepted
        /\ skipped' = skipped
    BY <1>17, PendingStays DEF PatchFails, PatchReturns
  <2> QED BY <2>1, <2>2 DEF LastKept
<1>18. CASE PatchRefused
  BY <1>18, PendingStays, LastKeep DEF PatchRefused, PatchReturns
<1>19. CASE PatchFrees
  <2>1. held \in Index
    BY <1>19, HandsTyped DEF PatchFrees, Working
  <2>2. \A i \in Index \ {held} : pool'[i] = pool[i] /\ (InQueue(i)' <=> InQueue(i))
    BY <1>19, <2>1 DEF PatchFrees, Typed, InQueue
  <2>3. \A i \in Pending : i = held \/ (i \in Pending' /\ pool'[i] = pool[i])
    BY <2>2 DEF Pending
  <2>4. accepted' = accepted /\ level' = level /\ skipped' = skipped
    BY <1>19 DEF PatchFrees
  <2>5. \A m \in accepted : m.kind = "level" /\ m = pool[held] => m.n = level[m.tank]
    BY <1>19, <2>1, MessageFields DEF PatchFrees, AcceptedInLine, LevelOf, Typed
  <2> QED BY <2>3, <2>4, <2>5 DEF LastKept
<1>20. CASE Login
  BY <1>20, PendingStays, LastKeep DEF Login, NetUnchanged
<1>21. CASE SetConnectado
  BY <1>21, PendingStays, LastKeep DEF SetConnectado, NetUnchanged
<1>22. CASE UNCHANGED vars
  BY <1>22 DEF vars, LastKept, Pending, InQueue
<1> QED
  BY <1>1, <1>2, <1>3, <1>4, <1>5, <1>6, <1>7, <1>8, <1>9, <1>10, <1>11, <1>12,
     <1>13, <1>14, <1>15, <1>16, <1>17, <1>18, <1>19, <1>20, <1>21, <1>22
     DEF Next, RxTask, PatchTask

-----------------------------------------------------------------------------
(* The theorems.                                                            *)

LEMMA MissedGrows ==
  ASSUME Typed, Typed', [Next]_vars
  PROVE  missed \in Nat /\ missed' \in Nat /\ missed <= missed'
<1> USE DEF tankVars, rxVars, poolVars, patchVars, netVars, serverVars, ghosts
<1>1. missed \in Nat /\ missed' \in Nat
  BY PatchQueueAssumption DEF Typed
<1>2. missed' = missed \/ missed' = missed + 1
  BY DEF Next, vars, TankBegins, Receive, RxTask, Coalesce, Accept, CoalesceFails, TakeIndex, NoIndex,
     Fill, SlotSet, Enqueue, Ack, Forget, PatchTask, PatchReceives, PatchMarks, PatchSends,
     PatchMisses, PatchRestarts, PatchSucceeds, PatchReturns, PatchFails, PatchRefused, PatchFrees,
     Login, NetUnchanged, SetConnectado
<1> QED BY <1>1, <1>2

LEMMA PoolInit == Init => PoolInv
<1> SUFFICES ASSUME Init PROVE PoolInv
  OBVIOUS
<1> USE DEF Init, RamInit
<1>1. FlagsOK /\ InHand
  BY DEF FlagsOK, InHand, Working
<1>2. Typed
  BY PatchQueueAssumption DEF Typed, OrNone, Kinds, MaxMessages
<1>3. /\ \A i : (InFree(i) <=> i \in Index) /\ ~InQueue(i)
      /\ Len(free) = Slots /\ Len(queue) = 0
      /\ free \in Seq(Index) /\ queue \in Seq(Index)
      /\ NoRepeat(free) /\ NoRepeat(queue)
  BY AllFree, NoneQueued DEF InFree, InQueue, Has
<1>4. QueuesTyped /\ OnePlace /\ SlotsConserved
  BY <1>3, PatchQueueAssumption DEF QueuesTyped, OnePlace, SlotsConserved
<1>5. Remembered /\ EventsKept /\ LastLevelKept
  BY DEF Remembered, AckMeansAccepted, EventsKept, LastLevelKept
<1>6. 0 \notin Index
  BY DEF Index
<1>7. Filled
  BY <1>3, <1>6 DEF Filled
<1>8. Marked /\ OneQueued /\ AcceptedInLine
  BY <1>3, <1>6 DEF Marked, OneQueued, AcceptedInLine
<1>9. InLine
  BY DEF InLine, Newest, Live, LevelOf, Kinds
<1> QED BY <1>1, <1>2, <1>4, <1>5, <1>7, <1>8, <1>9 DEF PoolInv, LevelsInv

\* Together these are inductive: what is kept of the messages needs the places of
\* the requests, and the levels need the order in which they are in line.
THEOREM PoolIsInvariant == Spec => []PoolInv
<1>1. PoolInv /\ [Next]_vars => PoolInv'
  <2> SUFFICES ASSUME PoolInv, [Next]_vars PROVE PoolInv'
    OBVIOUS
  <2>1. FlagsOK' /\ Typed' /\ QueuesTyped' /\ InHand' /\ OnePlace' /\ SlotsConserved'
    BY FlagsStep, TypedStep, QueuesStep, InHandStep, OnePlaceStep, SlotsStep DEF PoolInv
  <2>2. Remembered' /\ Filled' /\ EventsKept'
    BY RememberedStep, FilledStep, EventsStep DEF PoolInv
  <2>3. missed \in Nat /\ missed' \in Nat /\ missed <= missed'
    BY <2>1, MissedGrows DEF PoolInv
  <2>4. CASE missed' = 0
    <3>1. missed = 0
      BY <2>3, <2>4
    <3>2. Marked /\ OneQueued /\ InLine /\ AcceptedInLine
      BY <3>1 DEF PoolInv, LevelsInv
    <3>3. Marked' /\ OneQueued' /\ InLine' /\ AcceptedInLine'
      BY <2>4, <3>1, <3>2, MarkedStep, OneQueuedStep, InLineStep, AcceptedStep DEF PoolInv
    <3>4. AllLastKept
      BY <3>1 DEF PoolInv, LastLevelKept, AllLastKept, LastKept
    <3>5. AllLastKept'
      BY <2>4, <3>1, <3>2, <3>4, LastLevelStep DEF PoolInv
    <3>6. LastLevelKept'
      BY <3>5 DEF LastLevelKept, AllLastKept, LastKept
    <3> QED BY <2>1, <2>2, <3>3, <3>6 DEF PoolInv, LevelsInv
  <2>5. CASE missed' > 0
    BY <2>1, <2>2, <2>5 DEF PoolInv, LevelsInv, LastLevelKept
  <2> QED BY <2>3, <2>4, <2>5
<1> QED BY PoolInit, <1>1, PTL DEF Spec

\* No request of the pool is ever lost or in two places, and the queue has room for
\* each: queue_http_request and patch_task, whatever the mutex does.
THEOREM PoolIsConserved == Spec => []PoolConserved
<1>1. PoolInv => PoolConserved
  <2> SUFFICES ASSUME PoolInv PROVE PoolConserved
    OBVIOUS
  <2>1. Len(free) \in Nat /\ Len(queue) \in Nat
    BY Lengths DEF PoolInv
  <2>2. /\ Len(free) <= Slots /\ Len(queue) <= Slots
        /\ rx = "send" => Len(queue) < Slots
    BY <2>1, PatchQueueAssumption DEF PoolInv, SlotsConserved, InHand
  <2>3. TypeOK
    BY <2>2 DEF PoolInv, FlagsOK, Typed, QueuesTyped, TypeOK
  <2> QED BY <2>2, <2>3 DEF PoolInv, PoolConserved, QueueHasRoom
<1> QED BY PoolIsInvariant, <1>1, PTL

\* What a tank was told is accepted is in the pool or at the server
\* (gtw_send_ack after queue_http_request).
THEOREM AcceptedIsKept == Spec => []AcceptedKept
<1>1. PoolInv => AcceptedKept
  BY DEF PoolInv, Remembered, AcceptedKept
<1> QED BY PoolIsInvariant, <1>1, PTL

\* The level of a tank at the server never goes back, and a request is sent as it
\* was when it was taken (coalesce_queued_tank_level leaves it alone).
THEOREM LevelsGoForward == Spec => ServerMovesForward
<1>1. PoolInv /\ PoolInv' /\ [Next]_vars =>
        \A t \in Tanks : level'[t] >= level[t] \/ missed' > 0
  <2> SUFFICES ASSUME PoolInv, PoolInv', [Next]_vars, missed' = 0, NEW t \in Tanks
               PROVE  level'[t] >= level[t]
    BY MissedGrows DEF PoolInv
  <2>1. missed = 0
    BY MissedGrows DEF PoolInv
  <2>2. Marked /\ InLine /\ Typed /\ Filled /\ InHand /\ OnePlace
    BY <2>1 DEF PoolInv, LevelsInv
  <2>3. level[t] \in Nat
    BY <2>2, Numbers
  <2>4. CASE level' = level
    BY <2>3, <2>4
  <2>5. CASE patch = "send" /\ Deliver(sending)
    <3>1. held \in Index /\ sending = pool[held] /\ sending \in Messages /\ state[held] = "processing"
      BY <2>2, <2>5, HandsTyped DEF Working, Marked, Filled
    <3>2. sending.n \in Nat /\ sending # NoMessage
      BY <3>1, MessageFields
    <3>3. level'[t] = level[t] \/ (LevelOf(sending, t) /\ level'[t] = sending.n)
      BY <2>2, <2>5, <3>2 DEF Deliver, LevelOf, Typed
    <3>4. LevelOf(sending, t) => level[t] <= sending.n
      BY <2>2, <3>1 DEF InLine, Live
    <3> QED BY <2>3, <3>2, <3>3, <3>4
  <2>6. level' = level \/ (patch = "send" /\ Deliver(sending))
    BY DEF Next, vars, TankBegins, Receive, RxTask, Coalesce, CoalesceFails, TakeIndex,
       NoIndex, Fill, Enqueue, Ack, Forget, PatchTask, PatchReceives, PatchMarks, PatchSends,
       PatchMisses, PatchRestarts, PatchSucceeds, PatchReturns, PatchFails, PatchRefused,
       PatchFrees, Login, NetUnchanged, SetConnectado, serverVars
  <2> QED BY <2>4, <2>5, <2>6
<1>2. PoolInv /\ PoolInv' /\ [Next]_vars =>
        ((patch = "send" /\ missed' = 0) => pool'[held] = sending)
  <2> SUFFICES ASSUME PoolInv, PoolInv', [Next]_vars, patch = "send", missed' = 0
               PROVE  pool'[held] = sending
    OBVIOUS
  <2>1. missed = 0
    BY MissedGrows DEF PoolInv
  <2>2. /\ held \in Index /\ (rx = "fill" => held # idx)
        /\ sending = pool[held] /\ state[held] = "processing" /\ Typed
    BY <2>1, HandsTyped DEF PoolInv, LevelsInv, Marked, Working
  <2>3. CASE pool' = pool
    BY <2>2, <2>3
  <2>4. CASE Coalesce
    BY <2>2, <2>4 DEF Coalesce, SameLevel, Typed
  <2>5. CASE Fill
    BY <2>2, <2>5 DEF Fill, Typed
  <2>6. pool' = pool \/ Coalesce \/ Fill
    BY DEF Next, vars, TankBegins, Receive, RxTask, CoalesceFails, TakeIndex,
       NoIndex, Enqueue, Ack, Forget, PatchTask, PatchReceives, PatchMarks, PatchSends,
       PatchMisses, PatchRestarts, PatchSucceeds, PatchReturns, PatchFails, PatchRefused,
       PatchFrees, Login, NetUnchanged, SetConnectado, poolVars
  <2> QED BY <2>3, <2>4, <2>5, <2>6
<1> QED BY PoolIsInvariant, <1>1, <1>2, PTL DEF Spec, ServerMovesForward, LevelsMoveForward,
             SentAsItIs

=============================================================================
