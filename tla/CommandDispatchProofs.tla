---------------------- MODULE CommandDispatchProofs ----------------------
(* What holds of CommandDispatch for any gateways, any length of the queue  *)
(* and any number of messages.                                              *)
EXTENDS CommandDispatch, TLAPS

ResultOK == result \in BOOLEAN
AnswersOK == answers \subseteq [message : Received, ok : BOOLEAN]

\* Types, but for the Boolean ones.
ValuesOK ==
  /\ content \in Seq(Contents) /\ Len(content) <= MaxMessages
  /\ queue \in Seq(Numbers) /\ Len(queue) <= QueueLength
  /\ pc \in {"receive", "http", "get", "begin", "radio", "reply", "send"}
  /\ item \in Received \cup {NoItem}
  /\ httpMutex \in {"free", "processor", "other"}
  /\ wsMutex \in {"free", "processor", "connection"}
  /\ client \in {"none", "down", "up"}
  /\ counter \in Nat
  /\ begun \in Seq(Received)
  /\ online \subseteq Received

\* A message is in hand just while the processor is not at its queue.
InHand == item = NoItem <=> pc = "receive"

\* Messages are numbered as they come: what was begun came before what is in hand,
\* and that before what is in the queue.
SentBefore == {"http", "get", "begin"}
InOrder ==
  /\ \A i \in 1 .. Len(queue) : item < queue[i] /\ queue[i] <= Len(content)
  /\ \A i, j \in 1 .. Len(queue) : i < j => queue[i] < queue[j]
  /\ \A i, j \in 1 .. Len(begun) : i < j => begun[i] < begun[j]
  /\ \A i \in 1 .. Len(begun), j \in 1 .. Len(queue) : begun[i] < queue[j]
  /\ \A i \in 1 .. Len(begun) : pc \in SentBefore => begun[i] < item
  /\ \A i \in 1 .. Len(begun) : begun[i] <= Len(content)

\* The transactions of the radio are those of the messages begun.
OnAir ==
  /\ counter = Len(begun)
  /\ open = IF pc = "radio" THEN {Len(begun) - 1} ELSE {}
  /\ pc \in {"radio", "reply", "send"} => Len(begun) > 0 /\ begun[Len(begun)] = item

\* The result in hand is that of the ping just sent.
ResultTrue ==
  pc \in {"reply", "send"} =>
    /\ content[item].event = "PingGtw"
    /\ result => Len(begun) - 1 \in delivered

\* So is each result that was reported.
AnswerTrue(a) ==
  /\ a.message \in Received
  /\ content[a.message].event = "PingGtw"
  /\ \E i \in 1 .. Len(begun) :
       /\ begun[i] = a.message
       /\ a.ok => i - 1 \in delivered
AnswersTrue == \A a \in answers : AnswerTrue(a)

-----------------------------------------------------------------------------
(* Queues.                                                                  *)

LEMMA Domains ==
  ASSUME NEW S, NEW s \in Seq(S)
  PROVE  DOMAIN s = 1 .. Len(s) /\ Len(s) \in Nat /\ \A i \in 1 .. Len(s) : s[i] \in S
OBVIOUS

LEMMA Appended ==
  ASSUME NEW S, NEW s \in Seq(S), NEW e \in S
  PROVE  /\ Append(s, e) \in Seq(S)
         /\ Len(Append(s, e)) = Len(s) + 1
         /\ \A i \in 1 .. Len(s) : Append(s, e)[i] = s[i]
         /\ Append(s, e)[Len(s) + 1] = e
OBVIOUS

LEMMA TailOf ==
  ASSUME NEW S, NEW s \in Seq(S), s # <<>>
  PROVE  /\ Tail(s) \in Seq(S)
         /\ Len(s) \in Nat \ {0} /\ Len(Tail(s)) = Len(s) - 1
         /\ \A i \in 1 .. Len(Tail(s)) : Tail(s)[i] = s[i + 1]
         /\ Head(s) = s[1] /\ Head(s) \in S
OBVIOUS

\* A longer list of messages still has those it had.
LEMMA Wider ==
  ASSUME NEW S, NEW T, S \subseteq T, NEW s \in Seq(S)
  PROVE  s \in Seq(T)
OBVIOUS

LEMMA ResultStep ==
  ASSUME ResultOK, [Next]_vars
  PROVE  ResultOK'
<1> USE DEF dispatchVars, mutexVars, radioVars, historyVars, ResultOK
<1>1. ASSUME NEW c \in Contents, Data(c)
     PROVE  ResultOK'
  BY <1>1 DEF Data, Queued, Full, NotCopied
<1>2. CASE Receive
  BY <1>2 DEF Receive, Discards, OpensBluetooth, Takes, ForThisGateway, ElsewhereUnchanged
<1>3. CASE TakeHttp
  BY <1>3 DEF TakeHttp, ElsewhereUnchanged
<1>4. CASE HttpTimeout
  BY <1>4 DEF HttpTimeout, ElsewhereUnchanged
<1>5. CASE GetReturns
  BY <1>5 DEF GetReturns, TankOnline, TankOffline, Done, ElsewhereUnchanged
<1>6. CASE Begin
  BY <1>6 DEF Begin, Radio!Open, ElsewhereUnchanged
<1>7. CASE RadioFails
  BY <1>7 DEF RadioFails, Radio!Fail, Returned, Done, ElsewhereUnchanged
<1>8. CASE RadioSucceeds
  BY <1>8 DEF RadioSucceeds, Radio!Succeed, Returned, Done, ElsewhereUnchanged
<1>9. CASE TakeWs
  BY <1>9 DEF TakeWs, ElsewhereUnchanged
<1>10. CASE WsTimeout
  BY <1>10 DEF WsTimeout, Done, ElsewhereUnchanged
<1>11. CASE Send
  BY <1>11 DEF Send, Answer, Done, ElsewhereUnchanged
<1>12. CASE OtherHttp
  BY <1>12 DEF OtherHttp, OthersUnchanged
<1>13. CASE ConnectionLock
  BY <1>13 DEF ConnectionLock, OthersUnchanged
<1>14. CASE ConnectionUnlock
  BY <1>14 DEF ConnectionUnlock, OthersUnchanged
<1>15. CASE ClientFlips
  BY <1>15 DEF ClientFlips, OthersUnchanged
<1>16. CASE TankReceives
  BY <1>16 DEF TankReceives, Radio!Deliver, OthersUnchanged
<1>17. CASE UNCHANGED vars
  BY <1>17 DEF vars
<1> QED
  BY <1>1, <1>2, <1>3, <1>4, <1>5, <1>6, <1>7, <1>8, <1>9, <1>10, <1>11, <1>12,
     <1>13, <1>14, <1>15, <1>16, <1>17
     DEF Next, Processor, Others

LEMMA ValuesStep ==
  ASSUME ValuesOK, InHand, InOrder, [Next]_vars
  PROVE  ValuesOK'
<1> USE DEF dispatchVars, mutexVars, radioVars, historyVars, ValuesOK, NoItem
<1>1. ASSUME NEW c \in Contents, Data(c)
     PROVE  ValuesOK'
  <2>1. content' = Append(content, c) /\ content' \in Seq(Contents) /\ Len(content') = Len(content) + 1
        /\ Len(content) + 1 \in Numbers
    BY <1>1, Appended DEF Data
  <2>2. Received = 1 .. Len(content) /\ Received' = 1 .. Len(content')
    BY <2>1, Domains DEF Received
  <2>3. Received \subseteq Received' /\ Len(content) \in Nat /\ Len(content') <= MaxMessages
    BY <2>1, <2>2, DispatchAssumption DEF Numbers
  <2>4. begun' \in Seq(Received')
    BY <1>1, <2>3, Wider DEF Data
  <2>5. queue' \in Seq(Numbers) /\ Len(queue') <= QueueLength
    <3>1. CASE queue' = queue
      BY <3>1
    <3>2. CASE queue' = Append(queue, Len(content) + 1) /\ Len(queue) < QueueLength
      BY <2>1, <3>2, Appended, DispatchAssumption
    <3> QED BY <1>1, <3>1, <3>2 DEF Data, Queued, Full, NotCopied
  <2> QED BY <1>1, <2>1, <2>3, <2>4, <2>5 DEF Data
<1>2. CASE Receive
  <2>1. queue' \in Seq(Numbers) /\ Len(queue') <= QueueLength /\ Head(queue) = queue[1] /\ 1 \in 1 .. Len(queue)
    BY <1>2, TailOf, DispatchAssumption DEF Receive
  <2>2. Head(queue) \in Received /\ Received' = Received
    <3>1. content' = content
      BY <1>2 DEF Receive, ElsewhereUnchanged
    <3>2. queue[1] \in Numbers /\ queue[1] <= Len(content)
      BY <2>1, Domains DEF InOrder
    <3>3. Received = 1 .. Len(content)
      BY Domains DEF Received
    <3> QED BY <2>1, <3>1, <3>2, <3>3 DEF Numbers, Received
  <2> QED BY <1>2, <2>1, <2>2 DEF Receive, Discards, OpensBluetooth, Takes, ElsewhereUnchanged, Received
<1>3. CASE TakeHttp
  BY <1>3 DEF TakeHttp, ElsewhereUnchanged, Received
<1>4. CASE HttpTimeout
  BY <1>4 DEF HttpTimeout, ElsewhereUnchanged, Received
<1>5. CASE GetReturns
  BY <1>5 DEF GetReturns, TankOnline, TankOffline, Done, ElsewhereUnchanged,
     Received, InHand
<1>6. CASE Begin
  <2>1. item \in Received
    BY <1>6 DEF Begin, InHand
  <2> QED BY <1>6, <2>1, Appended DEF Begin, Radio!Open, ElsewhereUnchanged, Received
<1>7. CASE RadioFails
  BY <1>7 DEF RadioFails, Radio!Fail, Returned, Done, ElsewhereUnchanged, Received
<1>8. CASE RadioSucceeds
  BY <1>8 DEF RadioSucceeds, Radio!Succeed, Returned, Done, ElsewhereUnchanged, Received
<1>9. CASE TakeWs
  BY <1>9 DEF TakeWs, ElsewhereUnchanged, Received
<1>10. CASE WsTimeout
  BY <1>10 DEF WsTimeout, Done, ElsewhereUnchanged, Received
<1>11. CASE Send
  BY <1>11 DEF Send, Answer, Done, ElsewhereUnchanged, Received
<1>12. CASE OtherHttp
  BY <1>12 DEF OtherHttp, OthersUnchanged, Received
<1>13. CASE ConnectionLock
  BY <1>13 DEF ConnectionLock, OthersUnchanged, Received
<1>14. CASE ConnectionUnlock
  BY <1>14 DEF ConnectionUnlock, OthersUnchanged, Received
<1>15. CASE ClientFlips
  BY <1>15 DEF ClientFlips, OthersUnchanged, Received
<1>16. CASE TankReceives
  BY <1>16 DEF TankReceives, Radio!Deliver, OthersUnchanged, Received
<1>17. CASE UNCHANGED vars
  BY <1>17 DEF vars, Received
<1> QED
  BY <1>1, <1>2, <1>3, <1>4, <1>5, <1>6, <1>7, <1>8, <1>9, <1>10, <1>11, <1>12,
     <1>13, <1>14, <1>15, <1>16, <1>17
     DEF Next, Processor, Others

LEMMA InHandStep ==
  ASSUME ValuesOK, InHand, InOrder, [Next]_vars
  PROVE  InHand'
<1> USE DEF dispatchVars, mutexVars, radioVars, historyVars, InHand, NoItem
<1>1. ASSUME NEW c \in Contents, Data(c)
     PROVE  InHand'
  BY <1>1 DEF Data, Queued, Full, NotCopied
<1>2. CASE Receive
  <2>1. queue[1] \in Numbers /\ Head(queue) = queue[1]
    BY <1>2, TailOf DEF Receive, ValuesOK
  <2> QED BY <1>2, <2>1 DEF Receive, Discards, OpensBluetooth, Takes, Numbers
<1>3. CASE TakeHttp
  BY <1>3 DEF TakeHttp, ElsewhereUnchanged
<1>4. CASE HttpTimeout
  BY <1>4 DEF HttpTimeout, ElsewhereUnchanged
<1>5. CASE GetReturns
  BY <1>5 DEF GetReturns, TankOnline, TankOffline, Done, ElsewhereUnchanged
<1>6. CASE Begin
  BY <1>6 DEF Begin, Radio!Open, ElsewhereUnchanged
<1>7. CASE RadioFails
  BY <1>7 DEF RadioFails, Radio!Fail, Returned, Done, ElsewhereUnchanged
<1>8. CASE RadioSucceeds
  BY <1>8 DEF RadioSucceeds, Radio!Succeed, Returned, Done, ElsewhereUnchanged
<1>9. CASE TakeWs
  BY <1>9 DEF TakeWs, ElsewhereUnchanged
<1>10. CASE WsTimeout
  BY <1>10 DEF WsTimeout, Done, ElsewhereUnchanged
<1>11. CASE Send
  BY <1>11 DEF Send, Answer, Done, ElsewhereUnchanged
<1>12. CASE OtherHttp
  BY <1>12 DEF OtherHttp, OthersUnchanged
<1>13. CASE ConnectionLock
  BY <1>13 DEF ConnectionLock, OthersUnchanged
<1>14. CASE ConnectionUnlock
  BY <1>14 DEF ConnectionUnlock, OthersUnchanged
<1>15. CASE ClientFlips
  BY <1>15 DEF ClientFlips, OthersUnchanged
<1>16. CASE TankReceives
  BY <1>16 DEF TankReceives, Radio!Deliver, OthersUnchanged
<1>17. CASE UNCHANGED vars
  BY <1>17 DEF vars
<1> QED
  BY <1>1, <1>2, <1>3, <1>4, <1>5, <1>6, <1>7, <1>8, <1>9, <1>10, <1>11, <1>12,
     <1>13, <1>14, <1>15, <1>16, <1>17
     DEF Next, Processor, Others

-----------------------------------------------------------------------------
(* The order of messages.                                                   *)

\* What the queues hold are numbers of messages.
LEMMA Members ==
  ASSUME ValuesOK
  PROVE  /\ Len(content) \in Nat /\ Len(queue) \in Nat /\ Len(begun) \in Nat
         /\ Received = 1 .. Len(content)
         /\ item \in 0 .. Len(content)
         /\ \A i \in 1 .. Len(queue) : queue[i] \in Nat \ {0} /\ queue[i] \in Numbers
         /\ \A i \in 1 .. Len(begun) : begun[i] \in 1 .. Len(content)
<1>1. Len(content) \in Nat /\ Received = 1 .. Len(content)
  BY Domains DEF ValuesOK, Received
<1>2. Len(begun) \in Nat /\ \A i \in 1 .. Len(begun) : begun[i] \in Received
  BY Domains DEF ValuesOK
<1>3. Len(queue) \in Nat /\ \A i \in 1 .. Len(queue) : queue[i] \in Numbers
  BY Domains DEF ValuesOK
<1>4. \A n \in Numbers : n \in Nat \ {0}
  BY DEF Numbers
<1>5. item \in 0 .. Len(content)
  BY <1>1 DEF ValuesOK, NoItem
<1> QED BY <1>1, <1>2, <1>3, <1>4, <1>5

\* The order is that of the numbers, whether the message in hand is done with or not.
LEMMA OrderKept ==
  ASSUME ValuesOK, InOrder,
         queue' = queue, content' = content, begun' = begun,
         item' \in {item, NoItem},
         pc' \in SentBefore => pc \in SentBefore /\ item' = item
  PROVE  InOrder'
<1>1. \A i \in 1 .. Len(queue) : item' < queue[i]
  BY Members DEF InOrder, NoItem
<1>2. \A i \in 1 .. Len(begun) : pc' \in SentBefore => begun[i] < item'
  BY DEF InOrder
<1> QED BY <1>1, <1>2 DEF InOrder

LEMMA OrderStep ==
  ASSUME ValuesOK, InHand, InOrder, [Next]_vars
  PROVE  InOrder'
<1> USE DEF dispatchVars, mutexVars, radioVars, historyVars, SentBefore
<1>1. ASSUME NEW c \in Contents, Data(c)
     PROVE  InOrder'
  <2> DEFINE n == Len(content) + 1
  <2>1. content' = Append(content, c) /\ Len(content') = n
    BY <1>1, Appended DEF Data, ValuesOK
  <2>2. item' = item /\ begun' = begun /\ pc' = pc
    BY <1>1 DEF Data
  <2>3. /\ \A i \in 1 .. Len(begun) : begun'[i] <= Len(content')
        /\ \A i \in 1 .. Len(queue) : queue[i] <= Len(content')
        /\ \A i \in 1 .. Len(queue) : queue[i] < n
        /\ \A i \in 1 .. Len(begun) : begun[i] < n
        /\ item < n
    BY <2>1, <2>2, Members DEF InOrder
  <2>4. CASE queue' = queue
    BY <2>2, <2>3, <2>4 DEF InOrder
  <2>5. CASE queue' = Append(queue, n)
    <3>1. n \in Numbers
      BY <1>1 DEF Data
    <3>2. /\ Len(queue') = Len(queue) + 1
          /\ \A i \in 1 .. Len(queue) : queue'[i] = queue[i]
          /\ queue'[Len(queue) + 1] = n
      BY <2>5, <3>1, Appended DEF ValuesOK
    <3>3. \A i \in 1 .. Len(queue') : i \in 1 .. Len(queue) \/ i = Len(queue) + 1
      BY <3>2, Members
    <3>4. \A i \in 1 .. Len(queue') : queue'[i] <= Len(content') /\ item < queue'[i]
      <4> TAKE i \in 1 .. Len(queue')
      <4>1. CASE i \in 1 .. Len(queue)
        BY <4>1, <2>3, <3>2 DEF InOrder
      <4>2. CASE i = Len(queue) + 1
        BY <4>2, <2>1, <2>3, <3>2, Members
      <4> QED BY <3>3, <4>1, <4>2
    <3>5. \A i, j \in 1 .. Len(queue') : i < j => queue'[i] < queue'[j]
      BY <2>3, <3>2, <3>3, Members DEF InOrder
    <3>6. \A i \in 1 .. Len(begun), j \in 1 .. Len(queue') : begun[i] < queue'[j]
      BY <2>3, <3>2, <3>3 DEF InOrder
    <3> QED BY <2>2, <2>3, <3>4, <3>5, <3>6 DEF InOrder
  <2> QED BY <1>1, <2>4, <2>5 DEF Data, Queued, Full, NotCopied
<1>2. CASE Receive
  <2>1. /\ Len(queue) \in Nat \ {0} /\ Len(queue') = Len(queue) - 1
        /\ \A i \in 1 .. Len(queue') : queue'[i] = queue[i + 1]
        /\ Head(queue) = queue[1]
    BY <1>2, TailOf DEF Receive, ValuesOK
  <2>2. content' = content /\ begun' = begun /\ item = NoItem
    BY <1>2 DEF Receive, ElsewhereUnchanged, InHand
  <2>3. \A i \in 1 .. Len(queue') : i + 1 \in 1 .. Len(queue) /\ 1 < i + 1
    BY <2>1
  <2>4. \/ item' = NoItem /\ pc' = "receive"
        \/ item' = queue[1] /\ pc' \in SentBefore
    BY <1>2, <2>1, <2>2 DEF Receive, Discards, OpensBluetooth, Takes
  <2>5. 1 \in 1 .. Len(queue)
    BY <2>1
  <2>6. \A i \in 1 .. Len(queue') : item' < queue'[i] /\ queue'[i] <= Len(content')
    BY <2>1, <2>2, <2>3, <2>4, <2>5, Members DEF InOrder, NoItem
  <2>7. \A i, j \in 1 .. Len(queue') : i < j => queue'[i] < queue'[j]
    BY <2>1, <2>3 DEF InOrder
  <2>8. \A i \in 1 .. Len(begun), j \in 1 .. Len(queue') : begun[i] < queue'[j]
    BY <2>1, <2>3 DEF InOrder
  <2>9. \A i \in 1 .. Len(begun) : pc' \in SentBefore => begun[i] < item'
    BY <2>4, <2>5 DEF InOrder
  <2> QED BY <2>2, <2>6, <2>7, <2>8, <2>9 DEF InOrder
<1>3. CASE TakeHttp
  BY <1>3, OrderKept DEF TakeHttp, ElsewhereUnchanged
<1>4. CASE HttpTimeout
  BY <1>4, OrderKept DEF HttpTimeout, ElsewhereUnchanged
<1>5. CASE GetReturns
  BY <1>5, OrderKept DEF GetReturns, TankOnline, TankOffline, Done, ElsewhereUnchanged
<1>6. CASE Begin
  <2>1. /\ item \in Received /\ begun' = Append(begun, item)
        /\ pc' = "radio" /\ pc = "begin"
        /\ queue' = queue /\ content' = content /\ item' = item
    BY <1>6 DEF Begin, ElsewhereUnchanged, ValuesOK, InHand
  <2>2. /\ Len(begun') = Len(begun) + 1
        /\ \A i \in 1 .. Len(begun) : begun'[i] = begun[i]
        /\ begun'[Len(begun) + 1] = item
    BY <2>1, Appended DEF ValuesOK
  <2>3. \A i \in 1 .. Len(begun') : i \in 1 .. Len(begun) \/ i = Len(begun) + 1
    BY <2>2, Members
  <2>4. \A i, j \in 1 .. Len(begun') : i < j => begun'[i] < begun'[j]
    BY <2>1, <2>2, <2>3, Members DEF InOrder
  <2>5. \A i \in 1 .. Len(begun'), j \in 1 .. Len(queue) : begun'[i] < queue[j]
    BY <2>2, <2>3 DEF InOrder
  <2>6. \A i \in 1 .. Len(begun') : begun'[i] <= Len(content)
    BY <2>1, <2>2, <2>3, Members
  <2> QED BY <2>1, <2>4, <2>5, <2>6 DEF InOrder
<1>7. CASE RadioFails
  BY <1>7, OrderKept DEF RadioFails, Radio!Fail, Returned, Done, ElsewhereUnchanged
<1>8. CASE RadioSucceeds
  BY <1>8, OrderKept DEF RadioSucceeds, Radio!Succeed, Returned, Done, ElsewhereUnchanged
<1>9. CASE TakeWs
  BY <1>9, OrderKept DEF TakeWs, ElsewhereUnchanged
<1>10. CASE WsTimeout
  BY <1>10, OrderKept DEF WsTimeout, Done, ElsewhereUnchanged
<1>11. CASE Send
  BY <1>11, OrderKept DEF Send, Answer, Done, ElsewhereUnchanged
<1>12. CASE OtherHttp
  BY <1>12, OrderKept DEF OtherHttp, OthersUnchanged
<1>13. CASE ConnectionLock
  BY <1>13, OrderKept DEF ConnectionLock, OthersUnchanged
<1>14. CASE ConnectionUnlock
  BY <1>14, OrderKept DEF ConnectionUnlock, OthersUnchanged
<1>15. CASE ClientFlips
  BY <1>15, OrderKept DEF ClientFlips, OthersUnchanged
<1>16. CASE TankReceives
  BY <1>16, OrderKept DEF TankReceives, Radio!Deliver, OthersUnchanged
<1>17. CASE UNCHANGED vars
  BY <1>17, OrderKept DEF vars
<1> QED
  BY <1>1, <1>2, <1>3, <1>4, <1>5, <1>6, <1>7, <1>8, <1>9, <1>10, <1>11, <1>12,
     <1>13, <1>14, <1>15, <1>16, <1>17
     DEF Next, Processor, Others

LEMMA AnswersStep ==
  ASSUME ResultOK, ValuesOK, InHand, AnswersOK, [Next]_vars
  PROVE  AnswersOK'
<1> USE DEF dispatchVars, mutexVars, radioVars, historyVars, AnswersOK
<1>1. ASSUME NEW c \in Contents, Data(c)
     PROVE  AnswersOK'
  <2>1. Received \subseteq Received'
    <3>1. content' = Append(content, c) /\ content' \in Seq(Contents)
      BY <1>1, Appended DEF Data, ValuesOK
    <3>2. Len(content') = Len(content) + 1 /\ Received' = 1 .. Len(content')
      BY <3>1, Appended, Domains DEF ValuesOK, Received
    <3> QED BY <3>2, Members
  <2> QED BY <1>1, <2>1 DEF Data
<1>2. CASE Receive
  BY <1>2 DEF Receive, Discards, OpensBluetooth, Takes, ForThisGateway, ElsewhereUnchanged,
     Received
<1>3. CASE TakeHttp
  BY <1>3 DEF TakeHttp, ElsewhereUnchanged, Received
<1>4. CASE HttpTimeout
  BY <1>4 DEF HttpTimeout, ElsewhereUnchanged, Received
<1>5. CASE GetReturns
  BY <1>5 DEF GetReturns, TankOnline, TankOffline, Done, ElsewhereUnchanged, Received
<1>6. CASE Begin
  BY <1>6 DEF Begin, Radio!Open, ElsewhereUnchanged, Received
<1>7. CASE RadioFails
  BY <1>7 DEF RadioFails, Radio!Fail, Returned, Done, ElsewhereUnchanged, Received
<1>8. CASE RadioSucceeds
  BY <1>8 DEF RadioSucceeds, Radio!Succeed, Returned, Done, ElsewhereUnchanged, Received
<1>9. CASE TakeWs
  BY <1>9 DEF TakeWs, ElsewhereUnchanged, Received
<1>10. CASE WsTimeout
  BY <1>10 DEF WsTimeout, Done, ElsewhereUnchanged, Received
<1>11. CASE Send
  <2>1. item \in Received /\ Received' = Received
    BY <1>11 DEF Send, ElsewhereUnchanged, ValuesOK, InHand, Received
  <2>2. Answer \in [message : Received, ok : BOOLEAN]
    BY <2>1, Zenon DEF Answer, ResultOK
  <2> QED BY <1>11, <2>1, <2>2 DEF Send
<1>12. CASE OtherHttp
  BY <1>12 DEF OtherHttp, OthersUnchanged, Received
<1>13. CASE ConnectionLock
  BY <1>13 DEF ConnectionLock, OthersUnchanged, Received
<1>14. CASE ConnectionUnlock
  BY <1>14 DEF ConnectionUnlock, OthersUnchanged, Received
<1>15. CASE ClientFlips
  BY <1>15 DEF ClientFlips, OthersUnchanged, Received
<1>16. CASE TankReceives
  BY <1>16 DEF TankReceives, Radio!Deliver, OthersUnchanged, Received
<1>17. CASE UNCHANGED vars
  BY <1>17 DEF vars, Received
<1> QED
  BY <1>1, <1>2, <1>3, <1>4, <1>5, <1>6, <1>7, <1>8, <1>9, <1>10, <1>11, <1>12,
     <1>13, <1>14, <1>15, <1>16, <1>17
     DEF Next, Processor, Others

-----------------------------------------------------------------------------
(* Copies and mutexes.                                                      *)

\* What the processor is done with is freed, and nothing else.
LEMMA BuffersFreed ==
  ASSUME ValuesOK, InHand, InOrder, BuffersOwned, queue' = queue,
         \/ buffers' = buffers /\ item' = item
         \/ pc # "receive" /\ buffers' = buffers \ {item} /\ item' = NoItem
  PROVE  BuffersOwned'
<1>1. InQueue' = InQueue
  BY DEF InQueue
<1>2. item \notin InQueue
  <2>1. DOMAIN queue = 1 .. Len(queue)
    BY Domains DEF ValuesOK
  <2>2. ASSUME NEW i \in 1 .. Len(queue) PROVE queue[i] # item
    <3>1. item < queue[i] /\ item \in Int /\ queue[i] \in Int
      BY Members DEF InOrder
    <3> QED BY <3>1
  <2> QED BY <2>1, <2>2 DEF InQueue
<1>3. pc # "receive" => item # NoItem
  BY DEF InHand
<1> QED BY <1>1, <1>2, <1>3 DEF BuffersOwned

LEMMA BuffersStep ==
  ASSUME ValuesOK, InHand, InOrder, BuffersOwned, [Next]_vars
  PROVE  BuffersOwned'
<1> USE DEF dispatchVars, mutexVars, radioVars, historyVars
<1>1. ASSUME NEW c \in Contents, Data(c)
     PROVE  BuffersOwned'
  <2> DEFINE n == Len(content) + 1
  <2>1. item' = item
    BY <1>1 DEF Data
  <2>2. CASE queue' = queue /\ buffers' = buffers
    BY <2>1, <2>2 DEF BuffersOwned, InQueue
  <2>3. CASE queue' = Append(queue, n) /\ buffers' = buffers \cup {n}
    <3>1. n \in Numbers
      BY <1>1 DEF Data
    <3>2. /\ queue' \in Seq(Numbers) /\ DOMAIN queue = 1 .. Len(queue)
          /\ Len(queue') = Len(queue) + 1
          /\ \A i \in 1 .. Len(queue) : queue'[i] = queue[i]
          /\ queue'[Len(queue) + 1] = n
      BY <2>3, <3>1, Appended, Domains DEF ValuesOK
    <3>3. DOMAIN queue' = 1 .. Len(queue) + 1
      BY <3>2, Domains
    <3>4. 1 .. Len(queue) + 1 = (1 .. Len(queue)) \cup {Len(queue) + 1}
      BY Members
    <3>5. InQueue' = InQueue \cup {n}
      BY <3>2, <3>3, <3>4 DEF InQueue
    <3> QED BY <2>1, <2>3, <3>5 DEF BuffersOwned
  <2> QED BY <1>1, <2>2, <2>3 DEF Data, Queued, Full, NotCopied
<1>2. CASE Receive
  <2>1. /\ queue' \in Seq(Numbers) /\ Len(queue) \in Nat \ {0}
        /\ Len(queue') = Len(queue) - 1
        /\ \A i \in 1 .. Len(queue') : queue'[i] = queue[i + 1]
        /\ Head(queue) = queue[1]
    BY <1>2, TailOf DEF Receive, ValuesOK
  <2>2. DOMAIN queue = 1 .. Len(queue) /\ DOMAIN queue' = 1 .. Len(queue')
    BY <2>1, Domains DEF ValuesOK
  <2>3. \A i \in 1 .. Len(queue') : i + 1 \in 1 .. Len(queue) /\ 1 < i + 1
    BY <2>1
  <2>4. 1 \in 1 .. Len(queue) /\ \A i \in 1 .. Len(queue) : i = 1 \/ i - 1 \in 1 .. Len(queue')
    BY <2>1
  <2>5. InQueue = InQueue' \cup {queue[1]}
    <3>1. InQueue' \subseteq InQueue
      BY <2>1, <2>2, <2>3 DEF InQueue
    <3>2. \A i \in 1 .. Len(queue) : i = 1 \/ queue[i] = queue'[i - 1]
      BY <2>1, <2>4
    <3>3. InQueue \subseteq InQueue' \cup {queue[1]}
      BY <2>2, <2>4, <3>2 DEF InQueue
    <3> QED BY <2>2, <2>4, <3>1, <3>3 DEF InQueue
  <2>6. queue[1] \notin InQueue'
    <3>1. \A i \in 1 .. Len(queue') : queue[1] < queue'[i]
      BY <2>1, <2>3, <2>4 DEF InOrder
    <3>2. queue[1] \in Nat
      BY <2>4, Members
    <3> QED BY <2>2, <3>1, <3>2 DEF InQueue
  <2>7. item = NoItem /\ queue[1] # NoItem
    BY <1>2, <2>4, Members DEF Receive, InHand, NoItem
  <2>8. \/ item' = item /\ buffers' = buffers \ {queue[1]}
        \/ item' = queue[1] /\ buffers' = buffers
    BY <1>2, <2>1 DEF Receive, Discards, OpensBluetooth, Takes
  <2> QED BY <2>5, <2>6, <2>7, <2>8 DEF BuffersOwned
<1>3. CASE TakeHttp
  BY <1>3, BuffersFreed DEF TakeHttp, ElsewhereUnchanged
<1>4. CASE HttpTimeout
  BY <1>4, BuffersFreed DEF HttpTimeout, ElsewhereUnchanged
<1>5. CASE GetReturns
  BY <1>5, BuffersFreed DEF GetReturns, TankOnline, TankOffline, Done, ElsewhereUnchanged
<1>6. CASE Begin
  BY <1>6, BuffersFreed DEF Begin, Radio!Open, ElsewhereUnchanged
<1>7. CASE RadioFails
  BY <1>7, BuffersFreed DEF RadioFails, Radio!Fail, Returned, Done, ElsewhereUnchanged
<1>8. CASE RadioSucceeds
  BY <1>8, BuffersFreed DEF RadioSucceeds, Radio!Succeed, Returned, Done, ElsewhereUnchanged
<1>9. CASE TakeWs
  BY <1>9, BuffersFreed DEF TakeWs, ElsewhereUnchanged
<1>10. CASE WsTimeout
  BY <1>10, BuffersFreed DEF WsTimeout, Done, ElsewhereUnchanged
<1>11. CASE Send
  BY <1>11, BuffersFreed DEF Send, Answer, Done, ElsewhereUnchanged
<1>12. CASE OtherHttp
  BY <1>12, BuffersFreed DEF OtherHttp, OthersUnchanged
<1>13. CASE ConnectionLock
  BY <1>13, BuffersFreed DEF ConnectionLock, OthersUnchanged
<1>14. CASE ConnectionUnlock
  BY <1>14, BuffersFreed DEF ConnectionUnlock, OthersUnchanged
<1>15. CASE ClientFlips
  BY <1>15, BuffersFreed DEF ClientFlips, OthersUnchanged
<1>16. CASE TankReceives
  BY <1>16, BuffersFreed DEF TankReceives, Radio!Deliver, OthersUnchanged
<1>17. CASE UNCHANGED vars
  BY <1>17, BuffersFreed DEF vars
<1> QED
  BY <1>1, <1>2, <1>3, <1>4, <1>5, <1>6, <1>7, <1>8, <1>9, <1>10, <1>11, <1>12,
     <1>13, <1>14, <1>15, <1>16, <1>17
     DEF Next, Processor, Others

LEMMA HeldStep ==
  ASSUME NothingHeld, [Next]_vars
  PROVE  NothingHeld'
<1> USE DEF dispatchVars, mutexVars, radioVars, historyVars, NothingHeld
<1>1. ASSUME NEW c \in Contents, Data(c)
     PROVE  NothingHeld'
  BY <1>1 DEF Data, Queued, Full, NotCopied
<1>2. CASE Receive
  BY <1>2 DEF Receive, Discards, OpensBluetooth, Takes, ForThisGateway, ElsewhereUnchanged
<1>3. CASE TakeHttp
  BY <1>3 DEF TakeHttp, ElsewhereUnchanged
<1>4. CASE HttpTimeout
  BY <1>4 DEF HttpTimeout, ElsewhereUnchanged
<1>5. CASE GetReturns
  BY <1>5 DEF GetReturns, TankOnline, TankOffline, Done, ElsewhereUnchanged
<1>6. CASE Begin
  BY <1>6 DEF Begin, Radio!Open, ElsewhereUnchanged
<1>7. CASE RadioFails
  BY <1>7 DEF RadioFails, Radio!Fail, Returned, Done, ElsewhereUnchanged
<1>8. CASE RadioSucceeds
  BY <1>8 DEF RadioSucceeds, Radio!Succeed, Returned, Done, ElsewhereUnchanged
<1>9. CASE TakeWs
  BY <1>9 DEF TakeWs, ElsewhereUnchanged
<1>10. CASE WsTimeout
  BY <1>10 DEF WsTimeout, Done, ElsewhereUnchanged
<1>11. CASE Send
  BY <1>11 DEF Send, Answer, Done, ElsewhereUnchanged
<1>12. CASE OtherHttp
  BY <1>12 DEF OtherHttp, OthersUnchanged
<1>13. CASE ConnectionLock
  BY <1>13 DEF ConnectionLock, OthersUnchanged
<1>14. CASE ConnectionUnlock
  BY <1>14 DEF ConnectionUnlock, OthersUnchanged
<1>15. CASE ClientFlips
  BY <1>15 DEF ClientFlips, OthersUnchanged
<1>16. CASE TankReceives
  BY <1>16 DEF TankReceives, Radio!Deliver, OthersUnchanged
<1>17. CASE UNCHANGED vars
  BY <1>17 DEF vars
<1> QED
  BY <1>1, <1>2, <1>3, <1>4, <1>5, <1>6, <1>7, <1>8, <1>9, <1>10, <1>11, <1>12,
     <1>13, <1>14, <1>15, <1>16, <1>17
     DEF Next, Processor, Others

-----------------------------------------------------------------------------
(* The radio and the answers.                                               *)

LEMMA OnAirStep ==
  ASSUME ValuesOK, InHand, OnAir, [Next]_vars
  PROVE  OnAir'
<1> USE DEF dispatchVars, mutexVars, radioVars, historyVars, OnAir
<1>1. ASSUME NEW c \in Contents, Data(c)
     PROVE  OnAir'
  BY <1>1 DEF Data, Queued, Full, NotCopied
<1>2. CASE Receive
  BY <1>2 DEF Receive, Discards, OpensBluetooth, Takes, ForThisGateway, ElsewhereUnchanged
<1>3. CASE TakeHttp
  BY <1>3 DEF TakeHttp, ElsewhereUnchanged
<1>4. CASE HttpTimeout
  BY <1>4 DEF HttpTimeout, ElsewhereUnchanged
<1>5. CASE GetReturns
  BY <1>5 DEF GetReturns, TankOnline, TankOffline, Done, ElsewhereUnchanged
<1>6. CASE Begin
  <2>1. /\ item \in Received /\ begun' = Append(begun, item)
        /\ pc' = "radio" /\ pc = "begin" /\ item' = item
        /\ open' = {counter} /\ counter' = counter + 1
    BY <1>6 DEF Begin, Radio!Open, ElsewhereUnchanged, ValuesOK, InHand
  <2>2. Len(begun') = Len(begun) + 1 /\ begun'[Len(begun) + 1] = item
    BY <2>1, Appended DEF ValuesOK
  <2> QED BY <2>1, <2>2, Members
<1>7. CASE RadioFails
  BY <1>7 DEF RadioFails, Radio!Fail, Returned, Done, ElsewhereUnchanged
<1>8. CASE RadioSucceeds
  BY <1>8 DEF RadioSucceeds, Radio!Succeed, Returned, Done, ElsewhereUnchanged
<1>9. CASE TakeWs
  BY <1>9 DEF TakeWs, ElsewhereUnchanged
<1>10. CASE WsTimeout
  BY <1>10 DEF WsTimeout, Done, ElsewhereUnchanged
<1>11. CASE Send
  BY <1>11 DEF Send, Answer, Done, ElsewhereUnchanged
<1>12. CASE OtherHttp
  BY <1>12 DEF OtherHttp, OthersUnchanged
<1>13. CASE ConnectionLock
  BY <1>13 DEF ConnectionLock, OthersUnchanged
<1>14. CASE ConnectionUnlock
  BY <1>14 DEF ConnectionUnlock, OthersUnchanged
<1>15. CASE ClientFlips
  BY <1>15 DEF ClientFlips, OthersUnchanged
<1>16. CASE TankReceives
  BY <1>16 DEF TankReceives, Radio!Deliver, OthersUnchanged
<1>17. CASE UNCHANGED vars
  BY <1>17 DEF vars
<1> QED
  BY <1>1, <1>2, <1>3, <1>4, <1>5, <1>6, <1>7, <1>8, <1>9, <1>10, <1>11, <1>12,
     <1>13, <1>14, <1>15, <1>16, <1>17
     DEF Next, Processor, Others

LEMMA ResultTrueStep ==
  ASSUME ValuesOK, InHand, OnAir, ResultTrue, [Next]_vars
  PROVE  ResultTrue'
<1> USE DEF dispatchVars, mutexVars, radioVars, historyVars, ResultTrue
<1>1. ASSUME NEW c \in Contents, Data(c)
     PROVE  ResultTrue'
  <2>1. item' = item /\ pc' = pc /\ begun' = begun /\ result' = result /\ delivered' = delivered
    BY <1>1 DEF Data
  <2>2. content' = Append(content, c)
    BY <1>1 DEF Data
  <2>3. pc \in {"reply", "send"} => item \in 1 .. Len(content)
    BY Members DEF InHand, NoItem
  <2>4. \A i \in 1 .. Len(content) : content'[i] = content[i]
    BY <2>2, Appended DEF ValuesOK
  <2> QED BY <2>1, <2>3, <2>4
<1>2. CASE Receive
  BY <1>2 DEF Receive, Discards, OpensBluetooth, Takes, ForThisGateway, ElsewhereUnchanged
<1>3. CASE TakeHttp
  BY <1>3 DEF TakeHttp, ElsewhereUnchanged
<1>4. CASE HttpTimeout
  BY <1>4 DEF HttpTimeout, ElsewhereUnchanged
<1>5. CASE GetReturns
  BY <1>5 DEF GetReturns, TankOnline, TankOffline, Done, ElsewhereUnchanged
<1>6. CASE Begin
  BY <1>6 DEF Begin, Radio!Open, ElsewhereUnchanged
<1>7. CASE RadioFails
  BY <1>7 DEF RadioFails, Radio!Fail, Returned, Done, ElsewhereUnchanged, OnAir
<1>8. CASE RadioSucceeds
  <2>1. open = {Len(begun) - 1} /\ open \subseteq delivered
    BY <1>8 DEF RadioSucceeds, Radio!Succeed, OnAir
  <2>2. content' = content /\ begun' = begun /\ delivered' = delivered
    BY <1>8 DEF RadioSucceeds, Radio!Succeed, ElsewhereUnchanged
  <2> QED BY <1>8, <2>1, <2>2 DEF RadioSucceeds, Returned, Done
<1>9. CASE TakeWs
  BY <1>9 DEF TakeWs, ElsewhereUnchanged
<1>10. CASE WsTimeout
  BY <1>10 DEF WsTimeout, Done, ElsewhereUnchanged
<1>11. CASE Send
  BY <1>11 DEF Send, Answer, Done, ElsewhereUnchanged
<1>12. CASE OtherHttp
  BY <1>12 DEF OtherHttp, OthersUnchanged
<1>13. CASE ConnectionLock
  BY <1>13 DEF ConnectionLock, OthersUnchanged
<1>14. CASE ConnectionUnlock
  BY <1>14 DEF ConnectionUnlock, OthersUnchanged
<1>15. CASE ClientFlips
  BY <1>15 DEF ClientFlips, OthersUnchanged
<1>16. CASE TankReceives
  BY <1>16 DEF TankReceives, Radio!Deliver, OthersUnchanged
<1>17. CASE UNCHANGED vars
  BY <1>17 DEF vars
<1> QED
  BY <1>1, <1>2, <1>3, <1>4, <1>5, <1>6, <1>7, <1>8, <1>9, <1>10, <1>11, <1>12,
     <1>13, <1>14, <1>15, <1>16, <1>17
     DEF Next, Processor, Others

\* A true answer stays true: messages, frames and deliveries are only added.
LEMMA AnswersKept ==
  ASSUME ValuesOK, AnswersTrue, answers' = answers,
         \/ content' = content
         \/ \E c \in Contents : content' = Append(content, c),
         \/ begun' = begun
         \/ item \in Received /\ begun' = Append(begun, item),
         delivered \subseteq delivered'
  PROVE  AnswersTrue'
<1>1. Received \subseteq Received' /\ \A m \in Received : content'[m] = content[m]
  <2>1. CASE content' = content
    BY <2>1 DEF Received
  <2>2. ASSUME NEW c \in Contents, content' = Append(content, c)
        PROVE  Received \subseteq Received' /\ \A m \in Received : content'[m] = content[m]
    <3>1. content' \in Seq(Contents) /\ Len(content') = Len(content) + 1
      BY <2>2, Appended DEF ValuesOK
    <3>2. Received' = 1 .. Len(content')
      BY <3>1, Domains DEF Received
    <3> QED BY <2>2, <3>1, <3>2, Appended, Members DEF ValuesOK
  <2> QED BY <2>1, <2>2
<1>2. \A i \in 1 .. Len(begun) : i \in 1 .. Len(begun') /\ begun'[i] = begun[i]
  <2>1. CASE begun' = begun
    BY <2>1
  <2>2. CASE item \in Received /\ begun' = Append(begun, item)
    <3>1. begun \in Seq(Received)
      BY DEF ValuesOK
    <3>2. Len(begun) \in Nat
      BY <3>1, Domains
    <3>3. Len(begun') = Len(begun) + 1 /\ \A i \in 1 .. Len(begun) : begun'[i] = begun[i]
      BY <2>2, <3>1, Appended
    <3> QED BY <3>2, <3>3
  <2> QED BY <2>1, <2>2
<1> SUFFICES ASSUME NEW a \in answers PROVE AnswerTrue(a)'
  BY DEF AnswersTrue
<1>3. AnswerTrue(a)
  BY DEF AnswersTrue
<1> QED BY <1>1, <1>2, <1>3 DEF AnswerTrue

LEMMA AnswersTrueStep ==
  ASSUME ValuesOK, InHand, OnAir, ResultTrue, AnswersTrue, [Next]_vars
  PROVE  AnswersTrue'
<1> USE DEF dispatchVars, mutexVars, radioVars, historyVars
<1>1. ASSUME NEW c \in Contents, Data(c)
     PROVE  AnswersTrue'
  BY <1>1, AnswersKept DEF Data, Queued, Full, NotCopied
<1>2. CASE Receive
  BY <1>2, AnswersKept DEF Receive, Discards, OpensBluetooth, Takes, ForThisGateway,
     ElsewhereUnchanged
<1>3. CASE TakeHttp
  BY <1>3, AnswersKept DEF TakeHttp, ElsewhereUnchanged
<1>4. CASE HttpTimeout
  BY <1>4, AnswersKept DEF HttpTimeout, ElsewhereUnchanged
<1>5. CASE GetReturns
  BY <1>5, AnswersKept DEF GetReturns, TankOnline, TankOffline, Done, ElsewhereUnchanged
<1>6. CASE Begin
  <2>1. item \in Received
    BY <1>6 DEF Begin, ValuesOK, InHand
  <2> QED BY <1>6, <2>1, AnswersKept DEF Begin, Radio!Open, ElsewhereUnchanged
<1>7. CASE RadioFails
  BY <1>7, AnswersKept DEF RadioFails, Radio!Fail, Returned, Done, ElsewhereUnchanged
<1>8. CASE RadioSucceeds
  BY <1>8, AnswersKept DEF RadioSucceeds, Radio!Succeed, Returned, Done, ElsewhereUnchanged
<1>9. CASE TakeWs
  BY <1>9, AnswersKept DEF TakeWs, ElsewhereUnchanged
<1>10. CASE WsTimeout
  BY <1>10, AnswersKept DEF WsTimeout, Done, ElsewhereUnchanged
<1>11. CASE Send
  <2>1. /\ content' = content /\ begun' = begun /\ delivered' = delivered
        /\ \A a \in answers' : a \in answers \/ a = Answer
    BY <1>11 DEF Send, ElsewhereUnchanged
  <2>2. AnswerTrue(Answer)
    <3>1. Answer.message = item /\ Answer.ok = result
      BY DEF Answer
    <3>2. item \in Received /\ content[item].event = "PingGtw"
      BY <1>11 DEF Send, ValuesOK, InHand, ResultTrue
    <3>3. Len(begun) \in 1 .. Len(begun) /\ begun[Len(begun)] = item
      BY <1>11, Members DEF Send, OnAir
    <3>4. result => Len(begun) - 1 \in delivered
      BY <1>11 DEF Send, ResultTrue
    <3> QED BY <3>1, <3>2, <3>3, <3>4 DEF AnswerTrue
  <2>3. \A a : AnswerTrue(a)' <=> AnswerTrue(a)
    BY <2>1 DEF AnswerTrue, Received
  <2> QED BY <2>1, <2>2, <2>3 DEF AnswersTrue
<1>12. CASE OtherHttp
  BY <1>12, AnswersKept DEF OtherHttp, OthersUnchanged
<1>13. CASE ConnectionLock
  BY <1>13, AnswersKept DEF ConnectionLock, OthersUnchanged
<1>14. CASE ConnectionUnlock
  BY <1>14, AnswersKept DEF ConnectionUnlock, OthersUnchanged
<1>15. CASE ClientFlips
  BY <1>15, AnswersKept DEF ClientFlips, OthersUnchanged
<1>16. CASE TankReceives
  BY <1>16, AnswersKept DEF TankReceives, Radio!Deliver, OthersUnchanged
<1>17. CASE UNCHANGED vars
  BY <1>17, AnswersKept DEF vars
<1> QED
  BY <1>1, <1>2, <1>3, <1>4, <1>5, <1>6, <1>7, <1>8, <1>9, <1>10, <1>11, <1>12,
     <1>13, <1>14, <1>15, <1>16, <1>17
     DEF Next, Processor, Others

-----------------------------------------------------------------------------
(* Theorems.                                                                *)

DispatchInv ==
  /\ ResultOK /\ AnswersOK /\ ValuesOK
  /\ InHand /\ InOrder
  /\ BuffersOwned /\ NothingHeld
  /\ OnAir /\ ResultTrue /\ AnswersTrue

LEMMA DispatchInit == Init => DispatchInv
<1> SUFFICES ASSUME Init PROVE DispatchInv
  OBVIOUS
<1>1. ResultOK /\ AnswersOK
  BY DEF Init, ResultOK, AnswersOK
<1>2. ValuesOK
  BY DispatchAssumption DEF Init, ValuesOK, Received
<1>3. InHand /\ NothingHeld
  BY DEF Init, InHand, NothingHeld
<1>4. 1 .. Len(queue) = {} /\ 1 .. Len(begun) = {} /\ DOMAIN queue = {} /\ Len(begun) = 0
  BY DEF Init
<1>5. InOrder
  BY <1>4 DEF InOrder
<1>6. BuffersOwned
  BY <1>4 DEF Init, BuffersOwned, InQueue
<1>7. OnAir /\ ResultTrue /\ AnswersTrue
  BY <1>4 DEF Init, OnAir, ResultTrue, AnswersTrue
<1> QED BY <1>1, <1>2, <1>3, <1>5, <1>6, <1>7 DEF DispatchInv

\* Together these are inductive: what was begun, what is in hand and what is queued
\* are one line of messages.
THEOREM DispatchIsInvariant == Spec => []DispatchInv
<1>1. DispatchInv /\ [Next]_vars => DispatchInv'
  BY ResultStep, AnswersStep, ValuesStep, InHandStep, OrderStep, BuffersStep, HeldStep,
     OnAirStep, ResultTrueStep, AnswersTrueStep DEF DispatchInv
<1> QED BY DispatchInit, <1>1, PTL DEF Spec

\* The heap copies are those of the queue and of the message in hand, and each
\* mutex is held only where it is given back: websocket_event_handler,
\* ws_msg_processor_task and the handlers it calls.
THEOREM NothingLeaks == Spec => []HeldIsOwned
<1>1. DispatchInv => HeldIsOwned
  <2> SUFFICES ASSUME DispatchInv PROVE HeldIsOwned
    OBVIOUS
  <2>1. buffers \subseteq Received
    <3>1. /\ DOMAIN queue = 1 .. Len(queue)
          /\ \A i \in 1 .. Len(queue) : queue[i] \in Numbers
      BY Domains DEF DispatchInv, ValuesOK
    <3>2. Received = 1 .. Len(content)
      BY Members DEF DispatchInv, ValuesOK
    <3>3. \A i \in 1 .. Len(queue) : queue[i] \in Received
      BY <3>1, <3>2 DEF DispatchInv, InOrder, Numbers
    <3>4. InQueue \subseteq Received
      BY <3>1, <3>3 DEF InQueue
    <3>5. {item} \ {NoItem} \subseteq Received
      BY DEF DispatchInv, ValuesOK
    <3> QED BY <3>4, <3>5 DEF DispatchInv, BuffersOwned
  <2>2. result \in BOOLEAN /\ answers \subseteq [message : Received, ok : BOOLEAN]
    BY DEF DispatchInv, ResultOK, AnswersOK
  <2>3. TypeOK
    BY <2>1, <2>2 DEF DispatchInv, ValuesOK, TypeOK
  <2> QED BY <2>3 DEF DispatchInv, HeldIsOwned
<1> QED BY DispatchIsInvariant, <1>1, PTL

\* Transactions are begun in the order the server gave the commands and none twice;
\* what is reported of a ping is what became of its own frame (handle_PingTanque).
THEOREM OutputsAreTrue == Spec => []OutputsTrue
<1>1. DispatchInv => OutputsTrue
  <2> SUFFICES ASSUME DispatchInv PROVE OutputsTrue
    OBVIOUS
  <2>1. DOMAIN begun = 1 .. Len(begun)
    BY Domains DEF DispatchInv, ValuesOK
  <2> QED BY <2>1 DEF DispatchInv, OutputsTrue, SentInOrder, PingResultTrue, InOrder,
                      AnswersTrue, AnswerTrue
<1> QED BY DispatchIsInvariant, <1>1, PTL

\* The LoRa transaction of a command that was taken up is begun, or the server has the
\* command (handle_bomba_control).
THEOREM NoCommandIsLost == Spec => CommandNotLost
<1>1. DispatchInv /\ [Next]_vars =>
        (item # NoItem /\ item' # item => item \in online' \cup {begun[i] : i \in DOMAIN begun})
  <2> SUFFICES ASSUME DispatchInv, [Next]_vars, item # NoItem, item' # item
               PROVE  item \in online' \cup {begun[i] : i \in DOMAIN begun}
    OBVIOUS
  <2>1. pc # "receive"
    BY DEF DispatchInv, InHand
  <2>2. pc = "get" => item \in online'
    BY <2>1 DEF Next, Data, Processor, Receive, TakeHttp, HttpTimeout, GetReturns, TankOnline,
       TankOffline, Begin, RadioFails, RadioSucceeds, TakeWs, WsTimeout, Send, Others, OtherHttp,
       ConnectionLock, ConnectionUnlock, ClientFlips, TankReceives, OthersUnchanged,
       dispatchVars, vars
  <2>3. pc \in {"get", "radio", "reply", "send"}
    BY <2>1 DEF Next, Data, Processor, Receive, TakeHttp, HttpTimeout, GetReturns,
       Begin, RadioFails, RadioSucceeds, TakeWs, WsTimeout, Send, Others, OtherHttp,
       ConnectionLock, ConnectionUnlock, ClientFlips, TankReceives, OthersUnchanged,
       dispatchVars, vars
  <2>4. pc \in {"radio", "reply", "send"} => item \in {begun[i] : i \in DOMAIN begun}
    <3>1. DOMAIN begun = 1 .. Len(begun) /\ Len(begun) \in Nat
      BY Domains DEF DispatchInv, ValuesOK
    <3> QED BY <3>1 DEF DispatchInv, OnAir
  <2> QED BY <2>2, <2>3, <2>4
<1> QED BY DispatchIsInvariant, <1>1, PTL DEF Spec, CommandNotLost
=============================================================================
