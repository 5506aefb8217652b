-------------------------- MODULE SysSercomProofs --------------------------
(***************************************************************************)
(* Proofs about SysSercom, for any set of clients, any calls, any length   *)
(* of the queue and any size of the EEPROM.                                *)
(***************************************************************************)
EXTENDS SysSercom, TLAPS

\* The pages of a call are pages of the EEPROM, and it has pages left while it asks
\* for them.
CallsWithin ==
  \A c \in Clients :
    /\ pc[c] # "out" \/ returned[c] => call[c] \in Calls[c]
    /\ pc[c] # "out" => left[c] <= call[c].count
    /\ pc[c] \in {"post", "poll"} => left[c] > 0

\* A status word that is busy is that of a client on its way to an answer.
StatusFits ==
  \A c \in Clients :
    /\ pc[c] = "post" => status[c] = "BUSY"
    /\ pc[c] = "delay" => status[c] = "READY" /\ call[c].kind = "eepromWrite"

\* No two requests in the queue are of one client.
QueueDistinct ==
  \A i, j \in 1..Len(queue) : queue[i].client = queue[j].client => i = j

\* A client waits for each request in the queue, which is the one its call asks for.
QueueWaitedFor ==
  \A i \in 1..Len(queue) : \A c \in Clients :
    queue[i].client = c =>
      pc[c] = "poll" /\ status[c] = "BUSY" /\ ~Served(c) /\ queue[i] = NextRequest(c)

\* The same of the request that is being served.
ServedWaitedFor ==
  \A c \in Clients :
    Served(c) =>
      pc[c] = "poll" /\ status[c] = "BUSY" /\ request = NextRequest(c) /\ moved <= request.count

\* Whoever polls a busy status has a request somewhere.
PollerHasRequest ==
  \A c \in Clients :
    pc[c] = "poll" /\ status[c] = "BUSY" /\ ~Served(c) => Queued(c) # {}

Rendezvous ==
  CallsWithin /\ StatusFits /\ QueueDistinct /\ QueueWaitedFor /\ ServedWaitedFor
  /\ PollerHasRequest

Inv == TypeOK /\ Rendezvous

\* The part of a buffer that has been filled, up to the answer and up to the return.
Filled(c, n) == \A p \in call[c].first .. call[c].first + n - 1 : buffer[c][p] # Missing
ReadSoFar(c) ==
  call[c].kind = "eepromRead" =>
    /\ Served(c) /\ server = "transfer" => Filled(c, moved)
    /\ Served(c) /\ server = "answer" /\ result = "READY" => Filled(c, call[c].count)
    /\ pc[c] = "poll" /\ status[c] = "READY" => Filled(c, call[c].count)
    /\ pc[c] = "out" /\ returned[c] => Filled(c, call[c].count)

\* The pages of a write before the one it is at hold the new value, and that one does
\* once it has been moved.
PageAt(c) == call[c].first + call[c].count - left[c]
Written(c, last) == \A p \in call[c].first .. last : eeprom[p] = call[c].value
WriteSoFar(c) ==
  call[c].kind = "eepromWrite" =>
    /\ pc[c] # "out" => Written(c, PageAt(c) - 1)
    /\ pc[c] = "out" /\ returned[c] => Written(c, call[c].first + call[c].count - 1)
    /\ Served(c) /\ server = "transfer" /\ moved = 1 => eeprom[PageAt(c)] = call[c].value
    /\ Served(c) /\ server = "answer" /\ result = "READY" => eeprom[PageAt(c)] = call[c].value
    /\ pc[c] = "poll" /\ status[c] = "READY" => eeprom[PageAt(c)] = call[c].value

\* Nobody calls for a write but one client.
OneWriterAtMost ==
  \A c, d \in Clients : \A k \in Calls[c], l \in Calls[d] :
    k.kind = "eepromWrite" /\ l.kind = "eepromWrite" => c = d

-----------------------------------------------------------------------------
LEMMA CallLemma ==
  ASSUME NEW c \in Clients, NEW k \in Calls[c]
  PROVE  /\ k \in CallSet
         /\ k.first \in 1..Pages /\ k.count \in 1..Pages /\ k.first + k.count - 1 <= Pages
         /\ k.value \in Values
BY CallsAssumption DEF CallSet

\* What a client asks for next is within the EEPROM.
LEMMA RequestLemma ==
  ASSUME TypeOK, CallsWithin, NEW c \in Clients, pc[c] \in {"post", "poll"}
  PROVE  /\ NextRequest(c) \in Requests
         /\ NextRequest(c).client = c
         /\ NextRequest(c).first + NextRequest(c).count - 1 <= Pages
         /\ call[c].kind = "eepromWrite" =>
              NextRequest(c).first = PageAt(c) /\ NextRequest(c).count = 1
         /\ call[c].kind # "eepromWrite" =>
              NextRequest(c).first = call[c].first /\ NextRequest(c).count = call[c].count
<1>1. call[c] \in Calls[c] /\ left[c] > 0 /\ left[c] <= call[c].count /\ left[c] \in Nat
  BY CountsAssumption DEF CallsWithin, TypeOK
<1>2. /\ call[c] \in CallSet
      /\ call[c].first \in 1..Pages /\ call[c].count \in 1..Pages
      /\ call[c].first + call[c].count - 1 <= Pages
  BY <1>1, CallLemma
<1>3. CASE call[c].kind = "eepromWrite"
  <2>1. NextRequest(c) = [client |-> c, first |-> PageAt(c), count |-> 1]
    BY <1>3 DEF NextRequest, PageAt
  <2>2. PageAt(c) \in 1..Pages
    BY <1>1, <1>2, CountsAssumption DEF PageAt
  <2> QED
    BY <1>3, <2>1, <2>2, CountsAssumption DEF Requests
<1>4. CASE call[c].kind # "eepromWrite"
  <2>1. NextRequest(c) = [client |-> c, first |-> call[c].first, count |-> call[c].count]
    BY <1>4 DEF NextRequest
  <2> QED
    BY <1>2, <1>4, <2>1, CountsAssumption DEF Requests
<1> QED
  BY <1>3, <1>4

\* A step of one client leaves the others and the service alone.
LEMMA OthersLemma ==
  ASSUME TypeOK, NEW c \in Clients, ClientStep(c)
  PROVE  /\ UNCHANGED <<eeprom, server, request, moved, result, created>>
         /\ \A d \in Clients \ {c} :
              /\ pc'[d] = pc[d] /\ call'[d] = call[d] /\ left'[d] = left[d]
              /\ status'[d] = status[d] /\ buffer'[d] = buffer[d] /\ returned'[d] = returned[d]
BY DEF TypeOK, ClientStep, Call, Post, Answered, DelayOver, Return, serverVars

\* A client that neither has nor gets a request, and leaves the queue alone, disturbs
\* nobody's rendezvous.
LEMMA BystanderLemma ==
  ASSUME Inv, NEW c \in Clients, ClientStep(c), UNCHANGED queue,
         ~(pc[c] = "poll" /\ status[c] = "BUSY"), ~(pc'[c] = "poll" /\ status'[c] = "BUSY")
  PROVE  QueueDistinct' /\ QueueWaitedFor' /\ ServedWaitedFor' /\ PollerHasRequest'
<1> USE DEF Inv, Rendezvous
<1>0. \A d \in Clients \ {c} : NextRequest(d)' = NextRequest(d) /\ Served(d)' = Served(d)
  BY OthersLemma DEF NextRequest, Served
<1>1. QueueDistinct'
  BY DEF QueueDistinct
<1>2. QueueWaitedFor'
  BY <1>0, OthersLemma DEF QueueWaitedFor
<1>3. ServedWaitedFor'
  BY <1>0, OthersLemma DEF ServedWaitedFor, Served
<1>4. PollerHasRequest'
  BY <1>0, OthersLemma DEF PollerHasRequest, Queued
<1> QED
  BY <1>1, <1>2, <1>3, <1>4

\* It disturbs nobody's data.
LEMMA OthersDataLemma ==
  ASSUME TypeOK, NEW c \in Clients, ClientStep(c), NEW d \in Clients \ {c}
  PROVE  (ReadSoFar(d) => ReadSoFar(d)') /\ (WriteSoFar(d) => WriteSoFar(d)')
BY OthersLemma DEF ReadSoFar, WriteSoFar, Filled, Written, PageAt, Served

-----------------------------------------------------------------------------
(* The steps of a client *)

LEMMA CallStep ==
  ASSUME Inv, NEW c \in Clients, NEW k \in Calls[c], Call(c, k)
  PROVE  Inv' /\ ReadSoFar(c)' /\ WriteSoFar(c)'
<1> USE DEF Inv, Rendezvous
<1>1. /\ pc[c] = "out" /\ pc'[c] = "post" /\ call'[c] = k /\ left'[c] = k.count
      /\ status'[c] = "BUSY" /\ ~Served(c)'
  BY DEF Call, TypeOK, ServedWaitedFor, Served, serverVars
<1>2. k \in CallSet /\ k.count \in 1..Pages
  BY CallLemma
<1>3. TypeOK'
  BY <1>2, CountsAssumption DEF TypeOK, Call, serverVars
<1>4. CallsWithin' /\ StatusFits'
  BY <1>1, <1>2, OthersLemma, CountsAssumption DEF CallsWithin, StatusFits, ClientStep
<1>5. QueueDistinct' /\ QueueWaitedFor' /\ ServedWaitedFor' /\ PollerHasRequest'
  BY <1>1, BystanderLemma DEF ClientStep, Call
<1>6. ReadSoFar(c)'
  BY <1>1 DEF ReadSoFar
<1>7. WriteSoFar(c)'
  <2>1. PageAt(c)' - 1 < k.first /\ call'[c].first = k.first
    BY <1>1, <1>2, CallLemma DEF PageAt
  <2>2. Written(c, PageAt(c) - 1)'
    BY <2>1, CallLemma, <1>1, <1>2 DEF Written, PageAt
  <2> QED
    BY <1>1, <2>2 DEF WriteSoFar
<1> QED
  BY <1>3, <1>4, <1>5, <1>6, <1>7

LEMMA PostStep ==
  ASSUME Inv, NEW c \in Clients, Post(c)
  PROVE  Inv' /\ ReadSoFar(c)' /\ (WriteSoFar(c) => WriteSoFar(c)')
<1> USE DEF Inv, Rendezvous
<1> DEFINE r == NextRequest(c)
<1>1. /\ pc[c] = "post" /\ status[c] = "BUSY" /\ pc'[c] = "poll" /\ status'[c] = "BUSY"
      /\ ~Served(c) /\ ~Served(c)' /\ UNCHANGED <<call, left, status, server, request, moved>>
  BY DEF Post, TypeOK, StatusFits, ServedWaitedFor, Served, serverVars
<1>2. r \in Requests /\ r.client = c /\ \A d \in Clients : NextRequest(d)' = NextRequest(d)
  BY <1>1, RequestLemma DEF NextRequest
<1>3. /\ Len(queue') = Len(queue) + 1 /\ queue'[Len(queue) + 1] = r
      /\ \A i \in 1..Len(queue) : queue'[i] = queue[i]
      /\ Len(queue) \in Nat /\ Len(queue) < QueueLen
  BY <1>2 DEF Post, TypeOK
<1>4. \A i \in 1..Len(queue) : queue[i].client \in Clients \ {c}
  <2> TAKE i \in 1..Len(queue)
  <2>1. queue[i] \in Requests
    BY DEF TypeOK
  <2> QED
    BY <1>1, <2>1 DEF QueueWaitedFor, Requests
<1>5. TypeOK'
  BY <1>2, <1>3, CountsAssumption DEF TypeOK, Post, serverVars
<1>6. CallsWithin' /\ StatusFits'
  BY <1>1, OthersLemma DEF CallsWithin, StatusFits, ClientStep
<1>7. QueueDistinct'
  BY <1>2, <1>3, <1>4 DEF QueueDistinct
<1>8. QueueWaitedFor'
  <2> SUFFICES ASSUME NEW i \in 1..Len(queue'), NEW d \in Clients, queue'[i].client = d
               PROVE  /\ pc'[d] = "poll" /\ status'[d] = "BUSY" /\ ~Served(d)'
                      /\ queue'[i] = NextRequest(d)'
    BY DEF QueueWaitedFor
  <2>1. CASE i = Len(queue) + 1
    BY <1>1, <1>2, <1>3, <2>1
  <2>2. CASE i \in 1..Len(queue)
    BY <1>1, <1>2, <1>3, <1>4, <2>2, OthersLemma DEF QueueWaitedFor, Served, ClientStep
  <2> QED
    BY <1>3, <2>1, <2>2
<1>9. ServedWaitedFor'
  BY <1>1, <1>2, OthersLemma DEF ServedWaitedFor, Served, ClientStep
<1>10. PollerHasRequest'
  <2> SUFFICES ASSUME NEW d \in Clients, pc'[d] = "poll", status'[d] = "BUSY", ~Served(d)'
               PROVE  \E i \in 1..Len(queue') : queue'[i].client = d
    BY DEF PollerHasRequest, Queued
  <2>1. CASE d = c
    BY <1>2, <1>3, <2>1
  <2>2. CASE d # c
    BY <1>1, <1>3, <2>2, OthersLemma DEF PollerHasRequest, Queued, Served, ClientStep
  <2> QED
    BY <2>1, <2>2
<1>11. ReadSoFar(c)'
  BY <1>1 DEF ReadSoFar
<1>12. WriteSoFar(c) => WriteSoFar(c)'
  BY <1>1 DEF WriteSoFar, Written, PageAt, Post
<1> QED
  BY <1>5, <1>6, <1>7, <1>8, <1>9, <1>10, <1>11, <1>12

LEMMA AnsweredStep ==
  ASSUME Inv, NEW c \in Clients, Answered(c)
  PROVE  Inv' /\ (ReadSoFar(c) => ReadSoFar(c)') /\ (WriteSoFar(c) => WriteSoFar(c)')
<1> USE DEF Inv, Rendezvous
<1>1. /\ pc[c] = "poll" /\ status[c] \in {"READY", "ERR"}
      /\ ~Served(c) /\ ~Served(c)' /\ UNCHANGED <<call, status, buffer, eeprom>>
  BY DEF Answered, TypeOK, ServedWaitedFor, Served, serverVars
<1>2. call[c] \in CallSet /\ call[c] \in Calls[c] /\ left[c] \in 1..Pages
  BY <1>1, CallLemma, CountsAssumption DEF CallsWithin, TypeOK
<1>3. CASE call[c].kind = "eepromWrite" /\ status[c] = "READY"
  <2>1. /\ pc' = [pc EXCEPT ![c] = "delay"] /\ left' = [left EXCEPT ![c] = left[c] - 1]
        /\ UNCHANGED returned
    BY <1>3 DEF Answered
  <2>2. pc'[c] = "delay" /\ left'[c] = left[c] - 1
    BY <2>1 DEF TypeOK
  <2>3. TypeOK'
    BY <1>2, <2>1, CountsAssumption DEF TypeOK, Answered, serverVars
  <2>4. CallsWithin' /\ StatusFits'
    BY <1>1, <1>2, <1>3, <2>2, OthersLemma, CallLemma DEF CallsWithin, StatusFits, ClientStep
  <2>5. QueueDistinct' /\ QueueWaitedFor' /\ ServedWaitedFor' /\ PollerHasRequest'
    BY <1>1, <2>2, BystanderLemma DEF ClientStep, Answered
  <2>6. ReadSoFar(c)'
    BY <1>1, <1>3 DEF ReadSoFar
  <2>7. WriteSoFar(c) => WriteSoFar(c)'
    <3>1. PageAt(c)' - 1 = PageAt(c) /\ PageAt(c) \in Int /\ call[c].first \in Int
      BY <1>1, <1>2, <2>2, CallLemma DEF PageAt
    <3>2. WriteSoFar(c) => Written(c, PageAt(c) - 1) /\ eeprom[PageAt(c)] = call[c].value
      BY <1>1, <1>3 DEF WriteSoFar
    <3>3. WriteSoFar(c) => Written(c, PageAt(c))
      BY <3>1, <3>2 DEF Written
    <3>4. WriteSoFar(c) => Written(c, PageAt(c) - 1)'
      BY <1>1, <3>1, <3>3 DEF Written
    <3> QED
      BY <1>1, <2>2, <3>4 DEF WriteSoFar
  <2> QED
    BY <2>3, <2>4, <2>5, <2>6, <2>7
<1>4. CASE ~(call[c].kind = "eepromWrite" /\ status[c] = "READY")
  <2>1. /\ pc' = [pc EXCEPT ![c] = "out"] /\ UNCHANGED left
        /\ returned' = [returned EXCEPT ![c] = (status[c] = "READY")]
    BY <1>4 DEF Answered, Return
  <2>2. pc'[c] = "out" /\ returned'[c] = (status[c] = "READY")
    BY <2>1 DEF TypeOK
  <2>3. TypeOK'
    BY <2>1 DEF TypeOK, Answered, serverVars
  <2>4. CallsWithin' /\ StatusFits'
    BY <1>1, <1>2, <2>2, OthersLemma DEF CallsWithin, StatusFits, ClientStep
  <2>5. QueueDistinct' /\ QueueWaitedFor' /\ ServedWaitedFor' /\ PollerHasRequest'
    BY <1>1, <2>2, BystanderLemma DEF ClientStep, Answered
  <2>6. ReadSoFar(c) => ReadSoFar(c)'
    BY <1>1, <2>2 DEF ReadSoFar, Filled
  <2>7. WriteSoFar(c)'
    BY <1>1, <1>4, <2>2 DEF WriteSoFar
  <2> QED
    BY <2>3, <2>4, <2>5, <2>6, <2>7
<1> QED
  BY <1>3, <1>4

LEMMA DelayOverStep ==
  ASSUME Inv, NEW c \in Clients, DelayOver(c)
  PROVE  Inv' /\ (ReadSoFar(c) => ReadSoFar(c)') /\ (WriteSoFar(c) => WriteSoFar(c)')
<1> USE DEF Inv, Rendezvous
<1>1. /\ pc[c] = "delay" /\ status[c] = "READY" /\ ~Served(c) /\ ~Served(c)'
      /\ UNCHANGED <<call, left, buffer, eeprom>>
  BY DEF DelayOver, TypeOK, StatusFits, ServedWaitedFor, Served, serverVars
<1>2. call[c] \in Calls[c] /\ left[c] \in 0..Pages
  BY <1>1 DEF CallsWithin, TypeOK
<1>3. CASE left[c] > 0
  <2>1. /\ pc' = [pc EXCEPT ![c] = "post"] /\ status' = [status EXCEPT ![c] = "BUSY"]
        /\ UNCHANGED returned
    BY <1>3 DEF DelayOver
  <2>2. pc'[c] = "post" /\ status'[c] = "BUSY"
    BY <2>1 DEF TypeOK
  <2>3. TypeOK'
    BY <2>1 DEF TypeOK, DelayOver, serverVars
  <2>4. CallsWithin' /\ StatusFits'
    BY <1>1, <1>2, <1>3, <2>2, OthersLemma DEF CallsWithin, StatusFits, ClientStep
  <2>5. QueueDistinct' /\ QueueWaitedFor' /\ ServedWaitedFor' /\ PollerHasRequest'
    BY <1>1, <2>2, BystanderLemma DEF ClientStep, DelayOver
  <2>6. ReadSoFar(c)'
    BY <1>1, <2>2 DEF ReadSoFar
  <2>7. WriteSoFar(c) => WriteSoFar(c)'
    BY <1>1, <2>2 DEF WriteSoFar, Written, PageAt
  <2> QED
    BY <2>3, <2>4, <2>5, <2>6, <2>7
<1>4. CASE ~(left[c] > 0)
  <2>1. /\ pc' = [pc EXCEPT ![c] = "out"] /\ UNCHANGED status
        /\ returned' = [returned EXCEPT ![c] = (status[c] = "READY")]
    BY <1>4 DEF DelayOver, Return
  <2>2. pc'[c] = "out" /\ returned'[c]
    BY <1>1, <2>1 DEF TypeOK
  <2>3. TypeOK'
    BY <2>1 DEF TypeOK, DelayOver, serverVars
  <2>4. CallsWithin' /\ StatusFits'
    BY <1>1, <1>2, <2>2, OthersLemma DEF CallsWithin, StatusFits, ClientStep
  <2>5. QueueDistinct' /\ QueueWaitedFor' /\ ServedWaitedFor' /\ PollerHasRequest'
    BY <1>1, <2>2, BystanderLemma DEF ClientStep, DelayOver
  <2>6. ReadSoFar(c)'
    BY <1>1 DEF ReadSoFar, StatusFits
  <2>7. WriteSoFar(c) => WriteSoFar(c)'
    <3>1. left[c] = 0 /\ PageAt(c) - 1 = call[c].first + call[c].count - 1
      BY <1>2, <1>4, CallLemma DEF PageAt
    <3> QED
      BY <1>1, <2>2, <3>1 DEF WriteSoFar, Written
  <2> QED
    BY <2>3, <2>4, <2>5, <2>6, <2>7
<1> QED
  BY <1>3, <1>4

-----------------------------------------------------------------------------
(* The steps of the service *)

LEMMA CreateQueueStep ==
  ASSUME Inv, CreateQueue
  PROVE  Inv' /\ \A c \in Clients : (ReadSoFar(c) => ReadSoFar(c)') /\ (WriteSoFar(c) => WriteSoFar(c)')
<1> USE DEF Inv, Rendezvous, CreateQueue, clientVars
<1>1. \A c \in Clients : ~Served(c) /\ ~Served(c)'
  BY DEF Served
<1>2. TypeOK' /\ CallsWithin' /\ StatusFits' /\ QueueDistinct'
  BY DEF TypeOK, CallsWithin, StatusFits, QueueDistinct
<1>3. QueueWaitedFor' /\ ServedWaitedFor' /\ PollerHasRequest'
  BY <1>1 DEF QueueWaitedFor, ServedWaitedFor, PollerHasRequest, NextRequest, Queued
<1>4. \A c \in Clients : (ReadSoFar(c) => ReadSoFar(c)') /\ (WriteSoFar(c) => WriteSoFar(c)')
  BY <1>1 DEF ReadSoFar, WriteSoFar, Filled, Written, PageAt
<1> QED
  BY <1>2, <1>3, <1>4

LEMMA ReceiveStep ==
  ASSUME Inv, Receive
  PROVE  Inv' /\ \A c \in Clients : (ReadSoFar(c) => ReadSoFar(c)') /\ (WriteSoFar(c) => WriteSoFar(c)')
<1> USE DEF Inv, Rendezvous
<1>1. /\ Len(queue) \in Nat /\ Len(queue) > 0 /\ Len(queue') = Len(queue) - 1
      /\ request' = queue[1] /\ queue[1] \in Requests
      /\ \A i \in 1..Len(queue') : queue'[i] = queue[i + 1]
      /\ queue' \in Seq(Requests)
  BY DEF Receive, TypeOK
<1>2. /\ server' = "transfer" /\ moved' = 0
      /\ UNCHANGED <<pc, call, left, status, buffer, eeprom, returned, created, result>>
  BY DEF Receive, clientVars
<1>3. \A c \in Clients : /\ NextRequest(c)' = NextRequest(c) /\ ~Served(c)
                         /\ Served(c)' <=> queue[1].client = c
  BY <1>1, <1>2 DEF NextRequest, Served, Receive
<1>4. TypeOK'
  BY <1>1, <1>2, CountsAssumption DEF TypeOK
<1>5. CallsWithin' /\ StatusFits'
  BY <1>2 DEF CallsWithin, StatusFits
<1>6. QueueDistinct'
  BY <1>1 DEF QueueDistinct
<1>7. QueueWaitedFor'
  <2> SUFFICES ASSUME NEW i \in 1..Len(queue'), NEW c \in Clients, queue'[i].client = c
               PROVE  /\ pc'[c] = "poll" /\ status'[c] = "BUSY" /\ ~Served(c)'
                      /\ queue'[i] = NextRequest(c)'
    BY DEF QueueWaitedFor
  <2>1. i + 1 \in 1..Len(queue) /\ queue[i + 1].client = c /\ i + 1 # 1
    BY <1>1
  <2>2. queue[1].client # c
    BY <1>1, <2>1 DEF QueueDistinct
  <2> QED
    BY <1>1, <1>2, <1>3, <2>1, <2>2 DEF QueueWaitedFor
<1>8. ServedWaitedFor'
  BY <1>1, <1>2, <1>3 DEF ServedWaitedFor, QueueWaitedFor, Requests
<1>9. PollerHasRequest'
  <2> SUFFICES ASSUME NEW c \in Clients, pc[c] = "poll", status[c] = "BUSY", queue[1].client # c
               PROVE  \E i \in 1..Len(queue') : queue'[i].client = c
    BY <1>2, <1>3 DEF PollerHasRequest, Queued
  <2>1. PICK i \in 1..Len(queue) : queue[i].client = c
    BY <1>3 DEF PollerHasRequest, Queued
  <2>2. i - 1 \in 1..Len(queue') /\ queue'[i - 1] = queue[i]
    BY <1>1, <2>1
  <2> QED
    BY <2>1, <2>2
<1>10. \A c \in Clients : (ReadSoFar(c) => ReadSoFar(c)') /\ (WriteSoFar(c) => WriteSoFar(c)')
  <2> TAKE c \in Clients
  <2>1. call[c].first \in Int
    BY DEF TypeOK, CallSet
  <2>2. Filled(c, moved)'
    BY <1>2, <2>1 DEF Filled
  <2>3. ReadSoFar(c) => ReadSoFar(c)'
    BY <1>2, <1>3, <2>2 DEF ReadSoFar, Filled
  <2>4. WriteSoFar(c) => WriteSoFar(c)'
    BY <1>2, <1>3 DEF WriteSoFar, Written, PageAt
  <2> QED
    BY <2>3, <2>4
<1> QED
  BY <1>4, <1>5, <1>6, <1>7, <1>8, <1>9, <1>10

\* The steps that serve a request leave the clients where they are.
LEMMA ServingLemma ==
  ASSUME Inv, UNCHANGED <<created, queue, clientVars, request>>,
         server = "transfer", server' \in {"transfer", "answer"}, moved' \in 0..request.count
  PROVE  /\ CallsWithin' /\ StatusFits' /\ QueueDistinct' /\ QueueWaitedFor'
         /\ ServedWaitedFor' /\ PollerHasRequest'
         /\ \A c \in Clients : Served(c)' = Served(c)
<1> USE DEF Inv, Rendezvous, clientVars
<1>1. \A c \in Clients : Served(c)' = Served(c) /\ NextRequest(c)' = NextRequest(c)
  BY DEF Served, NextRequest
<1>2. CallsWithin' /\ StatusFits' /\ QueueDistinct'
  BY DEF CallsWithin, StatusFits, QueueDistinct
<1>3. QueueWaitedFor' /\ PollerHasRequest'
  BY <1>1 DEF QueueWaitedFor, PollerHasRequest, Queued
<1>4. ServedWaitedFor'
  BY <1>1 DEF ServedWaitedFor, TypeOK, Requests
<1> QED
  BY <1>1, <1>2, <1>3, <1>4

\* The client that is served, and the pages it is served.
LEMMA ServedLemma ==
  ASSUME Inv, server \in {"transfer", "answer"}, NEW c, c = request.client
  PROVE  /\ c \in Clients /\ Served(c) /\ pc[c] = "poll" /\ status[c] = "BUSY"
         /\ call[c] \in Calls[c] /\ call[c] \in CallSet
         /\ request = NextRequest(c) /\ moved \in 0..request.count
         /\ request \in Requests /\ request.first + request.count - 1 <= Pages
         /\ call[c].kind = "eepromWrite" => request.first = PageAt(c) /\ request.count = 1
         /\ call[c].kind # "eepromWrite" =>
              request.first = call[c].first /\ request.count = call[c].count
<1> USE DEF Inv, Rendezvous
<1>1. request \in Requests /\ c \in Clients /\ Served(c)
  BY DEF TypeOK, Requests, Served
<1>2. pc[c] = "poll" /\ status[c] = "BUSY" /\ request = NextRequest(c) /\ moved <= request.count
  BY <1>1 DEF ServedWaitedFor
<1>3. call[c] \in Calls[c] /\ call[c] \in CallSet
  BY <1>1, <1>2 DEF CallsWithin, TypeOK
<1>4. moved \in 0..request.count
  BY <1>1, <1>2 DEF TypeOK, Requests
<1> QED
  BY <1>1, <1>2, <1>3, <1>4, RequestLemma

LEMMA MovePageStep ==
  ASSUME Inv, MovePage
  PROVE  /\ Inv'
         /\ \A c \in Clients : ReadSoFar(c) => ReadSoFar(c)'
         /\ (\A c \in Clients : WriteSoFar(c)) /\ OneWriterAtMost => \A c \in Clients : WriteSoFar(c)'
<1> DEFINE d == request.client
           p == request.first + moved
<1>1. /\ d \in Clients /\ Served(d) /\ pc[d] = "poll" /\ status[d] = "BUSY" /\ call[d] \in CallSet
      /\ call[d] \in Calls[d] /\ request \in Requests /\ moved \in 0..request.count /\ p \in 1..Pages
      /\ call[d].kind = "eepromWrite" => request.first = PageAt(d) /\ request.count = 1
      /\ call[d].kind # "eepromWrite" =>
           request.first = call[d].first /\ request.count = call[d].count
  BY ServedLemma, CountsAssumption DEF MovePage, Requests
<1>2. /\ moved < request.count /\ moved' = moved + 1 /\ server = "transfer" /\ server' = "transfer"
      /\ UNCHANGED <<created, queue, clientVars, request, result>>
  BY DEF MovePage
<1>3. moved' \in 0..request.count /\ moved' \in 0..Pages
  BY <1>1, <1>2, CountsAssumption DEF Requests
<1>4. /\ CallsWithin' /\ StatusFits' /\ QueueDistinct' /\ QueueWaitedFor' /\ ServedWaitedFor'
      /\ PollerHasRequest' /\ \A c \in Clients : Served(c)' = Served(c)
  BY <1>2, <1>3, ServingLemma
<1>5. TypeOK'
  <2>1. CASE UNCHANGED <<buffer, eeprom>>
    BY <1>2, <1>3, <2>1 DEF Inv, TypeOK, clientVars
  <2>2. CASE UNCHANGED buffer /\ eeprom' = [eeprom EXCEPT ![p] = call[d].value]
    <3>1. call[d].value \in Values
      BY <1>1 DEF CallSet
    <3> QED
      BY <1>2, <1>3, <2>2, <3>1 DEF Inv, TypeOK, clientVars
  <2>3. CASE UNCHANGED eeprom /\ buffer' = [buffer EXCEPT ![d][p] = eeprom[p]]
    BY <1>1, <1>2, <1>3, <2>3 DEF Inv, TypeOK, clientVars
  <2> QED
    BY <2>1, <2>2, <2>3 DEF MovePage, Kind
<1>6. ASSUME NEW c \in Clients, ReadSoFar(c), call[c].kind = "eepromRead"
      PROVE  ReadSoFar(c)'
  <2>1. CASE c # d
    <3>1. buffer'[c] = buffer[c]
      BY <2>1 DEF MovePage, Inv, TypeOK
    <3> QED
      BY <1>2, <1>6, <2>1, <3>1 DEF ReadSoFar, Filled, Served, clientVars
  <2>2. CASE c = d
    <3>1. Filled(c, moved) /\ p = call[c].first + moved
      BY <1>1, <1>2, <1>6, <2>2 DEF ReadSoFar
    <3>2. buffer' = [buffer EXCEPT ![c][p] = eeprom[p]]
      BY <1>6, <2>2 DEF MovePage, Kind
    <3>3. eeprom[p] # Missing
      BY <1>1, ValuesAssumption DEF Inv, TypeOK, Torn, Missing
    <3>4. \A q \in 1..Pages : buffer'[c][q] = IF q = p THEN eeprom[p] ELSE buffer[c][q]
      BY <1>1, <2>2, <3>2 DEF Inv, TypeOK
    <3>5. Filled(c, moved)'
      <4> SUFFICES ASSUME NEW q \in call[c].first .. call[c].first + moved
                   PROVE  buffer'[c][q] # Missing
        BY <1>1, <1>2, <2>2 DEF Filled, clientVars, CallSet
      <4>1. q \in 1..Pages
        BY <1>1, <2>2, <3>1, CountsAssumption DEF CallSet
      <4>2. q # p => q \in call[c].first .. call[c].first + moved - 1
        BY <1>1, <2>2, <3>1 DEF CallSet
      <4> QED
        BY <3>1, <3>3, <3>4, <4>1, <4>2 DEF Filled
    <3> QED
      BY <1>1, <1>2, <2>2, <3>5 DEF ReadSoFar, clientVars
  <2> QED
    BY <2>1, <2>2
<1>7. ASSUME OneWriterAtMost, NEW c \in Clients, WriteSoFar(c), call[c].kind = "eepromWrite"
      PROVE  WriteSoFar(c)'
  <2>1. CASE c # d
    <3>1. UNCHANGED eeprom \/ ~(pc[c] # "out" \/ returned[c])
      <4> SUFFICES ASSUME pc[c] # "out" \/ returned[c], call[d].kind = "eepromWrite" PROVE FALSE
        BY DEF MovePage, Kind
      <4> QED
        BY <1>1, <1>7, <2>1 DEF OneWriterAtMost, Inv, Rendezvous, CallsWithin
    <3> QED
      BY <1>2, <1>4, <1>7, <2>1, <3>1 DEF WriteSoFar, Written, PageAt, Served, clientVars
  <2>2. CASE c = d
    <3>1. eeprom' = [eeprom EXCEPT ![p] = call[c].value] /\ p = PageAt(c) /\ moved = 0
      <4>1. eeprom' = [eeprom EXCEPT ![p] = call[c].value]
        BY <1>7, <2>2 DEF MovePage, Kind
      <4>2. p = PageAt(c) /\ moved = 0
        BY <1>1, <1>2, <1>7, <2>2 DEF Requests
      <4> QED
        BY <4>1, <4>2
    <3>2. eeprom'[p] = call[c].value
          /\ \A q \in 1..Pages : q # p => eeprom'[q] = eeprom[q]
      BY <1>1, <3>1 DEF Inv, TypeOK
    <3>3. Written(c, PageAt(c) - 1)
      BY <1>1, <1>7, <2>2 DEF WriteSoFar
    <3>4. Written(c, PageAt(c) - 1)'
      <4>1. \A q \in call[c].first .. PageAt(c) - 1 : q \in 1..Pages /\ q # p
        BY <1>1, <2>2, <3>1, CountsAssumption DEF CallSet
      <4> QED
        BY <1>2, <3>2, <3>3, <4>1 DEF Written, PageAt, clientVars
    <3> QED
      BY <1>1, <1>2, <2>2, <3>1, <3>2, <3>4 DEF WriteSoFar, PageAt, clientVars
  <2> QED
    BY <2>1, <2>2
<1>8. \A c \in Clients : (call[c].kind # "eepromRead" => ReadSoFar(c)')
                      /\ (call[c].kind # "eepromWrite" => WriteSoFar(c)')
  BY <1>2 DEF ReadSoFar, WriteSoFar, clientVars
<1> QED
  BY <1>4, <1>5, <1>6, <1>7, <1>8 DEF Inv, Rendezvous

LEMMA FailStep ==
  ASSUME Inv, Fail
  PROVE  /\ Inv'
         /\ \A c \in Clients : ReadSoFar(c) => ReadSoFar(c)'
         /\ (\A c \in Clients : WriteSoFar(c)) /\ OneWriterAtMost => \A c \in Clients : WriteSoFar(c)'
<1> DEFINE d == request.client
           p == request.first + moved
<1>1. /\ d \in Clients /\ Served(d) /\ pc[d] = "poll" /\ status[d] = "BUSY" /\ call[d] \in CallSet
      /\ call[d] \in Calls[d] /\ request \in Requests /\ moved \in 0..request.count /\ p \in 1..Pages
      /\ call[d].kind = "eepromWrite" => request.first = PageAt(d) /\ request.count = 1
  BY ServedLemma, CountsAssumption DEF Fail, Requests
<1>2. /\ moved < request.count /\ server = "transfer" /\ server' = "answer" /\ result' = "ERR"
      /\ UNCHANGED <<created, queue, clientVars, request, moved, buffer>>
  BY DEF Fail
<1>3. /\ CallsWithin' /\ StatusFits' /\ QueueDistinct' /\ QueueWaitedFor' /\ ServedWaitedFor'
      /\ PollerHasRequest' /\ \A c \in Clients : Served(c)' = Served(c)
  BY <1>1, <1>2, ServingLemma
<1>4. TypeOK'
  <2>1. call[d].value \in Values
    BY <1>1 DEF CallSet
  <2>2. eeprom' \in [1..Pages -> Values \union {Torn}]
    BY <1>1, <2>1 DEF Fail, Inv, TypeOK
  <2> QED
    BY <1>1, <1>2, <2>2 DEF Fail, Inv, TypeOK, clientVars
<1>5. ASSUME NEW c \in Clients, ReadSoFar(c) PROVE ReadSoFar(c)'
  BY <1>2, <1>5 DEF ReadSoFar, Filled, clientVars
<1>6. ASSUME OneWriterAtMost, NEW c \in Clients, WriteSoFar(c), call[c].kind = "eepromWrite"
      PROVE  WriteSoFar(c)'
  <2>1. CASE UNCHANGED eeprom
    BY <1>2, <1>3, <1>6, <2>1 DEF WriteSoFar, Written, PageAt, clientVars
  <2> DEFINE Stored == \E v \in {Torn, call[d].value} : eeprom' = [eeprom EXCEPT ![p] = v]
  <2>2. CASE Stored /\ call[d].kind = "eepromWrite" /\ c # d
    <3>1. ~(pc[c] # "out" \/ returned[c])
      BY <1>1, <1>6, <2>2 DEF OneWriterAtMost, Inv, Rendezvous, CallsWithin
    <3> QED
      BY <1>2, <1>3, <3>1 DEF WriteSoFar, Served, Inv, Rendezvous, ServedWaitedFor, clientVars
  <2>3. CASE Stored /\ c = d
    <3>1. p = PageAt(c) /\ \A q \in 1..Pages : q # p => eeprom'[q] = eeprom[q]
      BY <1>1, <1>2, <1>6, <2>3 DEF Inv, TypeOK, Requests
    <3>2. Written(c, PageAt(c) - 1)
      BY <1>1, <1>6, <2>3 DEF WriteSoFar
    <3>3. Written(c, PageAt(c) - 1)'
      <4>1. \A q \in call[c].first .. PageAt(c) - 1 : q \in 1..Pages /\ q # p
        BY <1>1, <2>3, <3>1, CountsAssumption DEF CallSet
      <4> QED
        BY <1>2, <3>1, <3>2, <4>1 DEF Written, PageAt, clientVars
    <3> QED
      BY <1>1, <1>2, <2>3, <3>3 DEF WriteSoFar, PageAt, clientVars
  <2> QED
    BY <2>1, <2>2, <2>3 DEF Fail, Kind
<1>7. \A c \in Clients : call[c].kind # "eepromWrite" => WriteSoFar(c)'
  BY <1>2 DEF WriteSoFar, clientVars
<1> QED
  BY <1>3, <1>4, <1>5, <1>6, <1>7 DEF Inv, Rendezvous

LEMMA SucceedStep ==
  ASSUME Inv, Succeed
  PROVE  Inv' /\ \A c \in Clients : (ReadSoFar(c) => ReadSoFar(c)') /\ (WriteSoFar(c) => WriteSoFar(c)')
<1> DEFINE d == request.client
<1>1. /\ d \in Clients /\ Served(d) /\ pc[d] = "poll" /\ status[d] = "BUSY"
      /\ request \in Requests /\ moved \in 0..request.count
      /\ call[d].kind = "eepromWrite" => request.count = 1
      /\ call[d].kind # "eepromWrite" => request.count = call[d].count
  BY ServedLemma DEF Succeed
<1>2. /\ moved = request.count /\ server = "transfer" /\ server' = "answer" /\ result' = "READY"
      /\ UNCHANGED <<created, queue, buffer, eeprom, clientVars, request, moved>>
  BY DEF Succeed
<1>3. /\ CallsWithin' /\ StatusFits' /\ QueueDistinct' /\ QueueWaitedFor' /\ ServedWaitedFor'
      /\ PollerHasRequest' /\ \A c \in Clients : Served(c)' = Served(c)
  BY <1>1, <1>2, ServingLemma
<1>4. TypeOK'
  BY <1>2 DEF Inv, TypeOK, clientVars
<1>5. ASSUME NEW c \in Clients
      PROVE  (ReadSoFar(c) => ReadSoFar(c)') /\ (WriteSoFar(c) => WriteSoFar(c)')
  <2>1. CASE c # d
    BY <1>2, <2>1 DEF ReadSoFar, WriteSoFar, Filled, Written, PageAt, Served, clientVars
  <2>2. CASE c = d
    <3>1. ReadSoFar(c) => ReadSoFar(c)'
      BY <1>1, <1>2, <2>2 DEF ReadSoFar, Filled, clientVars
    <3>2. WriteSoFar(c) => WriteSoFar(c)'
      BY <1>1, <1>2, <2>2 DEF WriteSoFar, Written, PageAt, clientVars
    <3> QED
      BY <3>1, <3>2
  <2> QED
    BY <2>1, <2>2
<1> QED
  BY <1>3, <1>4, <1>5 DEF Inv, Rendezvous

LEMMA AnswerStep ==
  ASSUME Inv, Answer
  PROVE  Inv' /\ \A c \in Clients : (ReadSoFar(c) => ReadSoFar(c)') /\ (WriteSoFar(c) => WriteSoFar(c)')
<1> USE DEF Inv, Rendezvous
<1> DEFINE d == request.client
<1>1. d \in Clients /\ Served(d) /\ pc[d] = "poll" /\ status[d] = "BUSY" /\ server = "answer"
  BY ServedLemma DEF Answer
<1>2. /\ status' = [status EXCEPT ![d] = result] /\ server' = "receive"
      /\ UNCHANGED <<created, queue, buffer, eeprom, pc, call, left, returned, request, moved, result>>
  BY DEF Answer
<1>3. /\ status'[d] \in {"READY", "ERR"} /\ status'[d] = result
      /\ \A c \in Clients \ {d} : status'[c] = status[c]
      /\ \A c \in Clients : ~Served(c)' /\ NextRequest(c)' = NextRequest(c) /\ (Served(c) <=> c = d)
  BY <1>1, <1>2 DEF TypeOK, Served, NextRequest
<1>4. TypeOK'
  BY <1>2 DEF TypeOK
<1>5. CallsWithin' /\ StatusFits' /\ QueueDistinct'
  BY <1>1, <1>2, <1>3 DEF CallsWithin, StatusFits, QueueDistinct
<1>6. QueueWaitedFor' /\ ServedWaitedFor' /\ PollerHasRequest'
  BY <1>1, <1>2, <1>3 DEF QueueWaitedFor, ServedWaitedFor, PollerHasRequest, Queued
<1>7. ASSUME NEW c \in Clients
      PROVE  (ReadSoFar(c) => ReadSoFar(c)') /\ (WriteSoFar(c) => WriteSoFar(c)')
  BY <1>1, <1>2, <1>3 DEF ReadSoFar, WriteSoFar, Filled, Written, PageAt
<1> QED
  BY <1>4, <1>5, <1>6, <1>7

-----------------------------------------------------------------------------
(* The invariants *)

ReadsSoFar == \A c \in Clients : ReadSoFar(c)
WritesSoFar == \A c \in Clients : WriteSoFar(c)

LEMMA InitLemma ==
  ASSUME Init
  PROVE  Inv /\ ReadsSoFar /\ WritesSoFar
<1>1. (CHOOSE k \in CallSet : TRUE) \in CallSet
  <2>1. PICK v \in Values : TRUE
    BY ValuesAssumption
  <2>2. [kind |-> "kbd", first |-> 1, count |-> 1, value |-> v] \in CallSet
    BY CountsAssumption DEF CallSet
  <2> QED
    BY <2>2
<1>2. /\ queue = <<>> /\ server = "create"
      /\ \A c \in Clients : pc[c] = "out" /\ left[c] = 0 /\ ~returned[c] /\ ~Served(c)
  BY DEF Init, Served
<1>3. TypeOK
  <2>1. call \in [Clients -> CallSet]
    BY <1>1 DEF Init
  <2>2. queue \in Seq(Requests) /\ Len(queue) <= QueueLen
    BY CountsAssumption DEF Init
  <2>3. buffer \in [Clients -> [1..Pages -> Values \union {Torn, Missing}]]
    BY DEF Init
  <2>4. eeprom \in [1..Pages -> Values \union {Torn}]
    BY DEF Init
  <2>5. left \in [Clients -> 0..Pages] /\ moved \in 0..Pages
    BY CountsAssumption DEF Init
  <2> QED
    BY <2>1, <2>2, <2>3, <2>4, <2>5 DEF Init, TypeOK
<1>4. Rendezvous
  BY <1>2 DEF Rendezvous, CallsWithin, StatusFits, QueueDistinct, QueueWaitedFor,
              ServedWaitedFor, PollerHasRequest
<1>5. ReadsSoFar /\ WritesSoFar
  BY <1>2 DEF ReadsSoFar, WritesSoFar, ReadSoFar, WriteSoFar
<1> QED
  BY <1>3, <1>4, <1>5 DEF Inv

LEMMA ClientsStep ==
  ASSUME Inv, NEW c \in Clients, ClientStep(c)
  PROVE  Inv' /\ (ReadsSoFar => ReadsSoFar') /\ (WritesSoFar => WritesSoFar')
<1>1. Inv' /\ (ReadSoFar(c) => ReadSoFar(c)') /\ (WriteSoFar(c) => WriteSoFar(c)')
  BY CallStep, PostStep, AnsweredStep, DelayOverStep DEF ClientStep
<1>2. \A d \in Clients \ {c} : (ReadSoFar(d) => ReadSoFar(d)') /\ (WriteSoFar(d) => WriteSoFar(d)')
  BY OthersDataLemma DEF Inv
<1>3. \A d \in Clients : (ReadSoFar(d) => ReadSoFar(d)') /\ (WriteSoFar(d) => WriteSoFar(d)')
  BY <1>1, <1>2
<1> QED
  BY <1>1, <1>3 DEF ReadsSoFar, WritesSoFar

LEMMA NextLemma ==
  ASSUME Inv, [Next]_vars
  PROVE  /\ Inv'
         /\ ReadsSoFar => ReadsSoFar'
         /\ WritesSoFar /\ OneWriterAtMost => WritesSoFar'
<1>1. CASE \E c \in Clients : ClientStep(c)
  BY <1>1, ClientsStep
<1>2. CASE CreateQueue \/ Receive \/ Succeed \/ Answer
  <2>1. Inv' /\ \A c \in Clients : (ReadSoFar(c) => ReadSoFar(c)') /\ (WriteSoFar(c) => WriteSoFar(c)')
    BY <1>2, CreateQueueStep, ReceiveStep, SucceedStep, AnswerStep
  <2> QED
    BY <2>1 DEF ReadsSoFar, WritesSoFar
<1>3. CASE MovePage \/ Fail
  BY <1>3, MovePageStep, FailStep DEF ReadsSoFar, WritesSoFar
<1>4. CASE UNCHANGED vars
  <2>1. TypeOK' /\ CallsWithin' /\ StatusFits' /\ \A c \in Clients :
          Served(c)' = Served(c) /\ NextRequest(c)' = NextRequest(c) /\ Queued(c)' = Queued(c)
    BY <1>4 DEF Inv, Rendezvous, TypeOK, CallsWithin, StatusFits, Served, NextRequest, Queued, vars,
                clientVars, serverVars
  <2>2. QueueDistinct' /\ QueueWaitedFor' /\ ServedWaitedFor' /\ PollerHasRequest'
    BY <1>4, <2>1 DEF Inv, Rendezvous, QueueDistinct, QueueWaitedFor, ServedWaitedFor,
                      PollerHasRequest, vars, clientVars, serverVars
  <2>3. ReadsSoFar' = ReadsSoFar /\ WritesSoFar' = WritesSoFar
    BY <1>4, <2>1 DEF ReadsSoFar, WritesSoFar, ReadSoFar, WriteSoFar, Filled, Written, PageAt, vars,
                      clientVars, serverVars
  <2> QED
    BY <2>1, <2>2, <2>3 DEF Inv, Rendezvous
<1> QED
  BY <1>1, <1>2, <1>3, <1>4 DEF Next, ServerStep

\* The service and its clients keep to their states, and no index leaves the
\* EEPROM or a buffer.
THEOREM TypeCorrect == Spec => []TypeOK
<1>1. Inv => TypeOK
  BY DEF Inv
<1> QED
  BY InitLemma, NextLemma, <1>1, PTL DEF Spec

LEMMA OneRequestLemma ==
  ASSUME Inv
  PROVE  OneRequestPerPoll
<1> SUFFICES ASSUME NEW c \in Clients
             PROVE  IF pc[c] = "poll" /\ status[c] = "BUSY"
                      THEN IF Served(c) THEN Queued(c) = {}
                                        ELSE \E i \in 1..Len(queue) : Queued(c) = {i}
                      ELSE Queued(c) = {} /\ ~Served(c)
  BY DEF OneRequestPerPoll
<1>1. \A i \in Queued(c) : i \in 1..Len(queue) /\ pc[c] = "poll" /\ status[c] = "BUSY" /\ ~Served(c)
  BY DEF Inv, Rendezvous, QueueWaitedFor, Queued
<1>2. \A i, j \in Queued(c) : i = j
  BY DEF Inv, Rendezvous, QueueDistinct, Queued
<1>3. Served(c) => pc[c] = "poll" /\ status[c] = "BUSY"
  BY DEF Inv, Rendezvous, ServedWaitedFor
<1>4. pc[c] = "poll" /\ status[c] = "BUSY" /\ ~Served(c) => \E i \in 1..Len(queue) : Queued(c) = {i}
  <2> SUFFICES ASSUME pc[c] = "poll", status[c] = "BUSY", ~Served(c)
               PROVE  \E i \in 1..Len(queue) : Queued(c) = {i}
    OBVIOUS
  <2>1. PICK i \in Queued(c) : TRUE
    BY DEF Inv, Rendezvous, PollerHasRequest
  <2>2. Queued(c) = {i} /\ i \in 1..Len(queue)
    BY <1>1, <1>2, <2>1
  <2> QED
    BY <2>2
<1> QED
  BY <1>1, <1>3, <1>4

\* The pointer in a request never outlives the stack frame it points into: a
\* client that polls has exactly one request, and whoever does not has none.
THEOREM RequestsCorrect == Spec => []OneRequestPerPoll
<1>1. Inv => OneRequestPerPoll
  BY OneRequestLemma
<1> QED
  BY InitLemma, NextLemma, <1>1, PTL DEF Spec

\* sys_eeprom_read returns true only when its whole buffer has been read.
THEOREM ReadsCorrect == Spec => []ReadIsComplete
<1>1. Inv /\ ReadsSoFar => ReadIsComplete
  BY DEF ReadsSoFar, ReadSoFar, Filled, ReadIsComplete
<1> QED
  BY InitLemma, NextLemma, <1>1, PTL DEF Spec

LEMMA WrittenLemma ==
  ASSUME Inv, WritesSoFar
  PROVE  WritesInOrder
<1> SUFFICES ASSUME NEW c \in Clients, pc[c] # "out" \/ returned[c], call[c].kind = "eepromWrite"
             PROVE  \A p \in WrittenSoFar(c) : eeprom[p] = call[c].value
  BY DEF WritesInOrder
<1>1. WriteSoFar(c)
  BY DEF WritesSoFar
<1>2. call[c] \in CallSet /\ left[c] \in 0..Pages
  BY DEF Inv, TypeOK
<1>3. CASE pc[c] = "out"
  BY <1>1, <1>3 DEF WriteSoFar, Written, WrittenSoFar
<1>4. CASE pc[c] # "out"
  <2>1. call[c].first + (call[c].count - left[c]) - 1 = PageAt(c) - 1
    BY <1>2, CountsAssumption DEF PageAt, CallSet
  <2> QED
    BY <1>1, <1>4, <2>1 DEF WriteSoFar, Written, WrittenSoFar
<1> QED
  BY <1>3, <1>4

\* While one task writes the EEPROM, the pages before the one it is at hold what
\* it wrote, and all do when sys_eeprom_write returns true.
THEOREM WritesCorrect ==
  ASSUME OneWriterAtMost
  PROVE  Spec => []WritesInOrder
<1>1. Init => Inv /\ WritesSoFar
  BY InitLemma
<1>2. Inv /\ WritesSoFar /\ [Next]_vars => (Inv /\ WritesSoFar)'
  BY NextLemma
<1>3. Inv /\ WritesSoFar => WritesInOrder
  BY WrittenLemma
<1> QED
  BY <1>1, <1>2, <1>3, PTL DEF Spec
=============================================================================
