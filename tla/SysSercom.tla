----------------------------- MODULE SysSercom -----------------------------
(***************************************************************************)
(* The SERCOM3 service (src/bios/sys_sercom.c): one task owns the I2C bus  *)
(* of the keyboard's I/O expander and of the EEPROM; the other tasks post  *)
(* requests on a queue, with pointers to a buffer and to a status word in  *)
(* their own stack frames, and poll the status until it is no longer busy. *)
(*                                                                         *)
(* An EEPROM write is one request per page, an EEPROM read is one request. *)
(* The queue is the bounded FIFO of Fifo; what a transfer does on the wire *)
(* is reduced to its effect: it moves the data page by page, and it may    *)
(* stop anywhere with an error (no device, no acknowledge, bus timeout).   *)
(***************************************************************************)
EXTENDS Integers, Sequences

CONSTANTS
  Clients,     \* the tasks that call the service
  Pages,       \* the EEPROM has the pages 1..Pages
  Values,      \* what a page can hold
  QueueLen,    \* SYS_SERCOM3_QUEUE_LEN
  Calls        \* [Clients -> the calls each may make]

ASSUME CountsAssumption == Pages \in Nat \ {0} /\ QueueLen \in Nat \ {0}

\* A call: what it does, the first of its pages, how many it has, and the value
\* it writes.  The calls of the keyboard driver move one register.
CallSet == [kind : {"eepromWrite", "eepromRead", "kbd"}, first : 1..Pages,
            count : 1..Pages, value : Values]

ASSUME CallsAssumption ==
  /\ Calls \in [Clients -> SUBSET CallSet]
  /\ \A c \in Clients : \A k \in Calls[c] : k.first + k.count - 1 <= Pages

VARIABLES
  created,     \* xSysSercom3queue is not NULL
  queue,       \* the requests posted: the client, and the pages to move
  pc,          \* where each client is
  call,        \* the call each client makes
  left,        \* the pages of it still to be requested (size)
  status,      \* the status word in its frame
  buffer,      \* what an EEPROM read has put in its buffer
  returned,    \* what its last call returned
  server,      \* where sys_sercom3_task is
  request,     \* qData, the request it serves
  moved,       \* the pages it has moved
  result,      \* what i2c_write or i2c_read returned
  eeprom       \* the pages of the EEPROM

clientVars == <<pc, call, left, status, returned>>
serverVars == <<server, request, moved, result>>
vars == <<created, queue, buffer, eeprom, clientVars, serverVars>>

Torn == "torn"          \* a page whose programming was cut short
Missing == "missing"    \* a page of a buffer not read yet

ASSUME ValuesAssumption == Values # {} /\ Missing \notin Values

Requests == [client : Clients, first : 1..Pages, count : 1..Pages]

TypeOK ==
  /\ created \in BOOLEAN
  /\ queue \in Seq(Requests) /\ Len(queue) <= QueueLen
  /\ pc \in [Clients -> {"out", "post", "poll", "delay"}]
  /\ call \in [Clients -> CallSet]
  /\ left \in [Clients -> 0..Pages]
  /\ status \in [Clients -> {"BUSY", "READY", "ERR"}]
  /\ buffer \in [Clients -> [1..Pages -> Values \union {Torn, Missing}]]
  /\ returned \in [Clients -> BOOLEAN]
  /\ server \in {"create", "receive", "transfer", "answer"}
  /\ server \in {"transfer", "answer"} => request \in Requests
  /\ moved \in 0..Pages
  /\ result \in {"READY", "ERR"}
  /\ eeprom \in [1..Pages -> Values \union {Torn}]

Init ==
  /\ created = FALSE
  /\ queue = <<>>
  /\ pc = [c \in Clients |-> "out"]
  /\ call \in [Clients -> {CHOOSE k \in CallSet : TRUE}]
  /\ left = [c \in Clients |-> 0]
  /\ status = [c \in Clients |-> "READY"]
  /\ buffer = [c \in Clients |-> [p \in 1..Pages |-> Missing]]
  /\ returned = [c \in Clients |-> FALSE]
  /\ server = "create"
  /\ request = [client |-> CHOOSE c \in Clients : TRUE, first |-> 1, count |-> 1]
  /\ moved = 0
  /\ result = "READY"
  /\ eeprom \in [1..Pages -> Values]

-----------------------------------------------------------------------------
(* The clients: sys_kbd_write, sys_kbd_read, sys_eeprom_write and
   sys_eeprom_read *)

\* The pages a request moves: one of an EEPROM write, all of an EEPROM read.
NextRequest(c) ==
  LET k == call[c]
  IN  IF k.kind = "eepromWrite"
        THEN [client |-> c, first |-> k.first + k.count - left[c], count |-> 1]
        ELSE [client |-> c, first |-> k.first, count |-> k.count]

Call(c, k) ==
  /\ pc[c] = "out" /\ k \in Calls[c]
  /\ pc' = [pc EXCEPT ![c] = "post"]
  /\ call' = [call EXCEPT ![c] = k]
  /\ left' = [left EXCEPT ![c] = k.count]
  /\ status' = [status EXCEPT ![c] = "BUSY"]
  /\ buffer' = [buffer EXCEPT ![c] = [p \in 1..Pages |-> Missing]]
  /\ UNCHANGED <<created, queue, eeprom, returned, serverVars>>

\* Mutant: a full queue does not hold the sender back.
PostAnyway(c) ==
  /\ pc[c] = "post"
  /\ created
  /\ queue' = Append(queue, NextRequest(c))
  /\ pc' = [pc EXCEPT ![c] = "poll"]
  /\ UNCHANGED <<created, buffer, eeprom, call, left, status, returned, serverVars>>

\* Waits until the queue exists, and sends with portMAX_DELAY.
Post(c) ==
  /\ pc[c] = "post"
  /\ created
  /\ Len(queue) < QueueLen
  /\ queue' = Append(queue, NextRequest(c))
  /\ pc' = [pc EXCEPT ![c] = "poll"]
  /\ UNCHANGED <<created, buffer, eeprom, call, left, status, returned, serverVars>>

Return(c, value) ==
  /\ pc' = [pc EXCEPT ![c] = "out"]
  /\ returned' = [returned EXCEPT ![c] = value]

\* Mutant: a write goes on to its next page without looking at the error.
AnsweredIgnoresError(c) ==
  /\ pc[c] = "poll" /\ status[c] # "BUSY"
  /\ IF call[c].kind = "eepromWrite"
       THEN /\ left' = [left EXCEPT ![c] = left[c] - 1]
            /\ pc' = [pc EXCEPT ![c] = "delay"]
            /\ UNCHANGED returned
       ELSE Return(c, status[c] = "READY") /\ UNCHANGED left
  /\ UNCHANGED <<created, queue, buffer, eeprom, call, status, serverVars>>

\* The polling loop ends.  A write stops at the first error.
Answered(c) ==
  /\ pc[c] = "poll" /\ status[c] # "BUSY"
  /\ IF call[c].kind = "eepromWrite" /\ status[c] = "READY"
       THEN /\ left' = [left EXCEPT ![c] = left[c] - 1]
            /\ pc' = [pc EXCEPT ![c] = "delay"]
            /\ UNCHANGED returned
       ELSE Return(c, status[c] = "READY") /\ UNCHANGED left
  /\ UNCHANGED <<created, queue, buffer, eeprom, call, status, serverVars>>

\* Mutant: the status word is not set to busy again for the next page.
DelayOverStillReady(c) ==
  /\ pc[c] = "delay"
  /\ IF left[c] > 0
       THEN /\ pc' = [pc EXCEPT ![c] = "post"]
            /\ UNCHANGED <<status, returned>>
       ELSE Return(c, status[c] = "READY") /\ UNCHANGED status
  /\ UNCHANGED <<created, queue, buffer, eeprom, call, left, serverVars>>

\* vTaskDelay(5) is over: the next page, or the end.
DelayOver(c) ==
  /\ pc[c] = "delay"
  /\ IF left[c] > 0
       THEN /\ pc' = [pc EXCEPT ![c] = "post"]
            /\ status' = [status EXCEPT ![c] = "BUSY"]
            /\ UNCHANGED returned
       ELSE Return(c, status[c] = "READY") /\ UNCHANGED status
  /\ UNCHANGED <<created, queue, buffer, eeprom, call, left, serverVars>>

-----------------------------------------------------------------------------
(* The task that owns the bus: sys_sercom3_task *)

CreateQueue ==
  /\ server = "create"
  /\ created' = TRUE
  /\ server' = "receive"
  /\ UNCHANGED <<queue, buffer, eeprom, clientVars, request, moved, result>>

\* Mutant: the newest request is served first.
ReceiveNewest ==
  /\ server = "receive"
  /\ queue # <<>>
  /\ request' = queue[Len(queue)]
  /\ queue' = SubSeq(queue, 1, Len(queue) - 1)
  /\ moved' = 0
  /\ server' = "transfer"
  /\ UNCHANGED <<created, buffer, eeprom, clientVars, result>>

Receive ==
  /\ server = "receive"
  /\ queue # <<>>
  /\ request' = Head(queue)
  /\ queue' = Tail(queue)
  /\ moved' = 0
  /\ server' = "transfer"
  /\ UNCHANGED <<created, buffer, eeprom, clientVars, result>>

Kind == call[request.client].kind

\* The next page goes over the bus.
MovePage ==
  /\ server = "transfer" /\ moved < request.count
  /\ moved' = moved + 1
  /\ LET p == request.first + moved
     IN  \/ /\ Kind = "eepromWrite"
            /\ eeprom' = [eeprom EXCEPT ![p] = call[request.client].value]
            /\ UNCHANGED buffer
         \/ /\ Kind = "eepromRead"
            /\ buffer' = [buffer EXCEPT ![request.client][p] = eeprom[p]]
            /\ UNCHANGED eeprom
         \/ /\ Kind = "kbd"
            /\ UNCHANGED <<buffer, eeprom>>
  /\ UNCHANGED <<created, queue, clientVars, server, request, result>>

\* An error stops the transfer: the page being written is as it was, or torn, or written
\* when only the wait after its last byte fails.
Fail ==
  /\ server = "transfer" /\ moved < request.count
  /\ server' = "answer"
  /\ result' = "ERR"
  /\ \/ UNCHANGED eeprom
     \/ /\ Kind = "eepromWrite"
        /\ \E v \in {Torn, call[request.client].value} :
             eeprom' = [eeprom EXCEPT ![request.first + moved] = v]
  /\ UNCHANGED <<created, queue, buffer, clientVars, request, moved>>

\* Mutant: the read stops one page short.
SucceedShort ==
  /\ server = "transfer" /\ moved >= request.count - 1
  /\ server' = "answer"
  /\ result' = "READY"
  /\ UNCHANGED <<created, queue, buffer, eeprom, clientVars, request, moved>>

Succeed ==
  /\ server = "transfer" /\ moved = request.count
  /\ server' = "answer"
  /\ result' = "READY"
  /\ UNCHANGED <<created, queue, buffer, eeprom, clientVars, request, moved>>

\* The last assignment, through the pointer into the client's frame.
Answer ==
  /\ server = "answer"
  /\ status' = [status EXCEPT ![request.client] = result]
  /\ server' = "receive"
  /\ UNCHANGED <<created, queue, buffer, eeprom, pc, call, left, returned,
                 request, moved, result>>

ClientStep(c) ==
  \/ \E k \in Calls[c] : Call(c, k)
  \/ Post(c)
  \/ Answered(c)
  \/ DelayOver(c)

ServerStep == CreateQueue \/ Receive \/ MovePage \/ Fail \/ Succeed \/ Answer

Next == (\E c \in Clients : ClientStep(c)) \/ ServerStep

Spec == Init /\ [][Next]_vars

\* The server and the clients have one priority and every loop yields, so each
\* of them runs again and again.  A client that waits for a place in the queue
\* is woken when the server takes a request, and runs before the server has
\* finished the transfer, which yields at every byte; the client being served
\* cannot post meanwhile.
FairSpec ==
  /\ Spec
  /\ WF_vars(ServerStep)
  /\ \A c \in Clients : SF_vars(Post(c)) /\ WF_vars(Answered(c) \/ DelayOver(c))

-----------------------------------------------------------------------------
(* Correctness *)

Served(c) == server \in {"transfer", "answer"} /\ request.client = c
Queued(c) == {i \in 1..Len(queue) : queue[i].client = c}

\* The frame of a client outlives its request: a client that polls a busy
\* status has exactly one request, in the queue or being served, and no
\* request points to the status or the buffer of a client that does not poll.
OneRequestPerPoll ==
  \A c \in Clients :
    IF pc[c] = "poll" /\ status[c] = "BUSY"
      THEN IF Served(c) THEN Queued(c) = {} ELSE \E i \in 1..Len(queue) : Queued(c) = {i}
      ELSE Queued(c) = {} /\ ~Served(c)

\* A read that returns true has filled its whole buffer.
ReadIsComplete ==
  \A c \in Clients :
    pc[c] = "out" /\ returned[c] /\ call[c].kind = "eepromRead" =>
      \A p \in call[c].first .. call[c].first + call[c].count - 1 :
        buffer[c][p] # Missing

\* A write goes page by page and stops at the first error: while it is under
\* way every page before the one it is at holds the new value, and when it
\* returns true all of its pages do (one client at a time writes the EEPROM).
WrittenSoFar(c) ==
  LET k == call[c]
      written == IF pc[c] = "out" THEN k.count ELSE k.count - left[c]
  IN  k.first .. k.first + written - 1
WritesInOrder ==
  \A c \in Clients :
    (pc[c] # "out" \/ returned[c]) /\ call[c].kind = "eepromWrite" =>
      \A p \in WrittenSoFar(c) : eeprom[p] = call[c].value

\* Every call returns, whatever the bus does and however full the queue is.
\* (sys_kbd_write, sys_kbd_read, sys_eeprom_write, sys_eeprom_read)
EveryCallReturns == \A c \in Clients : pc[c] # "out" ~> pc[c] = "out"
=============================================================================
