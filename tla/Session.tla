------------------------------ MODULE Session ------------------------------
(***************************************************************************)
(* The TCP sessions of the serial server (service/src/serial_server.cpp)   *)
(* in the superloop of main.cpp: accept, the reading of commands, the      *)
(* writing of frames to a socket that may be full or dead, disconnect, the *)
(* statistics every 10 s, and terminals that come when the worker gets to  *)
(* them, whoever is connected by then.                                     *)
(*                                                                         *)
(* A frame to the host is two units of the byte stream, a bare G is one.   *)
(* A TX command is two pieces, in the first of which the parser waits for  *)
(* payload; the payload has no bytes that are tags (SerialLink has those). *)
(* The worker is a queue it takes frames from when it can (RadioWorker).   *)
(***************************************************************************)
EXTENDS Integers, Sequences

CONSTANTS
  QueueCap, \* frames the worker holds
  SockCap,  \* units a socket holds that its client has not read
  MaxClients, \* bound: connections
  MaxTx,    \* bound: TX commands in a behaviour
  MaxOther, \* bound: S and X commands
  MaxRx,    \* bound: packets from the air and channels scanned
  MaxDue    \* bound: times the 10 s are over

ASSUME SessionAssumption ==
  /\ QueueCap \in Nat \ {0} /\ SockCap \in Nat \ {0}
  /\ MaxClients \in Nat /\ MaxTx \in Nat /\ MaxOther \in Nat /\ MaxRx \in Nat /\ MaxDue \in Nat

VARIABLES
  peer,   \* each client: not yet there, open, closed
  inbox,  \* from each client: pieces of commands not yet read
  begun,  \* history: the units sent on this connection since the latest whole frame
  nth,    \* history: which frame of this connection it is, up to the third
  clean,  \* history: every unit so far belonged where it was sent
  told,   \* history: the frames whose terminals were sent on this connection
  unread, \* how many of them the client has not read yet
  sentTx, \* TX commands begun by clients
  others, \* S and X commands sent
  pc,     \* where the superloop stands
  back,   \* where it goes on when todo is written
  todo,   \* units still to be written
  fd,     \* fd_, the client connected, 0: none
  served, \* the latest client accepted
  half,   \* parser: the client whose TX command is in progress, 0: at a tag
  due,    \* 10 s are over since the latest statistics
  ticks,  \* how often they were
  txq,    \* the worker's frames: of which clients, and a number
  taken,  \* frames taken so far
  rxs     \* packets received and channels scanned so far

Clients == 1..MaxClients

clientVars == <<peer, inbox, sentTx, others>>
parserVars == <<half, txq, taken>>
streamVars == <<begun, nth, clean, told>>
sockVars == <<streamVars, unread>>
vars == <<clientVars, sockVars, pc, back, todo, fd, served, parserVars, due, ticks, rxs>>

Frame(k, n) == <<[kind |-> k, id |-> n, part |-> 1], [kind |-> k, id |-> n, part |-> 2]>>
BareG == <<[kind |-> "RESET", id |-> 0, part |-> 2]>>
writeReady == Frame("READY", 0)
writeStats == Frame("STATS", 0)
writeDiag(event) == Frame("DIAG", event)
writeError(code) == Frame("ERROR", code)

----------------------------------------------------------------------------
(* The clients: one host, which connects again after its connection ended. *)

clientConnects(c) ==
  /\ peer[c] = "away" /\ (c > 1 => peer[c - 1] = "closed")
  /\ peer' = [peer EXCEPT ![c] = "open"]
  /\ UNCHANGED <<inbox, sentTx, others, sockVars, pc, back, todo, fd, served,
                 parserVars, due, ticks, rxs>>

Sends(c, p) == inbox' = [inbox EXCEPT ![c] = Append(@, p)]

(* The client is in the middle of a TX command.                            *)
InTx(c) == IF inbox[c] = <<>> THEN half = c ELSE inbox[c][Len(inbox[c])] = "T1"

(* The rest of a TX command follows at once, after a pause or never.       *)
clientSends(c, p) ==
  /\ peer[c] = "open"
  /\ Sends(c, p)
  /\ p = "T2" <=> InTx(c)
  /\ sentTx' = IF p = "T1" THEN sentTx + 1 ELSE sentTx
  /\ others' = IF p \in {"S", "X"} THEN others + 1 ELSE others
  /\ sentTx' <= MaxTx /\ others' <= MaxOther
  /\ UNCHANGED <<peer, sockVars, pc, back, todo, fd, served, parserVars, due, ticks, rxs>>

clientReads(c) ==
  /\ peer[c] = "open" /\ fd = c /\ unread > 0
  /\ unread' = 0
  /\ UNCHANGED <<clientVars, streamVars, pc, back, todo, fd, served, parserVars, due, ticks, rxs>>

(* The connection is closed or reset; a reset also loses what was sent.    *)
clientCloses(c) ==
  /\ peer[c] = "open"
  /\ peer' = [peer EXCEPT ![c] = "closed"]
  /\ \/ UNCHANGED inbox
     \/ inbox' = [inbox EXCEPT ![c] = <<>>]
  /\ UNCHANGED <<sentTx, others, sockVars, pc, back, todo, fd, served,
                 parserVars, due, ticks, rxs>>

TenSeconds ==
  /\ ~due /\ ticks < MaxDue
  /\ due' = TRUE /\ ticks' = ticks + 1
  /\ UNCHANGED <<clientVars, sockVars, pc, back, todo, fd, served, parserVars, rxs>>

----------------------------------------------------------------------------
(* SerialServer::pollOnce.                                                 *)

Then(units, next) ==
  /\ todo' = units
  /\ back' = next
  /\ pc' = IF units = <<>> THEN next ELSE "write"

Calling == {c \in Clients : c > served /\ peer[c] # "away"}

(* Mutant: the parser keeps its state.                                     *)
acceptKeepsParser ==
  /\ pc = "accept" /\ Calling # {}
  /\ fd' = served + 1 /\ served' = served + 1
  /\ due' = FALSE
  /\ Then(writeReady \o writeStats, "read")
  /\ UNCHANGED <<clientVars, sockVars, half, txq, taken, ticks, rxs>>

(* accept() waits until a client is there: the socket is a blocking one.   *)
accept ==
  /\ pc = "accept" /\ Calling # {}
  /\ fd' = served + 1 /\ served' = served + 1
  /\ half' = 0
  /\ due' = FALSE
  /\ Then(writeReady \o writeStats, "read")
  /\ UNCHANGED <<clientVars, sockVars, txq, taken, ticks, rxs>>

acceptFails ==
  /\ pc = "accept" /\ Calling # {}
  /\ Then(<<>>, "worker")
  /\ UNCHANGED <<clientVars, sockVars, fd, served, parserVars, due, ticks, rxs>>

(* Mutant: an idle line is left without a look at the clock.               *)
readNothingNoStats ==
  /\ pc = "read" /\ inbox[fd] = <<>> /\ peer[fd] = "open"
  /\ Then(<<>>, "worker")
  /\ UNCHANGED <<due, clientVars, sockVars, fd, served, parserVars, ticks, rxs>>

(* maybeEmitStats(false).                                                  *)
MaybeStats == IF due THEN writeStats ELSE <<>>

readNothing ==
  /\ pc = "read" /\ inbox[fd] = <<>> /\ peer[fd] = "open"
  /\ Then(MaybeStats, "worker")
  /\ due' = FALSE
  /\ UNCHANGED <<clientVars, sockVars, fd, served, parserVars, ticks, rxs>>

(* Mutant: the loop goes on reading after a disconnect.                    *)
readClosedGoesOn ==
  /\ pc = "read" /\ inbox[fd] = <<>> /\ peer[fd] = "closed"
  /\ fd' = 0 /\ unread' = 0 /\ begun' = <<>> /\ nth' = 1 /\ told' = {}
  /\ Then(<<>>, "read")
  /\ UNCHANGED <<clientVars, clean, served, parserVars, due, ticks, rxs>>

readClosed ==
  /\ pc = "read" /\ inbox[fd] = <<>> /\ peer[fd] = "closed"
  /\ fd' = 0 /\ unread' = 0 /\ begun' = <<>> /\ nth' = 1 /\ told' = {}
  /\ Then(<<>>, "worker")
  /\ UNCHANGED <<clientVars, clean, served, parserVars, due, ticks, rxs>>

(* The handler of the piece p: what the parser and the queue become, and   *)
(* the answer.  100 ms between two pieces put the parser back to the tag.  *)
Complete(stale) ==
  /\ half # 0 /\ ~stale
  /\ half' = 0
  /\ \/ /\ Len(txq) < QueueCap
        /\ txq' = Append(txq, [id |-> taken + 1, from |-> half, to |-> fd])
        /\ taken' = taken + 1
        /\ Then(writeDiag(47) \o MaybeStats, "read")
     \/ /\ Len(txq) >= QueueCap
        /\ Then(writeError(4) \o MaybeStats, "read")
        /\ UNCHANGED <<txq, taken>>

AtTag(p, stale) ==
  /\ half = 0 \/ stale
  /\ half' = IF p = "T1" THEN fd ELSE 0
  /\ Then(CASE p = "S" -> writeStats
            [] p = "X" -> BareG \o MaybeStats
            [] p \in {"T1", "T2"} -> MaybeStats, "read")
  /\ UNCHANGED <<txq, taken>>

readPiece ==
  /\ pc = "read" /\ inbox[fd] # <<>>
  /\ inbox' = [inbox EXCEPT ![fd] = Tail(@)]
  /\ \E stale \in BOOLEAN : Complete(stale) \/ AtTag(Head(inbox[fd]), stale)
  /\ due' = FALSE
  /\ UNCHANGED <<peer, sentTx, others, sockVars, fd, served, ticks, rxs>>

(* What the client's decoder makes of a unit.                              *)
Fits(u) ==
  /\ u.kind = "RESET" => begun = <<>>
  /\ u.kind # "RESET" => u = Frame(u.kind, u.id)[Len(begun) + 1]
  /\ begun # <<>> => u.kind = begun[1].kind /\ u.id = begun[1].id
  /\ nth = 1 => u.kind = "READY"
  /\ nth = 2 => u.kind = "STATS"

Received(u) ==
  /\ clean' = (clean /\ Fits(u))
  /\ begun' = IF u.part = 2 THEN <<>> ELSE <<u>>
  /\ nth' = IF u.part = 2 /\ nth < 3 THEN nth + 1 ELSE nth
  /\ told' = IF u.kind = "TERMINAL" /\ u.part = 2 THEN told \cup {u.id} ELSE told

Open == {c \in Clients : peer[c] = "open"}

(* writeAll: what fits is sent, then the send is tried again.              *)
writeUnit ==
  /\ pc = "write" /\ fd \in Open
  /\ unread < SockCap
  /\ unread' = unread + 1
  /\ Received(Head(todo))
  /\ Then(Tail(todo), back)
  /\ UNCHANGED <<clientVars, fd, served, parserVars, due, ticks, rxs>>

(* Mutant: a full socket ends the frame.                                   *)
writeFailsWhenFull ==
  /\ pc = "write"
  /\ fd \in Open => unread >= SockCap
  /\ Then(<<>>, back)
  /\ UNCHANGED <<clientVars, sockVars, fd, served, parserVars, due, ticks, rxs>>

(* Mutant: an error is taken for a full socket.                            *)
writeFailsNever ==
  /\ pc = "write" /\ fd = 0
  /\ Then(<<>>, back)
  /\ UNCHANGED <<clientVars, sockVars, fd, served, parserVars, due, ticks, rxs>>

(* Nobody is connected, or the socket is dead: what was to be written is   *)
(* lost.                                                                   *)
writeFails ==
  /\ pc = "write" /\ fd \notin Open
  /\ Then(<<>>, back)
  /\ UNCHANGED <<clientVars, sockVars, fd, served, parserVars, due, ticks, rxs>>

----------------------------------------------------------------------------
(* RadioWorker::pollOnce and its callbacks; then the superloop goes round. *)

Round == IF fd = 0 THEN "accept" ELSE "read"

workerIdle ==
  /\ pc = "worker"
  /\ Then(<<>>, Round)
  /\ UNCHANGED <<clientVars, sockVars, fd, served, parserVars, due, ticks, rxs>>

workerRx ==
  /\ pc = "worker" /\ rxs < MaxRx
  /\ rxs' = rxs + 1
  /\ Then(Frame("RX", rxs + 1), Round)
  /\ UNCHANGED <<clientVars, sockVars, fd, served, parserVars, due, ticks>>

workerScan ==
  /\ pc = "worker" /\ rxs < MaxRx
  /\ rxs' = rxs + 1
  /\ Then(writeDiag(50) \o writeDiag(51) \o writeDiag(52) \o writeDiag(53), Round)
  /\ UNCHANGED <<clientVars, sockVars, fd, served, parserVars, due, ticks>>

(* Mutant: the terminal of the last frame in the queue is forgotten.       *)
workerTerminalLate ==
  /\ pc = "worker" /\ txq # <<>>
  /\ txq' = Tail(txq)
  /\ Then(IF Len(txq) > 1 THEN Frame("TERMINAL", Head(txq).id) ELSE <<>>, Round)
  /\ UNCHANGED <<clientVars, sockVars, fd, served, half, taken, due, ticks, rxs>>

workerTerminal ==
  /\ pc = "worker" /\ txq # <<>>
  /\ txq' = Tail(txq)
  /\ Then(Frame("TERMINAL", Head(txq).id), Round)
  /\ UNCHANGED <<clientVars, sockVars, fd, served, half, taken, due, ticks, rxs>>

----------------------------------------------------------------------------
(* The service listens, and waits in accept.                               *)
Init ==
  /\ peer = [c \in Clients |-> "away"] /\ inbox = [c \in Clients |-> <<>>]
  /\ unread = 0 /\ begun = <<>> /\ nth = 1 /\ clean = TRUE /\ told = {}
  /\ sentTx = 0 /\ others = 0
  /\ pc = "accept" /\ back = "accept" /\ todo = <<>> /\ fd = 0 /\ served = 0
  /\ half = 0 /\ due = FALSE /\ ticks = 0 /\ txq = <<>> /\ taken = 0 /\ rxs = 0

Service ==
  \/ accept \/ acceptFails \/ readNothing \/ readClosed \/ readPiece \/ writeUnit \/ writeFails
  \/ workerIdle \/ workerRx \/ workerScan \/ workerTerminal

Client(c) ==
  \/ clientConnects(c) \/ clientReads(c) \/ clientCloses(c)
  \/ \E p \in {"T1", "T2", "S", "X"} : clientSends(c, p)

Next == Service \/ TenSeconds \/ \E c \in Clients : Client(c)

Spec == Init /\ [][Next]_vars

(* The superloop runs, the worker gets to its frames, accept does not fail *)
(* for ever, and a client that stays also reads.                           *)
FairSpec ==
  /\ Spec
  /\ WF_vars(Service) /\ SF_vars(workerTerminal) /\ SF_vars(accept)
  /\ \A c \in Clients : WF_vars(clientReads(c))

----------------------------------------------------------------------------
(* Properties.                                                             *)

Unit == [kind : {"READY", "STATS", "DIAG", "ERROR", "RX", "TERMINAL", "RESET"},
         id : Nat, part : {1, 2}]

(* Types; a socket is written and read only while there is one.            *)
TypeOK ==
  /\ peer \in [Clients -> {"away", "open", "closed"}]
  /\ inbox \in [Clients -> Seq({"T1", "T2", "S", "X"})]
  /\ unread \in 0..SockCap /\ begun \in Seq(Unit) /\ Len(begun) <= 1 /\ nth \in 1..3
  /\ clean \in BOOLEAN /\ told \subseteq 1..MaxTx
  /\ pc \in {"accept", "read", "write", "worker"} /\ back \in {"accept", "read", "worker"}
  /\ todo \in Seq(Unit) /\ (pc = "write" <=> todo # <<>>)
  /\ fd \in {0, served} /\ served \in {0} \cup Clients
  /\ (pc = "read" => fd # 0) /\ (pc = "accept" => fd = 0)
  /\ half \in {0} \cup Clients /\ due \in BOOLEAN
  /\ txq \in Seq([id : Nat, from : Clients, to : Clients]) /\ Len(txq) <= QueueCap
  /\ sentTx \in 0..MaxTx /\ others \in 0..MaxOther /\ taken \in 0..MaxTx
  /\ rxs \in 0..MaxRx /\ ticks \in 0..MaxDue

(* What a client gets is READY, the statistics, and then whole frames,     *)
(* whatever the socket held back (the send loop of writeAll), whenever it  *)
(* connected and whatever an earlier connection left unwritten.            *)
CleanStream == clean

(* No frame goes on the air that was put together from the bytes of two    *)
(* clients, although a client may go away in the middle of a TX command    *)
(* and the next one may connect within the 100 ms of the resync.           *)
OneClient == \A i \in 1..Len(txq) : txq[i].from = txq[i].to

(* A client that stays connected and reads is told how each frame of its   *)
(* own ended (one terminal per accepted frame, or its credits leak).       *)
Answered ==
  \A n \in 1..MaxTx :
    (\E i \in 1..Len(txq) : txq[i].id = n /\ txq[i].to = fd) ~> (n \in told \/ fd \notin Open)

(* The statistics, which keep the host's 60 s watchdog quiet, are sent     *)
(* every 10 s also when the host sends nothing or does not stop sending.   *)
StatsKeepComing == (due /\ fd # 0) ~> (~due \/ fd = 0)

(* A client that calls is served in the end, in whatever state its last    *)
(* connection broke: in a command, with a full socket, with terminals      *)
(* still to come.                                                          *)
Greeted == (Calling # {}) ~> (Calling = {})

(* "Non-blocking poll step for the single-threaded RT-SMART superloop":    *)
(* the worker, and the thermal tick with it, runs again and again.         *)
PollReturns == []<>(pc = "worker")
=============================================================================
