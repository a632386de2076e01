----------------------------- MODULE SerialLink -----------------------------
(***************************************************************************)
(* SerialParser with a host on the other end of the line.  The host sends  *)
(* whole commands, byte by byte, and may stall in the middle of one or     *)
(* give it up (it restarts, or its 15 s watchdog resets the session) and   *)
(* begin another, over the same connection or a new one.                   *)
(***************************************************************************)
EXTENDS SerialParser

CONSTANTS
  Bodies,    \* the bytes host bodies are made of
  Stalls     \* whether the worker may keep the superloop away from the line

(* The tags differ, and every length and count fits its field.             *)
ASSUME LinkAssumption ==
  /\ Bodies \subseteq Byte /\ Stalls \in BOOLEAN
  /\ LET tags == <<chT, chX, chW, chC, chS, chQ>>
     IN  \A i, j \in 1..6 : i # j => tags[i] # tags[j]
  /\ ConfigLong < Base * Base /\ MaxTotalPayload + 1 < Base * Base /\ ScanMax < Base

VARIABLES
  cmd,    \* the command being sent
  todo,   \* its bytes still to be sent
  fresh,  \* whether none of its bytes has been sent yet
  clean,  \* whether parser and host agree where frames begin
  got     \* what the server did since the command began

lvars == <<vars, cmd, todo, fresh, clean, got>>

Strings(n) == [1..n -> Bodies]

(* docs/protocol.md, section 1: the commands a host may send, TX frames    *)
(* that are too long among them.                                           *)
Commands ==
       {[what |-> "stats", body |-> <<>>], [what |-> "reset", body |-> <<>>]}
  \cup [what : {"window"}, body : Strings(WindowLen)]
  \cup [what : {"config"}, body : Strings(ConfigShort) \cup Strings(ConfigLong)]
  \cup [what : {"tx"}, body : UNION {Strings(n) : n \in 1..(MaxTotalPayload + 1)}]
  \cup [what : {"scanQ"}, body : UNION {Strings(Word + n * Word) : n \in 1..ScanMax}]

LE16(n) == <<n % Base, n \div Base>>

Encode(c) ==
  CASE c.what = "stats"  -> <<chS>>
    [] c.what = "reset"  -> <<chX>>
    [] c.what = "window" -> <<chW>> \o c.body
    [] c.what = "config" -> <<chC>> \o LE16(Len(c.body)) \o c.body
    [] c.what = "tx"     -> <<chT, chX>> \o LE16(Len(c.body)) \o c.body
    [] c.what = "scanQ"  -> <<chQ, (Len(c.body) \div Word) - 1>> \o c.body

(* What the server is to do with it.                                       *)
Expected(c) == IF c.what = "tx" /\ Len(c.body) > MaxTotalPayload
               THEN Event("E02", <<>>) ELSE Event(c.what, c.body)

(* The host begins a command, after a whole one or giving one up.          *)
BeginCommand ==
  /\ \E c \in Commands : cmd' = c /\ todo' = Encode(c)
  /\ clean' = (clean /\ todo = <<>>)
  /\ fresh' = TRUE
  /\ got' = <<>>
  /\ UNCHANGED vars

(* It sends a byte, after a pause of more than 100 ms or not.  The server  *)
(* takes the time between two reads for the time between two arrivals,     *)
(* which it is as long as it comes back to the line soon: a burst of the   *)
(* worker or the 250 ms sleep of a cutoff (main.cpp) makes it anything.    *)
(* A pause before the first byte of a command gets both in step again; one *)
(* inside the command gets them out of step.                               *)
SendByte ==
  /\ todo # <<>>
  /\ \E pause, late \in BOOLEAN :
       /\ Stalls \/ late = pause
       /\ handleByte(Head(todo), late)
       /\ clean' = IF fresh THEN clean \/ pause ELSE clean /\ ~pause
  /\ todo' = Tail(todo)
  /\ fresh' = FALSE
  /\ got' = IF ev' = NoEvent THEN got ELSE Append(got, ev')
  /\ UNCHANGED cmd

(* The host connects anew (TCP): the parser starts over, and so does the   *)
(* host, wherever either of them was.                                      *)
Reconnect ==
  /\ accept
  /\ cmd' = [what |-> "stats", body |-> <<>>] /\ todo' = <<chS>>
  /\ fresh' = TRUE /\ clean' = TRUE /\ got' = <<>>

LInit ==
  /\ Init
  /\ cmd = [what |-> "stats", body |-> <<>>] /\ todo = <<chS>>
  /\ fresh = TRUE /\ clean = TRUE /\ got = <<>>

LNext == BeginCommand \/ SendByte \/ Reconnect

LSpec == LInit /\ [][LNext]_lvars

LinkView == <<View, cmd, todo, fresh, clean, got>>

(* Framing (pollOnce): a command sent without a pause, after a whole       *)
(* command or after 100 ms of silence, makes the server do exactly what it *)
(* asks, once, and leaves the parser ready for the next; whatever was cut  *)
(* short before.                                                           *)
Framed == clean /\ ~fresh /\ todo = <<>> =>
            state = "tag" /\ skip = 0 /\ got = <<Expected(cmd)>>

(* As long as both are in step, the server does nothing before the command *)
(* is complete, and nothing else than what it asks.                        *)
NothingElse == clean => got \in {<<>>, <<Expected(cmd)>>}

(* docs/protocol.md: a partial frame is killed when "100 ms elapsed since  *)
(* the last byte arrival", so that a command sent without a pause is not   *)
(* killed at any byte after its first.                                     *)
KilledOnlyWhenLate == clean /\ Len(todo) + 1 < Len(Encode(cmd)) => ~killed
=============================================================================
