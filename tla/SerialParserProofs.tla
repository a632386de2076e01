------------------------- MODULE SerialParserProofs -------------------------
(***************************************************************************)
(* Proofs about SerialParser and SerialLink, for every width of the wire   *)
(* format.  The parser: its types, that no byte is stored outside its      *)
(* buffer, and that the length states serve CONFIG and TX frames only (the *)
(* three are inductive together).  The link: a host that pauses before it  *)
(* goes on is understood, whatever it cut short before.                    *)
(***************************************************************************)
EXTENDS SerialLink, SequenceTheorems, TLAPS

ParserInv == TypeOK /\ InBounds /\ LenForFrames

(* What the idle resync leaves is well-typed, and a byte taken in a state  *)
(* other than TAG found no resync.                                         *)
LEMMA ResyncFacts ==
  ASSUME TypeOK, NEW late \in BOOLEAN
  PROVE  /\ State(late) \in States /\ Skip(late) \in Nat /\ Buf(late) \in Seq(Byte)
         /\ Kills(late) \in BOOLEAN
         /\ State(late) # "tag" => State(late) = state /\ Buf(late) = buf
         /\ Skip(late) > 0 => State(late) = state /\ Buf(late) = buf /\ Skip(late) = skip
  BY DEF TypeOK, State, Skip, Buf, Kills, Stale, States

(* Events are well-typed, and the empty body is one.                       *)
LEMMA EventTypes ==
  /\ <<>> \in Seq(Byte) /\ Len(<<>>) = 0
  /\ NoEvent \in Replies
  /\ \A w \in Events, s \in Seq(Byte) : Event(w, s) \in Replies
<1>1. <<>> \in Seq(Byte) /\ Len(<<>>) = 0
  OBVIOUS
<1>2. "none" \in Events
  BY DEF Events
<1>3. QED
  BY <1>1, <1>2 DEF Event, NoEvent, Replies

(* The parser starts in TAG with nothing received.                         *)
LEMMA ParserInit == Init => ParserInv
<1>1. 0 \in Byte
  BY WireAssumption DEF Byte
<1>2. Init => TypeOK
  <2>1. <<>> \in Seq(Byte) /\ NoEvent \in Replies
    BY EventTypes
  <2>2. 0 \in Nat
    OBVIOUS
  <2> QED
    BY <1>1, <2>1, <2>2, Zenon DEF Init, TypeOK, States
<1>3. Init => InBounds
  BY DEF Init, InBounds
<1>4. Init => LenForFrames
  BY DEF Init, LenForFrames
<1>5. QED
  BY <1>2, <1>3, <1>4 DEF ParserInv

(* A byte stored in a body keeps it well-typed and one longer.             *)
LEMMA StoreByte ==
  ASSUME NEW s \in Seq(Byte), NEW b \in Byte
  PROVE  Append(s, b) \in Seq(Byte) /\ Len(Append(s, b)) = Len(s) + 1 /\ Len(s) \in Nat
  OBVIOUS

(* Every byte, in every state, keeps the invariant.                        *)
LEMMA ParserStep == ParserInv /\ [Next]_vars => ParserInv'
<1> SUFFICES ASSUME ParserInv, [Next]_vars PROVE ParserInv'
  OBVIOUS
<1> USE WireAssumption DEF ParserInv
<1>t. TypeOK /\ InBounds /\ LenForFrames
  OBVIOUS
<1>e. /\ <<>> \in Seq(Byte) /\ Len(<<>>) = 0
      /\ NoEvent \in Replies
      /\ \A w \in Events, s \in Seq(Byte) : Event(w, s) \in Replies
  BY EventTypes
<1>n. {"stats", "reset", "window", "config", "tx", "scanQ", "E02", "E03"} \subseteq Events
  BY DEF Events
<1>1. CASE accept
  BY <1>1, <1>t, <1>e, <1>n DEF accept, TypeOK, InBounds, LenForFrames, States
<1>2. ASSUME NEW b \in Byte, NEW late \in BOOLEAN, handleByte(b, late)
      PROVE  ParserInv'
  <2>r. /\ State(late) \in States /\ Skip(late) \in Nat /\ Buf(late) \in Seq(Byte)
        /\ Kills(late) \in BOOLEAN
        /\ State(late) # "tag" => State(late) = state /\ Buf(late) = buf
        /\ Skip(late) > 0 => State(late) = state /\ Buf(late) = buf /\ Skip(late) = skip
    BY <1>t, ResyncFacts
  <2>b. b \in Nat
    BY DEF Byte
  <2>s. \A s \in Seq(Byte) : Append(s, b) \in Seq(Byte) /\ Len(Append(s, b)) = Len(s) + 1
                             /\ Len(s) \in Nat
    BY StoreByte
  <2>1. CASE skipByte(b, late)
    BY <2>1, <2>r, <1>t, <1>e, <1>n DEF skipByte, TypeOK, InBounds, LenForFrames, ScanNeed
  <2>2. CASE tagByte(b, late)
    <3>1. /\ state' \in {"txMagic", "setWindow", "lenLo", "scanCount", "tag"}
          /\ state' \in {"txMagic", "lenLo"} => b \in {chC, chT}
          /\ state' = "setWindow" => buf' = <<>>
      BY <2>2 DEF tagByte
    <3>2. ev' \in Replies /\ buf' \in Seq(Byte)
      BY <2>2, <1>e, <1>n, <2>r DEF tagByte
    <3> QED
      BY <2>2, <3>1, <3>2, <2>r, <1>t
         DEF tagByte, Takes, TypeOK, InBounds, LenForFrames, States
  <2>3. CASE txMagicByte(b, late)
    BY <2>3, <2>r, <1>t, <1>e, <1>n DEF txMagicByte, Takes, TypeOK, InBounds, LenForFrames, States
  <2>4. CASE setWindowByte(b, late)
    <3>1. TypeOK'
      BY <2>4, <2>r, <2>s, <1>t, <1>e, <1>n DEF setWindowByte, Takes, TypeOK, States
    <3>2. InBounds'
      BY <2>4, <2>r, <2>s, <1>t DEF setWindowByte, Takes, TypeOK, InBounds
    <3>3. LenForFrames'
      BY <2>4 DEF setWindowByte, LenForFrames
    <3> QED
      BY <3>1, <3>2, <3>3
  <2>5. CASE lenLoByte(b, late)
    BY <2>5, <2>r, <2>b, <1>t, <1>e, <1>n DEF lenLoByte, Takes, TypeOK, InBounds, LenForFrames, States
  <2>6. CASE lenHiByte(b, late)
    <3>0. Base * b \in Nat
      BY <2>b
    <3>1. frameLen' \in Nat
      BY <2>6, <3>0, <1>t DEF lenHiByte, TypeOK
    <3>2. TypeOK'
      BY <2>6, <3>1, <2>r, <1>t, <1>e, <1>n DEF lenHiByte, SkipRefused, TypeOK, States
    <3>3. InBounds'
      BY <2>6, <3>1, <1>e DEF lenHiByte, LengthOk, InBounds
    <3>4. LenForFrames'
      BY <2>6 DEF lenHiByte, LenForFrames
    <3> QED
      BY <3>2, <3>3, <3>4
  <2>7. CASE configByte(b, late)
    <3>1. TypeOK'
      BY <2>7, <2>r, <2>s, <1>t, <1>e, <1>n DEF configByte, Takes, TypeOK, States
    <3>2. InBounds'
      BY <2>7, <2>r, <2>s, <1>t DEF configByte, Takes, TypeOK, InBounds
    <3>3. LenForFrames'
      BY <2>7 DEF configByte, LenForFrames
    <3> QED
      BY <3>1, <3>2, <3>3
  <2>8. CASE payloadByte(b, late)
    <3>1. TypeOK'
      BY <2>8, <2>r, <2>s, <1>t, <1>e, <1>n DEF payloadByte, Takes, TypeOK, States
    <3>2. InBounds'
      BY <2>8, <2>r, <2>s, <1>t DEF payloadByte, Takes, TypeOK, InBounds
    <3>3. LenForFrames'
      BY <2>8 DEF payloadByte, LenForFrames
    <3> QED
      BY <3>1, <3>2, <3>3
  <2>9. CASE scanCountByte(b, late)
    <3>1. b \in 1..ScanMax => 0 < Word + b * Word /\ b <= ScanMax
      BY <2>b
    <3> QED
      BY <2>9, <3>1, <2>r, <1>t, <1>e, <1>n
         DEF scanCountByte, Takes, TypeOK, InBounds, LenForFrames, States, ScanNeed
  <2>10. CASE scanBodyByte(b, late)
    <3>1. TypeOK'
      BY <2>10, <2>r, <2>s, <1>t, <1>e, <1>n DEF scanBodyByte, Takes, TypeOK, States
    <3>0. ScanNeed \in Nat /\ ScanNeed' = ScanNeed
      <4>1. scanCount \in Nat /\ scanCount' = scanCount
        BY <2>10, <1>t DEF scanBodyByte, TypeOK, Byte
      <4> QED BY <4>1 DEF ScanNeed
    <3>2. InBounds'
      BY <2>10, <3>0, <2>r, <2>s, <1>t DEF scanBodyByte, Takes, TypeOK, InBounds
    <3>3. LenForFrames'
      BY <2>10 DEF scanBodyByte, LenForFrames
    <3> QED
      BY <3>1, <3>2, <3>3
  <2> QED
    BY <1>2, <2>1, <2>2, <2>3, <2>4, <2>5, <2>6, <2>7, <2>8, <2>9, <2>10 DEF handleByte
<1>3. CASE UNCHANGED vars
  BY <1>3, <1>t DEF vars, TypeOK, InBounds, LenForFrames, ScanNeed
<1> QED BY <1>1, <1>2, <1>3 DEF Next

(* The invariant holds of every behaviour.                                 *)
LEMMA ParserInvariant == Spec => []ParserInv
<1> QED BY ParserInit, ParserStep, PTL DEF Spec

(* The parser's variables keep their types, whatever bytes arrive and      *)
(* however they are timed (pollOnce).                                      *)
THEOREM ParserTypes == Spec => []TypeOK
<1>1. ParserInv => TypeOK
  BY DEF ParserInv
<1> QED BY <1>1, ParserInvariant, PTL

(* No byte from the host is ever written outside config_body_,             *)
(* window_body_, tx_buf or qbuf (pollOnce), for every wire format.         *)
THEOREM ParserStaysInBounds == Spec => []InBounds
<1>1. ParserInv => InBounds
  BY DEF ParserInv
<1> QED BY <1>1, ParserInvariant, PTL

(* LEN_LO and LEN_HI are reached by C and T frames only, so that the last  *)
(* else of the kLenHi case is dead code (pollOnce).                        *)
THEOREM LengthsAreOfFrames == Spec => []LenForFrames
<1>1. ParserInv => LenForFrames
  BY DEF ParserInv
<1> QED BY <1>1, ParserInvariant, PTL

----------------------------------------------------------------------------
(* Sequences of bytes.                                                     *)

(* A byte in front of others is the head, the others are the tail.         *)
LEMMA Cons ==
  ASSUME NEW a \in Byte, NEW s \in Seq(Byte)
  PROVE  /\ <<a>> \o s \in Seq(Byte) /\ <<a>> \o s # <<>>
         /\ Head(<<a>> \o s) = a /\ Tail(<<a>> \o s) = s
<1> DEFINE t == <<a>> \o s
<1>1. <<a>> \in Seq(Byte) /\ Len(<<a>>) = 1 /\ <<a>>[1] = a
  OBVIOUS
<1>2. /\ t \in Seq(Byte) /\ Len(t) = 1 + Len(s) /\ Len(s) \in Nat /\ t[1] = a
      /\ \A i \in 1..Len(s) : t[i + 1] = s[i]
  OBVIOUS
<1> HIDE DEF t
<1>3. t # <<>> /\ Head(t) = a
  BY <1>2
<1>4. Tail(t) \in Seq(Byte) /\ Len(Tail(t)) = Len(s) /\ \A i \in 1..Len(s) : Tail(t)[i] = s[i]
  BY <1>2, <1>3, HeadTailProperties
<1>5. Tail(t) = s
  BY <1>4, SeqEqual
<1> QED  BY <1>2, <1>3, <1>5 DEF t

LEMMA ConsTwo ==
  ASSUME NEW a \in Byte, NEW b \in Byte, NEW s \in Seq(Byte)
  PROVE  <<a, b>> \o s = <<a>> \o (<<b>> \o s)
<1>1. <<a>> \in Seq(Byte) /\ <<b>> \in Seq(Byte)
  OBVIOUS
<1>2. <<a, b>> = <<a>> \o <<b>>
  <2> DEFINE t == <<a>> \o <<b>>
             u == <<a, b>>
  <2>1. t \in Seq(Byte) /\ Len(t) = 2 /\ t[1] = a /\ t[2] = b
    OBVIOUS
  <2>2. u \in Seq(Byte) /\ Len(u) = 2 /\ u[1] = a /\ u[2] = b
    OBVIOUS
  <2> HIDE DEF t, u
  <2>3. \A i \in 1..Len(t) : t[i] = u[i]
    BY <2>1, <2>2
  <2>4. t = u
    BY <2>1, <2>2, <2>3, SeqEqual
  <2> QED  BY <2>4 DEF t, u
<1>3. (<<a>> \o <<b>>) \o s = <<a>> \o (<<b>> \o s)
  BY <1>1, ConcatAssociative
<1> QED  BY <1>2, <1>3

(* A byte that moves from what is to come to what has come.                *)
LEMMA Shift ==
  ASSUME NEW s \in Seq(Byte), NEW t \in Seq(Byte), t # <<>>
  PROVE  /\ Append(s, Head(t)) \o Tail(t) = s \o t
         /\ Len(Append(s, Head(t))) = Len(s \o t) => Tail(t) = <<>> /\ Append(s, Head(t)) = s \o t
         /\ Len(Append(s, Head(t))) # Len(s \o t) => Tail(t) # <<>>
<1> DEFINE a == Append(s, Head(t))
<1>1. /\ Head(t) \in Byte /\ Tail(t) \in Seq(Byte) /\ Len(Tail(t)) = Len(t) - 1 /\ Len(t) \in Nat
      /\ Head(t) = t[1] /\ \A i \in 1..Len(Tail(t)) : Tail(t)[i] = t[i + 1]
  BY HeadTailProperties
<1>2. <<Head(t)>> \in Seq(Byte) /\ a = s \o <<Head(t)>>
  BY <1>1
<1>3. <<Head(t)>> \o Tail(t) = t
  <2> DEFINE u == <<Head(t)>> \o Tail(t)
  <2>1. u \in Seq(Byte) /\ Len(u) = Len(t) /\ u[1] = t[1] /\ \A i \in 1..Len(Tail(t)) : u[i + 1] = t[i + 1]
    BY <1>1
  <2> HIDE DEF u
  <2>2. \A i \in 1..Len(u) : u[i] = t[i]
    <3> SUFFICES ASSUME NEW i \in 1..Len(u) PROVE u[i] = t[i]
      OBVIOUS
    <3>1. CASE i = 1
      BY <2>1, <3>1
    <3>2. CASE i # 1
      <4>1. i - 1 \in 1..Len(Tail(t)) /\ (i - 1) + 1 = i
        BY <1>1, <2>1, <3>2
      <4> QED  BY <2>1, <4>1
    <3> QED  BY <3>1, <3>2
  <2> QED  BY <2>1, <2>2, SeqEqual DEF u
<1>4. a \o Tail(t) = s \o t
  BY <1>1, <1>2, <1>3, ConcatAssociative
<1>5. a \in Seq(Byte) /\ Len(a) = Len(s) + 1 /\ Len(s) \in Nat /\ Len(s \o t) = Len(s) + Len(t)
  BY <1>1
<1> HIDE DEF a
<1>6. Len(a) = Len(s \o t) => Len(Tail(t)) = 0
  BY <1>1, <1>5
<1>7. Len(Tail(t)) = 0 <=> Tail(t) = <<>>
  <2>1. \A u \in Seq(Byte) : Len(u) = 0 <=> u = <<>>
    OBVIOUS
  <2> QED  BY <1>1, <2>1, Zenon
<1>8. a \o <<>> = a
  BY <1>5
<1>9. Len(a) # Len(s \o t) => Len(Tail(t)) # 0
  BY <1>1, <1>5
<1> QED  BY <1>4, <1>6, <1>7, <1>8, <1>9 DEF a

----------------------------------------------------------------------------
(* The commands on the line.                                               *)

LEMMA Tags ==
  /\ chT \in Byte /\ chX \in Byte /\ chW \in Byte /\ chC \in Byte /\ chS \in Byte /\ chQ \in Byte
  /\ chT # chX /\ chT # chW /\ chT # chC /\ chT # chS /\ chT # chQ /\ chX # chW /\ chX # chC
  /\ chX # chS /\ chX # chQ /\ chW # chC /\ chW # chS /\ chW # chQ /\ chC # chS /\ chC # chQ
  /\ chS # chQ
<1>1. chT \in Byte /\ chX \in Byte /\ chW \in Byte /\ chC \in Byte /\ chS \in Byte /\ chQ \in Byte
  BY WireAssumption
<1> DEFINE tags == <<chT, chX, chW, chC, chS, chQ>>
<1>2. \A i, j \in 1..6 : i # j => tags[i] # tags[j]
  BY LinkAssumption
<1>3. tags[1] = chT /\ tags[2] = chX /\ tags[3] = chW /\ tags[4] = chC /\ tags[5] = chS /\ tags[6] = chQ
  OBVIOUS
<1> HIDE DEF tags
<1> QED  BY <1>1, <1>2, <1>3

LEMMA Widths ==
  /\ Base \in Nat \ {0} /\ ConfigShort \in Nat /\ ConfigLong \in Nat /\ WindowLen \in Nat
  /\ ConfigShort > 0 /\ ConfigLong > ConfigShort /\ WindowLen > 0 /\ MaxTotalPayload \in Nat
  /\ ScanMax \in Nat /\ Word \in Nat \ {0} /\ Bodies \subseteq Byte
  /\ Base * Base \in Nat /\ ConfigLong < Base * Base /\ MaxTotalPayload + 1 < Base * Base
  /\ ScanMax < Base
<1>1. Base * Base \in Nat
  BY WireAssumption
<1> QED  BY <1>1, WireAssumption, LinkAssumption

LEMMA StringFacts ==
  ASSUME NEW n \in Nat, NEW s \in Strings(n)
  PROVE  s \in Seq(Byte) /\ Len(s) = n
<1>1. s \in [1..n -> Byte]
  BY Widths DEF Strings
<1>2. s \in Seq(Byte)
  BY <1>1, SeqDef
<1> QED  BY <1>1, <1>2, LenProperties

(* A length of 16 bits, taken apart and put together again.                *)
LEMMA TwoBytes ==
  ASSUME NEW n \in Nat, n < Base * Base
  PROVE  n % Base \in Byte /\ n \div Base \in Byte /\ (n % Base) + Base * (n \div Base) = n
<1>1. n % Base \in 0..Base - 1 /\ n = Base * (n \div Base) + (n % Base) /\ n \div Base \in Int
  BY Widths
<1>2. n \div Base >= 0
  BY Widths
<1>3. PICK q \in Int, r \in Int : q = n \div Base /\ r = n % Base
  BY <1>1
<1>4. q < Base
  <2>1. \A p \in Int : p >= Base => Base * p >= Base * Base
    BY Widths
  <2>2. Base * q \in Int /\ Base * Base \in Int /\ n = Base * q + r /\ r >= 0
    BY <1>1, <1>3, Widths
  <2>3. ~(Base * q >= Base * Base)
    BY <2>2, <1>3
  <2> QED  BY <2>1, <2>3, Widths
<1>5. Base * q \in Int
  BY Widths
<1> QED  BY <1>1, <1>2, <1>3, <1>4, <1>5, Widths DEF Byte

LEMMA CommandFacts ==
  ASSUME NEW c \in Commands
  PROVE  /\ c.what \in {"stats", "reset", "window", "config", "tx", "scanQ"}
         /\ c.body \in Seq(Byte)
         /\ c.what \in {"stats", "reset"} => c.body = <<>>
         /\ c.what = "window" => Len(c.body) = WindowLen
         /\ c.what = "config" => Len(c.body) \in {ConfigShort, ConfigLong}
         /\ c.what = "tx" => Len(c.body) >= 1 /\ Len(c.body) <= MaxTotalPayload + 1
         /\ c.what = "scanQ" => \E n \in 1..ScanMax : Len(c.body) = Word + n * Word
<1>1. CASE c \in {[what |-> "stats", body |-> <<>>], [what |-> "reset", body |-> <<>>]}
  <2>1. c.what \in {"stats", "reset"} /\ c.body = <<>>
    BY <1>1
  <2>2. <<>> \in Seq(Byte)
    OBVIOUS
  <2> QED  BY <2>1, <2>2
<1>2. CASE c \in [what : {"window"}, body : Strings(WindowLen)]
  <2>1. c.what = "window" /\ c.body \in Strings(WindowLen) /\ WindowLen \in Nat
    BY <1>2, Widths
  <2> QED  BY <2>1, StringFacts
<1>3. CASE c \in [what : {"config"}, body : Strings(ConfigShort) \cup Strings(ConfigLong)]
  <2>1. c.what = "config" /\ (c.body \in Strings(ConfigShort) \/ c.body \in Strings(ConfigLong))
        /\ ConfigShort \in Nat /\ ConfigLong \in Nat
    BY <1>3, Widths
  <2> QED  BY <2>1, StringFacts
<1>4. CASE c \in [what : {"tx"}, body : UNION {Strings(n) : n \in 1..(MaxTotalPayload + 1)}]
  <2>1. c.what = "tx" /\ c.body \in UNION {Strings(n) : n \in 1..(MaxTotalPayload + 1)}
    BY <1>4
  <2>2. PICK n \in 1..(MaxTotalPayload + 1) : c.body \in Strings(n)
    BY <2>1
  <2>3. n \in Nat /\ n >= 1 /\ n <= MaxTotalPayload + 1
    BY Widths
  <2> QED  BY <2>1, <2>2, <2>3, StringFacts
<1>5. CASE c \in [what : {"scanQ"}, body : UNION {Strings(Word + n * Word) : n \in 1..ScanMax}]
  <2>1. c.what = "scanQ" /\ c.body \in UNION {Strings(Word + n * Word) : n \in 1..ScanMax}
    BY <1>5
  <2>2. PICK n \in 1..ScanMax : c.body \in Strings(Word + n * Word)
    BY <2>1
  <2>3. Word + n * Word \in Nat
    BY Widths
  <2>4. c.body \in Seq(Byte) /\ Len(c.body) = Word + n * Word
    BY <2>2, <2>3, StringFacts
  <2> QED  BY <2>1, <2>4
<1> QED  BY <1>1, <1>2, <1>3, <1>4, <1>5 DEF Commands

(* Length and body, as a CONFIG and a TX command end.                      *)
Measured(c) == LE16(Len(c.body)) \o c.body
Low(c) == Len(c.body) % Base
High(c) == Len(c.body) \div Base

LEMMA MeasuredFacts ==
  ASSUME NEW c \in Commands, c.what \in {"config", "tx"}
  PROVE  /\ Low(c) \in Byte /\ High(c) \in Byte /\ Low(c) + Base * High(c) = Len(c.body)
         /\ Measured(c) = <<Low(c)>> \o (<<High(c)>> \o c.body)
         /\ Measured(c) \in Seq(Byte) /\ Measured(c) # <<>>
<1>1. c.body \in Seq(Byte) /\ Len(c.body) \in Nat /\ Len(c.body) < Base * Base
  BY CommandFacts, Widths
<1>2. Low(c) \in Byte /\ High(c) \in Byte /\ Low(c) + Base * High(c) = Len(c.body)
  BY <1>1, TwoBytes DEF Low, High
<1>3. Measured(c) = <<Low(c), High(c)>> \o c.body
  BY DEF Measured, LE16, Low, High
<1>4. Measured(c) = <<Low(c)>> \o (<<High(c)>> \o c.body)
  BY <1>1, <1>2, <1>3, ConsTwo
<1>5. <<High(c)>> \o c.body \in Seq(Byte)
  BY <1>1, <1>2, Cons
<1>6. <<Low(c)>> \o (<<High(c)>> \o c.body) \in Seq(Byte) /\ <<Low(c)>> \o (<<High(c)>> \o c.body) # <<>>
  BY <1>2, <1>5, Cons
<1> QED  BY <1>2, <1>4, <1>6, Zenon

Count(c) == (Len(c.body) \div Word) - 1

LEMMA CountFacts ==
  ASSUME NEW c \in Commands, c.what = "scanQ"
  PROVE  Count(c) \in Byte /\ Count(c) \in 1..ScanMax /\ Word + Count(c) * Word = Len(c.body)
<1>1. PICK n \in 1..ScanMax : Len(c.body) = Word + n * Word
  BY CommandFacts
<1>2. n \in Nat /\ n < Base /\ n >= 1 /\ Word \in Nat \ {0}
  BY Widths
<1>3. Word + n * Word = (n + 1) * Word
  BY <1>2
<1>4. \A k \in Nat : (k * Word) \div Word = k
  BY <1>2
<1>5. Count(c) = n
  BY <1>1, <1>2, <1>3, <1>4 DEF Count
<1>6. Word + Count(c) * Word = Len(c.body)
  BY <1>1, <1>5, Zenon
<1>7. n \in Byte
  BY <1>2, Widths DEF Byte
<1> QED  BY <1>5, <1>6, <1>7, Zenon

(* The tag of a command, and what follows it.                              *)
Opens(c) ==
  CASE c.what = "stats"  -> chS
    [] c.what = "reset"  -> chX
    [] c.what = "window" -> chW
    [] c.what = "config" -> chC
    [] c.what = "tx"     -> chT
    [] c.what = "scanQ"  -> chQ

Follows(c) ==
  CASE c.what \in {"stats", "reset", "window"} -> c.body
    [] c.what = "config" -> Measured(c)
    [] c.what = "tx"     -> <<chX>> \o Measured(c)
    [] c.what = "scanQ"  -> <<Count(c)>> \o c.body

LEMMA EncodeFacts ==
  ASSUME NEW c \in Commands
  PROVE  /\ Opens(c) \in Byte /\ Follows(c) \in Seq(Byte)
         /\ Encode(c) = <<Opens(c)>> \o Follows(c)
<1>a. \A s, t, u \in Seq(Byte) : (s \o t) \o u = s \o (t \o u)
  BY ConcatAssociative
<1>1. c.body \in Seq(Byte)
  BY CommandFacts
<1>2. CASE c.what \in {"stats", "reset"}
  <2>1. c.body = <<>>
    BY <1>2, CommandFacts
  <2>2. Opens(c) \in Byte /\ Follows(c) = <<>> /\ Encode(c) = <<Opens(c)>>
    BY <1>2, <2>1, Tags DEF Opens, Follows, Encode
  <2>3. <<Opens(c)>> \o <<>> = <<Opens(c)>>
    BY <2>2
  <2> QED  BY <2>2, <2>3
<1>3. CASE c.what = "window"
  BY <1>1, <1>3, Tags DEF Opens, Follows, Encode
<1>4. CASE c.what \in {"config", "tx"}
  <2>1. Low(c) \in Byte /\ High(c) \in Byte /\ Measured(c) = <<Low(c)>> \o (<<High(c)>> \o c.body)
    BY <1>4, MeasuredFacts
  <2>2. Measured(c) \in Seq(Byte) /\ LE16(Len(c.body)) \in Seq(Byte)
    BY <1>1, <2>1, Cons DEF LE16, Low, High
  <2>3. CASE c.what = "config"
    <3>1. Encode(c) = (<<chC>> \o LE16(Len(c.body))) \o c.body
      BY <2>3 DEF Encode
    <3>2. <<chC>> \in Seq(Byte)
      BY Tags
    <3>3. Encode(c) = <<chC>> \o Measured(c)
      <4>1. (<<chC>> \o LE16(Len(c.body))) \o c.body = <<chC>> \o (LE16(Len(c.body)) \o c.body)
        BY <1>1, <1>a, <2>2, <3>2, Zenon
      <4> QED  BY <3>1, <4>1, Zenon DEF Measured
    <3> QED  BY <2>2, <2>3, <3>3, Tags DEF Opens, Follows
  <2>4. CASE c.what = "tx"
    <3>1. Encode(c) = (<<chT, chX>> \o LE16(Len(c.body))) \o c.body
      BY <2>4 DEF Encode
    <3>2. <<chT, chX>> \in Seq(Byte)
      BY Tags
    <3>3. Encode(c) = <<chT, chX>> \o Measured(c)
      <4>1. (<<chT, chX>> \o LE16(Len(c.body))) \o c.body = <<chT, chX>> \o (LE16(Len(c.body)) \o c.body)
        BY <1>1, <1>a, <2>2, <3>2, Zenon
      <4> QED  BY <3>1, <4>1, Zenon DEF Measured
    <3>4. Encode(c) = <<chT>> \o (<<chX>> \o Measured(c))
      BY <2>2, <3>3, Tags, ConsTwo
    <3>5. <<chX>> \o Measured(c) \in Seq(Byte)
      BY <2>2, Tags, Cons
    <3> QED  BY <2>4, <3>4, <3>5, Tags DEF Opens, Follows
  <2> QED  BY <1>4, <2>3, <2>4
<1>5. CASE c.what = "scanQ"
  <2>1. Count(c) \in Byte
    BY <1>5, CountFacts
  <2>2. Encode(c) = <<chQ, Count(c)>> \o c.body
    BY <1>5 DEF Encode, Count
  <2>3. Encode(c) = <<chQ>> \o (<<Count(c)>> \o c.body)
    BY <1>1, <2>1, <2>2, Tags, ConsTwo
  <2>4. <<Count(c)>> \o c.body \in Seq(Byte)
    BY <1>1, <2>1, Cons
  <2> QED  BY <1>5, <2>3, <2>4, Tags DEF Opens, Follows
<1> QED  BY <1>2, <1>3, <1>4, <1>5, CommandFacts

----------------------------------------------------------------------------
(* The inductive invariant of the link.  While parser and host agree, the  *)
(* parser's state says which bytes of the command it has, and the bytes    *)
(* still to be sent are the others.                                        *)

InWindow == cmd.what = "window" /\ state = "setWindow" /\ buf \o todo = cmd.body
InMagic == cmd.what = "tx" /\ state = "txMagic" /\ tag = chT /\ todo = <<chX>> \o Measured(cmd)
InLenLo == cmd.what \in {"config", "tx"} /\ state = "lenLo" /\ tag = Opens(cmd) /\ todo = Measured(cmd)
InLenHi == /\ cmd.what \in {"config", "tx"} /\ state = "lenHi" /\ tag = Opens(cmd)
           /\ frameLen = Low(cmd) /\ todo = <<High(cmd)>> \o cmd.body
InConfig == /\ cmd.what = "config" /\ state = "config"
            /\ frameLen = Len(cmd.body) /\ buf \o todo = cmd.body
InPayload == /\ cmd.what = "tx" /\ state = "payload" /\ Len(cmd.body) <= MaxTotalPayload
             /\ frameLen = Len(cmd.body) /\ buf \o todo = cmd.body
InScanCount == cmd.what = "scanQ" /\ state = "scanCount" /\ todo = <<Count(cmd)>> \o cmd.body
InScanBody == /\ cmd.what = "scanQ" /\ state = "scanBody"
              /\ scanCount = Count(cmd) /\ qbuf \o todo = cmd.body

(* The parser waits for the next byte of the command.                      *)
Waits ==
  /\ got = <<>> /\ skip = 0 /\ todo # <<>>
  /\ \/ InWindow \/ InMagic \/ InLenLo \/ InLenHi \/ InConfig \/ InPayload \/ InScanCount \/ InScanBody

(* It has done what the command asks, and skips what is left of it.        *)
Done == state = "tag" /\ skip = Len(todo) /\ got = <<Expected(cmd)>>

LinkInv ==
  /\ ParserInv /\ cmd \in Commands /\ todo \in Seq(Byte)
  /\ fresh \in BOOLEAN /\ clean \in BOOLEAN
  /\ fresh => todo = Encode(cmd) /\ got = <<>>
  /\ clean /\ fresh => state = "tag" /\ skip = 0
  /\ clean /\ ~fresh => Waits \/ Done

LEMMA LinkTypes ==
  ASSUME LinkInv
  PROVE  /\ TypeOK /\ InBounds /\ cmd \in Commands /\ todo \in Seq(Byte) /\ buf \in Seq(Byte)
         /\ qbuf \in Seq(Byte) /\ frameLen \in Nat /\ skip \in Nat /\ cmd.body \in Seq(Byte)
         /\ Len(cmd.body) \in Nat
<1>1. cmd.body \in Seq(Byte)
  BY CommandFacts DEF LinkInv
<1> QED  BY <1>1 DEF LinkInv, ParserInv, TypeOK

(* A byte handled at TAG, at once or because what was there was stale.     *)
LEMMA AtTagByte ==
  ASSUME NEW b, NEW late, handleByte(b, late), State(late) = "tag", Skip(late) = 0
  PROVE  tagByte(b, late)
BY DEF handleByte, skipByte, txMagicByte, setWindowByte, lenLoByte, lenHiByte, configByte,
       payloadByte, scanCountByte, scanBodyByte, Takes

(* A byte that finds nothing stale.                                        *)
InTime(late) == State(late) = state /\ Skip(late) = skip /\ Buf(late) = buf

LEMMA MidFrame ==
  ASSUME NEW b, NEW late, handleByte(b, late), Skip(late) = 0
  PROVE  /\ State(late) = "txMagic" => txMagicByte(b, late)
         /\ State(late) = "setWindow" => setWindowByte(b, late)
         /\ State(late) = "lenLo" => lenLoByte(b, late)
         /\ State(late) = "lenHi" => lenHiByte(b, late)
         /\ State(late) = "config" => configByte(b, late)
         /\ State(late) = "payload" => payloadByte(b, late)
         /\ State(late) = "scanCount" => scanCountByte(b, late)
         /\ State(late) = "scanBody" => scanBodyByte(b, late)
BY DEF handleByte, skipByte, tagByte, txMagicByte, setWindowByte, lenLoByte, lenHiByte,
       configByte, payloadByte, scanCountByte, scanBodyByte, Takes

LEMMA Skipping ==
  ASSUME NEW b, NEW late, handleByte(b, late), Skip(late) \in Nat, Skip(late) > 0
  PROVE  skipByte(b, late)
BY DEF handleByte, skipByte, tagByte, txMagicByte, setWindowByte, lenLoByte, lenHiByte,
       configByte, payloadByte, scanCountByte, scanBodyByte, Takes

(* The server got a byte of the command, and maybe did something.          *)
Heard(late) ==
  /\ handleByte(Head(todo), late)
  /\ todo' = Tail(todo) /\ cmd' = cmd
  /\ got' = IF ev' = NoEvent THEN got ELSE Append(got, ev')

LEMMA SameCommand ==
  ASSUME cmd' = cmd
  PROVE  /\ Opens(cmd)' = Opens(cmd) /\ Measured(cmd)' = Measured(cmd) /\ Low(cmd)' = Low(cmd)
         /\ High(cmd)' = High(cmd) /\ Count(cmd)' = Count(cmd) /\ Expected(cmd)' = Expected(cmd)
<1>1. Opens(cmd)' = Opens(cmd)
  BY Zenon DEF Opens
<1>2. Measured(cmd)' = Measured(cmd) /\ Low(cmd)' = Low(cmd) /\ High(cmd)' = High(cmd)
      /\ Count(cmd)' = Count(cmd) /\ Expected(cmd)' = Expected(cmd)
  BY Zenon DEF Measured, LE16, Low, High, Count, Expected, Event
<1> QED  BY <1>1, <1>2

LEMMA GotNothing ==
  ASSUME NEW late, Heard(late), got = <<>>, ev' = NoEvent
  PROVE  got' = <<>>
BY DEF Heard

LEMMA GotEvent ==
  ASSUME NEW late, Heard(late), got = <<>>, NEW w, NEW x, ev' = Event(w, x), w # "none"
  PROVE  got' = <<Event(w, x)>>
<1>1. Event(w, x).what = w /\ NoEvent.what = "none"
  BY DEF Event, NoEvent
<1>2. ev' # NoEvent
  BY <1>1
<1>3. \A e : Append(<<>>, e) = <<e>>
  OBVIOUS
<1> QED  BY <1>2, <1>3 DEF Heard

LEMMA ExpectedFacts ==
  /\ cmd.what # "tx" => Expected(cmd) = Event(cmd.what, cmd.body)
  /\ cmd.what = "tx" /\ ~(Len(cmd.body) > MaxTotalPayload) => Expected(cmd) = Event(cmd.what, cmd.body)
  /\ cmd.what = "tx" /\ Len(cmd.body) > MaxTotalPayload => Expected(cmd) = Event("E02", <<>>)
BY DEF Expected

LEMMA AllSent ==
  ASSUME todo' = <<>>, cmd' = cmd, state' = "tag", skip' = 0, got' = <<Expected(cmd)>>
  PROVE  Done'
<1>1. Expected(cmd)' = Expected(cmd) /\ Len(todo)' = 0
  BY SameCommand
<1> QED  BY <1>1 DEF Done

(* The first byte of a command, at TAG.                                    *)
LEMMA FirstByte ==
  ASSUME LinkInv, NEW late \in BOOLEAN, Heard(late), State(late) = "tag", Skip(late) = 0,
         todo = Encode(cmd), got = <<>>
  PROVE  Waits' \/ Done'
<1>1. tagByte(Head(todo), late)
  BY AtTagByte DEF Heard
<1>2. cmd \in Commands /\ cmd.body \in Seq(Byte) /\ Len(cmd.body) \in Nat
  BY LinkTypes
<1>3. Head(todo) = Opens(cmd) /\ todo' = Follows(cmd) /\ cmd' = cmd
  <2>1. Opens(cmd) \in Byte /\ Follows(cmd) \in Seq(Byte) /\ todo = <<Opens(cmd)>> \o Follows(cmd)
    BY <1>2, EncodeFacts
  <2>2. Head(<<Opens(cmd)>> \o Follows(cmd)) = Opens(cmd) /\ Tail(<<Opens(cmd)>> \o Follows(cmd)) = Follows(cmd)
    BY <2>1, Cons
  <2> QED  BY <2>1, <2>2, Zenon DEF Heard
<1>4. /\ tag' = Opens(cmd) /\ skip' = 0
      /\ state' = IF Opens(cmd) = chT THEN "txMagic" ELSE IF Opens(cmd) = chW THEN "setWindow"
                  ELSE IF Opens(cmd) = chC THEN "lenLo" ELSE IF Opens(cmd) = chQ THEN "scanCount" ELSE "tag"
      /\ state' # "tag" => buf' = <<>>
      /\ ev' = IF Opens(cmd) = chS THEN Event("stats", <<>>)
               ELSE IF Opens(cmd) = chX THEN Event("reset", <<>>) ELSE NoEvent
  BY <1>1, <1>3 DEF tagByte, Takes
<1>5. CASE cmd.what \in {"stats", "reset"}
  <2>1. cmd.body = <<>>
    BY <1>2, <1>5, CommandFacts
  <2>2. todo' = <<>> /\ state' = "tag" /\ ev' = Event(cmd.what, cmd.body)
    BY <1>3, <1>4, <1>5, <2>1, Tags DEF Opens, Follows
  <2>3. got' = <<Event(cmd.what, cmd.body)>>
    BY <1>5, <2>2, GotEvent
  <2>4. got' = <<Expected(cmd)>>
    BY <1>5, <2>3, ExpectedFacts
  <2> QED  BY <1>3, <1>4, <2>2, <2>4, AllSent
<1>6. CASE cmd.what = "window"
  <2>1. todo' = cmd.body /\ state' = "setWindow" /\ ev' = NoEvent /\ buf' = <<>>
    BY <1>3, <1>4, <1>6, Tags DEF Opens, Follows
  <2>2. cmd.body # <<>> /\ <<>> \o cmd.body = cmd.body
    <3>1. Len(cmd.body) > 0
      BY <1>2, <1>6, CommandFacts, Widths
    <3> QED  BY <1>2, <3>1
  <2>3. InWindow'
    BY <1>3, <1>6, <2>1, <2>2, Zenon DEF InWindow
  <2> QED  BY <1>4, <2>1, <2>2, <2>3, GotNothing DEF Waits
<1>7. CASE cmd.what = "config"
  <2>1. todo' = Measured(cmd) /\ state' = "lenLo" /\ ev' = NoEvent /\ tag' = Opens(cmd)
    BY <1>3, <1>4, <1>7, Tags DEF Opens, Follows
  <2>2. Measured(cmd) # <<>>
    BY <1>2, <1>7, MeasuredFacts
  <2>3. InLenLo'
    BY <1>3, <1>7, <2>1, SameCommand DEF InLenLo
  <2> QED  BY <1>4, <2>1, <2>2, <2>3, GotNothing DEF Waits
<1>8. CASE cmd.what = "tx"
  <2>1. todo' = <<chX>> \o Measured(cmd) /\ state' = "txMagic" /\ ev' = NoEvent /\ tag' = chT
    BY <1>3, <1>4, <1>8, Tags DEF Opens, Follows
  <2>2. <<chX>> \o Measured(cmd) # <<>>
    <3>1. Measured(cmd) \in Seq(Byte)
      BY <1>2, <1>8, MeasuredFacts
    <3> QED  BY <3>1, Tags, Cons
  <2>3. InMagic'
    BY <1>3, <1>8, <2>1, SameCommand DEF InMagic
  <2> QED  BY <1>4, <2>1, <2>2, <2>3, GotNothing DEF Waits
<1>9. CASE cmd.what = "scanQ"
  <2>1. todo' = <<Count(cmd)>> \o cmd.body /\ state' = "scanCount" /\ ev' = NoEvent
    BY <1>3, <1>4, <1>9, Tags DEF Opens, Follows
  <2>2. <<Count(cmd)>> \o cmd.body # <<>>
    BY <1>2, <1>9, CountFacts, Cons
  <2>3. InScanCount'
    BY <1>3, <1>9, <2>1, SameCommand DEF InScanCount
  <2> QED  BY <1>4, <2>1, <2>2, <2>3, GotNothing DEF Waits
<1> QED  BY <1>2, <1>5, <1>6, <1>7, <1>8, <1>9, CommandFacts

(* One byte in the middle of a body: one more, or the last one.            *)
LEMMA WindowOn ==
  ASSUME LinkInv, NEW late, Heard(late), InTime(late), Waits, InWindow
  PROVE  Waits' \/ Done'
<1>1. setWindowByte(Head(todo), late)
  BY MidFrame DEF Heard, InTime, Waits, InWindow
<1>2. /\ todo \in Seq(Byte) /\ buf \in Seq(Byte) /\ todo # <<>> /\ got = <<>> /\ buf \o todo = cmd.body
      /\ todo' = Tail(todo) /\ cmd' = cmd /\ cmd.what = "window" /\ cmd \in Commands
  BY LinkTypes DEF Waits, InWindow, Heard
<1>3. WindowLen = Len(cmd.body)
  BY <1>2, CommandFacts
<1>4. /\ buf' = Append(buf, Head(todo)) /\ skip' = 0
      /\ Len(buf') = Len(cmd.body) => state' = "tag" /\ ev' = Event("window", buf')
      /\ Len(buf') # Len(cmd.body) => state' = "setWindow" /\ ev' = NoEvent
  BY <1>1, <1>2, <1>3 DEF setWindowByte, Takes
<1>5. /\ buf' \o todo' = cmd.body
      /\ Len(buf') = Len(cmd.body) => todo' = <<>> /\ buf' = cmd.body
      /\ Len(buf') # Len(cmd.body) => todo' # <<>>
  <2>1. /\ Append(buf, Head(todo)) \o Tail(todo) = buf \o todo
        /\ Len(Append(buf, Head(todo))) = Len(buf \o todo)
             => Tail(todo) = <<>> /\ Append(buf, Head(todo)) = buf \o todo
        /\ Len(Append(buf, Head(todo))) # Len(buf \o todo) => Tail(todo) # <<>>
    BY <1>2, Shift
  <2> QED  BY <1>2, <1>4, <2>1, Zenon
<1>6. CASE Len(buf') = Len(cmd.body)
  <2>1. got' = <<Event("window", cmd.body)>>
    BY <1>2, <1>4, <1>5, <1>6, GotEvent
  <2>2. Expected(cmd) = Event("window", cmd.body)
    BY <1>2, ExpectedFacts DEF InWindow
  <2> QED  BY <1>2, <1>4, <1>5, <1>6, <2>1, <2>2, AllSent
<1>7. CASE Len(buf') # Len(cmd.body)
  <2>1. got' = <<>>
    BY <1>2, <1>4, <1>7, GotNothing
  <2>2. InWindow'
    BY <1>2, <1>3, <1>4, <1>5, <1>7, SameCommand DEF InWindow
  <2> QED  BY <1>4, <1>5, <1>7, <2>1, <2>2 DEF Waits
<1> QED  BY <1>6, <1>7

LEMMA ConfigOn ==
  ASSUME LinkInv, NEW late, Heard(late), InTime(late), Waits, InConfig
  PROVE  Waits' \/ Done'
<1>1. configByte(Head(todo), late)
  BY MidFrame DEF Heard, InTime, Waits, InConfig
<1>2. /\ todo \in Seq(Byte) /\ buf \in Seq(Byte) /\ todo # <<>> /\ got = <<>> /\ buf \o todo = cmd.body
      /\ todo' = Tail(todo) /\ cmd' = cmd /\ cmd.what = "config" /\ frameLen = Len(cmd.body)
  BY LinkTypes DEF Waits, InConfig, Heard
<1>3. frameLen = Len(cmd.body)
  BY <1>2
<1>4. /\ buf' = Append(buf, Head(todo)) /\ skip' = 0 /\ frameLen' = frameLen
      /\ Len(buf') = Len(cmd.body) => state' = "tag" /\ ev' = Event("config", buf')
      /\ Len(buf') # Len(cmd.body) => state' = "config" /\ ev' = NoEvent
  BY <1>1, <1>2, <1>3 DEF configByte, Takes
<1>5. /\ buf' \o todo' = cmd.body
      /\ Len(buf') = Len(cmd.body) => todo' = <<>> /\ buf' = cmd.body
      /\ Len(buf') # Len(cmd.body) => todo' # <<>>
  <2>1. /\ Append(buf, Head(todo)) \o Tail(todo) = buf \o todo
        /\ Len(Append(buf, Head(todo))) = Len(buf \o todo)
             => Tail(todo) = <<>> /\ Append(buf, Head(todo)) = buf \o todo
        /\ Len(Append(buf, Head(todo))) # Len(buf \o todo) => Tail(todo) # <<>>
    BY <1>2, Shift
  <2> QED  BY <1>2, <1>4, <2>1, Zenon
<1>6. CASE Len(buf') = Len(cmd.body)
  <2>1. got' = <<Event("config", cmd.body)>>
    BY <1>2, <1>4, <1>5, <1>6, GotEvent
  <2>2. Expected(cmd) = Event("config", cmd.body)
    BY <1>2, ExpectedFacts DEF InConfig
  <2> QED  BY <1>2, <1>4, <1>5, <1>6, <2>1, <2>2, AllSent
<1>7. CASE Len(buf') # Len(cmd.body)
  <2>1. got' = <<>>
    BY <1>2, <1>4, <1>7, GotNothing
  <2>2. InConfig'
    BY <1>2, <1>3, <1>4, <1>5, <1>7, SameCommand DEF InConfig
  <2> QED  BY <1>4, <1>5, <1>7, <2>1, <2>2 DEF Waits
<1> QED  BY <1>6, <1>7

LEMMA PayloadOn ==
  ASSUME LinkInv, NEW late, Heard(late), InTime(late), Waits, InPayload
  PROVE  Waits' \/ Done'
<1>1. payloadByte(Head(todo), late)
  BY MidFrame DEF Heard, InTime, Waits, InPayload
<1>2. /\ todo \in Seq(Byte) /\ buf \in Seq(Byte) /\ todo # <<>> /\ got = <<>> /\ buf \o todo = cmd.body
      /\ todo' = Tail(todo) /\ cmd' = cmd /\ cmd.what = "tx" /\ frameLen = Len(cmd.body)
  BY LinkTypes DEF Waits, InPayload, Heard
<1>3. frameLen = Len(cmd.body)
  BY <1>2
<1>4. /\ buf' = Append(buf, Head(todo)) /\ skip' = 0 /\ frameLen' = frameLen
      /\ Len(buf') = Len(cmd.body) => state' = "tag" /\ ev' = Event("tx", buf')
      /\ Len(buf') # Len(cmd.body) => state' = "payload" /\ ev' = NoEvent
  BY <1>1, <1>2, <1>3 DEF payloadByte, Takes
<1>5. /\ buf' \o todo' = cmd.body
      /\ Len(buf') = Len(cmd.body) => todo' = <<>> /\ buf' = cmd.body
      /\ Len(buf') # Len(cmd.body) => todo' # <<>>
  <2>1. /\ Append(buf, Head(todo)) \o Tail(todo) = buf \o todo
        /\ Len(Append(buf, Head(todo))) = Len(buf \o todo)
             => Tail(todo) = <<>> /\ Append(buf, Head(todo)) = buf \o todo
        /\ Len(Append(buf, Head(todo))) # Len(buf \o todo) => Tail(todo) # <<>>
    BY <1>2, Shift
  <2> QED  BY <1>2, <1>4, <2>1, Zenon
<1>6. CASE Len(buf') = Len(cmd.body)
  <2>1. got' = <<Event("tx", cmd.body)>>
    BY <1>2, <1>4, <1>5, <1>6, GotEvent
  <2>2. Expected(cmd) = Event("tx", cmd.body)
    BY <1>2, ExpectedFacts, LinkTypes, Widths DEF InPayload
  <2> QED  BY <1>2, <1>4, <1>5, <1>6, <2>1, <2>2, AllSent
<1>7. CASE Len(buf') # Len(cmd.body)
  <2>1. got' = <<>>
    BY <1>2, <1>4, <1>7, GotNothing
  <2>2. InPayload'
    BY <1>2, <1>3, <1>4, <1>5, <1>7, SameCommand DEF InPayload
  <2> QED  BY <1>4, <1>5, <1>7, <2>1, <2>2 DEF Waits
<1> QED  BY <1>6, <1>7

LEMMA ScanOn ==
  ASSUME LinkInv, NEW late, Heard(late), InTime(late), Waits, InScanBody
  PROVE  Waits' \/ Done'
<1>1. scanBodyByte(Head(todo), late)
  BY MidFrame DEF Heard, InTime, Waits, InScanBody
<1>2. /\ todo \in Seq(Byte) /\ qbuf \in Seq(Byte) /\ todo # <<>> /\ got = <<>> /\ qbuf \o todo = cmd.body
      /\ todo' = Tail(todo) /\ cmd' = cmd /\ cmd.what = "scanQ" /\ cmd \in Commands
  BY LinkTypes DEF Waits, InScanBody, Heard
<1>3. ScanNeed = Len(cmd.body)
  BY <1>2, CountFacts DEF ScanNeed, InScanBody
<1>4. /\ qbuf' = Append(qbuf, Head(todo)) /\ skip' = 0 /\ scanCount' = scanCount
      /\ Len(qbuf') = Len(cmd.body) => state' = "tag" /\ ev' = Event("scanQ", qbuf')
      /\ Len(qbuf') # Len(cmd.body) => state' = "scanBody" /\ ev' = NoEvent
  BY <1>1, <1>2, <1>3 DEF scanBodyByte, Takes
<1>5. /\ qbuf' \o todo' = cmd.body
      /\ Len(qbuf') = Len(cmd.body) => todo' = <<>> /\ qbuf' = cmd.body
      /\ Len(qbuf') # Len(cmd.body) => todo' # <<>>
  <2>1. /\ Append(qbuf, Head(todo)) \o Tail(todo) = qbuf \o todo
        /\ Len(Append(qbuf, Head(todo))) = Len(qbuf \o todo)
             => Tail(todo) = <<>> /\ Append(qbuf, Head(todo)) = qbuf \o todo
        /\ Len(Append(qbuf, Head(todo))) # Len(qbuf \o todo) => Tail(todo) # <<>>
    BY <1>2, Shift
  <2> QED  BY <1>2, <1>4, <2>1, Zenon
<1>6. CASE Len(qbuf') = Len(cmd.body)
  <2>1. got' = <<Event("scanQ", cmd.body)>>
    BY <1>2, <1>4, <1>5, <1>6, GotEvent
  <2>2. Expected(cmd) = Event("scanQ", cmd.body)
    BY <1>2, ExpectedFacts DEF InScanBody
  <2> QED  BY <1>2, <1>4, <1>5, <1>6, <2>1, <2>2, AllSent
<1>7. CASE Len(qbuf') # Len(cmd.body)
  <2>1. got' = <<>>
    BY <1>2, <1>4, <1>7, GotNothing
  <2>2. InScanBody'
    BY <1>2, <1>3, <1>4, <1>5, <1>7, SameCommand DEF InScanBody
  <2> QED  BY <1>4, <1>5, <1>7, <2>1, <2>2 DEF Waits
<1> QED  BY <1>6, <1>7

(* One byte between tag and body.                                          *)
LEMMA MagicOn ==
  ASSUME LinkInv, NEW late, Heard(late), InTime(late), Waits, InMagic
  PROVE  Waits'
<1>1. txMagicByte(Head(todo), late)
  BY MidFrame DEF Heard, InTime, Waits, InMagic
<1>2. /\ cmd \in Commands /\ cmd.what = "tx" /\ todo = <<chX>> \o Measured(cmd) /\ got = <<>>
      /\ tag = chT /\ todo' = Tail(todo) /\ cmd' = cmd
  BY LinkTypes DEF Waits, InMagic, Heard
<1>3. Measured(cmd) \in Seq(Byte) /\ Measured(cmd) # <<>>
  BY <1>2, MeasuredFacts
<1>4. Head(todo) = chX /\ todo' = Measured(cmd)
  BY <1>2, <1>3, Tags, Cons
<1>5. state' = "lenLo" /\ tag' = chT /\ skip' = 0 /\ ev' = NoEvent
  BY <1>1, <1>2, <1>4 DEF txMagicByte, Takes
<1>6. got' = <<>>
  BY <1>2, <1>5, GotNothing
<1>7. Opens(cmd) = chT
  BY <1>2 DEF Opens
<1>8. InLenLo'
  BY <1>2, <1>4, <1>5, <1>7, SameCommand DEF InLenLo
<1> QED  BY <1>3, <1>4, <1>5, <1>6, <1>8 DEF Waits

LEMMA LenLoOn ==
  ASSUME LinkInv, NEW late, Heard(late), InTime(late), Waits, InLenLo
  PROVE  Waits'
<1>1. lenLoByte(Head(todo), late)
  BY MidFrame DEF Heard, InTime, Waits, InLenLo
<1>2. /\ cmd \in Commands /\ cmd.what \in {"config", "tx"} /\ todo = Measured(cmd) /\ got = <<>>
      /\ tag = Opens(cmd) /\ todo' = Tail(todo) /\ cmd' = cmd /\ cmd.body \in Seq(Byte)
  BY LinkTypes DEF Waits, InLenLo, Heard
<1>3. Low(cmd) \in Byte /\ High(cmd) \in Byte /\ todo = <<Low(cmd)>> \o (<<High(cmd)>> \o cmd.body)
  BY <1>2, MeasuredFacts
<1>4. <<High(cmd)>> \o cmd.body \in Seq(Byte) /\ <<High(cmd)>> \o cmd.body # <<>>
  BY <1>2, <1>3, Cons
<1>5. Head(todo) = Low(cmd) /\ todo' = <<High(cmd)>> \o cmd.body
  <2>1. /\ Head(<<Low(cmd)>> \o (<<High(cmd)>> \o cmd.body)) = Low(cmd)
        /\ Tail(<<Low(cmd)>> \o (<<High(cmd)>> \o cmd.body)) = <<High(cmd)>> \o cmd.body
    BY <1>3, <1>4, Cons
  <2> QED  BY <1>2, <1>3, <2>1, Zenon
<1>6. state' = "lenHi" /\ tag' = tag /\ skip' = 0 /\ ev' = NoEvent /\ frameLen' = Low(cmd)
  BY <1>1, <1>5 DEF lenLoByte, Takes
<1>7. got' = <<>>
  BY <1>2, <1>6, GotNothing
<1>8. InLenHi'
  BY <1>2, <1>5, <1>6, SameCommand DEF InLenHi
<1> QED  BY <1>4, <1>5, <1>6, <1>7, <1>8 DEF Waits

LEMMA LenHiOn ==
  ASSUME LinkInv, NEW late, Heard(late), InTime(late), Waits, InLenHi
  PROVE  Waits' \/ Done'
<1>1. lenHiByte(Head(todo), late)
  BY MidFrame DEF Heard, InTime, Waits, InLenHi
<1>2. /\ cmd \in Commands /\ cmd.what \in {"config", "tx"} /\ todo = <<High(cmd)>> \o cmd.body /\ got = <<>>
      /\ tag = Opens(cmd) /\ todo' = Tail(todo) /\ cmd' = cmd /\ frameLen = Low(cmd)
      /\ cmd.body \in Seq(Byte) /\ Len(cmd.body) \in Nat
  BY LinkTypes DEF Waits, InLenHi, Heard
<1>3. High(cmd) \in Byte /\ Low(cmd) + Base * High(cmd) = Len(cmd.body)
  BY <1>2, MeasuredFacts
<1>4. Head(todo) = High(cmd) /\ todo' = cmd.body
  BY <1>2, <1>3, Cons
<1>5. frameLen' = Len(cmd.body)
  BY <1>1, <1>2, <1>3, <1>4, Zenon DEF lenHiByte
<1>6. cmd.body # <<>> /\ <<>> \o cmd.body = cmd.body
  <2>1. Len(cmd.body) > 0
    BY <1>2, CommandFacts, Widths
  <2> QED  BY <1>2, <2>1
<1>7. CASE cmd.what = "config"
  <2>1. tag = chC /\ LengthOk(frameLen')
    BY <1>2, <1>5, <1>7, CommandFacts DEF Opens, LengthOk
  <2>2. state' = "config" /\ buf' = <<>> /\ skip' = 0 /\ ev' = NoEvent
    BY <1>1, <2>1 DEF lenHiByte
  <2>3. InConfig'
    BY <1>2, <1>4, <1>5, <1>6, <1>7, <2>2, Zenon DEF InConfig
  <2> QED  BY <1>2, <1>4, <1>6, <2>2, <2>3, GotNothing DEF Waits
<1>8. CASE cmd.what = "tx" /\ Len(cmd.body) <= MaxTotalPayload
  <2>1. tag # chC /\ LengthOk(frameLen')
    <3>1. tag = chT /\ chT # chC
      BY <1>2, <1>8, Tags DEF Opens
    <3>2. frameLen' \in 1..MaxTotalPayload
      BY <1>2, <1>5, <1>8, CommandFacts, Widths
    <3> QED  BY <3>1, <3>2 DEF LengthOk
  <2>2. state' = "payload" /\ buf' = <<>> /\ skip' = 0 /\ ev' = NoEvent
    BY <1>1, <2>1 DEF lenHiByte
  <2>3. InPayload'
    BY <1>2, <1>4, <1>5, <1>6, <1>8, <2>2, Zenon DEF InPayload
  <2> QED  BY <1>2, <1>4, <1>6, <2>2, <2>3, GotNothing DEF Waits
<1>9. CASE cmd.what = "tx" /\ Len(cmd.body) > MaxTotalPayload
  <2>1. tag # chC /\ ~LengthOk(frameLen')
    <3>1. tag = chT /\ chT # chC
      BY <1>2, <1>9, Tags DEF Opens
    <3>2. frameLen' \notin 1..MaxTotalPayload
      BY <1>2, <1>5, <1>9, Widths
    <3> QED  BY <3>1, <3>2 DEF LengthOk
  <2>2. state' = "tag" /\ skip' = frameLen' /\ ev' = Event("E02", <<>>)
    BY <1>1, <2>1 DEF lenHiByte, SkipRefused
  <2>3. got' = <<Event("E02", <<>>)>>
    BY <1>2, <2>2, GotEvent
  <2>4. got' = <<Expected(cmd)>>
    BY <1>9, <2>3, ExpectedFacts
  <2> QED  BY <1>2, <1>4, <1>5, <2>2, <2>4, SameCommand DEF Done
<1> QED  BY <1>2, <1>7, <1>8, <1>9, Widths

LEMMA ScanCountOn ==
  ASSUME LinkInv, NEW late, Heard(late), InTime(late), Waits, InScanCount
  PROVE  Waits'
<1>1. scanCountByte(Head(todo), late)
  BY MidFrame DEF Heard, InTime, Waits, InScanCount
<1>2. /\ cmd \in Commands /\ cmd.what = "scanQ" /\ todo = <<Count(cmd)>> \o cmd.body /\ got = <<>>
      /\ todo' = Tail(todo) /\ cmd' = cmd /\ cmd.body \in Seq(Byte) /\ Len(cmd.body) \in Nat
  BY LinkTypes DEF Waits, InScanCount, Heard
<1>3. Count(cmd) \in Byte /\ Count(cmd) \in 1..ScanMax /\ Word + Count(cmd) * Word = Len(cmd.body)
  BY <1>2, CountFacts
<1>4. Head(todo) = Count(cmd) /\ todo' = cmd.body
  BY <1>2, <1>3, Cons
<1>5. cmd.body # <<>> /\ <<>> \o cmd.body = cmd.body
  <2>1. Count(cmd) * Word \in Nat
    BY <1>3, Widths DEF Byte
  <2>2. Len(cmd.body) > 0
    BY <1>2, <1>3, <2>1, Widths
  <2> QED  BY <1>2, <2>2
<1>6. state' = "scanBody" /\ qbuf' = <<>> /\ scanCount' = Count(cmd) /\ skip' = 0 /\ ev' = NoEvent
  BY <1>1, <1>3, <1>4 DEF scanCountByte, Takes
<1>7. InScanBody'
  BY <1>2, <1>4, <1>5, <1>6, SameCommand, Zenon DEF InScanBody
<1> QED  BY <1>2, <1>4, <1>5, <1>6, <1>7, GotNothing DEF Waits

(* The rest of a TX frame that was too long is dropped.                    *)
LEMMA DoneOn ==
  ASSUME LinkInv, NEW late, Heard(late), InTime(late), Done, todo # <<>>
  PROVE  Done'
<1>1. todo \in Seq(Byte) /\ skip = Len(todo) /\ skip \in Nat /\ skip > 0 /\ todo' = Tail(todo)
      /\ Len(Tail(todo)) = Len(todo) - 1
  BY LinkTypes, HeadTailProperties DEF Done, Heard
<1>2. skipByte(Head(todo), late)
  BY <1>1, Skipping DEF Heard, InTime
<1>3. skip' = skip - 1 /\ state' = state /\ ev' = NoEvent
  BY <1>2 DEF skipByte, InTime
<1>4. got' = got /\ cmd' = cmd
  BY <1>3 DEF Heard
<1> QED  BY <1>1, <1>3, <1>4, SameCommand DEF Done

LEMMA LinkInit == LInit => LinkInv
<1> SUFFICES ASSUME LInit PROVE LinkInv
  OBVIOUS
<1>1. ParserInv
  BY ParserInit DEF LInit
<1>2. cmd \in Commands /\ cmd.what = "stats"
  BY DEF LInit, Commands
<1>3. todo = Encode(cmd) /\ todo \in Seq(Byte)
  <2>1. Encode(cmd) = <<chS>>
    BY <1>2 DEF Encode
  <2> QED  BY <2>1, Tags DEF LInit
<1> QED  BY <1>1, <1>2, <1>3 DEF LInit, Init, LinkInv

(* A byte of a command, when the two agree or come to agree.               *)
LEMMA ByteInStep ==
  ASSUME LinkInv, NEW late \in BOOLEAN, Heard(late), todo # <<>>,
         fresh => clean \/ late, ~fresh => clean /\ ~late
  PROVE  Waits' \/ Done'
<1>1. CASE fresh
  <2>1. todo = Encode(cmd) /\ got = <<>>
    BY <1>1 DEF LinkInv
  <2>2. clean => state = "tag" /\ skip = 0
    BY <1>1 DEF LinkInv
  <2>3. skip \in Nat
    BY LinkTypes
  <2>4. State(late) = "tag" /\ Skip(late) = 0
    BY <1>1, <2>2, <2>3 DEF State, Skip, Stale
  <2> QED  BY <2>1, <2>4, FirstByte
<1>2. CASE ~fresh
  <2>1. Waits \/ Done
    BY <1>2 DEF LinkInv
  <2>2. InTime(late)
    BY <1>2 DEF InTime, State, Skip, Buf, Stale
  <2>3. CASE Done
    BY <2>2, <2>3, DoneOn
  <2>4. CASE Waits
    <3>1. InWindow \/ InMagic \/ InLenLo \/ InLenHi \/ InConfig \/ InPayload \/ InScanCount \/ InScanBody
      BY <2>4 DEF Waits
    <3> QED  BY <2>2, <2>4, <3>1, WindowOn, MagicOn, LenLoOn, LenHiOn, ConfigOn, PayloadOn,
                ScanCountOn, ScanOn
  <2> QED  BY <2>1, <2>3, <2>4
<1> QED  BY <1>1, <1>2

LEMMA LinkStep ==
  ASSUME ~Stalls
  PROVE  LinkInv /\ [LNext]_lvars => LinkInv'
<1> SUFFICES ASSUME LinkInv, [LNext]_lvars PROVE LinkInv'
  OBVIOUS
<1>0. ParserInv /\ cmd \in Commands /\ todo \in Seq(Byte) /\ fresh \in BOOLEAN /\ clean \in BOOLEAN
  BY DEF LinkInv
<1>1. CASE BeginCommand
  <2>1. PICK c \in Commands : cmd' = c /\ todo' = Encode(c)
    BY <1>1 DEF BeginCommand
  <2>2. Encode(c) \in Seq(Byte)
    BY EncodeFacts, Cons
  <2>3. /\ UNCHANGED vars /\ fresh' = TRUE /\ got' = <<>> /\ clean' = (clean /\ todo = <<>>)
    BY <1>1 DEF BeginCommand
  <2>4. ParserInv' /\ state' = state /\ skip' = skip
    <3>1. [Next]_vars
      BY <2>3
    <3> QED  BY <1>0, <2>3, <3>1, ParserStep DEF vars
  <2>5. Encode(cmd)' = Encode(c)
    BY <2>1, Zenon DEF Encode, LE16
  <2>6. clean' => state = "tag" /\ skip = 0
    <3> SUFFICES ASSUME clean, todo = <<>> PROVE state = "tag" /\ skip = 0
      BY <2>3
    <3>1. ~fresh
      <4>1. Encode(cmd) # <<>>
        <5>1. /\ Opens(cmd) \in Byte /\ Follows(cmd) \in Seq(Byte)
              /\ Encode(cmd) = <<Opens(cmd)>> \o Follows(cmd)
          BY <1>0, EncodeFacts
        <5>2. <<Opens(cmd)>> \o Follows(cmd) # <<>>
          BY <5>1, Cons
        <5> QED  BY <5>1, <5>2, Zenon
      <4> QED  BY <4>1 DEF LinkInv
    <3>2. Done
      BY <3>1 DEF LinkInv, Waits
    <3> QED  BY <3>2 DEF Done
  <2>7. clean' \in BOOLEAN
    BY <2>3
  <2> QED  BY <2>1, <2>2, <2>3, <2>4, <2>5, <2>6, <2>7, Zenon DEF LinkInv
<1>2. CASE SendByte
  <2>1. PICK pause \in BOOLEAN, late \in BOOLEAN :
          /\ late = pause /\ handleByte(Head(todo), late)
          /\ clean' = IF fresh THEN clean \/ pause ELSE clean /\ ~pause
    BY <1>2 DEF SendByte
  <2>2. todo # <<>> /\ todo' = Tail(todo) /\ fresh' = FALSE /\ Heard(late) /\ cmd' = cmd
    BY <1>2, <2>1 DEF SendByte, Heard
  <2>3. Head(todo) \in Byte /\ todo' \in Seq(Byte)
    BY <1>0, <2>2, HeadTailProperties
  <2>4. ParserInv'
    <3>1. Next
      BY <2>1, <2>3, Zenon DEF Next
    <3> QED  BY <1>0, <3>1, ParserStep
  <2>5. clean' => (fresh => clean \/ late) /\ (~fresh => clean /\ ~late)
    BY <1>0, <2>1, Zenon
  <2>6. clean' => Waits' \/ Done'
    BY <2>2, <2>5, ByteInStep
  <2>7. clean' \in BOOLEAN
    BY <1>0, <2>1, Zenon
  <2> QED  BY <1>0, <2>2, <2>3, <2>4, <2>6, <2>7, Zenon DEF LinkInv
<1>3. CASE Reconnect
  <2>1. /\ accept /\ cmd' = [what |-> "stats", body |-> <<>>] /\ todo' = <<chS>>
        /\ fresh' = TRUE /\ clean' = TRUE /\ got' = <<>>
    BY <1>3 DEF Reconnect
  <2>2. ParserInv'
    BY <1>0, <2>1, ParserStep DEF Next
  <2>3. cmd' \in Commands /\ cmd'.what = "stats" /\ <<chS>> \in Seq(Byte)
    BY <2>1, Tags DEF Commands
  <2>4. Encode(cmd)' = <<chS>>
    BY <2>3 DEF Encode
  <2>5. state' = "tag" /\ skip' = 0
    BY <2>1 DEF accept
  <2> QED  BY <2>1, <2>2, <2>3, <2>4, <2>5, Zenon DEF LinkInv
<1>4. CASE UNCHANGED lvars
  <2>1. /\ UNCHANGED <<cmd, todo, fresh, clean, got>> /\ UNCHANGED vars
    BY <1>4 DEF lvars
  <2>2. ParserInv'
    BY <1>0, <2>1, ParserStep
  <2>3. Encode(cmd)' = Encode(cmd)
    BY <2>1, Zenon DEF Encode, LE16
  <2>4. state' = state /\ skip' = skip /\ (Waits => Waits') /\ (Done => Done')
    BY <2>1, SameCommand DEF vars, Waits, Done, InWindow, InMagic, InLenLo, InLenHi, InConfig, InPayload,
       InScanCount, InScanBody
  <2> QED  BY <2>1, <2>2, <2>3, <2>4, Zenon DEF LinkInv
<1> QED  BY <1>1, <1>2, <1>3, <1>4 DEF LNext

LEMMA LinkInvariant ==
  ASSUME ~Stalls
  PROVE  LSpec => []LinkInv
BY LinkInit, LinkStep, PTL DEF LSpec

(* Framed for every wire format and every host that keeps to the format:   *)
(* when reads see pauses as they were (the worker does not hold up the     *)
(* superloop), a command sent without a pause after a whole one, or after  *)
(* 100 ms of silence, makes pollOnce do exactly what it asks, once, and    *)
(* leaves it at TAG, whatever was cut short before.                        *)
THEOREM HostIsUnderstood ==
  ASSUME ~Stalls
  PROVE  LSpec => []Framed
<1>1. LinkInv => Framed
  BY DEF LinkInv, Framed, Waits, Done
<1> QED  BY <1>1, LinkInvariant, PTL

(* NothingElse likewise: while both agree, pollOnce does nothing before    *)
(* the command is complete, and nothing else than what it asks.            *)
THEOREM NothingElseIsDone ==
  ASSUME ~Stalls
  PROVE  LSpec => []NothingElse
<1>1. LinkInv => NothingElse
  BY DEF LinkInv, NothingElse, Waits, Done
<1> QED  BY <1>1, LinkInvariant, PTL

LEMMA KilledStep ==
  ASSUME ~Stalls
  PROVE  LinkInv /\ KilledOnlyWhenLate /\ [LNext]_lvars => KilledOnlyWhenLate'
<1> SUFFICES ASSUME LinkInv, KilledOnlyWhenLate, [LNext]_lvars PROVE KilledOnlyWhenLate'
  OBVIOUS
<1>0. cmd \in Commands /\ todo \in Seq(Byte) /\ fresh \in BOOLEAN /\ clean \in BOOLEAN
  BY DEF LinkInv
<1>1. CASE BeginCommand
  <2>1. PICK c \in Commands : cmd' = c /\ todo' = Encode(c)
    BY <1>1 DEF BeginCommand
  <2>2. Encode(c) \in Seq(Byte)
    BY EncodeFacts, Cons
  <2>3. Encode(cmd)' = todo'
    BY <2>1, Zenon DEF Encode, LE16
  <2>4. ~(Len(Encode(c)) + 1 < Len(Encode(c)))
    BY <2>2
  <2> QED  BY <2>1, <2>3, <2>4 DEF KilledOnlyWhenLate
<1>2. CASE SendByte
  <2>1. PICK pause \in BOOLEAN, late \in BOOLEAN :
          /\ late = pause /\ handleByte(Head(todo), late)
          /\ clean' = IF fresh THEN clean \/ pause ELSE clean /\ ~pause
    BY <1>2 DEF SendByte
  <2>2. todo # <<>> /\ todo' = Tail(todo) /\ cmd' = cmd
    BY <1>2 DEF SendByte
  <2>3. Encode(cmd)' = Encode(cmd)
    BY <2>2, Zenon DEF Encode, LE16
  <2>4. CASE fresh
    <3>1. Encode(cmd) = todo
      BY <2>4 DEF LinkInv
    <3>2. Len(todo') + 1 = Len(todo)
      BY <1>0, <2>2, HeadTailProperties
    <3>3. ~(Len(todo') + 1 < Len(Encode(cmd)'))
      BY <1>0, <2>3, <3>1, <3>2
    <3> QED  BY <3>3 DEF KilledOnlyWhenLate
  <2>5. CASE ~fresh
    <3>1. killed' = Kills(late)
      BY <2>1 DEF handleByte, skipByte, tagByte, txMagicByte, setWindowByte, lenLoByte, lenHiByte,
         configByte, payloadByte, scanCountByte, scanBodyByte, Takes
    <3>2. clean' => ~late
      BY <2>1, <2>5, Zenon
    <3>3. ~late => ~Kills(late)
      BY DEF Kills, Stale
    <3> QED  BY <3>1, <3>2, <3>3, Zenon DEF KilledOnlyWhenLate
  <2> QED  BY <1>0, <2>4, <2>5
<1>3. CASE Reconnect
  BY <1>3 DEF Reconnect, accept, KilledOnlyWhenLate
<1>4. CASE UNCHANGED lvars
  <2>1. UNCHANGED <<cmd, todo, clean, killed>>
    BY <1>4 DEF lvars, vars
  <2>2. Encode(cmd)' = Encode(cmd)
    BY <2>1, Zenon DEF Encode, LE16
  <2> QED  BY <2>1, <2>2 DEF KilledOnlyWhenLate
<1> QED  BY <1>1, <1>2, <1>3, <1>4 DEF LNext

(* What docs/protocol.md says of the idle resync holds as long as the      *)
(* superloop is not held up: a command sent without a pause is not killed  *)
(* at any byte after its first.  (With stalls it does not: run v_stall.)   *)
THEOREM KilledOnlyByPauses ==
  ASSUME ~Stalls
  PROVE  LSpec => []KilledOnlyWhenLate
<1>1. LInit => KilledOnlyWhenLate
  BY DEF LInit, Init, KilledOnlyWhenLate
<1> QED  BY <1>1, KilledStep, LinkInvariant, PTL DEF LSpec
=============================================================================
