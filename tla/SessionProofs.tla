--------------------------- MODULE SessionProofs ---------------------------
(***************************************************************************)
(* Theorems about the TCP sessions, for any number of clients, commands    *)
(* and packets, and sockets of any size: no frame is made of the bytes of  *)
(* two clients, each client reads a greeting and then whole frames, and no *)
(* more frames are taken and answered than were sent.                      *)
(***************************************************************************)
EXTENDS Session, SequenceTheorems, FiniteSetTheorems, TLAPS

----------------------------------------------------------------------------
(* Sequences of whole frames.                                              *)

(* Every first unit is followed by its second one, and a second unit other *)
(* than the bare G has a first one before it.                              *)
Partner(u, v) ==
  u.part = 1 /\ v.part = 2 /\ u.kind # "RESET" /\ v.kind = u.kind /\ v.id = u.id

Aligned(s) ==
  \A i \in 1..Len(s) :
    /\ s[i].part = 1 => i < Len(s) /\ Partner(s[i], s[i + 1])
    /\ s[i].part = 2 /\ s[i].kind # "RESET" => i > 1 /\ s[i - 1].part = 1

FrameKind == {"READY", "STATS", "DIAG", "ERROR", "RX", "TERMINAL"}

Whole == {s \in Seq(Unit) : Aligned(s)}

LEMMA EmptyIsWhole == <<>> \in Whole
BY DEF Whole, Aligned

LEMMA UnitFields == \A u \in Unit : u.part \in {1, 2} /\ u.id \in Nat
BY DEF Unit

LEMMA FrameFacts ==
  ASSUME NEW k \in FrameKind, NEW n \in Nat
  PROVE  /\ Frame(k, n) \in Seq(Unit) /\ Len(Frame(k, n)) = 2
         /\ Frame(k, n)[1] = [kind |-> k, id |-> n, part |-> 1]
         /\ Frame(k, n)[2] = [kind |-> k, id |-> n, part |-> 2]
<1>1. [kind |-> k, id |-> n, part |-> 1] \in Unit /\ [kind |-> k, id |-> n, part |-> 2] \in Unit
  BY DEF Unit, FrameKind
<1> QED  BY <1>1 DEF Frame

LEMMA FrameIsWhole ==
  ASSUME NEW k \in FrameKind, NEW n \in Nat
  PROVE  Frame(k, n) \in Whole
<1> DEFINE f == Frame(k, n)
<1>1. f \in Seq(Unit) /\ Len(f) = 2 /\ f[1] = [kind |-> k, id |-> n, part |-> 1]
      /\ f[2] = [kind |-> k, id |-> n, part |-> 2]
  BY FrameFacts
<1> HIDE DEF f
<1>2. /\ f[1].part = 1 /\ f[2].part = 2 /\ f[1].kind = k /\ f[2].kind = k /\ f[1].id = n
      /\ f[2].id = n /\ k # "RESET"
  BY <1>1 DEF FrameKind
<1>3. Aligned(f)
  BY <1>1, <1>2 DEF Aligned, Partner
<1> QED  BY <1>1, <1>3 DEF Whole, f

LEMMA BareGIsWhole == BareG \in Whole
<1>1. [kind |-> "RESET", id |-> 0, part |-> 2] \in Unit
  BY DEF Unit
<1>2. BareG \in Seq(Unit) /\ Len(BareG) = 1 /\ BareG[1] = [kind |-> "RESET", id |-> 0, part |-> 2]
  BY <1>1 DEF BareG
<1> HIDE DEF BareG
<1>3. BareG[1].part = 2 /\ BareG[1].kind = "RESET"
  BY <1>2
<1>4. \A i \in 1..Len(BareG) : i = 1
  BY <1>2
<1>5. Aligned(BareG)
  BY <1>3, <1>4 DEF Aligned
<1> QED  BY <1>2, <1>5 DEF Whole

LEMMA ConcatIsWhole ==
  ASSUME NEW s \in Whole, NEW t \in Whole
  PROVE  s \o t \in Whole
<1> DEFINE st == s \o t
<1>1. s \in Seq(Unit) /\ t \in Seq(Unit) /\ Aligned(s) /\ Aligned(t)
  BY DEF Whole
<1>2. st \in Seq(Unit) /\ Len(st) = Len(s) + Len(t) /\ Len(s) \in Nat /\ Len(t) \in Nat
      /\ (\A i \in 1..Len(s) : st[i] = s[i])
      /\ (\A i \in 1..Len(t) : st[i + Len(s)] = t[i])
  BY <1>1
<1> HIDE DEF st
<1>3. ASSUME NEW i \in 1..Len(st)
      PROVE  /\ st[i].part = 1 => i < Len(st) /\ Partner(st[i], st[i + 1])
             /\ st[i].part = 2 /\ st[i].kind # "RESET" => i > 1 /\ st[i - 1].part = 1
  <2>1. CASE i <= Len(s)
    <3>1. i \in 1..Len(s) /\ st[i] = s[i]
      BY <1>2, <2>1
    <3>2. s[i].part = 1 => i < Len(s) /\ Partner(s[i], s[i + 1])
      BY <1>1, <3>1 DEF Aligned
    <3>3. i < Len(s) => st[i + 1] = s[i + 1]
      BY <1>2, <3>1
    <3>4. s[i].part = 2 /\ s[i].kind # "RESET" => i > 1 /\ s[i - 1].part = 1
      BY <1>1, <3>1 DEF Aligned
    <3>5. i > 1 => st[i - 1] = s[i - 1]
      BY <1>2, <3>1
    <3> QED  BY <1>2, <3>1, <3>2, <3>3, <3>4, <3>5
  <2>2. CASE i > Len(s)
    <3> DEFINE j == i - Len(s)
    <3>1. j \in 1..Len(t) /\ j + Len(s) = i /\ j \in Int
      BY <1>2, <2>2
    <3> HIDE DEF j
    <3>2. st[i] = t[j]
      BY <1>2, <3>1
    <3>3. t[j].part = 1 => j < Len(t) /\ Partner(t[j], t[j + 1])
      BY <1>1, <3>1 DEF Aligned
    <3>4. j < Len(t) => st[i + 1] = t[j + 1] /\ i < Len(st)
      <4>1. j < Len(t) => i < Len(st)
        BY <1>2, <3>1
      <4>2. PICK k \in Int : k = j + 1
        BY <3>1
      <4>a. Len(s) \in Nat /\ Len(t) \in Nat
        BY <1>2
      <4>3. j < Len(t) => k \in 1..Len(t) /\ k + Len(s) = i + 1
        BY <3>1, <4>2, <4>a
      <4>4. k \in 1..Len(t) => st[k + Len(s)] = t[k]
        BY <1>2
      <4>5. j < Len(t) => st[i + 1] = t[k]
        BY <4>3, <4>4
      <4> QED  BY <4>1, <4>2, <4>5
    <3>5. t[j].part = 2 /\ t[j].kind # "RESET" => j > 1 /\ t[j - 1].part = 1
      BY <1>1, <3>1 DEF Aligned
    <3>6. j > 1 => st[i - 1] = t[j - 1] /\ i > 1
      <4>1. j > 1 => j - 1 \in 1..Len(t) /\ (j - 1) + Len(s) = i - 1
        BY <1>2, <3>1
      <4> QED  BY <1>2, <3>1, <4>1, SMTT(30)
    <3> QED  BY <3>2, <3>3, <3>4, <3>5, <3>6
  <2> QED  BY <1>2, <2>1, <2>2
<1> QED  BY <1>2, <1>3 DEF Whole, Aligned, st

(* The first unit of whole frames, and what is left behind it.             *)
LEMMA FirstUnit ==
  ASSUME NEW s \in Whole, s # <<>>
  PROVE  /\ Head(s) \in Unit
         /\ Head(s).part = 2 => Head(s).kind = "RESET" /\ Tail(s) \in Whole
         /\ Head(s).part = 1 => /\ Tail(s) # <<>> /\ Tail(s) \in Seq(Unit)
                                /\ Partner(Head(s), Head(Tail(s))) /\ Tail(Tail(s)) \in Whole
<1>1. s \in Seq(Unit) /\ Aligned(s) /\ Len(s) \in Nat /\ Len(s) > 0
  BY DEF Whole
<1> DEFINE t == Tail(s)
           w == Tail(t)
<1>2. Head(s) = s[1] /\ s[1] \in Unit /\ t \in Seq(Unit) /\ Len(t) = Len(s) - 1
      /\ \A i \in 1..Len(t) : t[i] = s[i + 1]
  BY <1>1, HeadTailProperties
<1> HIDE DEF t
<1>3. CASE s[1].part = 2
  <2>1. s[1].kind = "RESET"
    BY <1>1, <1>3 DEF Aligned
  <2>2. ASSUME NEW i \in 1..Len(t)
        PROVE  /\ t[i].part = 1 => i < Len(t) /\ Partner(t[i], t[i + 1])
               /\ t[i].part = 2 /\ t[i].kind # "RESET" => i > 1 /\ t[i - 1].part = 1
    <3>1. i + 1 \in 1..Len(s) /\ t[i] = s[i + 1]
      BY <1>1, <1>2
    <3>2. t[i].part = 1 => i + 1 < Len(s) /\ Partner(t[i], s[i + 2])
      BY <1>1, <3>1 DEF Aligned
    <3>3. i + 1 < Len(s) => i + 1 \in 1..Len(t) /\ t[i + 1] = s[i + 2]
      BY <1>1, <1>2
    <3>4. t[i].part = 2 /\ t[i].kind # "RESET" => s[i].part = 1
      BY <1>1, <3>1 DEF Aligned
    <3>5. s[i].part = 1 => i > 1
      BY <1>3
    <3>6. i > 1 => t[i - 1] = s[i]
      BY <1>1, <1>2
    <3>7. i + 1 < Len(s) => i < Len(t)
      BY <1>1, <1>2
    <3> QED  BY <3>2, <3>3, <3>4, <3>5, <3>6, <3>7, Zenon
  <2>3. t \in Whole
    BY <1>2, <2>2 DEF Whole, Aligned
  <2> QED  BY <1>2, <1>3, <2>1, <2>3 DEF t
<1>4. CASE s[1].part = 1
  <2>1. 1 < Len(s) /\ Partner(s[1], s[2])
    BY <1>1, <1>4 DEF Aligned
  <2>2. t # <<>> /\ Head(t) = s[2] /\ w \in Seq(Unit) /\ Len(w) = Len(s) - 2
        /\ \A i \in 1..Len(w) : w[i] = s[i + 2]
    <3>1. t # <<>>
      BY <1>1, <1>2, <2>1
    <3>2. Head(t) = t[1] /\ w \in Seq(Unit) /\ Len(w) = Len(t) - 1
          /\ \A i \in 1..Len(w) : w[i] = t[i + 1]
      BY <1>2, <3>1, HeadTailProperties
    <3> HIDE DEF w
    <3> QED  BY <1>1, <1>2, <2>1, <3>1, <3>2
  <2> HIDE DEF w
  <2>3. ASSUME NEW i \in 1..Len(w)
        PROVE  /\ w[i].part = 1 => i < Len(w) /\ Partner(w[i], w[i + 1])
               /\ w[i].part = 2 /\ w[i].kind # "RESET" => i > 1 /\ w[i - 1].part = 1
    <3>1. i + 2 \in 1..Len(s) /\ w[i] = s[i + 2]
      BY <1>1, <2>2
    <3>2. w[i].part = 1 => i + 2 < Len(s) /\ Partner(w[i], s[i + 3])
      BY <1>1, <3>1 DEF Aligned
    <3>3. i + 2 < Len(s) => i + 1 \in 1..Len(w) /\ w[i + 1] = s[i + 3]
      BY <1>1, <2>2
    <3>4. w[i].part = 2 /\ w[i].kind # "RESET" => s[i + 1].part = 1
      BY <1>1, <3>1 DEF Aligned
    <3>5. s[i + 1].part = 1 => i > 1
      BY <2>1 DEF Partner
    <3>6. i > 1 => w[i - 1] = s[i + 1]
      BY <1>1, <2>2
    <3>7. i + 2 < Len(s) => i < Len(w)
      BY <1>1, <2>2
    <3> QED  BY <3>2, <3>3, <3>4, <3>5, <3>6, <3>7, Zenon
  <2>4. w \in Whole
    BY <2>2, <2>3 DEF Whole, Aligned
  <2> QED  BY <1>2, <1>4, <2>1, <2>2, <2>4 DEF t, w
<1> QED  BY <1>2, <1>3, <1>4, UnitFields

----------------------------------------------------------------------------
(* The greeting, and what is left of it unit by unit.                      *)

Greet4 == writeReady \o writeStats
Greet3 == Tail(Greet4)
Greet2 == writeStats
Greet1 == Tail(Greet2)

LEMMA TwoAndTwo ==
  ASSUME NEW S, NEW a \in S, NEW b \in S, NEW c \in S, NEW d \in S
  PROVE  <<a, b>> \o <<c, d>> = <<a, b, c, d>>
<1> DEFINE s == <<a, b>> \o <<c, d>>
           t == <<a, b, c, d>>
<1>1. s \in Seq(S) /\ Len(s) = 4 /\ s[1] = a /\ s[2] = b /\ s[3] = c /\ s[4] = d
  OBVIOUS
<1>2. t \in Seq(S) /\ Len(t) = 4 /\ t[1] = a /\ t[2] = b /\ t[3] = c /\ t[4] = d
  OBVIOUS
<1> HIDE DEF s, t
<1>3. \A i \in 1..4 : i = 1 \/ i = 2 \/ i = 3 \/ i = 4
  OBVIOUS
<1>4. \A i \in 1..Len(s) : s[i] = t[i]
  BY <1>1, <1>2, <1>3, Zenon
<1>5. s = t
  BY <1>1, <1>2, <1>4, SeqEqual
<1> QED  BY <1>5 DEF s, t

LEMMA GreetFacts ==
  /\ Greet4 \in Whole /\ Greet4 # <<>> /\ Head(Greet4).kind = "READY" /\ Head(Greet4).part = 1
  /\ Greet3 # <<>> /\ Head(Greet3).kind = "READY" /\ Head(Greet3).part = 2 /\ Tail(Greet3) = Greet2
  /\ Greet2 \in Whole /\ Greet2 # <<>> /\ Head(Greet2).kind = "STATS" /\ Head(Greet2).part = 1
  /\ Greet1 # <<>> /\ Head(Greet1).kind = "STATS" /\ Head(Greet1).part = 2
<1> DEFINE R(i) == [kind |-> "READY", id |-> 0, part |-> i]
           S(i) == [kind |-> "STATS", id |-> 0, part |-> i]
<1>a. R(1) \in Unit /\ R(2) \in Unit /\ S(1) \in Unit /\ S(2) \in Unit
  BY DEF Unit
<1>b. /\ R(1).kind = "READY" /\ R(2).kind = "READY" /\ S(1).kind = "STATS" /\ S(2).kind = "STATS"
      /\ R(1).part = 1 /\ R(2).part = 2 /\ S(1).part = 1 /\ S(2).part = 2
  OBVIOUS
<1>1. /\ R(1) \in Unit /\ R(2) \in Unit /\ S(1) \in Unit /\ S(2) \in Unit
      /\ R(1).kind = "READY" /\ R(2).kind = "READY" /\ S(1).kind = "STATS" /\ S(2).kind = "STATS"
      /\ R(1).part = 1 /\ R(2).part = 2 /\ S(1).part = 1 /\ S(2).part = 2
  BY <1>a, <1>b, Zenon
<1>2. writeReady = <<R(1), R(2)>> /\ writeStats = <<S(1), S(2)>>
  BY DEF writeReady, writeStats, Frame
<1> HIDE DEF R, S
<1>3. Greet4 = <<R(1), R(2), S(1), S(2)>> /\ Greet2 = <<S(1), S(2)>>
  BY <1>1, <1>2, TwoAndTwo DEF Greet4, Greet2
<1>4. Greet3 = <<R(2), S(1), S(2)>> /\ Greet1 = <<S(2)>>
  BY <1>1, <1>3 DEF Greet3, Greet1
<1>5. writeReady \in Whole /\ writeStats \in Whole
  BY FrameIsWhole DEF writeReady, writeStats, FrameKind
<1>6. Greet4 \in Whole /\ Greet2 \in Whole
  BY <1>5, ConcatIsWhole DEF Greet4, Greet2
<1>7. Tail(Greet3) = Greet2
  BY <1>1, <1>3, <1>4
<1>8. Head(Greet4) = R(1) /\ Head(Greet3) = R(2) /\ Head(Greet2) = S(1) /\ Head(Greet1) = S(2)
  BY <1>3, <1>4
<1>9. Greet4 # <<>> /\ Greet3 # <<>> /\ Greet2 # <<>> /\ Greet1 # <<>>
  BY <1>3, <1>4
<1> QED  BY <1>1, <1>6, <1>7, <1>8, <1>9

----------------------------------------------------------------------------
(* The inductive invariant.                                                *)

(* Connections are served in the order of the clients; the descriptor is   *)
(* that of the latest one, or none.                                        *)
Served ==
  /\ peer \in [Clients -> {"away", "open", "closed"}]
  /\ \A c, d \in Clients : d < c /\ peer[c] # "away" => peer[d] # "away"
  /\ served \in Nat /\ fd \in {0, served}
  /\ served # 0 => served \in Clients /\ peer[served] # "away"

(* The superloop reads only with a descriptor and accepts only without.    *)
Position ==
  /\ pc \in {"accept", "read", "write", "worker"} /\ back \in {"accept", "read", "worker"}
  /\ pc = "read" \/ (pc = "write" /\ back = "read") => fd # 0
  /\ pc = "accept" \/ (pc = "write" /\ back = "accept") => fd = 0
  /\ (pc = "write") <=> (todo # <<>>)

Own == {e \in [id : Nat, from : Nat, to : Nat] : e.from = e.to}

(* A TX command in progress is that of the latest client.                  *)
Origin == half \in {0, served} /\ txq \in Seq(Own) /\ taken \in Nat /\ rxs \in Nat

(* What is still to be written completes what an open connection was sent. *)
Continues ==
  \/ begun = <<>> /\ todo \in Whole
  \/ \E u \in Unit : /\ begun = <<u>> /\ todo # <<>> /\ todo \in Seq(Unit)
                      /\ Partner(u, Head(todo)) /\ Tail(todo) \in Whole

Greeting ==
  /\ nth \in 1..3
  /\ nth = 1 => todo = IF begun = <<>> THEN Greet4 ELSE Greet3
  /\ nth = 2 => todo = IF begun = <<>> THEN Greet2 ELSE Greet1

Stream ==
  /\ clean = TRUE
  /\ fd = 0 => nth = 1 /\ begun = <<>>
  /\ fd \in Open => Continues /\ Greeting

Pieces == {"T1", "T2", "S", "X"}

Incoming == inbox \in [Clients -> Seq(Pieces)]

SessionInv == Incoming /\ Served /\ Position /\ Origin /\ Stream

LEMMA SessionInit == Init => SessionInv
<1> SUFFICES ASSUME Init PROVE SessionInv
  OBVIOUS
<1>1. Served
  BY DEF Init, Served
<1>2. Position
  BY DEF Init, Position
<1>3. Origin
  BY DEF Init, Origin
<1>4. Stream
  BY DEF Init, Stream, Open, Clients
<1>5. Incoming
  BY DEF Init, Incoming
<1> QED  BY <1>1, <1>2, <1>3, <1>4, <1>5 DEF SessionInv

(* An open connection with nothing left to write is between frames, and    *)
(* greeted.                                                                *)
LEMMA Settled ==
  ASSUME SessionInv, pc # "write", fd \in Open
  PROVE  begun = <<>> /\ nth = 3
<1>1. todo = <<>>
  BY DEF SessionInv, Position
<1>2. Continues /\ Greeting
  BY DEF SessionInv, Stream
<1> QED  BY <1>1, <1>2, GreetFacts DEF Continues, Greeting

(* Steps that hand whole frames to the writer.                             *)
LEMMA ThenKeeps ==
  ASSUME SessionInv, pc # "write", NEW units \in Whole, NEW next \in {"accept", "read", "worker"},
         Then(units, next), UNCHANGED <<fd, peer, streamVars>>,
         next = "read" => fd # 0, next = "accept" => fd = 0
  PROVE  Position' /\ Stream'
<1>1. Position'
  BY DEF Then, Position
<1>2. Stream'
  <2>1. todo' = units /\ clean' = clean /\ fd' = fd /\ nth' = nth /\ begun' = begun /\ peer' = peer
    BY DEF Then, streamVars
  <2>2. clean = TRUE /\ (fd = 0 => nth = 1 /\ begun = <<>>)
    BY DEF SessionInv, Stream
  <2>3. Open' = Open
    BY <2>1 DEF Open
  <2>4. fd \in Open => Continues' /\ Greeting'
    BY <2>1, Settled DEF Continues, Greeting
  <2> QED  BY <2>1, <2>2, <2>3, <2>4 DEF Stream
<1> QED  BY <1>1, <1>2

(* A unit is what the frame it belongs to has in its place.                *)
LEMMA UnitOfFrame ==
  ASSUME NEW u \in Unit
  PROVE  /\ u.part = 1 => u = Frame(u.kind, u.id)[1]
         /\ u.part = 2 => u = Frame(u.kind, u.id)[2]
<1>1. u = [kind |-> u.kind, id |-> u.id, part |-> u.part]
  BY DEF Unit
<1>2. /\ Frame(u.kind, u.id)[1] = [kind |-> u.kind, id |-> u.id, part |-> 1]
      /\ Frame(u.kind, u.id)[2] = [kind |-> u.kind, id |-> u.id, part |-> 2]
  BY DEF Frame
<1> QED  BY <1>1, <1>2

LEMMA WriteUnitKeeps ==
  ASSUME SessionInv, writeUnit
  PROVE  Position' /\ Stream'
<1> DEFINE u == Head(todo)
<1>0. /\ pc = "write" /\ fd \in Open /\ Received(u) /\ Then(Tail(todo), back)
      /\ UNCHANGED <<fd, peer>>
  BY DEF writeUnit, clientVars
<1>1. todo # <<>> /\ back \in {"accept", "read", "worker"} /\ (back = "read" => fd # 0)
      /\ (back = "accept" => fd = 0)
  BY <1>0 DEF SessionInv, Position
<1>2. Position'
  BY <1>0, <1>1 DEF Then, Position
<1>3. clean = TRUE /\ Continues /\ Greeting
  BY <1>0 DEF SessionInv, Stream
<1>4. /\ todo' = Tail(todo) /\ clean' = (clean /\ Fits(u)) /\ fd' = fd /\ Open' = Open
      /\ begun' = (IF u.part = 2 THEN <<>> ELSE <<u>>)
      /\ nth' = IF u.part = 2 /\ nth < 3 THEN nth + 1 ELSE nth
  BY <1>0 DEF Then, Received, Open
<1>5. fd # 0
  BY <1>0 DEF Open, Clients
<1>6. SUFFICES Fits(u) /\ Continues' /\ Greeting'
  BY <1>2, <1>3, <1>4, <1>5 DEF Stream
<1>7. CASE begun = <<>> /\ todo \in Whole
  <2>1. u \in Unit /\ Len(begun) = 0
    BY <1>1, <1>7, FirstUnit
  <2>2. CASE u.part = 2
    <3>1. u.kind = "RESET" /\ Tail(todo) \in Whole
      BY <1>1, <1>7, <2>2, FirstUnit
    <3>2. nth = 3
      BY <1>3, <1>7, <3>1, GreetFacts DEF Greeting
    <3>3. Fits(u)
      BY <1>7, <3>1, <3>2 DEF Fits
    <3>4. begun' = <<>> /\ nth' = 3 /\ todo' \in Whole
      BY <1>4, <2>2, <3>1, <3>2
    <3> QED  BY <3>3, <3>4 DEF Continues, Greeting
  <2>3. CASE u.part = 1
    <3>1. /\ Tail(todo) # <<>> /\ Tail(todo) \in Seq(Unit)
          /\ Partner(u, Head(Tail(todo))) /\ Tail(Tail(todo)) \in Whole
      BY <1>1, <1>7, <2>3, FirstUnit
    <3>2. (nth = 1 => u.kind = "READY") /\ (nth = 2 => u.kind = "STATS") /\ u.kind # "RESET"
      BY <1>3, <1>7, <3>1, GreetFacts DEF Greeting, Partner
    <3>3. u = Frame(u.kind, u.id)[1]
      BY <2>1, <2>3, UnitOfFrame
    <3>4. Fits(u)
      <4>1. u = Frame(u.kind, u.id)[Len(begun) + 1]
        BY <2>1, <3>3
      <4> HIDE DEF u
      <4> QED  BY <1>7, <3>2, <4>1 DEF Fits
    <3>5. begun' = <<u>> /\ begun' # <<>> /\ nth' = nth
      BY <1>4, <2>3
    <3>6. Continues'
      BY <1>4, <2>1, <3>1, <3>5 DEF Continues
    <3>7. Greeting'
      BY <1>3, <1>4, <1>7, <3>5 DEF Greeting, Greet3, Greet1
    <3> QED  BY <3>4, <3>6, <3>7
  <2> QED  BY <2>1, <2>2, <2>3, UnitFields
<1>8. CASE \E b \in Unit : /\ begun = <<b>> /\ todo # <<>> /\ todo \in Seq(Unit)
                          /\ Partner(b, u) /\ Tail(todo) \in Whole
  <2>1. PICK b \in Unit : /\ begun = <<b>> /\ todo # <<>> /\ todo \in Seq(Unit)
                         /\ Partner(b, u) /\ Tail(todo) \in Whole
    BY <1>8
  <2>2. u \in Unit /\ u.part = 2 /\ u.kind # "RESET" /\ u.kind = b.kind /\ u.id = b.id
    BY <2>1 DEF Partner
  <2>3. begun # <<>> /\ begun[1] = b /\ Len(begun) = 1
    BY <2>1
  <2>4. (nth = 1 => u.kind = "READY") /\ (nth = 2 => u.kind = "STATS")
    BY <1>3, <2>3, GreetFacts DEF Greeting
  <2>5. u = Frame(u.kind, u.id)[2]
    BY <2>2, UnitOfFrame
  <2>6. Fits(u)
    <3>1. u = Frame(u.kind, u.id)[Len(begun) + 1]
      BY <2>3, <2>5
    <3> HIDE DEF u
    <3> QED  BY <2>2, <2>3, <2>4, <3>1 DEF Fits
  <2>7. begun' = <<>> /\ todo' = Tail(todo) /\ nth' = IF nth < 3 THEN nth + 1 ELSE nth
    BY <1>4, <2>2
  <2>8. Continues'
    BY <2>1, <2>7 DEF Continues
  <2>9. Greeting'
    BY <1>3, <2>3, <2>7, GreetFacts DEF Greeting
  <2> QED  BY <2>6, <2>8, <2>9
<1> QED  BY <1>3, <1>7, <1>8 DEF Continues

(* Steps of the clients.                                                   *)
LEMMA ClientKeeps ==
  ASSUME SessionInv, NEW c \in Clients, Client(c)
  PROVE  SessionInv'
<1>1. UNCHANGED <<pc, back, todo, fd, served, half, txq, taken, rxs, begun, nth, clean>>
  BY DEF Client, clientConnects, clientSends, clientReads, clientCloses, sockVars, streamVars, parserVars
<1>2. \/ peer' = peer
      \/ peer[c] = "open" /\ peer' = [peer EXCEPT ![c] = "closed"]
      \/ peer[c] = "away" /\ (c > 1 => peer[c - 1] = "closed") /\ peer' = [peer EXCEPT ![c] = "open"]
  BY DEF Client, clientConnects, clientSends, clientReads, clientCloses, clientVars
<1>3. Served
  BY DEF SessionInv
<1>4. Served'
  <2>1. peer' \in [Clients -> {"away", "open", "closed"}]
    BY <1>2, <1>3 DEF Served
  <2>2. \A d \in Clients : peer[d] # "away" => peer'[d] # "away"
    BY <1>2, <1>3 DEF Served
  <2>3. ASSUME NEW d \in Clients, NEW e \in Clients, e < d, peer'[d] # "away"
        PROVE  peer'[e] # "away"
    <3>1. CASE peer[d] # "away"
      BY <1>3, <2>2, <2>3, <3>1 DEF Served
    <3>2. CASE peer[d] = "away"
      <4>1. d = c /\ (c > 1 => peer[c - 1] = "closed")
        BY <1>2, <1>3, <2>3, <3>2 DEF Served
      <4>2. c \in Int /\ e \in Int /\ c > 1 /\ c - 1 \in Clients /\ e <= c - 1
        BY <2>3, <4>1, SessionAssumption DEF Clients
      <4>3. peer[c - 1] # "away"
        BY <4>1, <4>2
      <4>4. e = c - 1 \/ e < c - 1
        BY <4>2
      <4>5. peer[e] # "away"
        BY <1>3, <4>2, <4>3, <4>4 DEF Served
      <4> QED  BY <2>2, <4>5
    <3> QED  BY <3>1, <3>2
  <2> QED  BY <1>1, <1>3, <2>1, <2>2, <2>3 DEF Served
<1>5. fd \in Open' => fd \in Open
  <2>1. fd # 0 => peer[fd] # "away"
    BY <1>3 DEF Served
  <2>2. \A d \in Clients : d # 0
    BY DEF Clients
  <2> QED  BY <1>2, <1>3, <2>1, <2>2 DEF Open, Served
<1>6. Position' /\ Origin'
  BY <1>1 DEF SessionInv, Position, Origin
<1>7. Stream'
  BY <1>1, <1>5 DEF SessionInv, Stream, Continues, Greeting
<1>8. Incoming'
  <2>1. \/ inbox' = inbox \/ inbox' = [inbox EXCEPT ![c] = <<>>]
        \/ \E p \in Pieces : inbox' = [inbox EXCEPT ![c] = Append(@, p)]
    BY DEF Client, clientConnects, clientSends, clientReads, clientCloses, clientVars, Sends, Pieces
  <2>2. inbox \in [Clients -> Seq(Pieces)]
    BY DEF SessionInv, Incoming
  <2> HIDE DEF Pieces
  <2>3. inbox[c] \in Seq(Pieces) /\ \A p \in Pieces : Append(inbox[c], p) \in Seq(Pieces)
    BY <2>2
  <2>4. <<>> \in Seq(Pieces)
    OBVIOUS
  <2>5. PICK s \in Seq(Pieces) : inbox' = [inbox EXCEPT ![c] = s]
    BY <2>1, <2>2, <2>3, <2>4
  <2> QED  BY <2>2, <2>5 DEF Incoming
<1> QED  BY <1>4, <1>6, <1>7, <1>8 DEF SessionInv

LEMMA AnswersAreWhole ==
  /\ writeReady \in Whole /\ writeStats \in Whole /\ MaybeStats \in Whole
  /\ \A n \in Nat : writeDiag(n) \in Whole /\ writeError(n) \in Whole
  /\ \A n \in Nat : Frame("RX", n) \in Whole /\ Frame("TERMINAL", n) \in Whole
<1>1. \A k \in FrameKind, n \in Nat : Frame(k, n) \in Whole
  BY FrameIsWhole
<1>2. "READY" \in FrameKind /\ "STATS" \in FrameKind /\ "DIAG" \in FrameKind
      /\ "ERROR" \in FrameKind /\ "RX" \in FrameKind /\ "TERMINAL" \in FrameKind
  BY DEF FrameKind
<1> HIDE DEF FrameKind, Frame
<1> QED  BY <1>1, <1>2, EmptyIsWhole DEF writeReady, writeStats, MaybeStats, writeDiag, writeError

(* Reading a piece of a command: the parser's client is the one connected. *)
LEMMA ReadPieceKeeps ==
  ASSUME SessionInv, readPiece
  PROVE  SessionInv'
<1>1. /\ pc = "read" /\ UNCHANGED <<peer, streamVars, fd, served, rxs>>
      /\ inbox[fd] # <<>> /\ inbox' = [inbox EXCEPT ![fd] = Tail(@)]
  BY DEF readPiece, sockVars
<1>2. fd # 0 /\ fd = served /\ served \in Nat /\ fd \in Clients /\ half \in {0, fd}
      /\ txq \in Seq(Own) /\ taken \in Nat /\ rxs \in Nat
  BY <1>1 DEF SessionInv, Position, Served, Origin
<1> DEFINE p == Head(inbox[fd])
<1>3. p \in Pieces /\ Tail(inbox[fd]) \in Seq(Pieces) /\ inbox \in [Clients -> Seq(Pieces)]
  <2>1. inbox[fd] \in Seq(Pieces) /\ inbox \in [Clients -> Seq(Pieces)]
    BY <1>2 DEF SessionInv, Incoming
  <2> QED  BY <1>1, <2>1, HeadTailProperties
<1>4. PICK stale \in BOOLEAN : Complete(stale) \/ AtTag(p, stale)
  BY DEF readPiece
<1> HIDE DEF p
<1>5. Incoming'
  BY <1>1, <1>3 DEF Incoming
<1>6. Served'
  BY <1>1 DEF SessionInv, Served
<1>7. PICK units \in Whole : Then(units, "read")
  <2>1. CASE Complete(stale)
    <3>1. writeDiag(47) \o MaybeStats \in Whole /\ writeError(4) \o MaybeStats \in Whole
      BY AnswersAreWhole, ConcatIsWhole
    <3> QED  BY <2>1, <3>1 DEF Complete
  <2>2. CASE AtTag(p, stale)
    <3>1. BareG \o MaybeStats \in Whole /\ writeStats \in Whole /\ MaybeStats \in Whole
      BY AnswersAreWhole, BareGIsWhole, ConcatIsWhole
    <3>2. Then(CASE p = "S" -> writeStats [] p = "X" -> BareG \o MaybeStats
                 [] p \in {"T1", "T2"} -> MaybeStats, "read")
      BY <2>2 DEF AtTag
    <3>3. Then(writeStats, "read") \/ Then(BareG \o MaybeStats, "read") \/ Then(MaybeStats, "read")
      BY <1>3, <3>2 DEF Pieces
    <3> QED  BY <3>1, <3>3
  <2> QED  BY <1>4, <2>1, <2>2
<1>8. Position' /\ Stream'
  BY <1>1, <1>2, <1>7, ThenKeeps
<1>9. Origin'
  <2>1. half' \in {0, fd} /\ rxs' \in Nat
    BY <1>1, <1>2, <1>4 DEF Complete, AtTag
  <2>2. \/ txq' = txq /\ taken' = taken
        \/ half # 0 /\ txq' = Append(txq, [id |-> taken + 1, from |-> half, to |-> fd]) /\ taken' = taken + 1
    BY <1>4 DEF Complete, AtTag
  <2>3. half # 0 => [id |-> taken + 1, from |-> half, to |-> fd] \in Own
    BY <1>2 DEF Own
  <2>4. txq' \in Seq(Own) /\ taken' \in Nat
    BY <1>2, <2>2, <2>3
  <2> QED  BY <1>1, <1>2, <2>1, <2>4 DEF Origin
<1> QED  BY <1>5, <1>6, <1>8, <1>9 DEF SessionInv

(* The other steps of the superloop.                                       *)
LEMMA ServiceKeeps ==
  ASSUME SessionInv, Service
  PROVE  SessionInv'
<1>0. Incoming /\ Served /\ Position /\ Origin /\ Stream
  BY DEF SessionInv
<1>1. CASE accept
  <2>1. /\ pc = "accept" /\ Calling # {} /\ fd' = served + 1 /\ served' = served + 1 /\ half' = 0
        /\ Then(Greet4, "read")
        /\ UNCHANGED <<peer, inbox, begun, nth, clean, txq, taken, rxs>>
    BY <1>1 DEF accept, clientVars, sockVars, streamVars, Greet4
  <2>2. fd = 0 /\ begun = <<>> /\ nth = 1 /\ clean = TRUE
    BY <1>0, <2>1 DEF Position, Stream
  <2>3. PICK c \in Clients : c > served /\ peer[c] # "away"
    BY <2>1 DEF Calling
  <2>4. served + 1 \in Clients /\ peer[served + 1] # "away" /\ served + 1 # 0 /\ served + 1 \in Nat
    <3>1. served \in Nat /\ c \in Int /\ (served + 1 < c \/ served + 1 = c) /\ served + 1 \in Clients
      BY <1>0, <2>3, SessionAssumption DEF Served, Clients
    <3> QED  BY <1>0, <2>3, <3>1 DEF Served
  <2>5. Served'
    BY <1>0, <2>1, <2>4 DEF Served
  <2>6. Position'
    BY <2>1, <2>4, GreetFacts DEF Then, Position
  <2>7. Origin' /\ Incoming'
    BY <1>0, <2>1, <2>4 DEF Origin, Incoming
  <2>8. todo' = Greet4 /\ begun' = <<>> /\ nth' = 1 /\ clean' = TRUE /\ fd' # 0
    BY <2>1, <2>2, <2>4 DEF Then
  <2>9. Continues' /\ Greeting'
    BY <2>8, GreetFacts DEF Continues, Greeting
  <2> QED  BY <2>5, <2>6, <2>7, <2>8, <2>9 DEF SessionInv, Stream
<1>2. CASE acceptFails \/ readNothing \/ workerIdle \/ workerRx \/ workerScan \/ workerTerminal
  <2>1. /\ UNCHANGED <<peer, inbox, fd, served, half, taken, streamVars>> /\ pc # "write"
        /\ rxs' \in {rxs, rxs + 1} /\ (txq' = txq \/ (txq # <<>> /\ txq' = Tail(txq)))
    BY <1>2 DEF acceptFails, readNothing, workerIdle, workerRx, workerScan, workerTerminal,
                clientVars, sockVars, parserVars
  <2>2. Served' /\ Incoming'
    BY <1>0, <2>1 DEF Served, Incoming
  <2>3. Origin'
    BY <1>0, <2>1 DEF Origin
  <2>4. Round \in {"accept", "read", "worker"} /\ (Round = "read" => fd # 0) /\ (Round = "accept" => fd = 0)
    BY DEF Round
  <2>5. \E units \in Whole, next \in {"accept", "read", "worker"} :
          /\ Then(units, next) /\ (next = "read" => fd # 0) /\ (next = "accept" => fd = 0)
    <3>1. CASE acceptFails \/ readNothing
      BY <3>1, AnswersAreWhole, EmptyIsWhole DEF acceptFails, readNothing
    <3>2. CASE workerIdle
      BY <2>4, <3>2, EmptyIsWhole DEF workerIdle
    <3>3. CASE workerRx
      BY <1>0, <2>4, <3>3, AnswersAreWhole DEF workerRx, Origin
    <3>4. CASE workerScan
      <4>1. writeDiag(50) \o writeDiag(51) \o writeDiag(52) \o writeDiag(53) \in Whole
        BY AnswersAreWhole, ConcatIsWhole
      <4> QED  BY <2>4, <3>4, <4>1 DEF workerScan
    <3>5. CASE workerTerminal
      <4>1. Head(txq).id \in Nat
        BY <1>0, <3>5 DEF Origin, Own, workerTerminal
      <4> QED  BY <2>4, <3>5, <4>1, AnswersAreWhole DEF workerTerminal
    <3> QED  BY <1>2, <3>1, <3>2, <3>3, <3>4, <3>5
  <2>6. Position' /\ Stream'
    BY <2>1, <2>5, ThenKeeps
  <2> QED  BY <2>2, <2>3, <2>6 DEF SessionInv
<1>3. CASE readClosed
  <2>1. /\ pc = "read" /\ fd' = 0 /\ begun' = <<>> /\ nth' = 1 /\ Then(<<>>, "worker")
        /\ UNCHANGED <<peer, inbox, clean, served, half, txq, taken, rxs>>
    BY <1>3 DEF readClosed, clientVars, parserVars
  <2>2. 0 \notin Open'
    BY DEF Open, Clients
  <2>3. Position'
    BY <1>0, <2>1 DEF Position, Then
  <2>4. Served' /\ Incoming' /\ Origin'
    BY <1>0, <2>1 DEF Served, Incoming, Origin
  <2>5. Stream'
    BY <1>0, <2>1, <2>2 DEF Stream
  <2> QED  BY <2>3, <2>4, <2>5 DEF SessionInv
<1>4. CASE readPiece
  BY <1>4, ReadPieceKeeps
<1>5. CASE writeUnit
  <2>1. UNCHANGED <<peer, inbox, fd, served, half, txq, taken, rxs>>
    BY <1>5 DEF writeUnit, clientVars, parserVars
  <2>2. Served' /\ Incoming' /\ Origin'
    BY <1>0, <2>1 DEF Served, Incoming, Origin
  <2> QED  BY <1>5, <2>2, WriteUnitKeeps DEF SessionInv
<1>6. CASE writeFails
  <2>1. /\ pc = "write" /\ fd \notin Open /\ Then(<<>>, back)
        /\ UNCHANGED <<peer, inbox, fd, served, half, txq, taken, rxs, begun, nth, clean>>
    BY <1>6 DEF writeFails, clientVars, parserVars, sockVars, streamVars
  <2>2. Served' /\ Incoming' /\ Origin'
    BY <1>0, <2>1 DEF Served, Incoming, Origin
  <2>3. Position'
    BY <1>0, <2>1 DEF Position, Then
  <2>4. fd' \notin Open'
    BY <2>1 DEF Open
  <2>5. Stream'
    BY <1>0, <2>1, <2>4 DEF Stream
  <2> QED  BY <2>2, <2>3, <2>5 DEF SessionInv
<1> QED  BY <1>1, <1>2, <1>3, <1>4, <1>5, <1>6 DEF Service

LEMMA SessionStep == SessionInv /\ [Next]_vars => SessionInv'
<1> SUFFICES ASSUME SessionInv, [Next]_vars PROVE SessionInv'
  OBVIOUS
<1>1. CASE TenSeconds \/ UNCHANGED vars
  <2>1. UNCHANGED <<peer, inbox, pc, back, todo, fd, served, half, txq, taken, rxs, begun, nth, clean>>
    BY <1>1 DEF TenSeconds, vars, clientVars, parserVars, sockVars, streamVars
  <2>2. Open' = Open
    BY <2>1 DEF Open
  <2>3. Incoming' /\ Served' /\ Position' /\ Origin'
    BY <2>1 DEF SessionInv, Incoming, Served, Position, Origin
  <2>4. Stream'
    BY <2>1, <2>2 DEF SessionInv, Stream, Continues, Greeting
  <2> QED  BY <2>3, <2>4 DEF SessionInv
<1> QED  BY <1>1, ClientKeeps, ServiceKeeps DEF Next

LEMMA SessionInvariant == Spec => []SessionInv
BY SessionInit, SessionStep, PTL DEF Spec

(* No frame in the worker's queue was put together from the bytes of two   *)
(* clients, for any number of reconnects within the 100 ms of the resync:  *)
(* the parser is reset at every accept.                                    *)
THEOREM NoMixedFrames == Spec => []OneClient
<1>1. SessionInv => OneClient
  <2> SUFFICES ASSUME SessionInv, NEW i \in 1..Len(txq) PROVE txq[i].from = txq[i].to
    BY DEF OneClient
  <2>1. txq[i] \in Own
    BY DEF SessionInv, Origin
  <2> QED  BY <2>1 DEF Own
<1> QED  BY <1>1, SessionInvariant, PTL

(* Every connection carries READY, the statistics, and then whole frames,  *)
(* for a socket of any size: a send that stops in the middle of a frame is *)
(* either continued or the end of its connection.                          *)
THEOREM StreamsAreClean == Spec => []CleanStream
<1>1. SessionInv => CleanStream
  BY DEF SessionInv, Stream, CleanStream
<1> QED  BY <1>1, SessionInvariant, PTL

----------------------------------------------------------------------------
(* Types.  What has to be shown is that no terminal names a frame the      *)
(* clients did not send: every frame taken was begun by a T1 of its own.   *)

(* The beginnings of TX commands the service has not read yet.             *)
Waiting ==
  {x \in Clients \X (Nat \ {0}) : x[2] <= Len(inbox[x[1]]) /\ inbox[x[1]][x[2]] = "T1"}

InHand == IF half = 0 THEN 0 ELSE 1

Backed ==
  /\ sentTx \in 0..MaxTx /\ IsFiniteSet(Waiting)
  /\ taken + InHand + Cardinality(Waiting) <= sentTx

LEMMA WaitingSend ==
  ASSUME Incoming, NEW c \in Clients, NEW p \in Pieces, Sends(c, p), IsFiniteSet(Waiting)
  PROVE  /\ IsFiniteSet(Waiting')
         /\ Cardinality(Waiting') <= Cardinality(Waiting) + (IF p = "T1" THEN 1 ELSE 0)
<1> DEFINE s == inbox[c]
           x == <<c, Len(s) + 1>>
<1>1. s \in Seq(Pieces) /\ inbox \in [Clients -> Seq(Pieces)] /\ Len(s) \in Nat
  BY DEF Incoming
<1>2. \A d \in Clients : inbox'[d] = IF d = c THEN Append(s, p) ELSE inbox[d]
  BY <1>1 DEF Sends
<1>3. Len(Append(s, p)) = Len(s) + 1 /\ Append(s, p)[Len(s) + 1] = p
      /\ \A i \in 1..Len(s) : Append(s, p)[i] = s[i]
  BY <1>1, AppendProperties
<1>4. ASSUME NEW y \in Waiting' PROVE y \in Waiting \/ (y = x /\ p = "T1")
  <2>1. PICK d \in Clients, i \in Nat \ {0} : y = <<d, i>>
    BY <1>4 DEF Waiting
  <2>2. i <= Len(inbox'[d]) /\ inbox'[d][i] = "T1"
    BY <1>4, <2>1 DEF Waiting
  <2>3. CASE d # c
    BY <1>2, <2>1, <2>2, <2>3 DEF Waiting
  <2>4. CASE d = c /\ i <= Len(s)
    <3>1. i \in 1..Len(s)
      BY <1>1, <2>4
    <3>2. s[i] = "T1"
      BY <1>2, <1>3, <2>2, <2>4, <3>1
    <3> QED  BY <2>1, <2>4, <3>2 DEF Waiting
  <2>5. CASE d = c /\ ~(i <= Len(s))
    <3>1. inbox'[d] = Append(s, p)
      BY <1>2, <2>5
    <3>2. i = Len(s) + 1
      BY <1>1, <1>3, <2>2, <2>5, <3>1
    <3> QED  BY <1>3, <2>1, <2>2, <2>5, <3>1, <3>2
  <2> QED  BY <2>3, <2>4, <2>5
<1> HIDE DEF x, s
<1>5. CASE p = "T1"
  <2>0. Cardinality(Waiting) \in Nat
    BY FS_CardinalityType
  <2>1. IsFiniteSet(Waiting \cup {x}) /\ Cardinality(Waiting \cup {x}) <= Cardinality(Waiting) + 1
    <3>1. /\ IsFiniteSet(Waiting \cup {x})
          /\ Cardinality(Waiting \cup {x}) = IF x \in Waiting THEN Cardinality(Waiting) ELSE Cardinality(Waiting) + 1
      BY FS_AddElement
    <3> QED  BY <2>0, <3>1
  <2>2. Waiting' \in SUBSET (Waiting \cup {x})
    BY <1>4
  <2>3. IsFiniteSet(Waiting') /\ Cardinality(Waiting') <= Cardinality(Waiting \cup {x})
    BY <2>1, <2>2, FS_Subset
  <2> QED  BY <1>5, <2>1, <2>3, FS_CardinalityType
<1>6. CASE p # "T1"
  <2>1. Waiting' \in SUBSET Waiting
    BY <1>4, <1>6
  <2>2. IsFiniteSet(Waiting') /\ Cardinality(Waiting') <= Cardinality(Waiting)
    BY <2>1, FS_Subset
  <2> QED  BY <1>6, <2>2, FS_CardinalityType
<1> QED  BY <1>5, <1>6

(* Reading the first piece of a connection moves the others up.            *)
LEMMA WaitingRead ==
  ASSUME Incoming, NEW c \in Clients, inbox[c] # <<>>, inbox' = [inbox EXCEPT ![c] = Tail(@)],
         IsFiniteSet(Waiting)
  PROVE  /\ IsFiniteSet(Waiting')
         /\ Cardinality(Waiting') + (IF Head(inbox[c]) = "T1" THEN 1 ELSE 0) <= Cardinality(Waiting)
<1> DEFINE s == inbox[c]
           x == <<c, 1>>
           W == Waiting \ {x}
           up == [y \in Waiting' |-> IF y[1] = c THEN <<c, y[2] + 1>> ELSE y]
<1>1. s \in Seq(Pieces) /\ inbox \in [Clients -> Seq(Pieces)] /\ Len(s) \in Nat /\ s # <<>> /\ 1 <= Len(s)
  BY DEF Incoming
<1>2. \A d \in Clients : inbox'[d] = IF d = c THEN Tail(s) ELSE inbox[d]
  BY <1>1
<1>3. Head(s) = s[1] /\ Len(Tail(s)) = Len(s) - 1 /\ \A i \in 1..Len(Tail(s)) : Tail(s)[i] = s[i + 1]
  BY <1>1, HeadTailProperties
<1>4. ASSUME NEW y \in Waiting'
      PROVE  \E d \in Clients, i \in Nat \ {0} :
               y = <<d, i>> /\ <<d, IF d = c THEN i + 1 ELSE i>> \in W
  <2>1. PICK d \in Clients, i \in Nat \ {0} : y = <<d, i>>
    BY <1>4 DEF Waiting
  <2>2. i <= Len(inbox'[d]) /\ inbox'[d][i] = "T1"
    BY <1>4, <2>1 DEF Waiting
  <2>3. CASE d # c
    <3>1. <<d, i>> \in Waiting /\ <<d, i>> # x
      BY <1>2, <2>2, <2>3 DEF Waiting
    <3> QED  BY <2>1, <2>3, <3>1
  <2>4. CASE d = c
    <3>1. i \in 1..Len(Tail(s)) /\ Tail(s)[i] = "T1"
      <4>1. i <= Len(Tail(s)) /\ Tail(s)[i] = "T1"
        BY <1>2, <2>2, <2>4
      <4> QED  BY <1>1, <1>3, <4>1
    <3>2. s[i + 1] = "T1" /\ i + 1 <= Len(s) /\ i + 1 \in Nat \ {0} /\ i + 1 # 1
      BY <1>1, <1>3, <3>1
    <3>3. <<c, i + 1>> \in Waiting /\ <<c, i + 1>> # x
      BY <3>2 DEF Waiting
    <3> QED  BY <2>1, <2>4, <3>3
  <2> QED  BY <2>3, <2>4
<1> HIDE DEF s, x, W
<1>5. up \in Injection(Waiting', W)
  <2>1. ASSUME NEW y \in Waiting' PROVE up[y] \in W
    <3>1. PICK d \in Clients, i \in Nat \ {0} : y = <<d, i>> /\ <<d, IF d = c THEN i + 1 ELSE i>> \in W
      BY <1>4
    <3> QED  BY <3>1
  <2>2. ASSUME NEW y \in Waiting', NEW z \in Waiting', up[y] = up[z] PROVE y = z
    <3>1. PICK d \in Clients, i \in Nat \ {0} : y = <<d, i>>
      BY <1>4
    <3>2. PICK e \in Clients, j \in Nat \ {0} : z = <<e, j>>
      BY <1>4
    <3>3. /\ up[y] = <<d, IF d = c THEN i + 1 ELSE i>>
          /\ up[z] = <<e, IF e = c THEN j + 1 ELSE j>>
      <4>1. y[1] = d /\ y[2] = i /\ z[1] = e /\ z[2] = j
        BY <3>1, <3>2
      <4>2. /\ up[y] = IF y[1] = c THEN <<c, y[2] + 1>> ELSE y
            /\ up[z] = IF z[1] = c THEN <<c, z[2] + 1>> ELSE z
        OBVIOUS
      <4> HIDE DEF up
      <4> QED  BY <3>1, <3>2, <4>1, <4>2
    <3> HIDE DEF up
    <3>4. d = e /\ (IF d = c THEN i + 1 ELSE i) = (IF e = c THEN j + 1 ELSE j)
      <4>1. PICK m : m = IF d = c THEN i + 1 ELSE i
        OBVIOUS
      <4>2. PICK n : n = IF e = c THEN j + 1 ELSE j
        OBVIOUS
      <4>3. up[y] = <<d, m>> /\ up[z] = <<e, n>>
        BY <3>3, <4>1, <4>2, Zenon
      <4>4. <<d, m>> = <<e, n>>
        BY <2>2, <4>3, Zenon
      <4>5. d = e /\ m = n
        BY <4>4
      <4> QED  BY <4>1, <4>2, <4>5, Zenon
    <3>5. i = j
      BY <3>4
    <3> QED  BY <3>1, <3>2, <3>4, <3>5
  <2>3. up \in [Waiting' -> W] /\ DOMAIN up = Waiting'
    BY <2>1
  <2> HIDE DEF up
  <2> QED  BY <2>2, <2>3 DEF Injection, IsInjective
<1> HIDE DEF up
<1>6. /\ IsFiniteSet(W)
      /\ Cardinality(W) = IF x \in Waiting THEN Cardinality(Waiting) - 1 ELSE Cardinality(Waiting)
  BY FS_RemoveElement DEF W
<1>7. IsFiniteSet(Waiting') /\ Cardinality(Waiting') <= Cardinality(W)
  BY <1>5, <1>6, FS_Injection
<1>8. Head(s) = "T1" => x \in Waiting
  BY <1>1, <1>3 DEF Waiting, x, s
<1>9. Cardinality(Waiting) \in Nat /\ Cardinality(Waiting') \in Nat /\ Cardinality(W) \in Nat
  BY <1>6, <1>7, FS_CardinalityType
<1> QED  BY <1>6, <1>7, <1>8, <1>9 DEF s

(* A connection that is reset loses what was not read.                     *)
LEMMA WaitingLost ==
  ASSUME Incoming, NEW c \in Clients, inbox' = [inbox EXCEPT ![c] = <<>>], IsFiniteSet(Waiting)
  PROVE  IsFiniteSet(Waiting') /\ Cardinality(Waiting') <= Cardinality(Waiting)
<1>1. \A d \in Clients : inbox'[d] = IF d = c THEN <<>> ELSE inbox[d]
  BY DEF Incoming
<1>2. ASSUME NEW y \in Waiting' PROVE y \in Waiting
  <2>1. PICK d \in Clients, i \in Nat \ {0} : y = <<d, i>>
    BY <1>2 DEF Waiting
  <2>2. i <= Len(inbox'[d]) /\ inbox'[d][i] = "T1"
    BY <1>2, <2>1 DEF Waiting
  <2>3. d # c
    BY <1>1, <2>2
  <2> QED  BY <1>1, <2>1, <2>2, <2>3 DEF Waiting
<1>3. Waiting' \in SUBSET Waiting
  BY <1>2
<1> QED  BY <1>3, FS_Subset

LEMMA BackedInit == Init => Backed
<1> SUFFICES ASSUME Init PROVE Backed
  OBVIOUS
<1>1. \A c \in Clients, i \in Nat \ {0} : ~(i <= Len(inbox[c]))
  BY DEF Init
<1>2. Waiting = {}
  <2>1. ASSUME NEW x \in Waiting PROVE FALSE
    <3>1. PICK c \in Clients, i \in Nat \ {0} : x = <<c, i>>
      BY <2>1 DEF Waiting
    <3>2. i <= Len(inbox[c])
      BY <2>1, <3>1 DEF Waiting
    <3> QED  BY <1>1, <3>2
  <2> QED  BY <2>1
<1>3. IsFiniteSet(Waiting) /\ Cardinality(Waiting) = 0
  BY <1>2, FS_EmptySet
<1>4. taken = 0 /\ sentTx = 0 /\ InHand = 0
  BY DEF Init, InHand
<1> QED  BY <1>3, <1>4, SessionAssumption DEF Backed

(* Every frame taken, or in the parser's hands, has a T1 of its own.       *)
LEMMA BackedStep == SessionInv /\ Backed /\ [Next]_vars => Backed'
<1> SUFFICES ASSUME SessionInv, Backed, [Next]_vars PROVE Backed'
  OBVIOUS
<1>0. /\ sentTx \in Nat /\ sentTx <= MaxTx /\ IsFiniteSet(Waiting) /\ taken \in Nat /\ InHand \in 0..1
      /\ Cardinality(Waiting) \in Nat /\ taken + InHand + Cardinality(Waiting) <= sentTx
      /\ Incoming /\ MaxTx \in Nat
  BY FS_CardinalityType, SessionAssumption DEF Backed, InHand, SessionInv, Origin
<1>1. SUFFICES /\ IsFiniteSet(Waiting') /\ sentTx' \in Nat /\ sentTx' <= MaxTx
               /\ taken' + InHand' + Cardinality(Waiting') <= sentTx'
  BY <1>0 DEF Backed
<1>2. ASSUME NEW c \in Clients, NEW p \in Pieces, clientSends(c, p)
      PROVE  /\ IsFiniteSet(Waiting') /\ sentTx' \in Nat /\ sentTx' <= MaxTx
             /\ taken' + InHand' + Cardinality(Waiting') <= sentTx'
  <2>1. /\ Sends(c, p) /\ sentTx' = (IF p = "T1" THEN sentTx + 1 ELSE sentTx) /\ sentTx' <= MaxTx
        /\ taken' = taken /\ half' = half
    BY <1>2 DEF clientSends, parserVars
  <2>2. InHand' = InHand
    BY <2>1 DEF InHand
  <2>3. /\ IsFiniteSet(Waiting')
        /\ Cardinality(Waiting') <= Cardinality(Waiting) + (IF p = "T1" THEN 1 ELSE 0)
    BY <1>0, <2>1, WaitingSend
  <2>4. Cardinality(Waiting') \in Nat
    BY <2>3, FS_CardinalityType
  <2> QED  BY <1>0, <2>1, <2>2, <2>3, <2>4
<1>3. ASSUME NEW c \in Clients, clientCloses(c), inbox' = [inbox EXCEPT ![c] = <<>>]
      PROVE  /\ IsFiniteSet(Waiting') /\ sentTx' \in Nat /\ sentTx' <= MaxTx
             /\ taken' + InHand' + Cardinality(Waiting') <= sentTx'
  <2>1. sentTx' = sentTx /\ taken' = taken /\ half' = half
    BY <1>3 DEF clientCloses, parserVars
  <2>2. InHand' = InHand
    BY <2>1 DEF InHand
  <2>3. IsFiniteSet(Waiting') /\ Cardinality(Waiting') <= Cardinality(Waiting)
    BY <1>0, <1>3, WaitingLost
  <2>4. Cardinality(Waiting') \in Nat
    BY <2>3, FS_CardinalityType
  <2> QED  BY <1>0, <2>1, <2>2, <2>3, <2>4
<1>4. CASE readPiece
  <2> DEFINE p == Head(inbox[fd])
  <2>1. /\ pc = "read" /\ inbox[fd] # <<>> /\ inbox' = [inbox EXCEPT ![fd] = Tail(@)]
        /\ sentTx' = sentTx
    BY <1>4 DEF readPiece
  <2>2. fd \in Clients /\ fd # 0
    BY <2>1 DEF SessionInv, Position, Served
  <2>3. /\ IsFiniteSet(Waiting')
        /\ Cardinality(Waiting') + (IF p = "T1" THEN 1 ELSE 0) <= Cardinality(Waiting)
    BY <1>0, <2>1, <2>2, WaitingRead
  <2>4. Cardinality(Waiting') \in Nat
    BY <2>3, FS_CardinalityType
  <2>5. PICK stale \in BOOLEAN : Complete(stale) \/ AtTag(p, stale)
    BY <1>4 DEF readPiece
  <2> HIDE DEF p
  <2>6. CASE Complete(stale)
    <3>1. half # 0 /\ half' = 0 /\ (taken' = taken \/ taken' = taken + 1)
      BY <2>6 DEF Complete
    <3>2. InHand = 1 /\ InHand' = 0
      BY <3>1 DEF InHand
    <3> QED  BY <1>0, <2>1, <2>3, <2>4, <3>1, <3>2
  <2>7. CASE AtTag(p, stale)
    <3>1. taken' = taken /\ half' = IF p = "T1" THEN fd ELSE 0
      BY <2>7 DEF AtTag
    <3>2. InHand' = IF p = "T1" THEN 1 ELSE 0
      BY <2>2, <3>1 DEF InHand
    <3> QED  BY <1>0, <2>1, <2>3, <2>4, <3>1, <3>2
  <2> QED  BY <2>5, <2>6, <2>7
<1>5. ASSUME UNCHANGED <<inbox, sentTx, taken>>, half' \in {half, 0}
      PROVE  /\ IsFiniteSet(Waiting') /\ sentTx' \in Nat /\ sentTx' <= MaxTx
             /\ taken' + InHand' + Cardinality(Waiting') <= sentTx'
  <2>1. Waiting' = Waiting
    BY <1>5 DEF Waiting
  <2>2. InHand' \in {InHand, 0}
    BY <1>5 DEF InHand
  <2> QED  BY <1>0, <1>5, <2>1, <2>2
<1>6. CASE UNCHANGED vars \/ TenSeconds
  <2>1. UNCHANGED <<inbox, sentTx, taken>> /\ half' = half
    BY <1>6 DEF vars, TenSeconds, clientVars, parserVars
  <2> QED  BY <1>5, <2>1
<1>7. CASE Service /\ ~readPiece
  <2>1. UNCHANGED <<inbox, sentTx, taken>> /\ half' \in {half, 0}
    BY <1>7 DEF Service, accept, acceptFails, readNothing, readClosed, writeUnit, writeFails,
         workerIdle, workerRx, workerScan, workerTerminal, clientVars, parserVars
  <2> QED  BY <1>5, <2>1
<1>8. ASSUME NEW c \in Clients, Client(c)
      PROVE  /\ IsFiniteSet(Waiting') /\ sentTx' \in Nat /\ sentTx' <= MaxTx
             /\ taken' + InHand' + Cardinality(Waiting') <= sentTx'
  <2>1. CASE \E p \in Pieces : clientSends(c, p)
    BY <1>2, <2>1
  <2>2. CASE clientCloses(c) /\ inbox' = [inbox EXCEPT ![c] = <<>>]
    BY <1>3, <2>2
  <2>3. CASE clientConnects(c) \/ clientReads(c) \/ (clientCloses(c) /\ inbox' = inbox)
    <3>1. UNCHANGED <<inbox, sentTx, taken>> /\ half' = half
      BY <2>3 DEF clientConnects, clientReads, clientCloses, clientVars, parserVars
    <3> QED  BY <1>5, <3>1
  <2>4. clientCloses(c) => inbox' = inbox \/ inbox' = [inbox EXCEPT ![c] = <<>>]
    BY DEF clientCloses
  <2> QED  BY <1>8, <2>1, <2>2, <2>3, <2>4 DEF Client, Pieces
<1> QED  BY <1>4, <1>6, <1>7, <1>8 DEF Next

(* A unit that is not that of a terminal, or of a terminal of a frame that *)
(* was taken.                                                              *)
Known(n) == {u \in Unit : u.kind = "TERMINAL" => u.id \in 1..n}

Numbered ==
  /\ begun \in Seq(Unit) /\ Len(begun) <= 1 /\ nth \in 1..3
  /\ todo \in Seq(Known(taken)) /\ told \subseteq 1..taken
  /\ txq \in Seq([id : 1..taken, from : Clients, to : Clients]) /\ Len(txq) <= QueueCap

Bounded ==
  /\ unread \in 0..SockCap /\ due \in BOOLEAN /\ ticks \in 0..MaxDue
  /\ others \in 0..MaxOther /\ rxs \in 0..MaxRx

LEMMA FrameIsKnown ==
  ASSUME NEW k \in FrameKind, NEW n \in Nat, NEW m \in Nat, k = "TERMINAL" => n \in 1..m
  PROVE  Frame(k, n) \in Seq(Known(m))
<1>1. [kind |-> k, id |-> n, part |-> 1] \in Known(m) /\ [kind |-> k, id |-> n, part |-> 2] \in Known(m)
  BY DEF Unit, FrameKind, Known
<1> QED  BY <1>1 DEF Frame

LEMMA AnswersAreKnown ==
  ASSUME NEW m \in Nat
  PROVE  /\ writeReady \in Seq(Known(m)) /\ writeStats \in Seq(Known(m))
         /\ MaybeStats \in Seq(Known(m)) /\ BareG \in Seq(Known(m)) /\ <<>> \in Seq(Known(m))
         /\ \A n \in Nat : /\ writeDiag(n) \in Seq(Known(m)) /\ writeError(n) \in Seq(Known(m))
                           /\ Frame("RX", n) \in Seq(Known(m))
         /\ \A n \in 1..m : Frame("TERMINAL", n) \in Seq(Known(m))
<1>1. \A k \in FrameKind, n \in Nat : (k = "TERMINAL" => n \in 1..m) => Frame(k, n) \in Seq(Known(m))
  BY FrameIsKnown
<1>2. "READY" \in FrameKind /\ "STATS" \in FrameKind /\ "DIAG" \in FrameKind
      /\ "ERROR" \in FrameKind /\ "RX" \in FrameKind /\ "TERMINAL" \in FrameKind
  BY DEF FrameKind
<1>3. [kind |-> "RESET", id |-> 0, part |-> 2] \in Known(m)
  BY DEF Unit, Known
<1>4. BareG \in Seq(Known(m)) /\ <<>> \in Seq(Known(m))
  BY <1>3 DEF BareG
<1>5. \A n \in 1..m : n \in Nat
  OBVIOUS
<1> HIDE DEF FrameKind, Frame, Known
<1>6. Frame("READY", 0) \in Seq(Known(m)) /\ Frame("STATS", 0) \in Seq(Known(m))
  BY <1>1, <1>2
<1> QED  BY <1>1, <1>2, <1>4, <1>5, <1>6 DEF writeReady, writeStats, MaybeStats, writeDiag, writeError

LEMMA ConcatIsKnown ==
  ASSUME NEW m \in Nat, NEW s \in Seq(Known(m)), NEW t \in Seq(Known(m))
  PROVE  s \o t \in Seq(Known(m))
<1> HIDE DEF Known
<1> QED  OBVIOUS

(* A frame that is taken gets the next number.                             *)
LEMMA TakenIsNumbered ==
  ASSUME Numbered, taken \in Nat, NEW c \in Clients, Len(txq) < QueueCap,
         txq' = Append(txq, [id |-> taken + 1, from |-> c, to |-> c]), taken' = taken + 1
  PROVE  /\ txq' \in Seq([id : 1..taken', from : Clients, to : Clients])
         /\ Len(txq') <= QueueCap /\ 1..taken \subseteq 1..taken'
<1> DEFINE e == [id |-> taken + 1, from |-> c, to |-> c]
           E == [id : 1..taken, from : Clients, to : Clients]
           F == [id : 1..taken', from : Clients, to : Clients]
<1>1. 1..taken \subseteq 1..taken' /\ taken + 1 \in 1..taken'
  OBVIOUS
<1>2. e \in F
  BY <1>1
<1>3. \A r \in E : r \in F
  BY <1>1
<1>4. txq \in Seq(E)
  BY DEF Numbered
<1> HIDE DEF e, E, F
<1>5. txq \in Seq(F)
  BY <1>3, <1>4
<1>6. Append(txq, e) \in Seq(F) /\ Len(Append(txq, e)) = Len(txq) + 1 /\ Len(txq) \in Nat
  BY <1>2, <1>5
<1>7. Len(Append(txq, e)) <= QueueCap
  BY <1>6, SessionAssumption
<1> QED  BY <1>1, <1>6, <1>7 DEF e, F

LEMMA NumberedKept ==
  ASSUME Numbered, UNCHANGED <<begun, nth, told, txq, taken>>, todo' \in Seq(Known(taken))
  PROVE  Numbered'
BY DEF Numbered

LEMMA NumberedRead ==
  ASSUME SessionInv, Numbered, readPiece
  PROVE  Numbered'
<1> DEFINE p == Head(inbox[fd])
<1>1. pc = "read" /\ UNCHANGED <<begun, nth, told>>
  BY DEF readPiece, sockVars, streamVars
<1>2. fd \in Clients /\ half \in {0, fd} /\ taken \in Nat /\ taken + 1 \in Nat
  BY <1>1 DEF SessionInv, Position, Served, Origin
<1>3. p \in Pieces
  <2>1. inbox[fd] \in Seq(Pieces) /\ inbox[fd] # <<>>
    BY <1>2 DEF SessionInv, Incoming, readPiece
  <2> QED  BY <2>1, HeadTailProperties
<1>4. PICK stale \in BOOLEAN : Complete(stale) \/ AtTag(p, stale)
  BY DEF readPiece
<1> HIDE DEF p
<1>5. \A m \in Nat : /\ writeDiag(47) \o MaybeStats \in Seq(Known(m))
                     /\ writeError(4) \o MaybeStats \in Seq(Known(m))
                     /\ BareG \o MaybeStats \in Seq(Known(m))
                     /\ writeStats \in Seq(Known(m)) /\ MaybeStats \in Seq(Known(m))
  <2> SUFFICES ASSUME NEW m \in Nat
               PROVE  /\ writeDiag(47) \o MaybeStats \in Seq(Known(m))
                      /\ writeError(4) \o MaybeStats \in Seq(Known(m))
                      /\ BareG \o MaybeStats \in Seq(Known(m))
                      /\ writeStats \in Seq(Known(m)) /\ MaybeStats \in Seq(Known(m))
    OBVIOUS
  <2>1. /\ writeDiag(47) \in Seq(Known(m)) /\ writeError(4) \in Seq(Known(m))
        /\ BareG \in Seq(Known(m)) /\ writeStats \in Seq(Known(m)) /\ MaybeStats \in Seq(Known(m))
    BY AnswersAreKnown
  <2> QED  BY <2>1, ConcatIsKnown
<1>6. CASE Complete(stale)
  <2>1. half = fd
    BY <1>2, <1>6 DEF Complete
  <2>2. CASE /\ Len(txq) < QueueCap /\ taken' = taken + 1 /\ todo' = writeDiag(47) \o MaybeStats
             /\ txq' = Append(txq, [id |-> taken + 1, from |-> fd, to |-> fd])
    <3>1. /\ txq' \in Seq([id : 1..taken', from : Clients, to : Clients])
          /\ Len(txq') <= QueueCap /\ 1..taken \subseteq 1..taken'
      BY <1>2, <2>2, TakenIsNumbered
    <3>2. todo' \in Seq(Known(taken'))
      BY <1>2, <1>5, <2>2
    <3>3. told' \subseteq 1..taken'
      BY <1>1, <3>1 DEF Numbered
    <3> QED  BY <1>1, <3>1, <3>2, <3>3 DEF Numbered
  <2>3. CASE UNCHANGED <<txq, taken>> /\ todo' = writeError(4) \o MaybeStats
    BY <1>1, <1>2, <1>5, <2>3, NumberedKept
  <2> QED  BY <1>6, <2>1, <2>2, <2>3 DEF Complete, Then
<1>7. CASE AtTag(p, stale)
  <2>1. UNCHANGED <<txq, taken>>
    BY <1>7 DEF AtTag
  <2>2. todo' = CASE p = "S" -> writeStats [] p = "X" -> BareG \o MaybeStats
                  [] p \in {"T1", "T2"} -> MaybeStats
    BY <1>7 DEF AtTag, Then
  <2>3. todo' = writeStats \/ todo' = BareG \o MaybeStats \/ todo' = MaybeStats
    BY <1>3, <2>2 DEF Pieces
  <2> QED  BY <1>1, <1>2, <1>5, <2>1, <2>3, NumberedKept
<1> QED  BY <1>4, <1>6, <1>7

LEMMA NumberedWrite ==
  ASSUME SessionInv, Numbered, writeUnit
  PROVE  Numbered'
<1> DEFINE u == Head(todo)
<1>1. /\ pc = "write" /\ todo' = Tail(todo) /\ Received(u) /\ UNCHANGED <<txq, taken>>
  BY DEF writeUnit, Then, parserVars
<1>2. todo # <<>> /\ todo \in Seq(Known(taken)) /\ taken \in Nat
  BY <1>1 DEF SessionInv, Position, Numbered, Origin
<1>3. u \in Known(taken) /\ Tail(todo) \in Seq(Known(taken))
  <2> HIDE DEF Known
  <2> QED  BY <1>2, HeadTailProperties
<1> HIDE DEF u
<1>4. u \in Unit /\ (u.kind = "TERMINAL" => u.id \in 1..taken)
  BY <1>3 DEF Known
<1>5. /\ begun' = (IF u.part = 2 THEN <<>> ELSE <<u>>)
      /\ nth' = (IF u.part = 2 /\ nth < 3 THEN nth + 1 ELSE nth)
      /\ told' = IF u.kind = "TERMINAL" /\ u.part = 2 THEN told \cup {u.id} ELSE told
  BY <1>1 DEF Received
<1>6. begun' \in Seq(Unit) /\ Len(begun') <= 1
  <2> HIDE DEF Unit
  <2>1. CASE u.part = 2
    BY <1>5, <2>1
  <2>2. CASE u.part # 2
    BY <1>4, <1>5, <2>2
  <2> QED  BY <2>1, <2>2
<1>7. nth' \in 1..3
  <2>1. nth \in 1..3
    BY DEF Numbered
  <2> QED  BY <1>5, <2>1
<1>8. told' \subseteq 1..taken
  <2>1. told \subseteq 1..taken
    BY DEF Numbered
  <2> QED  BY <1>4, <1>5, <2>1, Zenon
<1> QED  BY <1>1, <1>3, <1>6, <1>7, <1>8 DEF Numbered

LEMMA NumberedStep == SessionInv /\ Numbered /\ [Next]_vars => Numbered'
<1> SUFFICES ASSUME SessionInv, Numbered, [Next]_vars PROVE Numbered'
  OBVIOUS
<1>0. taken \in Nat /\ rxs \in Nat /\ todo \in Seq(Known(taken))
  BY DEF SessionInv, Origin, Numbered
<1>1. CASE TenSeconds \/ UNCHANGED vars \/ \E c \in Clients : Client(c)
  <2>1. UNCHANGED <<begun, nth, told, txq, taken, todo>>
    BY <1>1 DEF TenSeconds, vars, Client, clientConnects, clientSends, clientReads, clientCloses,
                parserVars, sockVars, streamVars
  <2> QED  BY <1>0, <2>1, NumberedKept
<1>2. CASE accept
  <2>1. UNCHANGED <<begun, nth, told, txq, taken>> /\ todo' = writeReady \o writeStats
    BY <1>2 DEF accept, sockVars, streamVars, Then
  <2>2. todo' \in Seq(Known(taken))
    BY <1>0, <2>1, AnswersAreKnown, ConcatIsKnown
  <2> QED  BY <2>1, <2>2, NumberedKept
<1>3. CASE acceptFails \/ readNothing \/ writeFails \/ workerIdle
  <2>1. UNCHANGED <<begun, nth, told, txq, taken>> /\ todo' \in {<<>>, MaybeStats}
    BY <1>3 DEF acceptFails, readNothing, writeFails, workerIdle, sockVars, streamVars, parserVars, Then
  <2>2. todo' \in Seq(Known(taken))
    BY <1>0, <2>1, AnswersAreKnown
  <2> QED  BY <2>1, <2>2, NumberedKept
<1>4. CASE readClosed
  <2>1. /\ begun' = <<>> /\ nth' = 1 /\ told' = {} /\ todo' = <<>> /\ txq' = txq /\ taken' = taken
    BY <1>4 DEF readClosed, parserVars, Then
  <2>2. todo' \in Seq(Known(taken')) /\ begun' \in Seq(Unit) /\ Len(begun') <= 1
    BY <2>1
  <2> QED  BY <2>1, <2>2 DEF Numbered
<1>5. CASE workerRx \/ workerScan
  <2>1. UNCHANGED <<begun, nth, told, txq, taken>>
    BY <1>5 DEF workerRx, workerScan, sockVars, streamVars, parserVars
  <2>2. \/ todo' = Frame("RX", rxs + 1)
        \/ todo' = writeDiag(50) \o writeDiag(51) \o writeDiag(52) \o writeDiag(53)
    BY <1>5 DEF workerRx, workerScan, Then
  <2>3. todo' \in Seq(Known(taken))
    <3>1. /\ Frame("RX", rxs + 1) \in Seq(Known(taken))
          /\ writeDiag(50) \in Seq(Known(taken)) /\ writeDiag(51) \in Seq(Known(taken))
          /\ writeDiag(52) \in Seq(Known(taken)) /\ writeDiag(53) \in Seq(Known(taken))
      <4>1. rxs + 1 \in Nat
        BY <1>0
      <4> QED  BY <1>0, <4>1, AnswersAreKnown
    <3>2. writeDiag(50) \o writeDiag(51) \o writeDiag(52) \o writeDiag(53) \in Seq(Known(taken))
      BY <1>0, <3>1, ConcatIsKnown
    <3> QED  BY <2>2, <3>1, <3>2
  <2> QED  BY <2>1, <2>3, NumberedKept
<1>6. CASE workerTerminal
  <2> DEFINE E == [id : 1..taken, from : Clients, to : Clients]
  <2>1. /\ UNCHANGED <<begun, nth, told, taken>> /\ txq # <<>> /\ txq' = Tail(txq)
        /\ todo' = Frame("TERMINAL", Head(txq).id)
    BY <1>6 DEF workerTerminal, sockVars, streamVars, Then
  <2>2. txq \in Seq(E) /\ Len(txq) <= QueueCap
    BY DEF Numbered
  <2>3. Head(txq) \in E /\ Tail(txq) \in Seq(E) /\ Len(Tail(txq)) = Len(txq) - 1 /\ Len(txq) \in Nat
    <3> HIDE DEF E
    <3> QED  BY <2>1, <2>2, HeadTailProperties
  <2>4. Head(txq).id \in 1..taken
    BY <2>3
  <2> HIDE DEF E
  <2>5. todo' \in Seq(Known(taken'))
    BY <1>0, <2>1, <2>4, AnswersAreKnown
  <2>6. txq' \in Seq(E) /\ Len(txq') <= QueueCap
    BY <2>1, <2>2, <2>3, SessionAssumption
  <2> QED  BY <2>1, <2>5, <2>6 DEF Numbered, E
<1> QED
  BY <1>1, <1>2, <1>3, <1>4, <1>5, <1>6, NumberedRead, NumberedWrite DEF Next, Service

LEMMA BoundedStep == Bounded /\ [Next]_vars => Bounded'
<1> SUFFICES ASSUME Bounded, [Next]_vars PROVE Bounded'
  OBVIOUS
<1>1. /\ unread \in 0..SockCap /\ ticks \in 0..MaxDue /\ others \in 0..MaxOther /\ rxs \in 0..MaxRx
      /\ SockCap \in Nat /\ MaxDue \in Nat /\ MaxOther \in Nat /\ MaxRx \in Nat
  BY SessionAssumption DEF Bounded
<1>2. due' = due \/ due' = TRUE \/ due' = FALSE
  BY DEF Next, Service, accept, acceptFails, readNothing, readClosed, readPiece, writeUnit, writeFails,
         workerIdle, workerRx, workerScan, workerTerminal, TenSeconds, vars, Client, clientConnects,
         clientSends, clientReads, clientCloses
<1>3. unread' \in {unread, 0} \/ (unread < SockCap /\ unread' = unread + 1)
  BY DEF Next, Service, accept, acceptFails, readNothing, readClosed, readPiece, writeUnit, writeFails,
         workerIdle, workerRx, workerScan, workerTerminal, TenSeconds, vars, Client, clientConnects,
         clientSends, clientReads, clientCloses, sockVars
<1>4. ticks' = ticks \/ (ticks < MaxDue /\ ticks' = ticks + 1)
  BY DEF Next, Service, accept, acceptFails, readNothing, readClosed, readPiece, writeUnit, writeFails,
         workerIdle, workerRx, workerScan, workerTerminal, TenSeconds, vars, Client, clientConnects,
         clientSends, clientReads, clientCloses
<1>5. rxs' = rxs \/ (rxs < MaxRx /\ rxs' = rxs + 1)
  BY DEF Next, Service, accept, acceptFails, readNothing, readClosed, readPiece, writeUnit, writeFails,
         workerIdle, workerRx, workerScan, workerTerminal, TenSeconds, vars, Client, clientConnects,
         clientSends, clientReads, clientCloses
<1>6. others' = others \/ (others' \in {others, others + 1} /\ others' <= MaxOther)
  BY DEF Next, Service, accept, acceptFails, readNothing, readClosed, readPiece, writeUnit, writeFails,
         workerIdle, workerRx, workerScan, workerTerminal, TenSeconds, vars, Client, clientConnects,
         clientSends, clientReads, clientCloses, clientVars
<1>7. due' \in BOOLEAN
  BY <1>2, Zenon DEF Bounded
<1>8. unread' \in 0..SockCap /\ ticks' \in 0..MaxDue /\ others' \in 0..MaxOther /\ rxs' \in 0..MaxRx
  BY <1>1, <1>3, <1>4, <1>5, <1>6
<1> QED  BY <1>7, <1>8, Zenon DEF Bounded

(* Every variable stays in its type: no terminal names a frame that no     *)
(* client sent, the parser and the queue hold only clients' commands, the  *)
(* queue and the socket keep their limits, and the service reads with a    *)
(* descriptor and accepts without one.                                     *)
THEOREM SessionTypes == Spec => []TypeOK
<1>1. Init => Numbered /\ Bounded
  <2> SUFFICES ASSUME Init PROVE Numbered /\ Bounded
    OBVIOUS
  <2>1. Numbered
    BY SessionAssumption DEF Init, Numbered
  <2>2. Bounded
    <3>1. unread \in 0..SockCap /\ ticks \in 0..MaxDue /\ others \in 0..MaxOther /\ rxs \in 0..MaxRx
      BY SessionAssumption DEF Init
    <3> QED  BY <3>1, Zenon DEF Init, Bounded
  <2> QED  BY <2>1, <2>2
<1>2. SessionInv /\ Backed /\ Numbered /\ Bounded => TypeOK
  <2> SUFFICES ASSUME SessionInv, Backed, Numbered, Bounded PROVE TypeOK
    OBVIOUS
  <2>1. /\ peer \in [Clients -> {"away", "open", "closed"}]
        /\ inbox \in [Clients -> Seq({"T1", "T2", "S", "X"})]
        /\ pc \in {"accept", "read", "write", "worker"} /\ back \in {"accept", "read", "worker"}
        /\ (pc = "write" <=> todo # <<>>)
        /\ (pc = "read" => fd # 0) /\ (pc = "accept" => fd = 0)
    BY DEF SessionInv, Served, Position, Incoming, Pieces
  <2>2. fd \in {0, served} /\ served \in {0} \cup Clients /\ half \in {0} \cup Clients
    BY DEF SessionInv, Served, Origin
  <2>3. taken \in 0..MaxTx /\ sentTx \in 0..MaxTx
    <3>1. /\ taken \in Nat /\ InHand \in {0, 1} /\ Cardinality(Waiting) \in Nat /\ sentTx \in 0..MaxTx
          /\ taken + InHand + Cardinality(Waiting) <= sentTx
      BY FS_CardinalityType DEF Backed, InHand, SessionInv, Origin
    <3> QED  BY <3>1, SessionAssumption
  <2>4. told \subseteq 1..MaxTx
    BY <2>3, SessionAssumption DEF Numbered
  <2>5. todo \in Seq(Unit)
    <3>1. todo \in Seq(Known(taken)) /\ \A u \in Known(taken) : u \in Unit
      BY DEF Numbered, Known
    <3> HIDE DEF Known, Unit
    <3> QED  BY <3>1
  <2>6. txq \in Seq([id : Nat, from : Clients, to : Clients]) /\ Len(txq) <= QueueCap
    <3> DEFINE E == [id : 1..taken, from : Clients, to : Clients]
               F == [id : Nat, from : Clients, to : Clients]
    <3>1. txq \in Seq(E) /\ (\A e \in E : e \in F) /\ Len(txq) <= QueueCap
      BY DEF Numbered
    <3> HIDE DEF E, F
    <3>2. txq \in Seq(F)
      BY <3>1
    <3> QED  BY <3>1, <3>2 DEF F
  <2>7. clean \in BOOLEAN
    BY DEF SessionInv, Stream
  <2>8. begun \in Seq(Unit) /\ Len(begun) <= 1 /\ nth \in 1..3
    BY DEF Numbered
  <2> QED  BY <2>1, <2>2, <2>3, <2>4, <2>5, <2>6, <2>7, <2>8, Zenon DEF TypeOK, Bounded
<1> QED
  BY <1>1, <1>2, SessionInvariant, BackedInit, BackedStep, NumberedStep, BoundedStep, PTL DEF Spec
=============================================================================
