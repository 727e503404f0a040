----------------------------- MODULE StreamProofs -----------------------------
(***************************************************************************)
(* The way of a picture to any number of viewers, through any number of    *)
(* changes of the stream.  Who may still be sent to and which units there  *)
(* are (Buffer) make sure that a viewer never gets its seed again          *)
(* (NotAgain); the parameter sets a writer has collected since its last    *)
(* header (Segment) that a header fits its pictures (HeaderFits); and the  *)
(* unit a writer's clock started from (OnTime) that its time moves on.     *)
(***************************************************************************)
EXTENDS Stream, TLAPS

\* The station has sent unit n of stream e.
Past(e, n) == e < epoch \/ (e = epoch /\ n < pos)
Sent(u) == Past(u.epoch, u.n) /\ u.ts = Ts(u.epoch, u.n)

\* Unit n of stream e is not younger than u.
NotAfter(e, n, u) == e < u.epoch \/ (e = u.epoch /\ n <= u.n)

Writing(v) == pc[v] \in {"seed", "subscribe", "loop", "write"}

\* Only a handler in its loop is subscribed, a push that is under way may still hold
\* a sender of one that has left; what is cached or in flight was sent, and what is
\* in flight is no viewer's seed.
Buffer ==
    /\ \A v \in consumers : pc[v] \in {"loop", "write"}
    /\ \A v \in senders : pc[v] \in {"loop", "write", "stop", "done"}
    /\ \A t \in {"sps", "pps", "idr"} : seeds[t] # None => seeds[t].type = t /\ Sent(seeds[t])
    /\ flight # None => flight.epoch = epoch /\ Sent(flight)
    /\ flight # None /\ ~late => flight.n = pos - 1
    /\ ~late /\ flight # None => \A v \in senders : flight # first[v]

\* A handler has a channel in its loop only, and a seed once it is primed.
Handler(v) ==
    /\ pc[v] \notin {"loop", "write"} => chan[v] = <<>>
    /\ Writing(v) => header[v] # None
    /\ pc[v] \in {"wait", "check", "gate", "run"} => header[v] = None
    /\ header[v] = None => tag[v] = None /\ first[v] = None
    /\ header[v] # None => tag[v] # None

\* What is delivered was sent, and is not the seed.
NotAgain(v) ==
    /\ first[v] # None => Sent(first[v])
    /\ \A i \in 1..Len(chan[v]) : Sent(chan[v][i]) /\ (~late => chan[v][i] # first[v])

\* The streams come one after the other, and what a writer has collected for a
\* header that is due is what it was given.
Segment(v) ==
    LET w == writer[v]
    IN  /\ w.epoch <= epoch
        /\ header[v].epoch <= w.epoch /\ tag[v].epoch <= w.epoch
        /\ w.pending <=> header[v].epoch # w.epoch
        /\ \A t \in Parameters, e \in Epochs : <<t, e>> \in got[v] => e <= w.epoch
        /\ w.pending => \A t \in Parameters : <<t, w.epoch>> \in got[v] => w.sets[t] = w.epoch
        /\ \A i \in 1..Len(chan[v]) :
              /\ w.epoch <= chan[v][i].epoch
              /\ \A j \in i..Len(chan[v]) : chan[v][i].epoch <= chan[v][j].epoch

\* SegmentHeader, for one viewer.
HeaderFits(v) ==
    header[v] # None =>
        /\ tag[v].type = "idr" => header[v].epoch = tag[v].epoch
        /\ \A t \in Parameters :
              <<t, header[v].epoch>> \in got[v] => header[v].sets[t] = header[v].epoch

\* The time of unit t on a segment that began with unit b.
TimeAt(w, b, t) == SaturatingAdd(w.segment, (Units[t].at - Units[b].at) \div TicksPerMs)

\* The writer's clock started with unit b of its stream, the last unit it saw is t,
\* and the last tag is not later than that.
Clock(v, b, t) ==
    LET w == writer[v]
    IN  /\ Past(w.epoch, t) /\ w.base = Ts(w.epoch, b)
        /\ \A i \in 1..Len(chan[v]) : NotAfter(w.epoch, t, chan[v][i])
        /\ tag[v].epoch = w.epoch => tag[v].ms <= TimeAt(w, b, t)

OnTime(v) ==
    /\ tag[v].ms <= writer[v].last
    /\ tag[v].epoch # writer[v].epoch =>
           SaturatingAdd(tag[v].ms, SegmentGap) <= writer[v].segment
    /\ ~late => \E b \in 1..Len(Units) : \E t \in b..Len(Units) : Clock(v, b, t)
    /\ ~late => \A i \in 1..Len(chan[v]) : \A j \in i..Len(chan[v]) :
                    NotAfter(chan[v][i].epoch, chan[v][i].n, chan[v][j])

Viewer(v) ==
    /\ Handler(v) /\ NotAgain(v) /\ HeaderFits(v)
    /\ Writing(v) => Segment(v) /\ OnTime(v)

IInv == TypeOK /\ Buffer /\ \A v \in Viewers : Viewer(v)

-----------------------------------------------------------------------------
(* Arithmetic.                                                             *)

LEMMA ModSplit ==
    ASSUME NEW M \in Nat \ {0}, NEW x \in Int
    PROVE  x % M \in 0..M - 1 /\ \E q \in Int : x = q * M + (x % M)
<1>1. x \div M \in Int /\ x = M * (x \div M) + (x % M) /\ x % M \in 0..M - 1
  OBVIOUS
<1>2. x = (x \div M) * M + (x % M)
  BY <1>1
<1> QED  BY <1>1, <1>2

LEMMA ModUnique ==
    ASSUME NEW M \in Nat \ {0}, NEW x \in Int, NEW q \in Int, NEW r \in 0..M - 1,
           x = q * M + r
    PROVE  x % M = r
  OBVIOUS

\* Division keeps the order.
LEMMA DivOrder ==
    ASSUME NEW M \in Nat \ {0}, NEW x \in Nat, NEW y \in Nat, x <= y
    PROVE  x \div M \in Nat /\ y \div M \in Nat /\ x \div M <= y \div M
<1> DEFINE a == x \div M
           b == y \div M
<1>1. /\ a \in Int /\ x >= M * a /\ x < M * a + M
      /\ b \in Int /\ y >= M * b /\ y < M * b + M
  OBVIOUS
<1> HIDE DEF a, b
<1>2. M * b + M > M * a
  <2> DEFINE ma == M * a
             mb == M * b
  <2>1. ma \in Int /\ mb \in Int /\ x >= ma /\ y < mb + M
    BY <1>1
  <2> HIDE DEF ma, mb
  <2>2. mb + M > ma
    BY <2>1
  <2> QED  BY <2>2 DEF ma, mb
<1>3. M * (b + 1) > M * a
  BY <1>1, <1>2
<1>4. b + 1 > a
  BY <1>1, <1>3
<1>5. a >= 0 /\ b >= 0
  BY <1>1
<1> QED  BY <1>1, <1>4, <1>5 DEF a, b

\* What the constants are, without the units themselves.
LEMMA Constants ==
    /\ Len(Units) \in Nat /\ MaxEpoch \in Nat /\ TsMod \in Nat \ {0} /\ SegmentGap \in Nat
    /\ TicksPerMs \in Nat \ {0}
    /\ (\A x \in Epochs : x \in Nat) /\ (\A x \in Stamps : x \in Nat) /\ 0 \in Stamps
<1>1. /\ Len(Units) \in Nat /\ MaxEpoch \in Nat /\ TsMod \in Nat /\ SegmentGap \in Nat
      /\ TicksPerMs \in Nat \ {0}
  BY StreamAssumption
<1>2. PICK s \in FirstTimes : s \in 0..TsMod - 1
  BY StreamAssumption DEF Stamps
<1> QED  BY <1>1, <1>2 DEF Epochs, Stamps

LEMMA Numbers == ASSUME TypeOK PROVE epoch \in Nat /\ pos \in Nat
<1>1. epoch \in Epochs /\ pos \in 1..Len(Units) + 1
  BY DEF TypeOK
<1> QED  BY <1>1, Constants

LEMMA Saturates ==
    ASSUME NEW a \in Stamps, NEW b \in Nat
    PROVE  SaturatingAdd(a, b) \in Stamps /\ a <= SaturatingAdd(a, b)
  BY Constants DEF SaturatingAdd, Stamps

LEMMA SaturatesInOrder ==
    ASSUME NEW a \in Stamps, NEW b \in Nat, NEW c \in Stamps, NEW d \in Nat, a <= c, b <= d
    PROVE  SaturatingAdd(a, b) <= SaturatingAdd(c, d)
  BY Constants DEF SaturatingAdd, Stamps

LEMMA UnitFacts ==
    ASSUME NEW i \in 1..Len(Units)
    PROVE  /\ Units[i].at \in Nat /\ Units[i].at < TsMod /\ Units[i].type \in Types
           /\ TsMod \in Nat \ {0} /\ Len(Units) \in Nat
           /\ \A j \in i..Len(Units) : Units[j].at \in Nat /\ Units[i].at <= Units[j].at
<1>1. Len(Units) \in Nat /\ Len(Units) \in 1..Len(Units) /\ Units \in Seq([type : Types, at : Nat])
  BY StreamAssumption
<1>2. ASSUME NEW j \in 1..Len(Units)  PROVE Units[j].at \in Nat /\ Units[j].type \in Types
  <2>1. Units[j] \in [type : Types, at : Nat]
    <3> DEFINE R == [type : Types, at : Nat]
    <3>1. Units \in Seq(R)
      BY <1>1
    <3> HIDE DEF R
    <3>2. Units[j] \in R
      BY <3>1
    <3> QED  BY <3>2 DEF R
  <2> QED  BY <2>1
<1>3. \A j \in i..Len(Units) : Units[i].at <= Units[j].at
  BY StreamAssumption
<1>4. Units[i].at <= Units[Len(Units)].at /\ Units[Len(Units)].at < TsMod /\ TsMod \in Nat
  BY <1>1, <1>3, StreamAssumption
<1>5. \A j \in i..Len(Units) : j \in 1..Len(Units)
  BY <1>1
<1> QED  BY <1>1, <1>2, <1>3, <1>4, <1>5

\* The distance of two timestamps of a stream is that of the units, wherever the
\* 32 bits wrap.
LEMMA TsDistance ==
    ASSUME TypeOK, NEW e \in 0..epoch, NEW b \in 1..Len(Units), NEW t \in b..Len(Units)
    PROVE  /\ Ts(e, b) \in Stamps
           /\ (Ts(e, t) - Ts(e, b)) % TsMod = Units[t].at - Units[b].at
<1> DEFINE s == start[e + 1]
           x == s + Units[t].at
           y == s + Units[b].at
           r == x % TsMod
           q == y % TsMod
           d == Units[t].at - Units[b].at
<1>1. s \in Nat
  <2>1. epoch \in Nat /\ start \in Seq(FirstTimes) /\ Len(start) = epoch + 1
    BY StreamAssumption DEF TypeOK, Epochs
  <2>2. e + 1 \in 1..Len(start)
    BY <2>1
  <2>3. s \in FirstTimes
    BY <2>1, <2>2
  <2>4. FirstTimes \subseteq 0..TsMod - 1 /\ TsMod \in Nat
    BY StreamAssumption DEF Stamps
  <2> HIDE DEF s
  <2> QED  BY <2>3, <2>4
<1>2. /\ t \in 1..Len(Units) /\ TsMod \in Nat \ {0} /\ Units[b].at \in Nat /\ Units[t].at \in Nat
      /\ d \in 0..TsMod - 1
  <2>1. t \in 1..Len(Units)
    BY StreamAssumption
  <2>2. Units[t].at < TsMod /\ Units[t].at \in Nat /\ TsMod \in Nat \ {0}
    BY <2>1, UnitFacts
  <2>3. Units[b].at \in Nat /\ Units[b].at <= Units[t].at
    BY UnitFacts
  <2> QED  BY <2>1, <2>2, <2>3
<1>3. x \in Int /\ y \in Int /\ x - y = d
  <2>1. \A a, i, j \in Nat : a + i \in Int /\ (a + i) - (a + j) = i - j
    OBVIOUS
  <2> HIDE DEF s
  <2> QED  BY <1>1, <1>2, <2>1, Zenon
<1>4. PICK k \in Int : x = k * TsMod + r
  BY <1>2, <1>3, ModSplit, Zenon
<1>5. PICK l \in Int : y = l * TsMod + q
  BY <1>2, <1>3, ModSplit, Zenon
<1>6. r \in 0..TsMod - 1 /\ q \in 0..TsMod - 1
  BY <1>2, <1>3, ModSplit, Zenon
<1>7. (r - q) % TsMod = d
  <2> DEFINE z == r - q
             m == l - k
  <2>1. z \in Int /\ m \in Int /\ z = m * TsMod + d
    <3> HIDE DEF r, q, x, y, d
    <3> QED  BY <1>2, <1>3, <1>4, <1>5, <1>6
  <2> HIDE DEF z, m, d
  <2>2. z % TsMod = d
    BY <1>2, <2>1, ModUnique, Zenon
  <2> QED  BY <2>2 DEF z
<1> QED  BY <1>6, <1>7, Zenon DEF Ts, Stamps

-----------------------------------------------------------------------------
(* What has been sent stays sent.                                          *)

\* The station goes on in its stream or starts another.
Advance ==
    \/ epoch' = epoch /\ start' = start /\ pos' \in Nat /\ pos <= pos'
    \/ epoch' = epoch + 1 /\ \E s \in FirstTimes : start' = Append(start, s)

LEMMA PastStays ==
    ASSUME TypeOK, Advance, NEW e \in Epochs, NEW n \in 1..Len(Units), Past(e, n)
    PROVE  /\ Past(e, n)' /\ e \in 0..epoch /\ e <= epoch'
           /\ \A i \in 1..Len(Units) : Ts(e, i)' = Ts(e, i)
<1>1. /\ epoch \in Nat /\ pos \in Nat /\ e \in Nat /\ n \in Nat
      /\ start \in Seq(FirstTimes) /\ Len(start) = epoch + 1
  BY StreamAssumption DEF TypeOK, Epochs
<1>2. e <= epoch /\ e + 1 \in 1..Len(start)
  BY <1>1 DEF Past
<1>3. start'[e + 1] = start[e + 1]
  BY <1>1, <1>2 DEF Advance
<1>4. Past(e, n)' /\ e <= epoch'
  BY <1>1 DEF Past, Advance
<1> QED  BY <1>1, <1>2, <1>3, <1>4 DEF Ts

LEMMA SentStays ==
    ASSUME TypeOK, Advance, NEW u \in Nals, Sent(u)
    PROVE  Sent(u)' /\ u.epoch \in 0..epoch
<1>1. u.epoch \in Epochs /\ u.n \in 1..Len(Units) /\ Past(u.epoch, u.n)
  BY DEF Nals, Sent
<1>2. Past(u.epoch, u.n)' /\ Ts(u.epoch, u.n)' = Ts(u.epoch, u.n) /\ u.epoch \in 0..epoch
  BY <1>1, PastStays
<1> QED  BY <1>2 DEF Sent

-----------------------------------------------------------------------------
(* The steps.                                                              *)

LEMMA ViewerTypes ==
    ASSUME TypeOK, NEW v \in Viewers
    PROVE  /\ pc[v] \in Places /\ chan[v] \in Seq(Nals) /\ Len(chan[v]) \in Nat
           /\ \A i \in 1..Len(chan[v]) : /\ chan[v][i] \in Nals /\ chan[v][i].epoch \in Epochs
                                         /\ chan[v][i].n \in 1..Len(Units)
                                         /\ chan[v][i].type \in Types /\ chan[v][i].ts \in Stamps
           /\ writer[v] \in Writers
           /\ writer[v].base \in Stamps /\ writer[v].epoch \in Epochs
           /\ writer[v].segment \in Stamps /\ writer[v].last \in Stamps
           /\ writer[v].sets \in [Parameters -> Epochs] /\ writer[v].pending \in BOOLEAN
           /\ writer[v].segment <= writer[v].last
           /\ first[v] \in Nals \cup {None}
           /\ tag[v] # None => /\ tag[v] \in Tags /\ tag[v].epoch \in Epochs /\ tag[v].ms \in Stamps
           /\ header[v] # None => /\ header[v] \in Headers /\ header[v].epoch \in Epochs
                                  /\ header[v].sets \in [Parameters -> Epochs]
           /\ got[v] \subseteq Parameters \X Epochs
<1>1. /\ pc[v] \in Places /\ chan[v] \in Seq(Nals) /\ writer[v] \in Writers
      /\ first[v] \in Nals \cup {None} /\ tag[v] \in Tags \cup {None}
      /\ header[v] \in Headers \cup {None} /\ got[v] \subseteq Parameters \X Epochs
      /\ writer[v].segment <= writer[v].last
  BY DEF TypeOK
<1>2. \A u \in Nals : u.epoch \in Epochs /\ u.n \in 1..Len(Units) /\ u.type \in Types /\ u.ts \in Stamps
  BY DEF Nals
<1>3. \A i \in 1..Len(chan[v]) : chan[v][i] \in Nals
  BY <1>1
<1>4. /\ writer[v].base \in Stamps /\ writer[v].epoch \in Epochs
      /\ writer[v].segment \in Stamps /\ writer[v].last \in Stamps
      /\ writer[v].sets \in [Parameters -> Epochs] /\ writer[v].pending \in BOOLEAN
  BY <1>1 DEF Writers
<1>5. tag[v] # None => tag[v] \in Tags /\ tag[v].epoch \in Epochs /\ tag[v].ms \in Stamps
  BY <1>1 DEF Tags
<1>6. header[v] # None => /\ header[v] \in Headers /\ header[v].epoch \in Epochs
                          /\ header[v].sets \in [Parameters -> Epochs]
  BY <1>1 DEF Headers
<1>7. Len(chan[v]) \in Nat
  BY <1>1
<1> QED  BY <1>1, <1>2, <1>3, <1>4, <1>5, <1>6, <1>7

\* The handler of u stays where it is, or goes on without touching its stream.
Walks(u) ==
    \/ pc'[u] = pc[u]
    \/ pc[u] \in {"wait", "check", "gate"} /\ pc'[u] \in {"check", "gate", "run", "done"}
    \/ pc[u] = "stop" /\ pc'[u] = "done"
    \/ pc[u] \in {"seed", "write"} /\ pc'[u] = IF pc[u] = "seed" THEN "subscribe" ELSE "loop"
    \/ pc[u] = "subscribe" /\ pc'[u] = "loop"

\* Whatever the others do, a viewer whose own state stays is all right.
LEMMA Bystander ==
    ASSUME IInv, Advance, late => late', NEW u \in Viewers, Walks(u),
           chan'[u] = chan[u], writer'[u] = writer[u], first'[u] = first[u],
           tag'[u] = tag[u], header'[u] = header[u], got'[u] = got[u]
    PROVE  Viewer(u)'
<1>1. TypeOK /\ Viewer(u)
  BY DEF IInv
<1>2. pc[u] \in Places /\ chan[u] \in Seq(Nals) /\ first[u] \in Nals \cup {None}
  BY <1>1, ViewerTypes
<1>3. Handler(u)'
  BY <1>1, <1>2 DEF Viewer, Handler, Writing, Walks, Places
<1>4. NotAgain(u)'
  <2>1. first[u] # None => Sent(first[u])'
    BY <1>1, <1>2, SentStays DEF Viewer, NotAgain
  <2>2. \A i \in 1..Len(chan[u]) : Sent(chan[u][i])'
    BY <1>1, <1>2, SentStays DEF Viewer, NotAgain
  <2>3. ~late' => \A i \in 1..Len(chan'[u]) : chan'[u][i] # first'[u]
    BY <1>1 DEF Viewer, NotAgain
  <2> QED  BY <2>1, <2>2, <2>3 DEF NotAgain
<1>5. HeaderFits(u)'
  BY <1>1 DEF Viewer, HeaderFits
<1>6. ASSUME Writing(u)'  PROVE Segment(u)' /\ OnTime(u)'
  <2>1. Segment(u) /\ OnTime(u)
    BY <1>1, <1>2, <1>6 DEF Viewer, Writing, Walks
  <2>2. writer[u].epoch \in Nat /\ epoch \in Nat /\ epoch' \in Nat /\ epoch <= epoch'
    <3>1. MaxEpoch \in Nat /\ writer[u].epoch \in Epochs /\ epoch \in Epochs
      BY <1>1, ViewerTypes, StreamAssumption DEF TypeOK
    <3> QED  BY <3>1 DEF Epochs, Advance
  <2>3. Segment(u)'
    BY <2>1, <2>2 DEF Segment
  <2>4. ASSUME ~late'
        PROVE  \E b \in 1..Len(Units) : \E t \in b..Len(Units) : Clock(u, b, t)'
    <3>1. PICK b \in 1..Len(Units) : \E t \in b..Len(Units) : Clock(u, b, t)
      BY <2>1, <2>4 DEF OnTime
    <3>2. PICK t \in b..Len(Units) : Clock(u, b, t)
      BY <3>1
    <3>3. t \in 1..Len(Units) /\ writer[u].epoch \in Epochs
      BY <1>1, ViewerTypes, StreamAssumption
    <3>4. Past(writer[u].epoch, t)' /\ Ts(writer[u].epoch, b)' = Ts(writer[u].epoch, b)
      BY <1>1, <3>2, <3>3, PastStays DEF Clock
    <3>5. Clock(u, b, t)'
      BY <3>2, <3>4 DEF Clock, NotAfter, TimeAt, SaturatingAdd
    <3> QED  BY <3>5
  <2>5. OnTime(u)'
    BY <2>1, <2>4 DEF OnTime, NotAfter, SaturatingAdd
  <2> QED  BY <2>3, <2>5
<1> QED  BY <1>3, <1>4, <1>5, <1>6 DEF Viewer

LEMMA Start == Init => IInv
<1> SUFFICES ASSUME Init  PROVE IInv
  OBVIOUS
<1> USE DEF Init
<1>1. 0 \in Epochs /\ 0 \in Stamps /\ FirstTimes \subseteq Stamps /\ 1 \in 1..Len(Units) + 1
  <2>1. MaxEpoch \in Nat /\ Len(Units) \in 1..Len(Units) /\ Len(Units) \in Nat
    BY StreamAssumption
  <2>2. TsMod \in Nat \ {0}
    BY <2>1, UnitFacts
  <2>3. FirstTimes \subseteq Stamps
    BY StreamAssumption
  <2> QED  BY <2>1, <2>2, <2>3 DEF Epochs, Stamps
<1>2. TypeOK
  <2>1. start \in Seq(FirstTimes) /\ Len(start) = epoch + 1
    <3>1. PICK s \in FirstTimes : start = <<s>> /\ epoch = 0
      OBVIOUS
    <3> QED  BY <3>1
  <2>2. Idle \in Writers
    BY <1>1 DEF Idle, Writers
  <2>3. \A v \in Viewers : Len(chan[v]) <= Depth /\ writer[v].segment <= writer[v].last
    BY <1>1, StreamAssumption DEF Idle
  <2>4. \A v \in Viewers : chan[v] \in Seq(Nals)
    OBVIOUS
  <2> QED  BY <1>1, <2>1, <2>2, <2>3, <2>4 DEF TypeOK, Places
<1>3. Buffer
  BY DEF Buffer
<1>4. ASSUME NEW v \in Viewers  PROVE Viewer(v)
  BY DEF Viewer, Handler, NotAgain, HeaderFits, Writing
<1> QED  BY <1>2, <1>3, <1>4 DEF IInv

\* A unit is pushed: a new one, or one that was pushed before.
LEMMA PushKeeps ==
    ASSUME IInv, NEW n \in Nals, Push(n), Sent(n)', n.epoch = epoch,
           epoch' = epoch, start' = start, pos' \in 1..Len(Units) + 1, pos <= pos',
           late' \in BOOLEAN, late => late', ~late' => n.n = pos /\ pos' = pos + 1
    PROVE  IInv'
<1>1. TypeOK /\ Buffer /\ Advance
  BY DEF IInv, Advance
<1>2. n.type \in Types /\ n # None /\ n.n \in Nat /\ pos \in Nat
  <2>1. n # None
    BY StreamAssumption
  <2> QED  BY <1>1, <2>1, Constants, Numbers DEF Nals
<1>3. /\ closed' = closed /\ consumers' = consumers /\ pc' = pc /\ reply' = reply
      /\ chan' = chan /\ writer' = writer /\ first' = first /\ tag' = tag
      /\ header' = header /\ got' = got /\ flight = None
  BY DEF Push, view
<1>4. ASSUME NEW v \in Viewers  PROVE Viewer(v)'
  BY <1>1, <1>3, Bystander DEF Walks
<1>5. \/ seeds' = seeds /\ flight' = flight /\ senders' = senders
      \/ /\ seeds' = IF n.type = "slice" THEN seeds ELSE [seeds EXCEPT ![n.type] = n]
         /\ senders' = consumers
         /\ flight' = IF consumers = {} THEN None ELSE n
  BY DEF Push
<1>6. seeds' \in [{"sps", "pps", "idr"} -> Nals \cup {None}]
  <2>1. seeds \in [{"sps", "pps", "idr"} -> Nals \cup {None}]
    BY <1>1 DEF TypeOK
  <2>2. CASE seeds' = seeds
    BY <2>1, <2>2
  <2>3. CASE n.type # "slice" /\ seeds' = [seeds EXCEPT ![n.type] = n]
    <3>1. n.type \in {"sps", "pps", "idr"}
      BY <1>2, <2>3 DEF Types
    <3> QED  BY <2>1, <2>3, <3>1
  <2> QED  BY <1>5, <2>2, <2>3
<1>7. /\ flight' \in Nals \cup {None} /\ senders' \subseteq Viewers
      /\ flight' = None <=> senders' = {}
  BY <1>1, <1>2, <1>5 DEF TypeOK
<1>8. TypeOK'
  BY <1>1, <1>3, <1>6, <1>7 DEF TypeOK
<1>9. Buffer'
  <2>1. \A v \in consumers' : pc'[v] \in {"loop", "write"}
    BY <1>1, <1>3 DEF Buffer
  <2>2. \A v \in senders' : pc'[v] \in {"loop", "write", "stop", "done"}
    BY <1>1, <1>3, <1>5 DEF Buffer
  <2>3. ASSUME NEW t \in {"sps", "pps", "idr"}, seeds'[t] # None
        PROVE  seeds'[t].type = t /\ Sent(seeds[t])'
    <3>1. CASE seeds'[t] = n /\ n.type = t
      BY <3>1 DEF Sent
    <3>2. CASE seeds'[t] = seeds[t]
      <4>1. seeds[t] \in Nals /\ seeds[t].type = t /\ Sent(seeds[t])
        BY <1>1, <2>3, <3>2 DEF Buffer, TypeOK
      <4>2. PICK u \in Nals : u = seeds[t]
        BY <4>1
      <4>3. Sent(u)'
        BY <1>1, <4>1, <4>2, SentStays
      <4> QED  BY <3>2, <4>1, <4>2, <4>3
    <3>3. seeds'[t] = seeds[t] \/ (seeds'[t] = n /\ n.type = t)
      BY <1>1, <1>2, <1>5 DEF TypeOK, Types
    <3> QED  BY <3>1, <3>2, <3>3
  <2>4. CASE flight' = None
    BY <2>1, <2>2, <2>3, <2>4 DEF Buffer
  <2>5. CASE flight' = n
    <3>1. flight'.epoch = epoch' /\ Sent(flight)'
      BY <2>5 DEF Sent
    <3>2. ~late' => flight'.n = pos' - 1
      BY <1>2, <2>5
    <3>3. ASSUME ~late', NEW v \in senders'  PROVE flight' # first'[v]
      <4>1. v \in Viewers /\ ~late /\ n.n = pos
        BY <1>7, <3>3
      <4>2. first[v] # None => Past(first[v].epoch, first[v].n)
        BY <4>1 DEF IInv, Viewer, NotAgain, Sent
      <4>3. epoch \in Nat
        BY <1>1, StreamAssumption DEF TypeOK, Epochs
      <4> QED  BY <1>2, <1>3, <2>5, <4>1, <4>2, <4>3 DEF Past
    <3> QED  BY <2>1, <2>2, <2>3, <3>1, <3>2, <3>3 DEF Buffer
  <2> QED  BY <1>3, <1>5, <2>4, <2>5
<1> QED  BY <1>4, <1>8, <1>9 DEF IInv

LEMMA NalSent ==
    ASSUME TypeOK, NEW i \in 1..Len(Units)
    PROVE  /\ Nal(i) \in Nals /\ Nal(i).epoch = epoch /\ Nal(i).n = i
           /\ Nal(i).ts = Ts(epoch, i)
<1>1. epoch \in 0..epoch /\ i \in i..Len(Units) /\ epoch \in Epochs
  <2>1. epoch \in Epochs
    BY DEF TypeOK
  <2> QED  BY <2>1, Constants
<1>2. Ts(epoch, i) \in Stamps
  BY <1>1, TsDistance
<1>3. Units[i].type \in Types
  BY UnitFacts
<1> QED  BY <1>1, <1>2, <1>3 DEF Nal, Nals

\* The four ways on of the station.
LEMMA SourceKeeps ==
    ASSUME IInv, ReceiveUnit \/ LoseUnit \/ RepeatUnit \/ SwitchStream
    PROVE  IInv'
<1>1. TypeOK /\ Buffer /\ Len(Units) \in Nat /\ pos \in Nat /\ epoch \in Nat
  BY Constants, Numbers DEF IInv
<1>2. CASE ReceiveUnit
  <2>1. /\ pos \in 1..Len(Units) /\ Push(Nal(pos)) /\ pos' = pos + 1
        /\ epoch' = epoch /\ start' = start /\ late' = late
    BY <1>1, <1>2 DEF ReceiveUnit, TypeOK
  <2>2. PICK n \in Nals : n = Nal(pos)
    BY <1>1, <2>1, NalSent
  <2>3. n.epoch = epoch /\ n.n = pos /\ n.ts = Ts(epoch, pos)
    BY <1>1, <2>1, <2>2, NalSent
  <2>4. Sent(n)'
    BY <1>1, <2>1, <2>3 DEF Sent, Past, Ts
  <2>5. late' \in BOOLEAN /\ pos' \in 1..Len(Units) + 1 /\ pos <= pos'
    BY <1>1, <2>1 DEF TypeOK
  <2> QED  BY <2>1, <2>2, <2>3, <2>4, <2>5, PushKeeps
<1>3. CASE RepeatUnit
  <2>1. PICK i \in 1..pos - 1 : Push(Nal(i))
    BY <1>3 DEF RepeatUnit
  <2>2. epoch' = epoch /\ start' = start /\ pos' = pos /\ late' = TRUE
    BY <1>3 DEF RepeatUnit
  <2>3. i \in 1..Len(Units)
    BY <1>1 DEF TypeOK
  <2>4. PICK n \in Nals : n = Nal(i)
    BY <1>1, <2>3, NalSent
  <2>5. n.epoch = epoch /\ n.n = i /\ n.ts = Ts(epoch, i)
    BY <1>1, <2>3, <2>4, NalSent
  <2>6. Sent(n)'
    BY <1>1, <2>2, <2>5 DEF Sent, Past, Ts
  <2>7. pos' \in 1..Len(Units) + 1 /\ pos <= pos'
    BY <1>1, <2>2 DEF TypeOK
  <2> QED  BY <2>1, <2>2, <2>4, <2>5, <2>6, <2>7, PushKeeps
<1>4. CASE LoseUnit \/ SwitchStream
  <2>1. /\ late' = late /\ flight = None /\ flight' = None /\ senders' = senders /\ seeds' = seeds
        /\ closed' = closed /\ consumers' = consumers /\ pc' = pc /\ reply' = reply
        /\ chan' = chan /\ writer' = writer /\ first' = first /\ tag' = tag
        /\ header' = header /\ got' = got
    BY <1>4 DEF LoseUnit, SwitchStream, buffer, view
  <2>2. Advance
    BY <1>1, <1>4 DEF LoseUnit, SwitchStream, Advance
  <2>3. /\ epoch' \in Epochs /\ start' \in Seq(FirstTimes) /\ Len(start') = epoch' + 1
        /\ pos' \in 1..Len(Units) + 1
    <3>1. CASE LoseUnit
      BY <1>1, <3>1 DEF LoseUnit, TypeOK
    <3>2. CASE SwitchStream
      <4>1. PICK s \in FirstTimes : start' = Append(start, s)
        BY <3>2 DEF SwitchStream
      <4>2. start' \in Seq(FirstTimes) /\ Len(start') = Len(start) + 1
        BY <1>1, <4>1 DEF TypeOK
      <4>3. epoch' = epoch + 1 /\ epoch < MaxEpoch /\ pos' = 1 /\ MaxEpoch \in Nat
        BY <3>2, StreamAssumption DEF SwitchStream
      <4> QED  BY <1>1, <4>2, <4>3 DEF TypeOK, Epochs
    <3> QED  BY <1>4, <3>1, <3>2
  <2>4. TypeOK'
    BY <1>1, <2>1, <2>3 DEF TypeOK
  <2>5. ASSUME NEW t \in {"sps", "pps", "idr"}, seeds'[t] # None
        PROVE  seeds'[t].type = t /\ Sent(seeds[t])'
    <3>1. seeds[t] \in Nals /\ seeds[t].type = t /\ Sent(seeds[t])
      BY <1>1, <2>1, <2>5 DEF Buffer, TypeOK
    <3>2. PICK u \in Nals : u = seeds[t]
      BY <3>1
    <3>3. Sent(u)'
      BY <1>1, <2>2, <3>1, <3>2, SentStays
    <3> QED  BY <2>1, <3>1, <3>2, <3>3
  <2>6. Buffer'
    BY <1>1, <2>1, <2>5 DEF Buffer
  <2>7. ASSUME NEW v \in Viewers  PROVE Viewer(v)'
    BY <2>1, <2>2, Bystander DEF Walks
  <2> QED  BY <2>4, <2>6, <2>7 DEF IInv
<1> QED  BY <1>2, <1>3, <1>4

\* A sender of the push delivers.
LEMMA FanOutKeeps ==
    ASSUME IInv, FanOut
    PROVE  IInv'
<1>1. TypeOK /\ Buffer
  BY DEF IInv
<1>2. PICK v \in senders :
          /\ chan' = IF pc[v] \in {"loop", "write"} THEN [chan EXCEPT ![v] = TrySend(@, flight)] ELSE chan
          /\ senders' = senders \ {v}
  BY DEF FanOut, InLoop
<1>3. /\ epoch' = epoch /\ start' = start /\ pos' = pos /\ late' = late /\ seeds' = seeds
      /\ closed' = closed /\ consumers' = consumers /\ pc' = pc /\ reply' = reply
      /\ writer' = writer /\ first' = first /\ tag' = tag /\ header' = header /\ got' = got
      /\ flight' = IF senders' = {} THEN None ELSE flight
  BY DEF FanOut, source, buffer, view
<1>4. v \in Viewers /\ flight \in Nals /\ flight # None /\ flight.epoch = epoch /\ Sent(flight)
  BY <1>1, <1>2 DEF TypeOK, Buffer
<1>5. /\ chan[v] \in Seq(Nals) /\ Len(chan[v]) \in Nat /\ Len(chan[v]) <= Depth
      /\ pos \in Nat /\ epoch \in Nat /\ Depth \in Nat
  BY <1>1, <1>4, StreamAssumption DEF TypeOK, Epochs
<1>6. Advance
  BY <1>3, <1>5 DEF Advance
<1>7. PICK n \in Nals : n = flight
  BY <1>4
<1>8. \/ chan' = chan
      \/ pc[v] \in {"loop", "write"} /\ Len(chan[v]) < Depth /\ chan' = [chan EXCEPT ![v] = Append(chan[v], n)]
  <2>1. chan \in [Viewers -> Seq(Nals)]
    BY <1>1 DEF TypeOK
  <2>2. CASE pc[v] \notin {"loop", "write"}
    BY <1>2, <2>2
  <2>3. CASE pc[v] \in {"loop", "write"}
    <3>1. chan' = [chan EXCEPT ![v] = IF Len(chan[v]) < Depth THEN Append(chan[v], n) ELSE chan[v]]
      BY <1>2, <1>7, <2>1, <2>3 DEF TrySend
    <3>2. CASE Len(chan[v]) < Depth
      BY <2>3, <3>1, <3>2
    <3>3. CASE ~(Len(chan[v]) < Depth)
      BY <1>4, <2>1, <3>1, <3>3
    <3> QED  BY <3>2, <3>3
  <2> QED  BY <2>2, <2>3
<1>9. chan' \in [Viewers -> Seq(Nals)] /\ \A u \in Viewers : Len(chan'[u]) <= Depth
  <2>1. CASE chan' = chan
    BY <1>1, <2>1 DEF TypeOK
  <2>2. CASE Len(chan[v]) < Depth /\ chan' = [chan EXCEPT ![v] = Append(chan[v], n)]
    <3>1. Append(chan[v], n) \in Seq(Nals) /\ Len(Append(chan[v], n)) <= Depth
      BY <1>5, <2>2
    <3> QED  BY <1>1, <2>2, <3>1 DEF TypeOK
  <2> QED  BY <1>8, <2>1, <2>2
<1>10. TypeOK'
  BY <1>1, <1>2, <1>3, <1>4, <1>9 DEF TypeOK
<1>11. Buffer'
  <2>1. \A t \in {"sps", "pps", "idr"} : seeds'[t] # None => seeds'[t].type = t /\ Sent(seeds[t])'
    BY <1>1, <1>3 DEF Buffer, Sent, Past, Ts
  <2>2. flight' # None => flight' = flight /\ Sent(flight)'
    BY <1>3, <1>4 DEF Sent, Past, Ts
  <2> QED  BY <1>1, <1>2, <1>3, <2>1, <2>2 DEF Buffer
<1>12. ASSUME NEW u \in Viewers  PROVE Viewer(u)'
  <2>1. CASE chan'[u] = chan[u]
    BY <1>3, <1>6, <2>1, Bystander DEF Walks
  <2>2. CASE chan'[u] # chan[u]
    <3>1. u = v /\ pc[v] \in {"loop", "write"} /\ chan'[v] = Append(chan[v], n)
      BY <1>1, <1>8, <2>2 DEF TypeOK
    <3>2. Viewer(v) /\ Segment(v) /\ OnTime(v)
      BY <1>4, <3>1 DEF IInv, Viewer, Writing
    <3>3. /\ Len(chan'[v]) = Len(chan[v]) + 1
          /\ \A i \in 1..Len(chan[v]) : chan'[v][i] = chan[v][i]
          /\ chan'[v][Len(chan[v]) + 1] = n
      BY <1>5, <3>1
    <3>4. \A i \in 1..Len(chan[v]) :
              /\ Sent(chan[v][i]) /\ chan[v][i].epoch \in Nat /\ chan[v][i].n \in Nat
      <4>1. chan[v] \in Seq(Nals) /\ \A i \in 1..Len(chan[v]) : Sent(chan[v][i])
        BY <1>1, <1>4, <3>2, ViewerTypes DEF Viewer, NotAgain
      <4>2. \A i \in 1..Len(chan[v]) : chan[v][i] \in Nals
        BY <4>1
      <4>3. \A x \in Nals : x.epoch \in Nat /\ x.n \in Nat
        BY Constants DEF Nals
      <4> QED  BY <4>1, <4>2, <4>3
    <3>5. Handler(v)' /\ HeaderFits(v)' /\ Writing(v)'
      BY <1>3, <3>1, <3>2 DEF Viewer, Handler, HeaderFits, Writing
    <3>6. NotAgain(v)'
      <4>1. first[v] # None => Sent(first[v])'
        BY <1>3, <3>2 DEF Viewer, NotAgain, Sent, Past, Ts
      <4>2. Sent(n)'
        BY <1>3, <1>4, <1>7 DEF Sent, Past, Ts
      <4>3. ASSUME NEW i \in 1..Len(chan'[v])
            PROVE  Sent(chan[v][i])' /\ (~late' => chan'[v][i] # first'[v])
        <5>1. CASE i = Len(chan[v]) + 1
          BY <1>1, <1>2, <1>3, <1>4, <1>7, <3>3, <4>2, <5>1 DEF Buffer, Sent
        <5>2. CASE i \in 1..Len(chan[v])
          BY <1>3, <3>2, <3>3, <5>2 DEF Viewer, NotAgain, Sent, Past, Ts
        <5> QED  BY <1>5, <3>3, <5>1, <5>2
      <4> QED  BY <1>3, <4>1, <4>3 DEF NotAgain
    <3>7. \A i \in 1..Len(chan[v]) : chan[v][i].epoch <= n.epoch
      BY <1>4, <1>5, <1>7, <3>4 DEF Sent, Past
    <3>8. writer[v].epoch \in Nat /\ n.epoch \in Nat
      BY <1>1, <1>4, <1>5, <1>7, ViewerTypes, StreamAssumption DEF Epochs
    <3>9. Segment(v)'
      <4>1. \A i \in 1..Len(chan'[v]) :
                /\ writer[v].epoch <= chan'[v][i].epoch
                /\ \A j \in i..Len(chan'[v]) : chan'[v][i].epoch <= chan'[v][j].epoch
        <5> SUFFICES ASSUME NEW i \in 1..Len(chan'[v])
                     PROVE  /\ writer[v].epoch <= chan'[v][i].epoch
                            /\ \A j \in i..Len(chan'[v]) : chan'[v][i].epoch <= chan'[v][j].epoch
          OBVIOUS
        <5>1. CASE i = Len(chan[v]) + 1
          <6>1. writer[v].epoch <= n.epoch
            BY <1>4, <1>7, <3>2 DEF Segment
          <6>2. \A j \in i..Len(chan'[v]) : j = i
            BY <1>5, <3>3, <5>1
          <6> QED  BY <3>3, <3>8, <5>1, <6>1, <6>2
        <5>2. CASE i \in 1..Len(chan[v])
          <6>1. writer[v].epoch <= chan'[v][i].epoch
            BY <3>2, <3>3, <5>2 DEF Segment
          <6>2. ASSUME NEW j \in i..Len(chan'[v])  PROVE chan'[v][i].epoch <= chan'[v][j].epoch
            <7>1. j \in i..Len(chan[v]) \/ j = Len(chan[v]) + 1
              BY <1>5, <3>3
            <7>2. CASE j = Len(chan[v]) + 1
              BY <3>3, <3>7, <5>2, <7>2
            <7>3. CASE j \in i..Len(chan[v])
              <8>1. j \in 1..Len(chan[v])
                BY <1>5, <7>3
              <8> QED  BY <3>2, <3>3, <5>2, <7>3, <8>1 DEF Segment
            <7> QED  BY <7>1, <7>2, <7>3
          <6> QED  BY <6>1, <6>2
        <5> QED  BY <1>5, <3>3, <5>1, <5>2
      <4> QED  BY <1>3, <3>2, <4>1 DEF Segment
    <3>10. ASSUME ~late, NEW e \in Nat, NEW m \in Nat, Past(e, m)  PROVE NotAfter(e, m, n)
      <4>1. n.n = pos - 1 /\ n.epoch = epoch
        BY <1>1, <1>4, <1>7, <3>10 DEF Buffer
      <4> QED  BY <1>5, <3>10, <4>1 DEF Past, NotAfter
    <3>11. OnTime(v)'
      <4>1. ASSUME ~late'
            PROVE  \E b \in 1..Len(Units) : \E t \in b..Len(Units) : Clock(v, b, t)'
        <5>1. PICK b \in 1..Len(Units) : \E t \in b..Len(Units) : Clock(v, b, t)
          BY <1>3, <3>2, <4>1 DEF OnTime
        <5>2. PICK t \in b..Len(Units) : Clock(v, b, t)
          BY <5>1
        <5>3. Past(writer[v].epoch, t) /\ t \in Nat
          BY <5>2 DEF Clock
        <5>4. \A i \in 1..Len(chan'[v]) : NotAfter(writer[v].epoch, t, chan'[v][i])
          <6>1. NotAfter(writer[v].epoch, t, n)
            BY <1>3, <3>8, <3>10, <4>1, <5>3
          <6>2. \A i \in 1..Len(chan[v]) : NotAfter(writer[v].epoch, t, chan[v][i])
            BY <5>2 DEF Clock
          <6>3. \A i \in 1..Len(chan'[v]) : i \in 1..Len(chan[v]) \/ i = Len(chan[v]) + 1
            BY <1>5, <3>3
          <6> QED  BY <3>3, <6>1, <6>2, <6>3
        <5>5. Clock(v, b, t)'
          BY <1>3, <5>2, <5>4 DEF Clock, NotAfter, TimeAt, SaturatingAdd, Past, Ts
        <5> QED  BY <5>5
      <4>2. ASSUME ~late', NEW i \in 1..Len(chan'[v]), NEW j \in i..Len(chan'[v])
            PROVE  NotAfter(chan'[v][i].epoch, chan'[v][i].n, chan'[v][j])
        <5>1. CASE j \in 1..Len(chan[v])
          <6>1. i \in 1..Len(chan[v]) /\ j \in i..Len(chan[v])
            BY <1>5, <4>2, <5>1
          <6>2. NotAfter(chan[v][i].epoch, chan[v][i].n, chan[v][j])
            BY <1>3, <3>2, <4>2, <6>1 DEF OnTime
          <6> QED  BY <3>3, <5>1, <6>1, <6>2
        <5>2. CASE i \in 1..Len(chan[v]) /\ j = Len(chan[v]) + 1
          BY <1>3, <3>3, <3>4, <3>10, <4>2, <5>2 DEF Sent
        <5>3. CASE i = Len(chan[v]) + 1 /\ j = Len(chan[v]) + 1
          <6>1. n.n \in Nat
            BY StreamAssumption DEF Nals
          <6>2. NotAfter(n.epoch, n.n, n)
            BY <3>8, <6>1 DEF NotAfter
          <6> QED  BY <3>3, <5>3, <6>2
        <5> QED  BY <1>5, <3>3, <5>1, <5>2, <5>3
      <4> QED  BY <1>3, <3>2, <4>1, <4>2 DEF OnTime, SaturatingAdd, NotAfter
    <3> QED  BY <3>1, <3>5, <3>6, <3>9, <3>11 DEF Viewer
  <2> QED  BY <2>1, <2>2
<1> QED  BY <1>10, <1>11, <1>12 DEF IInv

\* Steps that only move handlers on, subscribe one or close the buffer.
LEMMA WalkKeeps ==
    ASSUME IInv, TypeOK', UNCHANGED <<source, flight, senders, seeds, chan, writer, view>>,
           \A v \in consumers' : pc'[v] \in {"loop", "write"}, \A u \in Viewers : Walks(u)
    PROVE  IInv'
<1>1. TypeOK /\ Buffer
  BY DEF IInv
<1>2. /\ epoch' = epoch /\ start' = start /\ pos' = pos /\ late' = late /\ flight' = flight
      /\ senders' = senders /\ seeds' = seeds /\ chan' = chan /\ writer' = writer
      /\ first' = first /\ tag' = tag /\ header' = header /\ got' = got
  BY DEF source, view
<1>3. Advance
  BY <1>1, <1>2, Numbers DEF Advance
<1>4. ASSUME NEW u \in Viewers  PROVE Viewer(u)'
  <2>1. /\ Walks(u) /\ (late => late')
        /\ chan'[u] = chan[u] /\ writer'[u] = writer[u] /\ first'[u] = first[u]
        /\ tag'[u] = tag[u] /\ header'[u] = header[u] /\ got'[u] = got[u]
    BY <1>2
  <2> QED  BY <1>3, <2>1, Bystander, ZenonT(40)
<1>5. ASSUME NEW v \in senders  PROVE pc'[v] \in {"loop", "write", "stop", "done"}
  <2>1. v \in Viewers /\ pc[v] \in {"loop", "write", "stop", "done"}
    BY <1>1 DEF Buffer, TypeOK
  <2>2. Walks(v)
    BY <2>1
  <2> QED  BY <2>1, <2>2 DEF Walks
<1>6. \A t \in {"sps", "pps", "idr"} : seeds'[t] # None => seeds'[t].type = t /\ Sent(seeds[t])'
  BY <1>1, <1>2 DEF Buffer, Sent, Past, Ts
<1>7. flight' # None => Sent(flight)'
  BY <1>1, <1>2 DEF Buffer, Sent, Past, Ts
<1>8. Buffer'
  BY <1>1, <1>2, <1>5, <1>6, <1>7 DEF Buffer
<1> QED  BY <1>4, <1>8 DEF IInv

LEMMA HandlerKeeps ==
    ASSUME IInv, NEW v \in Viewers,
           \/ WaitIdr(v) \/ CheckClosed(v) \/ Gate(v) \/ Subscribe(v) \/ StopById(v)
           \/ WriteReturns(v) \/ FinPeek(v) \/ Close
    PROVE  IInv'
<1>1. TypeOK /\ Buffer
  BY DEF IInv
<1>2. UNCHANGED <<source, flight, senders, seeds, chan, writer, view>>
  BY DEF WaitIdr, CheckClosed, Gate, Subscribe, StopById, WriteReturns, FinPeek, Close, buffer
<1>3. /\ epoch' = epoch /\ start' = start /\ pos' = pos /\ late' = late
      /\ first' = first /\ tag' = tag /\ header' = header /\ got' = got
  BY <1>2 DEF source, view
<1>4. /\ pc' \in [Viewers -> Places] /\ \A u \in Viewers : Walks(u)
      /\ \A u \in Viewers : pc[u] \in {"loop", "write"} => pc'[u] \in {"loop", "write"}
  <2>1. pc \in [Viewers -> Places]
    BY <1>1 DEF TypeOK
  <2>2. CASE pc' = pc
    BY <2>1, <2>2 DEF Walks
  <2>3. ASSUME NEW p \in {"check", "gate", "run", "done"}, Goto(v, p),
               pc[v] \in {"wait", "check", "gate"}
        PROVE  /\ pc' \in [Viewers -> Places] /\ \A u \in Viewers : Walks(u)
               /\ \A u \in Viewers : pc[u] \in {"loop", "write"} => pc'[u] \in {"loop", "write"}
    BY <2>1, <2>3 DEF Goto, Walks, Places
  <2>4. CASE Subscribe(v) \/ StopById(v) \/ WriteReturns(v)
    BY <2>1, <2>4 DEF Subscribe, StopById, WriteReturns, Goto, Walks, Places
  <2>5. CASE WaitIdr(v) \/ CheckClosed(v) \/ Gate(v)
    BY <2>3, <2>5 DEF WaitIdr, CheckClosed, Gate, Refuse
  <2>6. CASE FinPeek(v) \/ Close
    BY <2>2, <2>6 DEF FinPeek, Close
  <2> QED  BY <2>4, <2>5, <2>6
<1>5. reply' \in [Viewers -> {0, 200, 503, 504}]
  <2>1. reply \in [Viewers -> {0, 200, 503, 504}]
    BY <1>1 DEF TypeOK
  <2>2. CASE WaitIdr(v) \/ CheckClosed(v) \/ Gate(v)
    BY <2>1, <2>2 DEF WaitIdr, CheckClosed, Gate, Refuse, Reply
  <2>3. CASE Subscribe(v) \/ StopById(v) \/ WriteReturns(v) \/ FinPeek(v) \/ Close
    BY <2>1, <2>3 DEF Subscribe, StopById, WriteReturns, FinPeek, Close
  <2> QED  BY <2>2, <2>3
<1>6. /\ closed' \in BOOLEAN /\ consumers' \subseteq Viewers
      /\ \A u \in consumers' : pc'[u] \in {"loop", "write"}
  <2>1. \A u \in consumers : u \in Viewers /\ pc[u] \in {"loop", "write"}
    BY <1>1 DEF TypeOK, Buffer
  <2>2. CASE WaitIdr(v) \/ CheckClosed(v) \/ Gate(v) \/ WriteReturns(v)
    BY <1>1, <1>4, <2>1, <2>2 DEF WaitIdr, CheckClosed, Gate, WriteReturns, buffer, TypeOK
  <2>3. CASE Subscribe(v)
    <3>1. pc'[v] = "loop"
      BY <1>1, <2>3 DEF Subscribe, Goto, TypeOK
    <3> QED  BY <1>1, <1>4, <2>1, <2>3, <3>1 DEF Subscribe, TypeOK
  <2>4. CASE StopById(v) \/ FinPeek(v) \/ Close
    BY <1>1, <1>4, <2>1, <2>4 DEF StopById, FinPeek, Close, CloseBuffer, TypeOK
  <2> QED  BY <2>2, <2>3, <2>4
<1>7. TypeOK'
  BY <1>1, <1>2, <1>3, <1>4, <1>5, <1>6 DEF TypeOK
<1> QED  BY <1>2, <1>4, <1>6, <1>7, WalkKeeps

\* run returns.
LEMMA LeaveKeeps ==
    ASSUME IInv, NEW v \in Viewers, pc[v] \in {"run", "seed", "loop", "write"}, LeaveRun(v)
    PROVE  IInv'
<1>1. TypeOK /\ Buffer
  BY DEF IInv
<1>2. /\ epoch' = epoch /\ start' = start /\ pos' = pos /\ late' = late /\ flight' = flight
      /\ senders' = senders /\ seeds' = seeds /\ closed' = closed /\ reply' = reply
      /\ writer' = writer /\ first' = first /\ tag' = tag /\ header' = header /\ got' = got
      /\ pc' = [pc EXCEPT ![v] = "stop"] /\ chan' = [chan EXCEPT ![v] = <<>>]
      /\ consumers' = consumers \ {v}
  BY DEF LeaveRun, source, view, Goto, RemoveConsumer
<1>3. /\ pc'[v] = "stop" /\ chan'[v] = <<>> /\ pc' \in [Viewers -> Places]
      /\ \A u \in Viewers \ {v} : pc'[u] = pc[u] /\ chan'[u] = chan[u]
  BY <1>1, <1>2 DEF TypeOK, Places
<1>4. chan' \in [Viewers -> Seq(Nals)] /\ \A u \in Viewers : Len(chan'[u]) <= Depth
  BY <1>1, <1>2, StreamAssumption DEF TypeOK
<1>5. TypeOK'
  BY <1>1, <1>2, <1>3, <1>4 DEF TypeOK
<1>6. Advance
  BY <1>1, <1>2, Numbers DEF Advance
<1>7. \A t \in {"sps", "pps", "idr"} : seeds'[t] # None => seeds'[t].type = t /\ Sent(seeds[t])'
  BY <1>1, <1>2 DEF Buffer, Sent, Past, Ts
<1>8. flight' # None => Sent(flight)'
  BY <1>1, <1>2 DEF Buffer, Sent, Past, Ts
<1>9. Buffer'
  <2>1. \A u \in consumers' : pc'[u] \in {"loop", "write"}
    BY <1>1, <1>2, <1>3 DEF Buffer, TypeOK
  <2>2. \A u \in senders' : pc'[u] \in {"loop", "write", "stop", "done"}
    BY <1>1, <1>2, <1>3 DEF Buffer, TypeOK
  <2> QED  BY <1>1, <1>2, <1>7, <1>8, <2>1, <2>2 DEF Buffer
<1>10. ASSUME NEW u \in Viewers  PROVE Viewer(u)'
  <2>1. CASE u # v
    BY <1>2, <1>3, <1>6, <2>1, Bystander DEF Walks
  <2>2. CASE u = v
    <3>1. Viewer(v)
      BY DEF IInv
    <3>2. first[v] # None => Sent(first[v])'
      BY <1>2, <3>1 DEF Viewer, NotAgain, Sent, Past, Ts
    <3>3. NotAgain(v)'
      BY <1>2, <1>3, <3>2 DEF NotAgain
    <3>4. Handler(v)' /\ HeaderFits(v)' /\ ~Writing(v)'
      BY <1>2, <1>3, <3>1 DEF Viewer, Handler, HeaderFits, Writing
    <3> QED  BY <2>2, <3>3, <3>4 DEF Viewer
  <2> QED  BY <2>1, <2>2
<1> QED  BY <1>5, <1>9, <1>10 DEF IInv

\* The writer is primed with the cached seed, or gives up without one.
LEMMA PrimeKeeps ==
    ASSUME IInv, NEW v \in Viewers, Prime(v)
    PROVE  IInv'
<1>1. TypeOK /\ Buffer /\ Viewer(v)
  BY DEF IInv
<1>2. /\ epoch' = epoch /\ start' = start /\ pos' = pos /\ late' = late /\ flight' = flight
      /\ senders' = senders /\ seeds' = seeds /\ closed' = closed /\ consumers' = consumers
      /\ reply' = reply /\ chan' = chan /\ pc[v] = "run"
  BY DEF Prime, source, buffer
<1>3. Advance
  BY <1>1, <1>2, Numbers DEF Advance
<1>4. \A t \in {"sps", "pps", "idr"} : seeds'[t] # None => seeds'[t].type = t /\ Sent(seeds[t])'
  BY <1>1, <1>2 DEF Buffer, Sent, Past, Ts
<1>5. flight' # None => Sent(flight)'
  BY <1>1, <1>2 DEF Buffer, Sent, Past, Ts
<1>6. v \notin senders /\ v \notin consumers /\ chan[v] = <<>>
  BY <1>1, <1>2 DEF Buffer, Viewer, Handler
<1>7. CASE ~LatestIdr
  <2>1. /\ pc' = [pc EXCEPT ![v] = "stop"] /\ writer' = writer
        /\ first' = first /\ tag' = tag /\ header' = header /\ got' = got
    BY <1>7 DEF Prime, Goto, view
  <2>2. /\ pc'[v] = "stop" /\ pc' \in [Viewers -> Places]
        /\ \A u \in Viewers \ {v} : pc'[u] = pc[u]
    BY <1>1, <2>1 DEF TypeOK, Places
  <2>3. TypeOK'
    BY <1>1, <1>2, <2>1, <2>2 DEF TypeOK
  <2>4. Buffer'
    BY <1>1, <1>2, <1>4, <1>5, <1>6, <2>1, <2>2 DEF Buffer, TypeOK
  <2>5. ASSUME NEW u \in Viewers  PROVE Viewer(u)'
    <3>1. CASE u # v
      BY <1>2, <1>3, <2>1, <2>2, <3>1, Bystander DEF Walks
    <3>2. CASE u = v
      <4>1. first[v] # None => Sent(first[v])'
        BY <1>1, <1>2, <2>1 DEF Viewer, NotAgain, Sent, Past, Ts
      <4>2. NotAgain(v)'
        BY <1>2, <1>6, <2>1, <4>1 DEF NotAgain
      <4>3. Handler(v)' /\ HeaderFits(v)' /\ ~Writing(v)'
        BY <1>1, <1>2, <1>6, <2>1, <2>2 DEF Viewer, Handler, HeaderFits, Writing
      <4> QED  BY <3>2, <4>2, <4>3 DEF Viewer
    <3> QED  BY <3>1, <3>2
  <2> QED  BY <2>3, <2>4, <2>5 DEF IInv
<1>8. CASE LatestIdr
  <2> DEFINE sets == [t \in Parameters |-> seeds[t].epoch]
  <2>1. PICK idr \in Nals : idr = seeds["idr"]
    BY <1>1, <1>8 DEF LatestIdr, TypeOK
  <2> DEFINE w == [base |-> idr.ts, epoch |-> idr.epoch, segment |-> 0, last |-> 0,
                   sets |-> sets, pending |-> FALSE]
             h == [epoch |-> idr.epoch, sets |-> sets]
             g == [type |-> "idr", epoch |-> idr.epoch, ms |-> 0]
  <2>2. /\ pc' = [pc EXCEPT ![v] = "seed"]
        /\ writer' = [writer EXCEPT ![v] = w] /\ first' = [first EXCEPT ![v] = idr]
        /\ tag' = [tag EXCEPT ![v] = g] /\ header' = [header EXCEPT ![v] = h]
        /\ got' = [got EXCEPT ![v] = Parameters \X {idr.epoch}]
    BY <1>8, <2>1 DEF Prime, Goto
  <2>3. /\ idr.epoch \in Epochs /\ idr.ts \in Stamps /\ idr.n \in 1..Len(Units) /\ idr # None
        /\ Sent(idr)
    BY <1>1, <2>1, StreamAssumption DEF Nals, Buffer
  <2>a. \A t \in Parameters : seeds[t].epoch = idr.epoch
    BY <1>1, <1>8, <2>1 DEF LatestIdr, TypeOK, Parameters
  <2>4. \A t \in Parameters : sets[t] = idr.epoch
    BY <2>a
  <2>5. sets \in [Parameters -> Epochs]
    <3>1. \A t \in Parameters : seeds[t].epoch \in Epochs
      BY <2>3, <2>a
    <3> QED  BY <3>1
  <2> HIDE DEF sets
  <2>6. 0 \in Stamps /\ idr.epoch \in Nat /\ epoch \in Nat /\ pos \in Nat
    BY <1>1, <2>3, Constants, Numbers
  <2>7. w \in Writers /\ h \in Headers /\ g \in Tags /\ h # None /\ g # None
    <3>1. w \in Writers
      BY <2>3, <2>5, <2>6 DEF Writers
    <3>2. h \in Headers
      BY <2>3, <2>5 DEF Headers
    <3>3. g \in Tags
      BY <2>3, <2>6 DEF Tags, Types, Parameters
    <3> QED  BY <3>1, <3>2, <3>3, StreamAssumption
  <2>8. /\ w.epoch = idr.epoch /\ w.base = idr.ts /\ w.segment = 0 /\ w.last = 0
        /\ w.sets = sets /\ w.pending = FALSE
        /\ h.epoch = idr.epoch /\ h.sets = sets
        /\ g.type = "idr" /\ g.epoch = idr.epoch /\ g.ms = 0
    OBVIOUS
  <2> HIDE DEF w, h, g
  <2>9. /\ pc'[v] = "seed" /\ writer'[v] = w /\ first'[v] = idr /\ tag'[v] = g
        /\ header'[v] = h /\ got'[v] = Parameters \X {idr.epoch}
        /\ \A u \in Viewers \ {v} :
              /\ pc'[u] = pc[u] /\ writer'[u] = writer[u] /\ first'[u] = first[u]
              /\ tag'[u] = tag[u] /\ header'[u] = header[u] /\ got'[u] = got[u]
    BY <1>1, <2>2 DEF TypeOK
  <2>10. TypeOK'
    <3>1. /\ pc' \in [Viewers -> Places] /\ writer' \in [Viewers -> Writers]
          /\ first' \in [Viewers -> Nals \cup {None}] /\ tag' \in [Viewers -> Tags \cup {None}]
          /\ header' \in [Viewers -> Headers \cup {None}]
      BY <1>1, <2>2, <2>7 DEF TypeOK, Places
    <3>2. got' \in [Viewers -> SUBSET (Parameters \X Epochs)]
      BY <1>1, <2>2, <2>3 DEF TypeOK
    <3>3. \A u \in Viewers : writer'[u].segment <= writer'[u].last
      <4>1. writer'[v].segment <= writer'[v].last
        BY <2>8, <2>9
      <4>2. \A u \in Viewers \ {v} : writer[u].segment <= writer[u].last /\ writer'[u] = writer[u]
        BY <1>1, <2>9 DEF TypeOK
      <4> QED  BY <4>1, <4>2
    <3> QED  BY <1>1, <1>2, <3>1, <3>2, <3>3 DEF TypeOK
  <2>11. Buffer'
    <3>1. \A u \in consumers \cup senders : u \in Viewers \ {v}
      BY <1>1, <1>6 DEF TypeOK
    <3>2. \A u \in consumers' : pc'[u] \in {"loop", "write"}
      BY <1>1, <1>2, <2>9, <3>1 DEF Buffer
    <3>3. \A u \in senders' : pc'[u] \in {"loop", "write", "stop", "done"} /\ first'[u] = first[u]
      BY <1>1, <1>2, <2>9, <3>1 DEF Buffer
    <3> QED  BY <1>1, <1>2, <1>4, <1>5, <3>2, <3>3 DEF Buffer
  <2>12. ASSUME NEW u \in Viewers  PROVE Viewer(u)'
    <3>1. CASE u # v
      BY <1>2, <1>3, <2>9, <3>1, Bystander DEF Walks
    <3>2. CASE u = v
      <4>1. Handler(v)' /\ Writing(v)'
        BY <1>2, <1>6, <2>7, <2>9 DEF Handler, Writing
      <4>2. Sent(first[v])'
        BY <1>2, <2>3, <2>9 DEF Sent, Past, Ts
      <4>3. NotAgain(v)'
        BY <1>2, <1>6, <2>9, <4>2 DEF NotAgain
      <4>4. HeaderFits(v)'
        BY <2>4, <2>8, <2>9 DEF HeaderFits
      <4>5. idr.epoch <= epoch
        BY <2>3, <2>6 DEF Sent, Past
      <4>6. Segment(v)'
        <5>1. \A t \in Parameters, e \in Epochs : <<t, e>> \in got'[v] => e <= idr.epoch
          BY <2>6, <2>9
        <5>2. Len(chan'[v]) = 0
          BY <1>2, <1>6
        <5> QED  BY <1>2, <2>6, <2>8, <2>9, <4>5, <5>1, <5>2 DEF Segment
      <4>7. Clock(v, idr.n, idr.n)'
        <5>1. TimeAt(w, idr.n, idr.n) \in Stamps
          <6>1. Units[idr.n].at - Units[idr.n].at = 0
            BY <2>3, UnitFacts
          <6>2. 0 \div TicksPerMs \in Nat
            BY StreamAssumption
          <6> QED  BY <2>6, <2>8, <6>1, <6>2, Saturates DEF TimeAt
        <5>2. g.ms <= TimeAt(w, idr.n, idr.n)
          BY <2>8, <5>1, UnitFacts, <2>3 DEF Stamps
        <5>3. Past(idr.epoch, idr.n) /\ idr.ts = Ts(idr.epoch, idr.n)
          BY <2>3 DEF Sent
        <5>4. Past(writer[v].epoch, idr.n)' /\ writer'[v].base = Ts(writer[v].epoch, idr.n)'
          BY <1>2, <2>8, <2>9, <5>3 DEF Past, Ts
        <5> QED  BY <1>2, <1>6, <2>8, <2>9, <5>2, <5>4 DEF Clock, TimeAt, SaturatingAdd
      <4>8. OnTime(v)'
        <5>1. idr.n \in 1..Len(Units) /\ idr.n \in idr.n..Len(Units)
          BY <2>3, StreamAssumption
        <5>2. Len(chan'[v]) = 0
          BY <1>2, <1>6
        <5> QED  BY <2>8, <2>9, <4>7, <5>1, <5>2 DEF OnTime
      <4> QED  BY <3>2, <4>1, <4>3, <4>4, <4>6, <4>8 DEF Viewer
    <3> QED  BY <3>1, <3>2
  <2> QED  BY <2>10, <2>11, <2>12 DEF IInv
<1> QED  BY <1>7, <1>8

\* rebase: the writer is at the unit's stream, on the same segment or on a later one.
LEMMA Rebased ==
    ASSUME NEW w \in Writers, NEW n \in Nals, w.segment <= w.last
    PROVE  LET r == Rebase(w, n)
           IN  /\ r \in Writers /\ r.epoch = n.epoch /\ r.segment <= r.last /\ w.last <= r.last
               /\ r.sets = w.sets
               /\ n.epoch = w.epoch => r = w
               /\ n.epoch # w.epoch => /\ r.base = n.ts /\ r.pending = TRUE
                                       /\ r.segment = SaturatingAdd(w.last, SegmentGap)
<1> DEFINE next == SaturatingAdd(w.last, SegmentGap)
           r == Rebase(w, n)
<1>1. /\ w.base \in Stamps /\ w.epoch \in Epochs /\ w.segment \in Stamps /\ w.last \in Stamps
      /\ w.sets \in [Parameters -> Epochs] /\ w.pending \in BOOLEAN
      /\ n.epoch \in Epochs /\ n.ts \in Stamps
  BY DEF Writers, Nals
<1>2. next \in Stamps /\ w.last <= next
  BY <1>1, Saturates, StreamAssumption
<1>3. \A x \in Stamps : x \in Int
  BY StreamAssumption DEF Stamps
<1>4. CASE n.epoch = w.epoch
  BY <1>1, <1>3, <1>4 DEF Rebase
<1>5. CASE n.epoch # w.epoch
  <2>1. r = [w EXCEPT !.epoch = n.epoch, !.base = n.ts, !.segment = next, !.last = next,
                      !.pending = TRUE]
    BY <1>5 DEF Rebase
  <2> HIDE DEF next
  <2>2. r = [base |-> n.ts, epoch |-> n.epoch, segment |-> next, last |-> next,
             sets |-> w.sets, pending |-> TRUE]
    BY <2>1 DEF Writers
  <2> HIDE DEF r
  <2>3. /\ r.base = n.ts /\ r.epoch = n.epoch /\ r.segment = next /\ r.last = next
        /\ r.sets = w.sets /\ r.pending = TRUE
    BY <2>2
  <2>4. r \in Writers
    BY <1>1, <1>2, <2>2 DEF Writers
  <2> QED  BY <1>2, <1>3, <1>5, <2>3, <2>4 DEF next, r
<1> QED  BY <1>4, <1>5

\* What one turn of the loop does to the viewer's state.
LEMMA Turn ==
    ASSUME TypeOK, NEW v \in Viewers, Receive(v)
    PROVE  \E n \in Nals, r \in Writers, ms \in Stamps :
              /\ n = chan[v][1] /\ r = Rebase(writer[v], n) /\ ms = RelativeFlvTimestamp(r, n)
              /\ writer'[v].epoch = r.epoch /\ writer'[v].base = r.base
              /\ writer'[v].segment = r.segment
              /\ writer'[v].last = IF n.type \notin Parameters /\ ms > r.last THEN ms ELSE r.last
              /\ writer'[v].sets = IF n.type \in Parameters
                                   THEN [r.sets EXCEPT ![n.type] = n.epoch] ELSE r.sets
              /\ writer'[v].pending = IF SendHeader(r, n) THEN FALSE ELSE r.pending
              /\ writer' \in [Viewers -> Writers]
              /\ header'[v] = IF SendHeader(r, n) THEN [epoch |-> n.epoch, sets |-> r.sets]
                              ELSE header[v]
              /\ tag'[v] = IF n.type \in Parameters THEN tag[v]
                           ELSE [type |-> n.type, epoch |-> n.epoch, ms |-> ms]
              /\ got'[v] = IF n.type \in Parameters /\ header[v].epoch # n.epoch
                           THEN got[v] \cup {<<n.type, n.epoch>>} ELSE got[v]
              /\ \A u \in Viewers \ {v} :
                    /\ writer'[u] = writer[u] /\ header'[u] = header[u]
                    /\ tag'[u] = tag[u] /\ got'[u] = got[u]
              /\ header' = [header EXCEPT ![v] = header'[v]]
              /\ tag' = [tag EXCEPT ![v] = tag'[v]] /\ got' = [got EXCEPT ![v] = got'[v]]
<1> DEFINE n0 == Head(chan[v])
           r0 == Rebase(writer[v], n0)
           m0 == RelativeFlvTimestamp(r0, n0)
<1>1. n0 \in Nals /\ n0 = chan[v][1]
  BY DEF Receive, TypeOK
<1>2. writer[v] \in Writers /\ writer[v].segment <= writer[v].last
  BY ViewerTypes
<1>3. r0 \in Writers
  BY <1>1, <1>2, Rebased
<1>4. m0 \in Stamps
  <2>1. TsMod \in Nat \ {0} /\ TicksPerMs \in Nat \ {0}
    <3>1. Len(Units) \in 1..Len(Units)
      BY StreamAssumption
    <3> QED  BY <3>1, UnitFacts, StreamAssumption
  <2>2. n0.ts \in Stamps /\ r0.base \in Stamps /\ r0.segment \in Stamps
    BY <1>1, <1>3 DEF Nals, Writers
  <2> DEFINE d == n0.ts - r0.base
             q == d % TsMod
  <2>3. d \in Int
    BY <2>1, <2>2 DEF Stamps
  <2>4. q \in Nat
    <3> HIDE DEF d
    <3> QED  BY <2>1, <2>3
  <2>5. q \div TicksPerMs \in Nat
    <3> HIDE DEF q
    <3>1. q <= q
      BY <2>4
    <3> QED  BY <2>1, <2>4, <3>1, DivOrder
  <2> QED  BY <2>2, <2>5, Saturates DEF RelativeFlvTimestamp
<1>5. PICK n \in Nals : n = n0
  BY <1>1
<1>6. PICK r \in Writers : r = Rebase(writer[v], n)
  BY <1>3, <1>5
<1>7. PICK ms \in Stamps : ms = RelativeFlvTimestamp(r, n)
  BY <1>4, <1>5, <1>6
<1> DEFINE parameter == n.type \in Parameters
           due == SendHeader(r, n)
           stored == IF parameter THEN [r EXCEPT !.sets[n.type] = n.epoch]
                     ELSE [r EXCEPT !.last = IF ms > @ THEN ms ELSE @]
           w2 == IF due THEN [stored EXCEPT !.pending = FALSE] ELSE stored
<1>8. /\ writer' = [writer EXCEPT ![v] = w2]
      /\ header' = IF due THEN [header EXCEPT ![v] = [epoch |-> n.epoch, sets |-> r.sets]] ELSE header
      /\ tag' = IF parameter THEN tag
                ELSE [tag EXCEPT ![v] = [type |-> n.type, epoch |-> n.epoch, ms |-> ms]]
      /\ got' = IF parameter /\ header[v].epoch # n.epoch
                THEN [got EXCEPT ![v] = @ \cup {<<n.type, n.epoch>>}] ELSE got
  BY <1>5, <1>6, <1>7, Zenon DEF Receive
<1> DEFINE l == IF ~parameter /\ ms > r.last THEN ms ELSE r.last
           sets == IF parameter THEN [r.sets EXCEPT ![n.type] = n.epoch] ELSE r.sets
           pending == IF due THEN FALSE ELSE r.pending
<1>9. /\ r = [base |-> r.base, epoch |-> r.epoch, segment |-> r.segment, last |-> r.last,
              sets |-> r.sets, pending |-> r.pending]
      /\ r.base \in Stamps /\ r.epoch \in Epochs /\ r.segment \in Stamps /\ r.last \in Stamps
      /\ r.sets \in [Parameters -> Epochs] /\ r.pending \in BOOLEAN
  BY DEF Writers
<1>10. n.epoch \in Epochs
  BY DEF Nals
<1>11. stored = [base |-> r.base, epoch |-> r.epoch, segment |-> r.segment, last |-> l,
                 sets |-> sets, pending |-> r.pending]
  <2>1. CASE parameter
    BY <1>9, <2>1
  <2>2. CASE ~parameter
    BY <1>9, <2>2
  <2> QED  BY <2>1, <2>2
<1> HIDE DEF stored
<1>12. w2 = [base |-> r.base, epoch |-> r.epoch, segment |-> r.segment, last |-> l,
             sets |-> sets, pending |-> pending]
  <2> HIDE DEF l, sets, due
  <2>1. CASE due
    BY <1>11, <2>1
  <2>2. CASE ~due
    BY <1>11, <2>2
  <2> QED  BY <2>1, <2>2
<1>13. l \in Stamps /\ sets \in [Parameters -> Epochs] /\ pending \in BOOLEAN
  BY <1>9, <1>10
<1> HIDE DEF w2, l, sets, pending, due
<1>14. /\ w2.base = r.base /\ w2.epoch = r.epoch /\ w2.segment = r.segment /\ w2.last = l
       /\ w2.sets = sets /\ w2.pending = pending /\ w2 \in Writers
  BY <1>9, <1>12, <1>13 DEF Writers
<1>15. /\ writer' \in [Viewers -> Writers] /\ writer'[v] = w2
       /\ \A u \in Viewers \ {v} : writer'[u] = writer[u]
  BY <1>8, <1>14 DEF TypeOK
<1>16. /\ header'[v] = IF due THEN [epoch |-> n.epoch, sets |-> r.sets] ELSE header[v]
       /\ \A u \in Viewers \ {v} : header'[u] = header[u]
  BY <1>8 DEF TypeOK
<1>17. /\ tag'[v] = IF parameter THEN tag[v] ELSE [type |-> n.type, epoch |-> n.epoch, ms |-> ms]
       /\ \A u \in Viewers \ {v} : tag'[u] = tag[u]
  BY <1>8 DEF TypeOK
<1>18. /\ got'[v] = IF parameter /\ header[v].epoch # n.epoch
                    THEN got[v] \cup {<<n.type, n.epoch>>} ELSE got[v]
       /\ \A u \in Viewers \ {v} : got'[u] = got[u]
  BY <1>8 DEF TypeOK
<1>19. header' = [header EXCEPT ![v] = header'[v]]
  BY <1>8 DEF TypeOK
<1>20. tag' = [tag EXCEPT ![v] = tag'[v]]
  <2>1. CASE parameter
    <3>1. tag' = tag
      BY <1>8, <2>1
    <3> QED  BY <3>1 DEF TypeOK
  <2>2. CASE ~parameter
    <3> DEFINE x == [type |-> n.type, epoch |-> n.epoch, ms |-> ms]
    <3>1. tag' = [tag EXCEPT ![v] = x]
      BY <1>8, <2>2
    <3> HIDE DEF x
    <3> QED  BY <3>1 DEF TypeOK
  <2> QED  BY <2>1, <2>2
<1>21. got' = [got EXCEPT ![v] = got'[v]]
  <2>1. CASE ~(parameter /\ header[v].epoch # n.epoch)
    <3>1. got' = got
      BY <1>8, <2>1, Zenon
    <3> QED  BY <3>1 DEF TypeOK
  <2>2. CASE parameter /\ header[v].epoch # n.epoch
    <3> DEFINE x == got[v] \cup {<<n.type, n.epoch>>}
    <3>1. got' = [got EXCEPT ![v] = x]
      BY <1>8, <2>2
    <3> HIDE DEF x
    <3> QED  BY <3>1 DEF TypeOK
  <2> QED  BY <2>1, <2>2
<1> QED
  BY <1>1, <1>5, <1>6, <1>7, <1>14, <1>15, <1>16, <1>17, <1>18, <1>19, <1>20, <1>21, Zenon
     DEF l, sets, pending, due

\* TimeMovesOn, for one viewer.
InTime(v) ==
    ~late /\ tag[v] \notin {None, tag'[v]} =>
        /\ tag'[v].ms >= tag[v].ms
        /\ tag'[v].epoch # tag[v].epoch => tag'[v].ms >= SaturatingAdd(tag[v].ms, SegmentGap)

\* One turn of the writer's loop.
LEMMA ReceiveKeeps ==
    ASSUME IInv, NEW v \in Viewers, Receive(v)
    PROVE  IInv' /\ InTime(v) /\ \A u \in Viewers \ {v} : tag'[u] = tag[u]
<1>1. TypeOK /\ Buffer /\ Viewer(v)
  BY DEF IInv
<1>2. /\ epoch' = epoch /\ start' = start /\ pos' = pos /\ late' = late /\ flight' = flight
      /\ senders' = senders /\ seeds' = seeds /\ closed' = closed /\ consumers' = consumers
      /\ reply' = reply /\ first' = first /\ pc[v] = "loop" /\ chan[v] # <<>>
      /\ chan' = [chan EXCEPT ![v] = Tail(chan[v])]
  BY <1>1 DEF Receive, source, buffer, TypeOK
<1>w. /\ pc' \in [Viewers -> Places] /\ pc'[v] \in {"loop", "write"}
      /\ \A u \in Viewers \ {v} : pc'[u] = pc[u]
  <2>1. pc' = pc \/ pc' = [pc EXCEPT ![v] = "write"]
    BY DEF Receive, Goto
  <2>2. pc \in [Viewers -> Places] /\ pc[v] = "loop"
    BY <1>1, <1>2 DEF TypeOK
  <2> QED  BY <2>1, <2>2 DEF Places
<1>3. Advance
  BY <1>1, <1>2, Numbers DEF Advance
<1>4. PICK n \in Nals, r \in Writers, ms \in Stamps :
              /\ n = chan[v][1] /\ r = Rebase(writer[v], n) /\ ms = RelativeFlvTimestamp(r, n)
              /\ writer'[v].epoch = r.epoch /\ writer'[v].base = r.base
              /\ writer'[v].segment = r.segment
              /\ writer'[v].last = IF n.type \notin Parameters /\ ms > r.last THEN ms ELSE r.last
              /\ writer'[v].sets = IF n.type \in Parameters
                                   THEN [r.sets EXCEPT ![n.type] = n.epoch] ELSE r.sets
              /\ writer'[v].pending = IF SendHeader(r, n) THEN FALSE ELSE r.pending
              /\ writer' \in [Viewers -> Writers]
              /\ header'[v] = IF SendHeader(r, n) THEN [epoch |-> n.epoch, sets |-> r.sets]
                              ELSE header[v]
              /\ tag'[v] = IF n.type \in Parameters THEN tag[v]
                           ELSE [type |-> n.type, epoch |-> n.epoch, ms |-> ms]
              /\ got'[v] = IF n.type \in Parameters /\ header[v].epoch # n.epoch
                           THEN got[v] \cup {<<n.type, n.epoch>>} ELSE got[v]
              /\ \A u \in Viewers \ {v} :
                    /\ writer'[u] = writer[u] /\ header'[u] = header[u]
                    /\ tag'[u] = tag[u] /\ got'[u] = got[u]
              /\ header' = [header EXCEPT ![v] = header'[v]]
              /\ tag' = [tag EXCEPT ![v] = tag'[v]] /\ got' = [got EXCEPT ![v] = got'[v]]
  BY <1>1, Turn
<1> DEFINE w == writer[v]
           due == SendHeader(r, n)
           parameter == n.type \in Parameters
<1>5. /\ r.epoch = n.epoch /\ r.segment <= r.last /\ w.last <= r.last /\ r.sets = w.sets
      /\ n.epoch = w.epoch => r = w
      /\ n.epoch # w.epoch => /\ r.base = n.ts /\ r.pending = TRUE
                              /\ r.segment = SaturatingAdd(w.last, SegmentGap)
  <2>1. w \in Writers /\ w.segment <= w.last
    BY <1>1, ViewerTypes
  <2>2. r = Rebase(w, n)
    BY <1>4
  <2> HIDE DEF w
  <2> QED  BY <2>1, <2>2, Rebased, Zenon
<1>6. /\ w \in Writers /\ w.epoch \in Epochs /\ w.segment \in Stamps /\ w.last \in Stamps
      /\ w.base \in Stamps /\ w.sets \in [Parameters -> Epochs] /\ w.pending \in BOOLEAN
      /\ w.segment <= w.last
      /\ r.base \in Stamps /\ r.segment \in Stamps /\ r.last \in Stamps
      /\ r.sets \in [Parameters -> Epochs] /\ r.pending \in BOOLEAN
      /\ n.epoch \in Epochs /\ n.ts \in Stamps /\ n.n \in 1..Len(Units) /\ n.type \in Types
  <2>1. n.epoch \in Epochs /\ n.ts \in Stamps /\ n.n \in 1..Len(Units) /\ n.type \in Types
    BY DEF Nals
  <2>2. /\ r.base \in Stamps /\ r.segment \in Stamps /\ r.last \in Stamps
        /\ r.sets \in [Parameters -> Epochs] /\ r.pending \in BOOLEAN
    BY DEF Writers
  <2> QED  BY <1>1, <2>1, <2>2, ViewerTypes
<1>7. Handler(v) /\ NotAgain(v) /\ HeaderFits(v) /\ Segment(v) /\ OnTime(v)
  BY <1>1, <1>2 DEF Viewer, Writing
<1>8. /\ header[v] # None /\ header[v] \in Headers /\ header[v].epoch \in Epochs
      /\ tag[v] # None /\ tag[v] \in Tags /\ tag[v].epoch \in Epochs /\ tag[v].ms \in Stamps
      /\ got[v] \subseteq Parameters \X Epochs
  <2>1. header[v] # None /\ tag[v] # None
    BY <1>2, <1>7 DEF Handler, Writing
  <2> QED  BY <1>1, <2>1, ViewerTypes
<1>9. /\ chan[v] \in Seq(Nals) /\ Len(chan[v]) \in Nat /\ Len(chan[v]) >= 1
      /\ chan'[v] \in Seq(Nals) /\ Len(chan'[v]) = Len(chan[v]) - 1
      /\ \A i \in 1..Len(chan'[v]) : i + 1 \in 1..Len(chan[v]) /\ chan'[v][i] = chan[v][i + 1]
      /\ \A u \in Viewers \ {v} : chan'[u] = chan[u]
  BY <1>1, <1>2 DEF TypeOK
<1>10. /\ \A x \in Epochs : x \in Nat
       /\ \A x \in Stamps : x \in Nat
       /\ epoch \in Nat /\ pos \in Nat /\ SegmentGap \in Nat /\ 0 \in Nat
  BY <1>1, Constants, Numbers
<1>a. /\ tag[v].ms \in Nat /\ w.last \in Nat /\ w.segment \in Nat /\ ms \in Nat
      /\ r.last \in Nat /\ r.segment \in Nat /\ r.base \in Nat /\ n.ts \in Nat
      /\ w.epoch \in Nat /\ n.epoch \in Nat /\ header[v].epoch \in Nat /\ tag[v].epoch \in Nat
  BY <1>6, <1>8, <1>10
<1>11. Sent(n) /\ w.epoch <= n.epoch /\ n.epoch <= epoch /\ 1 \in 1..Len(chan[v])
  <2>1. 1 \in 1..Len(chan[v])
    BY <1>9
  <2>2. Sent(n) /\ w.epoch <= n.epoch
    BY <1>4, <1>7, <2>1 DEF NotAgain, Segment
  <2> QED  BY <1>6, <1>10, <2>1, <2>2 DEF Sent, Past
<1> USE DEF SendHeader
<1>12. TypeOK'
  <2>1. chan' \in [Viewers -> Seq(Nals)] /\ \A u \in Viewers : Len(chan'[u]) <= Depth
    <3>1. Len(chan'[v]) <= Depth
      BY <1>1, <1>9, StreamAssumption DEF TypeOK
    <3> QED  BY <1>1, <1>2, <1>9, <3>1 DEF TypeOK
  <2>2. header' \in [Viewers -> Headers \cup {None}]
    <3>1. header'[v] \in Headers
      <4>1. [epoch |-> n.epoch, sets |-> r.sets] \in Headers
        BY <1>6 DEF Headers
      <4> QED  BY <1>4, <1>8, <4>1
    <3>2. header' = [header EXCEPT ![v] = header'[v]]
      BY <1>4
    <3> QED  BY <1>1, <3>1, <3>2 DEF TypeOK
  <2>3. tag' \in [Viewers -> Tags \cup {None}]
    <3>1. tag'[v] \in Tags
      <4>1. CASE parameter
        BY <1>4, <1>8, <4>1
      <4>2. CASE ~parameter
        BY <1>4, <1>6, <4>2 DEF Tags
      <4> QED  BY <4>1, <4>2
    <3>2. tag' = [tag EXCEPT ![v] = tag'[v]]
      BY <1>4
    <3> QED  BY <1>1, <3>1, <3>2 DEF TypeOK
  <2>4. got' \in [Viewers -> SUBSET (Parameters \X Epochs)]
    <3>1. got'[v] \in SUBSET (Parameters \X Epochs)
      BY <1>4, <1>6, <1>8
    <3>2. got' = [got EXCEPT ![v] = got'[v]]
      BY <1>4
    <3> QED  BY <1>1, <3>1, <3>2 DEF TypeOK
  <2>5. \A u \in Viewers : writer'[u].segment <= writer'[u].last
    <3>1. writer'[v].segment <= writer'[v].last
      BY <1>4, <1>5, <1>6, <1>10
    <3>2. \A u \in Viewers \ {v} : writer'[u].segment <= writer'[u].last
      BY <1>1, <1>4 DEF TypeOK
    <3> QED  BY <3>1, <3>2
  <2> QED  BY <1>1, <1>2, <1>w, <1>4, <2>1, <2>2, <2>3, <2>4, <2>5 DEF TypeOK
<1>13. Buffer'
  <2>1. \A t \in {"sps", "pps", "idr"} : seeds'[t] # None => seeds'[t].type = t /\ Sent(seeds[t])'
    BY <1>1, <1>2 DEF Buffer, Sent, Past, Ts
  <2>2. flight' # None => Sent(flight)'
    BY <1>1, <1>2 DEF Buffer, Sent, Past, Ts
  <2>3. /\ \A u \in consumers' : pc'[u] \in {"loop", "write"}
        /\ \A u \in senders' : pc'[u] \in {"loop", "write", "stop", "done"}
    BY <1>1, <1>2, <1>w DEF Buffer, TypeOK
  <2> QED  BY <1>1, <1>2, <2>1, <2>2, <2>3 DEF Buffer
<1>14. header'[v] # None /\ tag'[v] # None
  <2>1. header'[v] # None
    <3>1. [epoch |-> n.epoch, sets |-> r.sets] \in Headers
      BY <1>6 DEF Headers
    <3> QED  BY <1>4, <1>8, <3>1, StreamAssumption
  <2>2. tag'[v] # None
    <3>1. CASE parameter
      BY <1>4, <1>8, <3>1
    <3>2. CASE ~parameter
      <4>1. [type |-> n.type, epoch |-> n.epoch, ms |-> ms] \in Tags
        BY <1>6, <3>2 DEF Tags
      <4> QED  BY <1>4, <3>2, <4>1, StreamAssumption
    <3> QED  BY <3>1, <3>2
  <2> QED  BY <2>1, <2>2
<1>15. Handler(v)' /\ Writing(v)'
  BY <1>w, <1>14 DEF Handler, Writing
<1>16. NotAgain(v)'
  <2>1. first[v] # None => Sent(first[v])'
    BY <1>2, <1>7 DEF NotAgain, Sent, Past, Ts
  <2>2. \A i \in 1..Len(chan'[v]) : Sent(chan[v][i])' /\ (~late' => chan'[v][i] # first'[v])
    BY <1>2, <1>7, <1>9 DEF NotAgain, Sent, Past, Ts
  <2> QED  BY <1>2, <2>1, <2>2 DEF NotAgain
<1>17. header'[v].epoch = IF due THEN n.epoch ELSE header[v].epoch
  BY <1>4
<1>18. tag'[v].epoch = (IF parameter THEN tag[v].epoch ELSE n.epoch) /\ (parameter => tag'[v] = tag[v])
  BY <1>4
<1>19. due => ~parameter /\ n.type = "idr" /\ r.pending
  BY DEF Parameters
<1>20. HeaderFits(v)'
  <2>1. tag'[v].type = "idr" => header'[v].epoch = tag'[v].epoch
    <3>1. CASE parameter
      BY <1>4, <1>7, <1>8, <1>14, <1>19, <3>1 DEF HeaderFits
    <3>2. CASE ~parameter /\ n.type = "idr" /\ r.pending
      BY <1>17, <1>18, <3>2
    <3>3. CASE ~parameter /\ n.type = "idr" /\ ~r.pending
      <4>1. n.epoch = w.epoch /\ r = w
        BY <1>5, <3>3
      <4>2. header[v].epoch = w.epoch
        BY <1>7, <3>3, <4>1 DEF Segment
      <4> QED  BY <1>17, <1>18, <3>3, <4>1, <4>2
    <3>4. CASE ~parameter /\ n.type # "idr"
      BY <1>4, <3>4
    <3> QED  BY <1>6, <3>1, <3>2, <3>3, <3>4
  <2>2. ASSUME NEW t \in Parameters, <<t, header'[v].epoch>> \in got'[v]
        PROVE  header'[v].sets[t] = header'[v].epoch
    <3>1. CASE due
      <4>1. header'[v].epoch = n.epoch /\ header'[v].sets = w.sets /\ got'[v] = got[v]
        BY <1>4, <1>5, <1>19, <3>1
      <4>2. n.epoch = w.epoch
        BY <1>6, <1>7, <1>10, <1>11, <2>2, <4>1 DEF Segment
      <4>3. w.pending
        BY <1>5, <1>19, <3>1, <4>2
      <4> QED  BY <1>7, <2>2, <4>1, <4>2, <4>3 DEF Segment
    <3>2. CASE ~due
      <4>1. header'[v] = header[v]
        BY <1>4, <3>2
      <4>2. <<t, header[v].epoch>> \in got[v]
        BY <1>4, <2>2, <4>1
      <4> QED  BY <1>7, <1>8, <4>1, <4>2 DEF HeaderFits
    <3> QED  BY <3>1, <3>2
  <2> QED  BY <2>1, <2>2 DEF HeaderFits
<1>21. Segment(v)'
  <2>1. writer'[v].epoch = n.epoch /\ n.epoch <= epoch'
    BY <1>2, <1>4, <1>5, <1>11
  <2>2. header'[v].epoch <= n.epoch /\ tag'[v].epoch <= n.epoch
    <3>1. header[v].epoch <= w.epoch /\ tag[v].epoch <= w.epoch
      BY <1>7 DEF Segment
    <3>2. header'[v].epoch \in {n.epoch, header[v].epoch} /\ tag'[v].epoch \in {n.epoch, tag[v].epoch}
      BY <1>17, <1>18
    <3>3. n.epoch \in Nat /\ w.epoch \in Nat /\ header[v].epoch \in Nat /\ tag[v].epoch \in Nat
      BY <1>6, <1>8, <1>10
    <3> QED  BY <1>11, <3>1, <3>2, <3>3
  <2>3. writer'[v].pending <=> header'[v].epoch # n.epoch
    <3>1. CASE due
      BY <1>4, <1>17, <3>1
    <3>2. CASE ~due /\ n.epoch = w.epoch
      <4>1. writer'[v].pending = w.pending /\ header'[v].epoch = header[v].epoch
        BY <1>4, <1>5, <1>17, <3>2
      <4>2. w.pending <=> header[v].epoch # w.epoch
        BY <1>7 DEF Segment
      <4> QED  BY <3>2, <4>1, <4>2, Zenon
    <3>3. CASE ~due /\ n.epoch # w.epoch
      <4>1. writer'[v].pending = TRUE /\ header'[v].epoch = header[v].epoch
        BY <1>4, <1>5, <1>17, <3>3
      <4>2. header[v].epoch <= w.epoch
        BY <1>7 DEF Segment
      <4>3. header[v].epoch # n.epoch
        BY <1>a, <1>11, <3>3, <4>2
      <4> QED  BY <4>1, <4>3
    <3> QED  BY <3>1, <3>2, <3>3
  <2>4. ASSUME NEW t \in Parameters, NEW e \in Epochs, <<t, e>> \in got'[v]  PROVE e <= n.epoch
    <3>1. CASE <<t, e>> \in got[v]
      <4>1. e <= w.epoch
        BY <1>7, <3>1 DEF Segment
      <4> QED  BY <1>6, <1>10, <1>11, <4>1
    <3>2. CASE <<t, e>> = <<n.type, n.epoch>>
      BY <1>6, <1>10, <3>2
    <3> QED  BY <1>4, <2>4, <3>1, <3>2
  <2>5. ASSUME writer'[v].pending, NEW t \in Parameters, <<t, n.epoch>> \in got'[v]
        PROVE  writer'[v].sets[t] = n.epoch
    <3>1. ~due /\ r.pending
      BY <1>4, <2>5
    <3>2. CASE parameter /\ t = n.type
      BY <1>4, <1>6, <3>2
    <3>3. CASE ~(parameter /\ t = n.type)
      <4>1. <<t, n.epoch>> \in got[v]
        BY <1>4, <2>5, <3>3
      <4>2. n.epoch = w.epoch
        BY <1>6, <1>7, <1>10, <1>11, <4>1 DEF Segment
      <4>3. w.pending
        BY <1>5, <3>1, <4>2
      <4>4. w.sets[t] = n.epoch
        BY <1>7, <4>1, <4>2, <4>3 DEF Segment
      <4>5. writer'[v].sets[t] = r.sets[t]
        BY <1>4, <1>6, <3>3
      <4> QED  BY <1>5, <4>4, <4>5
    <3> QED  BY <3>2, <3>3
  <2>6. ASSUME NEW i \in 1..Len(chan'[v])
        PROVE  /\ n.epoch <= chan'[v][i].epoch
               /\ \A j \in i..Len(chan'[v]) : chan'[v][i].epoch <= chan'[v][j].epoch
    <3>1. i + 1 \in 1..Len(chan[v]) /\ i + 1 \in 1..Len(chan[v])
      BY <1>9
    <3>2. n.epoch <= chan[v][i + 1].epoch
      BY <1>4, <1>7, <1>11, <3>1 DEF Segment
    <3>3. ASSUME NEW j \in i..Len(chan'[v])  PROVE chan'[v][i].epoch <= chan'[v][j].epoch
      <4>1. j \in 1..Len(chan'[v]) /\ j + 1 \in i + 1..Len(chan[v])
        BY <1>9
      <4>2. chan[v][i + 1].epoch <= chan[v][j + 1].epoch
        BY <1>7, <3>1, <4>1 DEF Segment
      <4> QED  BY <1>9, <4>1, <4>2
    <3> QED  BY <1>9, <3>2, <3>3
  <2> QED  BY <2>1, <2>2, <2>3, <2>4, <2>5, <2>6 DEF Segment
<1> DEFINE gap == SaturatingAdd(tag[v].ms, SegmentGap)
           later == SaturatingAdd(w.last, SegmentGap)
<1>22. /\ tag[v].ms <= w.last
       /\ gap \in Stamps /\ tag[v].ms <= gap /\ later \in Stamps /\ gap <= later
       /\ tag[v].epoch # w.epoch => gap <= w.segment
  <2>1. tag[v].ms <= w.last /\ (tag[v].epoch # w.epoch => gap <= w.segment)
    BY <1>7 DEF OnTime
  <2>2. gap \in Stamps /\ tag[v].ms <= gap /\ later \in Stamps
    BY <1>6, <1>8, <1>10, Saturates
  <2>3. SegmentGap <= SegmentGap
    BY <1>10
  <2>4. gap <= later
    BY <1>6, <1>8, <1>10, <2>1, <2>3, SaturatesInOrder
  <2> QED  BY <2>1, <2>2, <2>4
<1> HIDE DEF gap, later
<1>23. r.segment <= ms
  <2>1. TsMod \in Nat \ {0} /\ TicksPerMs \in Nat \ {0}
    BY Constants
  <2> DEFINE d == n.ts - r.base
             q == d % TsMod
  <2>2. d \in Int
    BY <1>a
  <2>3. q \in Nat
    <3> HIDE DEF d
    <3> QED  BY <2>1, <2>2
  <2>4. q \div TicksPerMs \in Nat
    <3> HIDE DEF q
    <3>1. q <= q
      BY <2>3
    <3> QED  BY <2>1, <2>3, <3>1, DivOrder
  <2>5. ms = SaturatingAdd(r.segment, q \div TicksPerMs)
    BY <1>4 DEF RelativeFlvTimestamp
  <2> HIDE DEF q
  <2> QED  BY <1>6, <2>4, <2>5, Saturates
<1>24. n.epoch # w.epoch => r.segment = later
  BY <1>5 DEF later
\* The unit in terms of the segment's first unit b.
<1>25. ASSUME ~late
       PROVE  \E b \in 1..Len(Units) :
                 /\ n.n \in b..Len(Units) /\ r.base = Ts(n.epoch, b) /\ ms = TimeAt(r, b, n.n)
                 /\ tag[v].epoch = n.epoch => tag[v].ms <= TimeAt(r, b, n.n)
  <2>1. n.epoch \in 0..epoch /\ n.ts = Ts(n.epoch, n.n)
    BY <1>6, <1>10, <1>11 DEF Sent
  <2>2. ASSUME NEW b \in 1..Len(Units), n.n \in b..Len(Units), r.base = Ts(n.epoch, b)
        PROVE  ms = TimeAt(r, b, n.n)
    <3>1. (n.ts - r.base) % TsMod = Units[n.n].at - Units[b].at
      BY <1>1, <2>1, <2>2, TsDistance
    <3> QED  BY <1>4, <3>1, Zenon DEF RelativeFlvTimestamp, TimeAt
  <2>3. CASE n.epoch # w.epoch
    <3>1. n.n \in n.n..Len(Units) /\ r.base = Ts(n.epoch, n.n)
      BY <1>5, <1>6, <2>1, <2>3, Constants
    <3>2. tag[v].epoch # n.epoch
      <4>1. tag[v].epoch <= w.epoch
        BY <1>7 DEF Segment
      <4> QED  BY <1>a, <1>11, <2>3, <4>1
    <3>3. ms = TimeAt(r, n.n, n.n)
      BY <1>6, <2>2, <3>1
    <3> QED  BY <1>6, <3>1, <3>2, <3>3
  <2>4. CASE n.epoch = w.epoch
    <3>1. PICK b \in 1..Len(Units) : \E t \in b..Len(Units) : Clock(v, b, t)
      BY <1>7, <1>25 DEF OnTime
    <3>2. PICK t \in b..Len(Units) : Clock(v, b, t)
      BY <3>1
    <3>3. NotAfter(w.epoch, t, n) /\ w.base = Ts(w.epoch, b)
      BY <1>4, <1>11, <3>2 DEF Clock
    <3>4. t <= n.n /\ b <= t /\ n.n \in b..Len(Units) /\ n.n \in t..Len(Units) /\ t \in 1..Len(Units)
      <4>1. Len(Units) \in Nat /\ n.epoch \in Nat /\ w.epoch = n.epoch
        BY <1>a, <2>4, Constants
      <4>2. t <= n.n
        BY <3>3, <4>1 DEF NotAfter
      <4> QED  BY <1>6, <4>1, <4>2
    <3>5. r = w /\ r.base = Ts(n.epoch, b)
      BY <1>5, <2>4, <3>3
    <3>6. ms = TimeAt(r, b, n.n)
      BY <2>2, <3>4, <3>5
    <3>7. tag[v].epoch = n.epoch => tag[v].ms <= TimeAt(w, b, t)
      BY <2>4, <3>2 DEF Clock
    <3>8. TimeAt(w, b, t) <= TimeAt(w, b, n.n) /\ TimeAt(w, b, t) \in Stamps /\ TimeAt(w, b, n.n) \in Stamps
      <4> DEFINE x == Units[t].at - Units[b].at
                 y == Units[n.n].at - Units[b].at
      <4>1. TicksPerMs \in Nat \ {0}
        BY StreamAssumption
      <4>2. x \in Nat /\ y \in Nat /\ x <= y
        <5>1. Units[b].at \in Nat /\ Units[t].at \in Nat /\ Units[b].at <= Units[t].at
          BY UnitFacts
        <5>2. Units[n.n].at \in Nat /\ Units[t].at <= Units[n.n].at
          BY <3>4, UnitFacts
        <5> QED  BY <5>1, <5>2
      <4> HIDE DEF x, y
      <4>3. /\ x \div TicksPerMs \in Nat /\ y \div TicksPerMs \in Nat
            /\ x \div TicksPerMs <= y \div TicksPerMs
        BY <4>1, <4>2, DivOrder
      <4>4. w.segment <= w.segment
        BY <1>6, <1>10
      <4>5. /\ SaturatingAdd(w.segment, x \div TicksPerMs) \in Stamps
            /\ SaturatingAdd(w.segment, y \div TicksPerMs) \in Stamps
            /\ SaturatingAdd(w.segment, x \div TicksPerMs) <= SaturatingAdd(w.segment, y \div TicksPerMs)
        BY <1>6, <4>3, <4>4, Saturates, SaturatesInOrder
      <4> QED  BY <4>5 DEF TimeAt, x, y
    <3>9. tag[v].epoch = n.epoch => tag[v].ms <= TimeAt(w, b, n.n)
      BY <1>8, <1>10, <3>7, <3>8
    <3> QED  BY <3>4, <3>5, <3>6, <3>9
  <2> QED  BY <2>3, <2>4
<1>26. InTime(v)
  <2> SUFFICES ASSUME ~late, tag[v] # tag'[v]
               PROVE  /\ tag'[v].ms >= tag[v].ms
                      /\ tag'[v].epoch # tag[v].epoch => tag'[v].ms >= gap
    BY DEF InTime, gap
  <2>1. ~parameter /\ tag'[v].ms = ms /\ tag'[v].epoch = n.epoch
    BY <1>4
  <2>2. ms \in Nat /\ tag[v].ms \in Nat /\ gap \in Nat /\ w.segment \in Nat /\ later \in Nat
        /\ r.segment \in Nat
    BY <1>6, <1>8, <1>10, <1>22
  <2>3. CASE tag[v].epoch = n.epoch
    BY <1>25, <2>1, <2>3
  <2>4. CASE tag[v].epoch # n.epoch /\ n.epoch = w.epoch
    BY <1>5, <1>22, <1>23, <2>1, <2>2, <2>4
  <2>5. CASE n.epoch # w.epoch
    BY <1>22, <1>23, <1>24, <2>1, <2>2, <2>5
  <2> QED  BY <2>3, <2>4, <2>5
<1>27. OnTime(v)'
  <2>1. tag'[v].ms <= writer'[v].last
    <3>1. CASE parameter
      <4>1. tag'[v] = tag[v] /\ writer'[v].last = r.last
        BY <1>4, <3>1
      <4>2. tag[v].ms <= w.last /\ w.last <= r.last
        BY <1>5, <1>22
      <4>3. tag[v].ms <= r.last
        <5> HIDE DEF w
        <5> QED  BY <1>a, <4>2
      <4> QED  BY <4>1, <4>3
    <3>2. CASE ~parameter
      <4>1. tag'[v].ms = ms /\ writer'[v].last = IF ms > r.last THEN ms ELSE r.last
        BY <1>4, <3>2
      <4> QED  BY <1>6, <1>10, <4>1
    <3> QED  BY <3>1, <3>2
  <2>2. tag'[v].epoch # writer'[v].epoch => SaturatingAdd(tag'[v].ms, SegmentGap) <= writer'[v].segment
    <3> SUFFICES ASSUME tag'[v].epoch # n.epoch
                 PROVE  SaturatingAdd(tag'[v].ms, SegmentGap) <= r.segment
      BY <1>4, <1>5
    <3>1. parameter /\ tag'[v] = tag[v]
      BY <1>18
    <3>2. gap <= r.segment
      <4>1. CASE n.epoch = w.epoch
        BY <1>5, <1>22, <3>1, <4>1
      <4>2. CASE n.epoch # w.epoch
        BY <1>22, <1>24, <4>2
      <4> QED  BY <4>1, <4>2
    <3> QED  BY <3>1, <3>2 DEF gap
  <2>3. ASSUME ~late'
        PROVE  \E b \in 1..Len(Units) : \E t \in b..Len(Units) : Clock(v, b, t)'
    <3>1. PICK b \in 1..Len(Units) :
                 /\ n.n \in b..Len(Units) /\ r.base = Ts(n.epoch, b) /\ ms = TimeAt(r, b, n.n)
                 /\ tag[v].epoch = n.epoch => tag[v].ms <= TimeAt(r, b, n.n)
      BY <1>2, <1>25, <2>3
    <3>2. Past(n.epoch, n.n)
      BY <1>11 DEF Sent
    <3>3. Past(writer[v].epoch, n.n)' /\ writer'[v].base = Ts(writer[v].epoch, b)'
      BY <1>2, <1>4, <1>5, <3>1, <3>2 DEF Past, Ts
    <3>4. \A i \in 1..Len(chan'[v]) : NotAfter(n.epoch, n.n, chan'[v][i])
      <4> SUFFICES ASSUME NEW i \in 1..Len(chan'[v])
                   PROVE  NotAfter(n.epoch, n.n, chan'[v][i])
        OBVIOUS
      <4>1. i + 1 \in 1..Len(chan[v])
        BY <1>9
      <4>2. NotAfter(chan[v][1].epoch, chan[v][1].n, chan[v][i + 1])
        BY <1>2, <1>7, <1>11, <2>3, <4>1 DEF OnTime
      <4> QED  BY <1>4, <1>9, <4>2
    <3>5. tag'[v].epoch = n.epoch => tag'[v].ms <= TimeAt(r, b, n.n)
      <4>1. CASE parameter
        BY <1>18, <3>1, <4>1
      <4>2. CASE ~parameter
        <5>1. tag'[v].ms = ms
          BY <1>4, <4>2
        <5> QED  BY <1>10, <3>1, <5>1
      <4> QED  BY <4>1, <4>2
    <3>6. TimeAt(writer'[v], b, n.n) = TimeAt(r, b, n.n)
      <4>1. writer'[v].segment = r.segment
        BY <1>4
      <4> QED  BY <4>1 DEF TimeAt
    <3>7. Clock(v, b, n.n)'
      <4>1. writer'[v].epoch = n.epoch /\ writer'[v].base = r.base
        BY <1>4, <1>5
      <4> QED  BY <3>3, <3>4, <3>5, <3>6, <4>1 DEF Clock, NotAfter, TimeAt, SaturatingAdd
    <3> QED  BY <3>1, <3>7
  <2>4. ASSUME ~late', NEW i \in 1..Len(chan'[v]), NEW j \in i..Len(chan'[v])
        PROVE  NotAfter(chan'[v][i].epoch, chan'[v][i].n, chan'[v][j])
    <3>1. i + 1 \in 1..Len(chan[v]) /\ j + 1 \in i + 1..Len(chan[v]) /\ j \in 1..Len(chan'[v])
      BY <1>9
    <3>2. NotAfter(chan[v][i + 1].epoch, chan[v][i + 1].n, chan[v][j + 1])
      BY <1>2, <1>7, <2>4, <3>1 DEF OnTime
    <3> QED  BY <1>9, <3>1, <3>2
  <2> QED  BY <2>1, <2>2, <2>3, <2>4 DEF OnTime, NotAfter, SaturatingAdd
<1>28. ASSUME NEW u \in Viewers  PROVE Viewer(u)'
  <2>1. CASE u = v
    BY <1>15, <1>16, <1>20, <1>21, <1>27, <2>1 DEF Viewer
  <2>2. CASE u # v
    BY <1>2, <1>w, <1>3, <1>4, <1>9, <2>2, Bystander DEF Walks
  <2> QED  BY <2>1, <2>2
<1> QED  BY <1>4, <1>12, <1>13, <1>26, <1>28 DEF IInv

LEMMA NextKeeps ==
    ASSUME IInv, [Next]_vars
    PROVE  IInv' /\ \A v \in Viewers : InTime(v)
<1>1. TypeOK
  BY DEF IInv
<1>2. CASE ReceiveUnit \/ LoseUnit \/ RepeatUnit \/ SwitchStream
  <2>1. tag' = tag
    BY <1>2 DEF ReceiveUnit, LoseUnit, RepeatUnit, SwitchStream, Push, view
  <2> QED  BY <1>2, <2>1, SourceKeeps DEF InTime
<1>3. CASE FanOut
  <2>1. tag' = tag
    BY <1>3 DEF FanOut, view
  <2> QED  BY <1>3, <2>1, FanOutKeeps DEF InTime
<1>4. ASSUME NEW v \in Viewers,
             \/ WaitIdr(v) \/ CheckClosed(v) \/ Gate(v) \/ Subscribe(v) \/ StopById(v)
             \/ WriteReturns(v) \/ FinPeek(v)
      PROVE  IInv' /\ \A u \in Viewers : InTime(u)
  <2>1. tag' = tag
    BY <1>4 DEF WaitIdr, CheckClosed, Gate, Subscribe, StopById, WriteReturns, FinPeek, view
  <2> QED  BY <1>4, <2>1, HandlerKeeps DEF InTime
<1>5. ASSUME NEW v \in Viewers, Prime(v)
      PROVE  IInv' /\ \A u \in Viewers : InTime(u)
  <2>1. tag[v] = None
    BY <1>5 DEF IInv, Viewer, Handler, Prime
  <2>2. \A u \in Viewers \ {v} : tag'[u] = tag[u]
    BY <1>1, <1>5 DEF Prime, view, TypeOK
  <2> QED  BY <1>5, <2>1, <2>2, PrimeKeeps DEF InTime
<1>6. ASSUME NEW v \in Viewers, Receive(v)
      PROVE  IInv' /\ \A u \in Viewers : InTime(u)
  <2>1. IInv' /\ InTime(v) /\ \A u \in Viewers \ {v} : tag'[u] = tag[u]
    BY <1>6, ReceiveKeeps
  <2> QED  BY <2>1 DEF InTime
<1>7. ASSUME NEW v \in Viewers, Disconnected(v) \/ WriteFails(v)
      PROVE  IInv' /\ \A u \in Viewers : InTime(u)
  <2>1. LeaveRun(v) /\ pc[v] \in {"run", "seed", "loop", "write"}
    BY <1>7 DEF Disconnected, WriteFails
  <2>2. tag' = tag
    BY <2>1 DEF LeaveRun, view
  <2> QED  BY <2>1, <2>2, LeaveKeeps DEF InTime
<1>8. CASE Close
  <2>1. tag' = tag
    BY <1>8 DEF Close, view
  <2>2. IInv'
    <3>1. CASE Viewers = {}
      <4>1. UNCHANGED <<source, flight, senders, seeds, chan, writer, view, pc, reply>>
        BY <1>8 DEF Close
      <4>2. TypeOK'
        BY <1>1, <1>8, <4>1 DEF TypeOK, Close, CloseBuffer, source, view
      <4> QED  BY <1>1, <3>1, <4>1, <4>2, WalkKeeps DEF TypeOK
    <3>2. CASE Viewers # {}
      <4>1. PICK v \in Viewers : TRUE
        BY <3>2
      <4> QED  BY <1>8, <4>1, HandlerKeeps
    <3> QED  BY <3>1, <3>2
  <2> QED  BY <2>1, <2>2 DEF InTime
<1>9. CASE UNCHANGED vars
  <2>1. TypeOK'
    BY <1>1, <1>9 DEF vars, TypeOK
  <2>2. UNCHANGED <<source, flight, senders, seeds, chan, writer, view>>
    BY <1>9 DEF vars, source, view
  <2>3. pc' = pc /\ consumers' = consumers /\ tag' = tag
    BY <1>9 DEF vars
  <2>4. \A v \in consumers' : pc'[v] \in {"loop", "write"}
    BY <2>3 DEF IInv, Buffer
  <2> QED  BY <2>1, <2>2, <2>3, <2>4, WalkKeeps DEF Walks, InTime
<1> QED
  BY <1>2, <1>3, <1>4, <1>5, <1>6, <1>7, <1>8, <1>9 DEF Next, Step, Over

LEMMA Invariance == Spec => []IInv
<1>1. IInv /\ [Next]_vars => IInv'
  BY NextKeeps
<1> QED  BY <1>1, Start, PTL DEF Spec

-----------------------------------------------------------------------------
(* Results.                                                                *)

\* The channels stay within CONSUMER_CHAN_DEPTH, the 32-bit times in their range.
THEOREM TypeCorrect == Spec => []TypeOK
<1>1. IInv => TypeOK
  BY DEF IInv
<1> QED  BY <1>1, Invariance, PTL

\* Every picture of every viewer comes under a header of its own stream, which
\* holds the parameter sets the writer was given, however streams follow each other.
THEOREM HeadersFit == Spec => []SegmentHeader
<1>1. IInv => SegmentHeader
  BY DEF IInv, Viewer, HeaderFits, SegmentHeader
<1> QED  BY <1>1, Invariance, PTL

\* The seed that run has written is never delivered again by the subscription it
\* makes afterwards, although a push may be half way through its list of senders.
THEOREM SeedsOnce == Spec => []SeedOnce
<1>1. IInv => SeedOnce
  BY DEF IInv, Viewer, NotAgain, Buffer, SeedOnce
<1> QED  BY <1>1, Invariance, PTL

\* No step of anyone moves a viewer's FLV time back, and a change of the stream moves
\* it on by SEGMENT_GAP_MS, also where the RTP timestamps wrap or the sum saturates.
THEOREM TimeGoesOn == Spec => TimeMovesOn
<1>1. IInv /\ [Next]_vars =>
          [\A v \in Viewers :
              LET old == tag[v]
                  new == tag'[v]
              IN  ~late /\ old \notin {None, new} =>
                      /\ new.ms >= old.ms
                      /\ new.epoch # old.epoch => new.ms >= SaturatingAdd(old.ms, SegmentGap)]_vars
  BY NextKeeps DEF InTime
<1> QED  BY <1>1, Invariance, PTL DEF Spec, TimeMovesOn
=============================================================================
