--------------------------- MODULE RFDevices_proofs ---------------------------
(****************************************************************************)
(* Proofs about the processes of the radio simulation, for any boards, any  *)
(* number of processes and starts, and queues of any length.                *)
(****************************************************************************)
EXTENDS RFDevices, FiniteSetTheorems, SequenceTheorems, TLAPS

-----------------------------------------------------------------------------
(* There is always a queue number to spare.                                  *)

\* The values of a function on a finite set are no more than its arguments.
LEMMA ImageSize ==
  ASSUME NEW S, IsFiniteSet(S), NEW f
  PROVE  IsFiniteSet({f[x] : x \in S}) /\ Cardinality({f[x] : x \in S}) <= Cardinality(S)
<1> DEFINE T == {f[x] : x \in S}
<1> DEFINE g == [x \in S |-> f[x]]
<1>1. g \in Surjection(S, T)
  BY DEF Surjection
<1>2. QED
  BY <1>1, FS_Surjection

\* The size of a union.
LEMMA UnionSize ==
  ASSUME NEW S, NEW T, IsFiniteSet(S), IsFiniteSet(T),
         NEW a \in Nat, NEW b \in Nat, Cardinality(S) <= a, Cardinality(T) <= b
  PROVE  /\ IsFiniteSet(S \cup T) /\ Cardinality(S \cup T) \in Nat
         /\ Cardinality(S \cup T) <= a + b
<1>1. PICK c, d, e, u : /\ c = Cardinality(S) /\ d = Cardinality(T)
                        /\ e = Cardinality(S \cap T) /\ u = Cardinality(S \cup T)
  OBVIOUS
<1>2. IsFiniteSet(S \cap T)
  BY FS_Intersection
<1>3. c \in Nat /\ d \in Nat /\ e \in Nat
  BY <1>1, <1>2, FS_CardinalityType
<1>4. IsFiniteSet(S \cup T) /\ u = c + d - e
  BY <1>1, FS_Union
<1>5. u \in Nat
  BY <1>1, <1>4, FS_CardinalityType
<1>6. u <= a + b
  BY <1>1, <1>3, <1>4
<1>7. QED
  BY <1>1, <1>4, <1>5, <1>6

LEMMA PairSize ==
  ASSUME NEW x, NEW y
  PROVE  IsFiniteSet({x, y}) /\ Cardinality({x, y}) <= 2
<1>1. IsFiniteSet({x}) /\ Cardinality({x}) = 1
  BY FS_Singleton, Zenon
<1>2. /\ IsFiniteSet({x} \cup {y})
      /\ Cardinality({x} \cup {y}) = IF y \in {x} THEN Cardinality({x}) ELSE Cardinality({x}) + 1
  BY <1>1, FS_AddElement
<1>3. {x} \cup {y} = {x, y}
  OBVIOUS
<1>4. QED
  BY <1>1, <1>2, <1>3

\* When a name stands for no queue, some number does not either.
LEMMA SpareNumber ==
  ASSUME RFAssumption, NEW name \in Names, names[name] = 0
  PROVE  Numbers \ InUse # {}
<1> DEFINE Tx == {mq_tx[p] : p \in Processes}
           Rx == {mq_rx[p] : p \in Processes}
           other == CHOOSE o \in Names : o # name
           n == Cardinality(Processes)
<1>1. n \in Nat
  BY RFAssumption, FS_CardinalityType
<1>2. IsFiniteSet(Tx) /\ Cardinality(Tx) \in Nat /\ Cardinality(Tx) <= n
  BY RFAssumption, ImageSize, FS_CardinalityType
<1>3. IsFiniteSet(Rx) /\ Cardinality(Rx) \in Nat /\ Cardinality(Rx) <= n
  BY RFAssumption, ImageSize, FS_CardinalityType
<1> HIDE DEF Tx, Rx
<1> DEFINE U == Tx \cup Rx
           V == U \cup {0, names[other]}
<1>4. IsFiniteSet(U) /\ Cardinality(U) <= n + n
  BY <1>1, <1>2, <1>3, UnionSize
<1>5. IsFiniteSet({0, names[other]}) /\ Cardinality({0, names[other]}) <= 2
  BY PairSize
<1>6. IsFiniteSet(V) /\ Cardinality(V) \in Nat /\ Cardinality(V) <= n + n + 2
  <2>1. n + n \in Nat
    BY <1>1
  <2>2. QED
    BY <1>4, <1>5, <2>1, UnionSize
<1>7. InUse \subseteq V
  <2>1. \A o \in Names : names[o] \in {0, names[other]}
    <3>1. \A o \in Names : o = name \/ o = other
      BY DEF Names
    <3>2. QED
      BY <3>1
  <2>2. QED
    BY <2>1 DEF InUse, Tx, Rx
<1>8. Cardinality(0 .. 2 + 2 * n) = 3 + 2 * n
  <2>1. 0 \in Int /\ 2 + 2 * n \in Int
    BY <1>1
  <2>2. QED
    BY <1>1, <2>1, FS_Interval
<1>9. ~(0 .. 2 + 2 * n \subseteq V)
  <2>1. SUFFICES ASSUME 0 .. 2 + 2 * n \subseteq V PROVE FALSE
    OBVIOUS
  <2>2. PICK W, c, d : W = V /\ c = Cardinality(W) /\ d = Cardinality(0 .. 2 + 2 * n)
    OBVIOUS
  <2>3. IsFiniteSet(W) /\ 0 .. 2 + 2 * n \in SUBSET W
    BY <1>6, <2>1, <2>2
  <2>4. d <= c
    BY <2>2, <2>3, FS_Subset
  <2>5. c \in Nat /\ c <= n + n + 2 /\ d = 3 + 2 * n
    BY <1>6, <1>8, <2>2
  <2> HIDE DEF n
  <2>6. QED
    BY <1>1, <2>4, <2>5
<1>10. PICK i \in 0 .. 2 + 2 * n : i \notin V
  BY <1>9
<1>11. i \in Numbers
  BY <1>1, <1>10 DEF Numbers
<1>12. QED
  BY <1>7, <1>10, <1>11

-----------------------------------------------------------------------------
(* Where a process is.                                                       *)

\* The calls that may be left of what a process does.
Left(p, m) ==
  CASE m = "starting" /\ p \in Nodes ->
         {Create, <<"unlink_c2s", "create_tx", "create_rx">>, <<"create_tx", "create_rx">>,
          <<"create_rx">>}
    [] m = "starting" /\ p \in Senders -> {Connect, <<"open_rx">>}
    [] m = "stopping" /\ p \in Nodes /\ Board[p] = "server" ->
         {Cleanup(p), <<"close_rx", "unlink_s2c", "unlink_c2s">>,
          <<"unlink_s2c", "unlink_c2s">>, <<"unlink_c2s">>}
    [] m = "stopping" /\ ~(p \in Nodes /\ Board[p] = "server") ->
         {Cleanup(p), <<"close_rx">>}
    [] OTHER -> {<< >>}

LEMMA CleanupIs ==
  ASSUME NEW p \in Processes
  PROVE  Cleanup(p) = IF p \in Nodes /\ Board[p] = "server"
                        THEN <<"close_tx", "close_rx", "unlink_s2c", "unlink_c2s">>
                        ELSE <<"close_tx", "close_rx">>
<1>1. \A a, b, c, d : <<a, b>> \o <<c, d>> = <<a, b, c, d>>
  <2>1. SUFFICES ASSUME NEW a, NEW b, NEW c, NEW d
                 PROVE  <<a, b>> \o <<c, d>> = <<a, b, c, d>>
    OBVIOUS
  <2>2. PICK r, s, t : r = <<a, b>> /\ s = <<c, d>> /\ t = r \o s
    OBVIOUS
  <2>3. r \in Seq({a, b, c, d}) /\ s \in Seq({a, b, c, d}) /\ Len(r) = 2 /\ Len(s) = 2
    BY <2>2
  <2>4. /\ t \in Seq({a, b, c, d}) /\ Len(t) = 4
        /\ t[1] = r[1] /\ t[2] = r[2] /\ t[3] = s[1] /\ t[4] = s[2]
    BY <2>2, <2>3
  <2>5. t = <<r[1], r[2], s[1], s[2]>>
    BY <2>4
  <2>6. QED
    BY <2>2, <2>5
<1>3. \A a, b : <<a, b>> \o << >> = <<a, b>>
  <2>1. SUFFICES ASSUME NEW a, NEW b PROVE <<a, b>> \o << >> = <<a, b>>
    OBVIOUS
  <2>2. <<a, b>> \in Seq({a, b})
    OBVIOUS
  <2>3. QED
    BY <2>2, ConcatEmptySeq
<1>2. QED
  BY <1>1, <1>3 DEF Cleanup

\* What follows each of them.
LEMMA CallsOf ==
  ASSUME NEW a, NEW b, NEW c, NEW d
  PROVE  /\ Head(<<a>>) = a /\ Tail(<<a>>) = << >> /\ Len(<<a>>) = 1 /\ <<a>> # << >>
         /\ Head(<<a, b>>) = a /\ Tail(<<a, b>>) = <<b>> /\ Len(<<a, b>>) = 2 /\ <<a, b>> # << >>
         /\ Head(<<a, b, c>>) = a /\ Tail(<<a, b, c>>) = <<b, c>> /\ Len(<<a, b, c>>) = 3
         /\ <<a, b, c>> # << >>
         /\ Head(<<a, b, c, d>>) = a /\ Tail(<<a, b, c, d>>) = <<b, c, d>>
         /\ Len(<<a, b, c, d>>) = 4 /\ <<a, b, c, d>> # << >>
OBVIOUS
\* What mode m and the calls s that are left say of the open queues of process p.
At(p, m, s, tx, rx) ==
  /\ s \in Left(p, m)
  /\ m \in {"off", "starting", "running", "stopping"}
  /\ m = "off" => tx = 0 /\ rx = 0
  /\ m = "starting" => rx = 0 /\ (tx = 0 <=> Len(s) # 1)
  /\ m = "running" => tx # 0 /\ rx # 0
  /\ m = "stopping" /\ s # Cleanup(p) => tx = 0 /\ (Head(s) # "close_rx" => rx = 0)

InOrder == \A p \in Processes : At(p, mode[p], todo[p], mq_tx[p], mq_rx[p])

-----------------------------------------------------------------------------
(* The invariant.                                                            *)

ProcessTypes ==
  /\ mode \in [Processes -> {"off", "starting", "running", "stopping"}]
  /\ todo \in [Processes -> Seq({"unlink_s2c", "unlink_c2s", "create_tx", "create_rx",
                                 "open_tx", "open_rx", "close_tx", "close_rx"})]
  /\ starts \in [Processes -> Nat] /\ count \in [Senders -> Nat]

QueueTypes ==
  /\ queues \in [Numbers -> Seq(Message)]
  /\ \A i \in Numbers : Len(queues[i]) <= MAX_MSG_COUNT
  /\ names \in [Names -> Numbers \cup {0}]
  /\ mq_tx \in [Processes -> Numbers \cup {0}] /\ mq_rx \in [Processes -> Numbers \cup {0}]

HistoryTypes ==
  /\ sent \in [Senders -> Nat] /\ got \in [Nodes -> Seq(Message)]
  /\ overrun \in [Nodes -> BOOLEAN] /\ before \in [Nodes -> SUBSET Message]
  /\ undisturbed \in [Nodes -> BOOLEAN] /\ partners \in [Senders -> SUBSET Nodes]

\* The types, and every process where it should be.
Base == ProcessTypes /\ QueueTypes /\ HistoryTypes /\ InOrder

\* The queues that a name stands for, now or when they were opened.
Used(name) ==
  {names[name]} \cup {mq_tx[p] : p \in {x \in Processes : TxName(x) = name}}
                \cup {mq_rx[p] : p \in {x \in Processes : RxName(x) = name}}

\* A queue has one direction, and the messages in it go that way.
OneWay ==
  /\ \A i \in Numbers : ~(i \in Used("server_to_client") /\ i \in Used("client_to_server"))
  /\ \A i \in Numbers : \A k \in DOMAIN queues[i] : \A name \in Names :
       TxName(queues[i][k].from) = name => i \in Used(name)

\* The messages of each sender in s are in the order they were sent.
Increasing(s) ==
  \A j, k \in DOMAIN s : j < k /\ s[j].from = s[k].from => s[j].number < s[k].number

\* The messages in s were sent after those of g.
Follow(g, s) ==
  \A j \in DOMAIN g : \A k \in DOMAIN s : g[j].from = s[k].from => g[j].number < s[k].number

\* The messages in s are among the first n[q] of each sender q.
Within(s, n) == \A k \in DOMAIN s : s[k].number <= n[s[k].from]

\* No message in s is one of b.
Free(s, b) == \A k \in DOMAIN s : s[k] \notin b

\* A node that starts has unlinked the name of the queue it will read.
Unlinked(p) ==
  /\ mode[p] = "starting" /\ todo[p] # << >>
  /\ \/ Head(todo[p]) \in {"create_tx", "create_rx"}
     \/ Head(todo[p]) = "unlink_c2s" /\ RxName(p) = "server_to_client"

Sequenced ==
  /\ \A i \in Numbers : Increasing(queues[i]) /\ Within(queues[i], sent)
  /\ \A p \in Nodes : Increasing(got[p]) /\ Within(got[p], sent)
  /\ \A p \in Nodes : mode[p] = "starting" => got[p] = << >>
  /\ \A p \in Nodes : mq_rx[p] # 0 => Follow(got[p], queues[mq_rx[p]])
  /\ \A p \in Nodes : \A k \in DOMAIN got[p] : Board[got[p][k].from] # Board[p]

\* What a node reads, and what it will open, holds nothing from before it was started.
Fresh ==
  /\ \A p \in Nodes : \A m \in before[p] : m.number <= sent[m.from]
  /\ \A p \in Nodes : Free(got[p], before[p])
  /\ \A p \in Nodes : mq_rx[p] # 0 => Free(queues[mq_rx[p]], before[p])
  /\ \A p \in Nodes : Unlinked(p) /\ names[RxName(p)] # 0 =>
                        Free(queues[names[RxName(p)]], before[p])

\* The names stand for the queues of a node that is undisturbed.
Quiet ==
  \A p \in Nodes : undisturbed[p] =>
    /\ mode[p] \in {"starting", "running"}
    /\ \A x \in Nodes \ {p} :
         mode[x] # "starting" /\ (mode[x] = "stopping" => Board[x] = "client")
    /\ mq_tx[p] # 0 => names[TxName(p)] = mq_tx[p]
    /\ mq_rx[p] # 0 => names[RxName(p)] = mq_rx[p]

\* A sender that was started while it was has, or will have, its queue.
Paired ==
  \A q \in Senders : \A p \in partners[q] :
    /\ Board[p] # Board[q] /\ mode[p] # "starting"
    /\ undisturbed[p] =>
         /\ mode[q] \in {"starting", "running"} /\ mq_tx[q] # 0 => mq_tx[q] = mq_rx[p]
         /\ mode[q] = "stopping" => count[q] = Repeat

Inv ==
  /\ Base /\ OneWay /\ Sequenced /\ Fresh /\ Quiet /\ Paired
  /\ OverrunAtTheEnd

-----------------------------------------------------------------------------
(* The calls, one after the other.                                           *)

\* The mode of a process after a call.
After(m, s) ==
  CASE Len(s) > 1 -> m
    [] Len(s) = 1 /\ m = "starting" -> "running"
    [] OTHER -> "off"

\* What is left before a call, and after it.
Goes(m, s, k, next) ==
  /\ Head(s) = k /\ Tail(s) = next /\ Len(s) = Len(next) + 1
  /\ After(m, s) = IF next # << >> THEN m ELSE IF m = "starting" THEN "running" ELSE "off"

LEMMA GoesIs ==
  \A m, s, a, b, c, d : /\ s = <<a>> => Goes(m, s, a, << >>)
                        /\ s = <<a, b>> => Goes(m, s, a, <<b>>)
                        /\ s = <<a, b, c>> => Goes(m, s, a, <<b, c>>)
                        /\ s = <<a, b, c, d>> => Goes(m, s, a, <<b, c, d>>)
<1>1. SUFFICES ASSUME NEW m, NEW s, NEW a, NEW b, NEW c, NEW d
               PROVE  /\ s = <<a>> => Goes(m, s, a, << >>)
                      /\ s = <<a, b>> => Goes(m, s, a, <<b>>)
                      /\ s = <<a, b, c>> => Goes(m, s, a, <<b, c>>)
                      /\ s = <<a, b, c, d>> => Goes(m, s, a, <<b, c, d>>)
  BY Zenon
<1>2. Len(<< >>) = 0
  OBVIOUS
<1>3. /\ Goes(m, <<a>>, a, << >>) /\ Goes(m, <<a, b>>, a, <<b>>)
      /\ Goes(m, <<a, b, c>>, a, <<b, c>>) /\ Goes(m, <<a, b, c, d>>, a, <<b, c, d>>)
  BY <1>2, CallsOf DEF Goes, After
<1>4. QED
  BY <1>3, Zenon

LEMMA CallBefore ==
  ASSUME RFAssumption, NEW p \in Processes, NEW m, NEW s \in Left(p, m), s # << >>
  PROVE
    \/ /\ p \in Nodes /\ m = "starting"
       /\ \/ Goes(m, s, "unlink_s2c", <<"unlink_c2s", "create_tx", "create_rx">>)
          \/ Goes(m, s, "unlink_c2s", <<"create_tx", "create_rx">>)
          \/ Goes(m, s, "create_tx", <<"create_rx">>)
          \/ Goes(m, s, "create_rx", << >>)
    \/ /\ p \in Senders /\ m = "starting"
       /\ \/ Goes(m, s, "open_tx", <<"open_rx">>)
          \/ Goes(m, s, "open_rx", << >>)
    \/ /\ p \in Nodes /\ Board[p] = "server" /\ m = "stopping"
       /\ \/ /\ s = Cleanup(p)
             /\ Goes(m, s, "close_tx", <<"close_rx", "unlink_s2c", "unlink_c2s">>)
          \/ Goes(m, s, "close_rx", <<"unlink_s2c", "unlink_c2s">>)
          \/ Goes(m, s, "unlink_s2c", <<"unlink_c2s">>)
          \/ Goes(m, s, "unlink_c2s", << >>)
    \/ /\ ~(p \in Nodes /\ Board[p] = "server") /\ m = "stopping"
       /\ \/ s = Cleanup(p) /\ Goes(m, s, "close_tx", <<"close_rx">>)
          \/ Goes(m, s, "close_rx", << >>)
<1>1. CASE p \in Nodes /\ m = "starting"
  <2>1. p \notin Senders
    BY <1>1, RFAssumption
  <2>2. s \in {<<"unlink_s2c", "unlink_c2s", "create_tx", "create_rx">>,
               <<"unlink_c2s", "create_tx", "create_rx">>, <<"create_tx", "create_rx">>,
               <<"create_rx">>}
    BY <1>1, <2>1 DEF Left, Create
  <2>3. s = <<"unlink_s2c", "unlink_c2s", "create_tx", "create_rx">> =>
          Goes(m, s, "unlink_s2c", <<"unlink_c2s", "create_tx", "create_rx">>)
    BY GoesIs, Zenon
  <2>4. s = <<"unlink_c2s", "create_tx", "create_rx">> =>
          Goes(m, s, "unlink_c2s", <<"create_tx", "create_rx">>)
    BY GoesIs, Zenon
  <2>5. s = <<"create_tx", "create_rx">> => Goes(m, s, "create_tx", <<"create_rx">>)
    BY GoesIs, Zenon
  <2>6. s = <<"create_rx">> => Goes(m, s, "create_rx", << >>)
    BY GoesIs, Zenon
  <2>7. QED
    BY <1>1, <2>2, <2>3, <2>4, <2>5, <2>6, Zenon
<1>2. CASE p \in Senders /\ m = "starting"
  <2>1. p \notin Nodes
    BY <1>2, RFAssumption
  <2>2. s \in {<<"open_tx", "open_rx">>, <<"open_rx">>}
    BY <1>2, <2>1 DEF Left, Connect
  <2>3. s = <<"open_tx", "open_rx">> => Goes(m, s, "open_tx", <<"open_rx">>)
    BY GoesIs, Zenon
  <2>4. s = <<"open_rx">> => Goes(m, s, "open_rx", << >>)
    BY GoesIs, Zenon
  <2>5. QED
    BY <1>2, <2>2, <2>3, <2>4, Zenon
<1>3. CASE p \in Nodes /\ Board[p] = "server" /\ m = "stopping"
  <2>1. /\ Cleanup(p) = <<"close_tx", "close_rx", "unlink_s2c", "unlink_c2s">>
        /\ s \in {Cleanup(p), <<"close_rx", "unlink_s2c", "unlink_c2s">>,
                  <<"unlink_s2c", "unlink_c2s">>, <<"unlink_c2s">>}
    BY <1>3, CleanupIs DEF Left
  <2>2. s = Cleanup(p) => Goes(m, s, "close_tx", <<"close_rx", "unlink_s2c", "unlink_c2s">>)
    BY <2>1, GoesIs, Zenon
  <2>3. s = <<"close_rx", "unlink_s2c", "unlink_c2s">> =>
          Goes(m, s, "close_rx", <<"unlink_s2c", "unlink_c2s">>)
    BY GoesIs, Zenon
  <2>4. s = <<"unlink_s2c", "unlink_c2s">> => Goes(m, s, "unlink_s2c", <<"unlink_c2s">>)
    BY GoesIs, Zenon
  <2>5. s = <<"unlink_c2s">> => Goes(m, s, "unlink_c2s", << >>)
    BY GoesIs, Zenon
  <2>6. QED
    BY <1>3, <2>1, <2>2, <2>3, <2>4, <2>5, Zenon
<1>4. CASE ~(p \in Nodes /\ Board[p] = "server") /\ m = "stopping"
  <2>1. Cleanup(p) = <<"close_tx", "close_rx">> /\ s \in {Cleanup(p), <<"close_rx">>}
    BY <1>4, CleanupIs DEF Left
  <2>2. s = Cleanup(p) => Goes(m, s, "close_tx", <<"close_rx">>)
    BY <2>1, GoesIs, Zenon
  <2>3. s = <<"close_rx">> => Goes(m, s, "close_rx", << >>)
    BY GoesIs, Zenon
  <2>4. QED
    BY <1>4, <2>1, <2>2, <2>3, Zenon
<1>5. CASE m \notin {"starting", "stopping"}
  BY <1>5 DEF Left
<1>6. QED
  BY <1>1, <1>2, <1>3, <1>4, <1>5 DEF Processes
\* Some calls left are not none.
LEMMA CallsLeft ==
  \A s, a, b, c : /\ s = <<a>> => s # << >> /\ Len(s) = 1 /\ Head(s) = a
                  /\ s = <<a, b>> => s # << >> /\ Len(s) = 2 /\ Head(s) = a
                  /\ s = <<a, b, c>> => s # << >> /\ Len(s) = 3 /\ Head(s) = a
<1>1. SUFFICES ASSUME NEW s, NEW a, NEW b, NEW c
               PROVE  /\ s = <<a>> => s # << >> /\ Len(s) = 1 /\ Head(s) = a
                      /\ s = <<a, b>> => s # << >> /\ Len(s) = 2 /\ Head(s) = a
                      /\ s = <<a, b, c>> => s # << >> /\ Len(s) = 3 /\ Head(s) = a
  BY Zenon
<1>2. QED
  BY CallsOf

\* Each call takes its process from one place to the next.
LEMMA UnlinkCall ==
  ASSUME RFAssumption, NEW p \in Processes, NEW m, NEW s, NEW tx, NEW rx, At(p, m, s, tx, rx),
         s # << >>, Head(s) \in {"unlink_s2c", "unlink_c2s"}
  PROVE  /\ p \in Nodes /\ At(p, After(m, s), Tail(s), tx, rx)
         /\ \/ /\ m = "starting" /\ After(m, s) = "starting" /\ Tail(s) # << >>
               /\ tx = 0 /\ rx = 0
               /\ Head(s) = "unlink_s2c" => Head(Tail(s)) = "unlink_c2s"
               /\ Head(s) = "unlink_c2s" => Head(Tail(s)) = "create_tx"
            \/ /\ m = "stopping" /\ After(m, s) \in {"stopping", "off"} /\ Board[p] = "server"
<1>1. s \in Left(p, m)
  BY DEF At
<1>2. CASE /\ p \in Nodes /\ m = "starting"
           /\ Goes(m, s, "unlink_s2c", <<"unlink_c2s", "create_tx", "create_rx">>)
  <2>1. Tail(s) = <<"unlink_c2s", "create_tx", "create_rx">>
    BY <1>2 DEF Goes
  <2>2. Tail(s) # << >> /\ Len(Tail(s)) = 3 /\ Head(Tail(s)) = "unlink_c2s"
    BY <2>1, CallsLeft, Zenon
  <2>3. After(m, s) = "starting" /\ Len(s) = 3 + 1
    BY <1>2, <2>1, <2>2 DEF Goes
  <2>4. Tail(s) \in Left(p, "starting")
    BY <1>2, <2>1, RFAssumption DEF Left
  <2>5. rx = 0 /\ tx = 0
    BY <1>2, <2>3 DEF At
  <2>6. At(p, "starting", Tail(s), tx, rx)
    <3>1. PICK t : t = Tail(s)
      OBVIOUS
    <3>2. t \in Left(p, "starting") /\ Len(t) = 3
      BY <2>2, <2>4, <3>1, Zenon
    <3>3. At(p, "starting", t, 0, 0)
      BY <3>2 DEF At
    <3>4. QED
      BY <2>5, <3>1, <3>3
  <2>7. QED
    BY <1>2, <2>2, <2>3, <2>5, <2>6 DEF Goes
<1>3. CASE /\ p \in Nodes /\ m = "starting"
           /\ Goes(m, s, "unlink_c2s", <<"create_tx", "create_rx">>)
  <2>1. Tail(s) = <<"create_tx", "create_rx">>
    BY <1>3 DEF Goes
  <2>2. Tail(s) # << >> /\ Len(Tail(s)) = 2 /\ Head(Tail(s)) = "create_tx"
    BY <2>1, CallsLeft, Zenon
  <2>3. After(m, s) = "starting" /\ Len(s) = 2 + 1
    BY <1>3, <2>1, <2>2 DEF Goes
  <2>4. Tail(s) \in Left(p, "starting")
    BY <1>3, <2>1, RFAssumption DEF Left
  <2>5. rx = 0 /\ tx = 0
    BY <1>3, <2>3 DEF At
  <2>6. At(p, "starting", Tail(s), tx, rx)
    <3>1. PICK t : t = Tail(s)
      OBVIOUS
    <3>2. t \in Left(p, "starting") /\ Len(t) = 2
      BY <2>2, <2>4, <3>1, Zenon
    <3>3. At(p, "starting", t, 0, 0)
      BY <3>2 DEF At
    <3>4. QED
      BY <2>5, <3>1, <3>3
  <2>7. QED
    BY <1>3, <2>2, <2>3, <2>5, <2>6 DEF Goes
<1>4. CASE /\ p \in Nodes /\ Board[p] = "server" /\ m = "stopping"
           /\ Goes(m, s, "unlink_s2c", <<"unlink_c2s">>)
  BY <1>4, CallsOf, CleanupIs DEF Goes, At, Left
<1>5. CASE /\ p \in Nodes /\ Board[p] = "server" /\ m = "stopping"
           /\ Goes(m, s, "unlink_c2s", << >>)
  BY <1>5, CallsOf, CleanupIs DEF Goes, At, Left
<1>6. QED
  BY <1>1, <1>2, <1>3, <1>4, <1>5, CallBefore DEF Goes

LEMMA CreateCall ==
  ASSUME RFAssumption, NEW p \in Processes, NEW m, NEW s, NEW tx, NEW rx, At(p, m, s, tx, rx),
         s # << >>, Head(s) \in {"create_tx", "create_rx"}
  PROVE  /\ p \in Nodes /\ m = "starting" /\ rx = 0
         /\ Head(s) = "create_tx" =>
              /\ tx = 0 /\ After(m, s) = "starting" /\ Tail(s) # << >>
              /\ Head(Tail(s)) = "create_rx"
              /\ \A i : i # 0 => At(p, After(m, s), Tail(s), i, rx)
         /\ Head(s) = "create_rx" =>
              /\ tx # 0 /\ After(m, s) = "running"
              /\ \A i : i # 0 => At(p, After(m, s), Tail(s), tx, i)
<1>1. s \in Left(p, m)
  BY DEF At
<1>2. CASE /\ p \in Nodes /\ m = "starting"
           /\ Goes(m, s, "create_tx", <<"create_rx">>)
  <2>1. Tail(s) = <<"create_rx">>
    BY <1>2 DEF Goes
  <2>2. Tail(s) # << >> /\ Len(Tail(s)) = 1 /\ Head(Tail(s)) = "create_rx"
    BY <2>1, CallsLeft, Zenon
  <2>3. After(m, s) = "starting" /\ Len(s) = 1 + 1
    BY <1>2, <2>1, <2>2 DEF Goes
  <2>4. Tail(s) \in Left(p, "starting")
    BY <1>2, <2>1, RFAssumption DEF Left
  <2>5. QED
    BY <1>2, <2>2, <2>3, <2>4 DEF Goes, At
<1>3. CASE /\ p \in Nodes /\ m = "starting"
           /\ Goes(m, s, "create_rx", << >>)
  BY <1>3, CallsOf DEF Goes, At, Left
<1>4. QED
  BY <1>1, <1>2, <1>3, CallBefore DEF Goes

LEMMA OpenCall ==
  ASSUME RFAssumption, NEW p \in Processes, NEW m, NEW s, NEW tx, NEW rx, At(p, m, s, tx, rx),
         s # << >>, Head(s) \in {"open_tx", "open_rx"}
  PROVE  /\ p \in Senders /\ m = "starting" /\ rx = 0 /\ At(p, "stopping", Cleanup(p), tx, rx)
         /\ Head(s) = "open_tx" =>
              /\ tx = 0 /\ After(m, s) = "starting"
              /\ \A i : i # 0 => At(p, After(m, s), Tail(s), i, rx)
         /\ Head(s) = "open_rx" =>
              /\ tx # 0 /\ After(m, s) = "running"
              /\ \A i : i # 0 => At(p, After(m, s), Tail(s), tx, i)
<1>1. s \in Left(p, m)
  BY DEF At
<1>2. At(p, "stopping", Cleanup(p), tx, rx)
  BY DEF At, Left
<1>3. CASE /\ p \in Senders /\ m = "starting"
           /\ Goes(m, s, "open_tx", <<"open_rx">>)
  BY <1>2, <1>3, CallsOf, RFAssumption DEF Goes, At, Left
<1>4. CASE /\ p \in Senders /\ m = "starting"
           /\ Goes(m, s, "open_rx", << >>)
  BY <1>2, <1>4, CallsOf DEF Goes, At, Left
<1>5. QED
  BY <1>1, <1>3, <1>4, CallBefore DEF Goes

LEMMA CloseCall ==
  ASSUME RFAssumption, NEW p \in Processes, NEW m, NEW s, NEW tx, NEW rx, At(p, m, s, tx, rx),
         s # << >>, Head(s) \in {"close_tx", "close_rx"}
  PROVE  /\ m = "stopping" /\ After(m, s) \in {"stopping", "off"}
         /\ Head(s) = "close_tx" => At(p, After(m, s), Tail(s), 0, rx)
         /\ Head(s) = "close_rx" => At(p, After(m, s), Tail(s), tx, 0)
<1>1. s \in Left(p, m)
  BY DEF At
<1>2. CASE /\ p \in Nodes /\ Board[p] = "server" /\ m = "stopping" /\ s = Cleanup(p)
           /\ Goes(m, s, "close_tx", <<"close_rx", "unlink_s2c", "unlink_c2s">>)
  <2>1. Tail(s) = <<"close_rx", "unlink_s2c", "unlink_c2s">>
    BY <1>2 DEF Goes
  <2>2. Tail(s) # << >> /\ Len(Tail(s)) = 3 /\ Head(Tail(s)) = "close_rx"
    BY <2>1, CallsLeft, Zenon
  <2>3. After(m, s) = "stopping" /\ Len(s) = 3 + 1
    BY <1>2, <2>1, <2>2 DEF Goes
  <2>4. Tail(s) \in Left(p, "stopping")
    BY <1>2, <2>1, RFAssumption DEF Left
  <2>5. QED
    BY <1>2, <2>2, <2>3, <2>4 DEF Goes, At
<1>3. CASE /\ p \in Nodes /\ Board[p] = "server" /\ m = "stopping"
           /\ Goes(m, s, "close_rx", <<"unlink_s2c", "unlink_c2s">>)
  BY <1>3, CallsOf, CleanupIs DEF Goes, At, Left
<1>4. CASE /\ ~(p \in Nodes /\ Board[p] = "server") /\ m = "stopping" /\ s = Cleanup(p)
           /\ Goes(m, s, "close_tx", <<"close_rx">>)
  BY <1>4, CallsOf DEF Goes, At, Left
<1>5. CASE /\ ~(p \in Nodes /\ Board[p] = "server") /\ m = "stopping"
           /\ Goes(m, s, "close_rx", << >>)
  BY <1>5, CallsOf, CleanupIs DEF Goes, At, Left
<1>6. QED
  BY <1>1, <1>2, <1>3, <1>4, <1>5, CallBefore DEF Goes
-----------------------------------------------------------------------------
(* Types and places, action by action.                                       *)

LEMMA Zero == 0 \notin Numbers
BY DEF Numbers

LEMMA CallEffect ==
  ASSUME ProcessTypes, NEW p \in Processes, NEW call, Call(p, call)
  PROVE  /\ todo[p] # << >> /\ Head(todo[p]) = call
         /\ mode'[p] = After(mode[p], todo[p]) /\ todo'[p] = Tail(todo[p])
         /\ \A x \in Processes \ {p} : mode'[x] = mode[x] /\ todo'[x] = todo[x]
         /\ ProcessTypes'
<1>1. todo[p] # << >> /\ Head(todo[p]) = call
  BY DEF Call
<1>2. todo'[p] = Tail(todo[p]) /\ \A x \in Processes \ {p} : todo'[x] = todo[x]
  BY DEF Call, ProcessTypes
<1>3. mode'[p] = After(mode[p], todo[p]) /\ \A x \in Processes \ {p} : mode'[x] = mode[x]
  BY DEF Call, ProcessTypes, After
<1>4. ProcessTypes'
  <2>1. mode' \in [Processes -> {"off", "starting", "running", "stopping"}]
    BY DEF Call, ProcessTypes
  <2>2. Tail(todo[p]) \in Seq({"unlink_s2c", "unlink_c2s", "create_tx", "create_rx",
                               "open_tx", "open_rx", "close_tx", "close_rx"})
    BY <1>1 DEF ProcessTypes
  <2>3. QED
    BY <2>1, <2>2 DEF Call, ProcessTypes
<1>5. QED
  BY <1>1, <1>2, <1>3, <1>4

\* The calls change no history.
LEMMA CallHistory ==
  ASSUME HistoryTypes, NEW p, NEW call, Call(p, call)
  PROVE  HistoryTypes'
BY DEF Call, HistoryTypes, history

\* A process moves from place to place, and no other does.
LEMMA StaysInOrder ==
  ASSUME Base, NEW p \in Processes,
         At(p, mode[p], todo[p], mq_tx[p], mq_rx[p])',
         \A x \in Processes \ {p} : /\ mode'[x] = mode[x] /\ todo'[x] = todo[x]
                                    /\ mq_tx'[x] = mq_tx[x] /\ mq_rx'[x] = mq_rx[x]
  PROVE  InOrder'
BY DEF Base, InOrder

LEMMA ReapedTypes ==
  ASSUME QueueTypes, Reaped, names' \in [Names -> Numbers \cup {0}],
         mq_tx' \in [Processes -> Numbers \cup {0}], mq_rx' \in [Processes -> Numbers \cup {0}],
         RFAssumption
  PROVE  QueueTypes' /\ \A i \in Numbers : queues'[i] = IF i \in InUse' THEN queues[i] ELSE << >>
<1>1. \A i \in Numbers : queues'[i] = IF i \in InUse' THEN queues[i] ELSE << >>
  BY DEF Reaped
<1>2. queues' \in [Numbers -> Seq(Message)]
  <2>1. \A i \in Numbers : (IF i \in InUse' THEN queues[i] ELSE << >>) \in Seq(Message)
    BY DEF QueueTypes
  <2>2. QED
    BY <2>1 DEF Reaped
<1>3. \A i \in Numbers : Len(queues'[i]) <= MAX_MSG_COUNT
  BY <1>1, RFAssumption DEF QueueTypes
<1>4. QED
  BY <1>1, <1>2, <1>3 DEF QueueTypes

LEMMA UnlinkBase ==
  ASSUME RFAssumption, Base, NEW p \in Processes, Unlink(p)
  PROVE  Base'
<1>1. PICK call \in {"unlink_s2c", "unlink_c2s"} : Call(p, call)
  BY DEF Unlink
<1>2. At(p, mode[p], todo[p], mq_tx[p], mq_rx[p]) /\ ProcessTypes
  BY DEF Base, InOrder
<1>3. mq_tx' = mq_tx /\ mq_rx' = mq_rx /\ names' \in [Names -> Numbers \cup {0}] /\ Reaped
  BY DEF Unlink, Base, QueueTypes
<1>4. QueueTypes'
  BY <1>3, RFAssumption, ReapedTypes DEF Base, QueueTypes
<1>5. At(p, mode[p], todo[p], mq_tx[p], mq_rx[p])'
  BY <1>1, <1>2, <1>3, CallEffect, UnlinkCall
<1>6. InOrder'
  BY <1>1, <1>2, <1>3, <1>5, CallEffect, StaysInOrder
<1>7. QED
  BY <1>1, <1>2, <1>4, <1>6, CallEffect, CallHistory DEF Base

\* mq_open with O_CREAT finds a number.
LEMMA OpenedNumber ==
  ASSUME RFAssumption, QueueTypes, NEW name \in Names, Opened(name)
  PROVE  /\ names'[name] \in Numbers /\ names' \in [Names -> Numbers \cup {0}]
         /\ \A o \in Names \ {name} : names'[o] = names[o]
         /\ names[name] # 0 => names'[name] = names[name]
         /\ names[name] = 0 => names'[name] \notin InUse
<1>1. names[name] = 0 => (CHOOSE i \in Numbers \ InUse : TRUE) \in Numbers \ InUse
  BY RFAssumption, SpareNumber
<1>2. names[name] # 0 => names[name] \in Numbers
  BY DEF QueueTypes
<1>3. names'[name] = IF names[name] # 0 THEN names[name] ELSE CHOOSE i \in Numbers \ InUse : TRUE
  BY DEF Opened, QueueTypes
<1>4. names'[name] \in Numbers
  BY <1>1, <1>2, <1>3
<1>5. names' = [names EXCEPT ![name] = names'[name]]
  BY <1>3 DEF Opened, QueueTypes
<1>6. names' \in [Names -> Numbers \cup {0}] /\ \A o \in Names \ {name} : names'[o] = names[o]
  BY <1>4, <1>5 DEF QueueTypes
<1>7. QED
  BY <1>1, <1>3, <1>4, <1>6

LEMMA NamesOf ==
  ASSUME NEW p
  PROVE  /\ TxName(p) \in Names /\ RxName(p) \in Names /\ TxName(p) # RxName(p)
BY DEF TxName, RxName, Names

LEMMA CreateBase ==
  ASSUME RFAssumption, Base, NEW p \in Processes, CreateQueue(p)
  PROVE  Base'
<1>1. At(p, mode[p], todo[p], mq_tx[p], mq_rx[p]) /\ ProcessTypes /\ QueueTypes /\ HistoryTypes
  BY DEF Base, InOrder
<1>2. CASE /\ Call(p, "create_tx") /\ Opened(TxName(p))
           /\ mq_tx' = [mq_tx EXCEPT ![p] = names'[TxName(p)]] /\ mq_rx' = mq_rx
  <2>1. names'[TxName(p)] \in Numbers /\ names' \in [Names -> Numbers \cup {0}]
    BY <1>1, <1>2, RFAssumption, NamesOf, OpenedNumber
  <2>2. mq_tx'[p] # 0 /\ QueueTypes'
    BY <1>1, <1>2, <2>1, Zero DEF QueueTypes, Opened
  <2>3. At(p, mode[p], todo[p], mq_tx[p], mq_rx[p])'
    BY <1>1, <1>2, <2>2, RFAssumption, CallEffect, CreateCall
  <2>4. \A x \in Processes \ {p} : mq_tx'[x] = mq_tx[x] /\ mq_rx'[x] = mq_rx[x]
    BY <1>1, <1>2 DEF QueueTypes
  <2>5. InOrder'
    BY <1>1, <1>2, <2>3, <2>4, CallEffect, StaysInOrder
  <2>6. QED
    BY <1>1, <1>2, <2>2, <2>5, CallEffect, CallHistory DEF Base
<1>3. CASE /\ Call(p, "create_rx") /\ Opened(RxName(p))
           /\ mq_rx' = [mq_rx EXCEPT ![p] = names'[RxName(p)]] /\ mq_tx' = mq_tx
  <2>1. names'[RxName(p)] \in Numbers /\ names' \in [Names -> Numbers \cup {0}]
    BY <1>1, <1>3, RFAssumption, NamesOf, OpenedNumber
  <2>2. mq_rx'[p] # 0 /\ QueueTypes'
    BY <1>1, <1>3, <2>1, Zero DEF QueueTypes, Opened
  <2>3. At(p, mode[p], todo[p], mq_tx[p], mq_rx[p])'
    BY <1>1, <1>3, <2>2, RFAssumption, CallEffect, CreateCall
  <2>4. \A x \in Processes \ {p} : mq_tx'[x] = mq_tx[x] /\ mq_rx'[x] = mq_rx[x]
    BY <1>1, <1>3 DEF QueueTypes
  <2>5. InOrder'
    BY <1>1, <1>3, <2>3, <2>4, CallEffect, StaysInOrder
  <2>6. QED
    BY <1>1, <1>3, <2>2, <2>5, CallEffect, CallHistory DEF Base
<1>4. QED
  BY <1>2, <1>3 DEF CreateQueue
LEMMA OpenBase ==
  ASSUME RFAssumption, Base, NEW p \in Processes, OpenQueue(p)
  PROVE  Base'
<1>1. At(p, mode[p], todo[p], mq_tx[p], mq_rx[p]) /\ ProcessTypes /\ QueueTypes /\ HistoryTypes
  BY DEF Base, InOrder
<1>2. \A name \in Names : names[name] # 0 => names[name] \in Numbers
  BY <1>1 DEF QueueTypes
<1>3. CASE /\ names[TxName(p)] # 0 /\ Call(p, "open_tx")
           /\ mq_tx' = [mq_tx EXCEPT ![p] = names[TxName(p)]] /\ mq_rx' = mq_rx
  <2>1. mq_tx'[p] # 0 /\ QueueTypes'
    BY <1>1, <1>2, <1>3, NamesOf DEF QueueTypes, OpenQueue
  <2>2. At(p, mode[p], todo[p], mq_tx[p], mq_rx[p])'
    BY <1>1, <1>3, <2>1, RFAssumption, CallEffect, OpenCall
  <2>3. \A x \in Processes \ {p} : mq_tx'[x] = mq_tx[x] /\ mq_rx'[x] = mq_rx[x]
    BY <1>1, <1>3 DEF QueueTypes
  <2>4. InOrder'
    BY <1>1, <1>3, <2>2, <2>3, CallEffect, StaysInOrder
  <2>5. QED
    BY <1>1, <1>3, <2>1, <2>4, CallEffect, CallHistory DEF Base
<1>4. CASE /\ names[RxName(p)] # 0 /\ Call(p, "open_rx")
           /\ mq_rx' = [mq_rx EXCEPT ![p] = names[RxName(p)]] /\ mq_tx' = mq_tx
  <2>1. mq_rx'[p] # 0 /\ QueueTypes'
    BY <1>1, <1>2, <1>4, NamesOf DEF QueueTypes, OpenQueue
  <2>2. At(p, mode[p], todo[p], mq_tx[p], mq_rx[p])'
    BY <1>1, <1>4, <2>1, RFAssumption, CallEffect, OpenCall
  <2>3. \A x \in Processes \ {p} : mq_tx'[x] = mq_tx[x] /\ mq_rx'[x] = mq_rx[x]
    BY <1>1, <1>4 DEF QueueTypes
  <2>4. InOrder'
    BY <1>1, <1>4, <2>2, <2>3, CallEffect, StaysInOrder
  <2>5. QED
    BY <1>1, <1>4, <2>1, <2>4, CallEffect, CallHistory DEF Base
<1>5. QED
  BY <1>3, <1>4 DEF OpenQueue

LEMMA CloseBase ==
  ASSUME RFAssumption, Base, NEW p \in Processes, CloseQueue(p)
  PROVE  Base'
<1>1. At(p, mode[p], todo[p], mq_tx[p], mq_rx[p]) /\ ProcessTypes /\ QueueTypes /\ HistoryTypes
  BY DEF Base, InOrder
<1>2. /\ mq_tx' \in [Processes -> Numbers \cup {0}] /\ mq_rx' \in [Processes -> Numbers \cup {0}]
      /\ names' \in [Names -> Numbers \cup {0}] /\ Reaped
      /\ \A x \in Processes \ {p} : mq_tx'[x] = mq_tx[x] /\ mq_rx'[x] = mq_rx[x]
  BY <1>1 DEF CloseQueue, QueueTypes
<1>3. QueueTypes'
  BY <1>1, <1>2, RFAssumption, ReapedTypes
<1>4. PICK call \in {"close_tx", "close_rx"} : Call(p, call)
  BY DEF CloseQueue
<1>5. At(p, mode[p], todo[p], mq_tx[p], mq_rx[p])'
  <2>1. CASE Call(p, "close_tx") /\ mq_tx' = [mq_tx EXCEPT ![p] = 0] /\ mq_rx' = mq_rx
    <3>1. mq_tx'[p] = 0
      BY <1>1, <2>1 DEF QueueTypes
    <3>2. QED
      BY <1>1, <2>1, <3>1, RFAssumption, CallEffect, CloseCall
  <2>2. CASE Call(p, "close_rx") /\ mq_rx' = [mq_rx EXCEPT ![p] = 0] /\ mq_tx' = mq_tx
    <3>1. mq_rx'[p] = 0
      BY <1>1, <2>2 DEF QueueTypes
    <3>2. QED
      BY <1>1, <2>2, <3>1, RFAssumption, CallEffect, CloseCall
  <2>3. QED
    BY <2>1, <2>2 DEF CloseQueue
<1>6. InOrder'
  BY <1>1, <1>2, <1>4, <1>5, CallEffect, StaysInOrder
<1>7. QED
  BY <1>1, <1>3, <1>4, <1>6, CallEffect, CallHistory DEF Base

\* Beginning, failing and stopping leave the queues alone.
LEMMA CallsTyped ==
  ASSUME NEW p \in Processes
  PROVE  /\ Create \in Seq({"unlink_s2c", "unlink_c2s", "create_tx", "create_rx",
                            "open_tx", "open_rx", "close_tx", "close_rx"})
         /\ Connect \in Seq({"unlink_s2c", "unlink_c2s", "create_tx", "create_rx",
                             "open_tx", "open_rx", "close_tx", "close_rx"})
         /\ Cleanup(p) \in Seq({"unlink_s2c", "unlink_c2s", "create_tx", "create_rx",
                                "open_tx", "open_rx", "close_tx", "close_rx"})
<1>1. PICK S : S = {"unlink_s2c", "unlink_c2s", "create_tx", "create_rx",
                    "open_tx", "open_rx", "close_tx", "close_rx"}
  OBVIOUS
<1>2. \A a, b, c, d \in S : <<a, b>> \in Seq(S) /\ <<a, b, c, d>> \in Seq(S)
  OBVIOUS
<1>3. Create \in Seq(S) /\ Connect \in Seq(S)
  BY <1>1, <1>2 DEF Create, Connect
<1>4. Cleanup(p) \in Seq(S)
  <2>1. <<"close_tx", "close_rx", "unlink_s2c", "unlink_c2s">> \in Seq(S)
    BY <1>1, <1>2
  <2>2. <<"close_tx", "close_rx">> \in Seq(S)
    BY <1>1, <1>2
  <2>3. QED
    BY <2>1, <2>2, CleanupIs, Zenon
<1>5. QED
  BY <1>1, <1>3, <1>4, Zenon

LEMMA BeginBase ==
  ASSUME RFAssumption, Base, NEW p \in Processes,
         NEW calls \in {Create, Connect}, calls \in Left(p, "starting"), Begin(p, calls)
  PROVE  /\ mode'[p] = "starting" /\ todo'[p] = calls
         /\ \A x \in Processes \ {p} : mode'[x] = mode[x] /\ todo'[x] = todo[x]
         /\ count' \in [Senders -> Nat] => ProcessTypes'
         /\ QueueTypes' /\ InOrder'
<1>1. At(p, mode[p], todo[p], mq_tx[p], mq_rx[p]) /\ ProcessTypes /\ QueueTypes /\ HistoryTypes
  BY DEF Base, InOrder
<1>2. calls \in Seq({"unlink_s2c", "unlink_c2s", "create_tx", "create_rx",
                     "open_tx", "open_rx", "close_tx", "close_rx"})
  BY CallsTyped
<1>3. /\ mode'[p] = "starting" /\ todo'[p] = calls
      /\ \A x \in Processes \ {p} : mode'[x] = mode[x] /\ todo'[x] = todo[x]
  BY <1>1 DEF Begin, ProcessTypes
<1>4. count' \in [Senders -> Nat] => ProcessTypes'
  BY <1>1, <1>2 DEF Begin, ProcessTypes
<1>5. QueueTypes'
  BY <1>1 DEF Begin, QueueTypes
<1>6. Len(calls) # 1
  BY CallsOf DEF Create, Connect
<1>7. mq_tx'[p] = 0 /\ mq_rx'[p] = 0
  BY <1>1 DEF Begin, At
<1>8. At(p, mode[p], todo[p], mq_tx[p], mq_rx[p])'
  <2>1. At(p, "starting", calls, 0, 0)
    BY <1>6 DEF At
  <2>2. QED
    BY <1>3, <1>7, <2>1
<1>9. InOrder'
  BY <1>3, <1>8, StaysInOrder DEF Begin
<1>10. QED
  BY <1>3, <1>4, <1>5, <1>9

LEMMA StartNodeBase ==
  ASSUME RFAssumption, Base, NEW p \in Nodes, StartNode(p)
  PROVE  Base'
<1>1. p \in Processes /\ Create \in Left(p, "starting") /\ Begin(p, Create)
  BY DEF Processes, Left, StartNode
<1>2. ProcessTypes /\ HistoryTypes
  BY DEF Base
<1>3. ProcessTypes' /\ QueueTypes' /\ InOrder'
  BY <1>1, <1>2, RFAssumption, BeginBase DEF StartNode, ProcessTypes
<1>4. HistoryTypes'
  <2>1. \A q \in Senders : SentBy(q) \subseteq Message
    BY <1>2 DEF SentBy, Message, HistoryTypes
  <2>2. UNION {SentBy(q) : q \in Senders} \subseteq Message
    BY <2>1
  <2>3. before' \in [Nodes -> SUBSET Message]
    BY <1>2, <2>2 DEF StartNode, HistoryTypes
  <2>4. undisturbed' \in [Nodes -> BOOLEAN]
    BY DEF StartNode
  <2>5. << >> \in Seq(Message)
    OBVIOUS
  <2>6. QED
    BY <1>2, <2>3, <2>4, <2>5 DEF StartNode, Begin, HistoryTypes
<1>5. QED
  BY <1>3, <1>4 DEF Base

LEMMA StartSenderBase ==
  ASSUME RFAssumption, Base, NEW q \in Senders, StartSender(q)
  PROVE  Base'
<1>1. q \in Processes /\ Connect \in Left(q, "starting") /\ Begin(q, Connect)
  BY RFAssumption DEF Processes, Left, StartSender
<1>2. ProcessTypes /\ HistoryTypes
  BY DEF Base
<1>3. count' \in [Senders -> Nat]
  BY <1>2 DEF StartSender, ProcessTypes
<1>4. ProcessTypes' /\ QueueTypes' /\ InOrder'
  BY <1>1, <1>3, RFAssumption, BeginBase
<1>5. HistoryTypes'
  BY <1>2 DEF StartSender, Begin, HistoryTypes
<1>6. QED
  BY <1>4, <1>5 DEF Base
\* A process that is told to stop, or cannot open a queue.
LEMMA StopsInOrder ==
  ASSUME RFAssumption, Base, NEW p \in Processes, mode[p] \in {"starting", "running"},
         At(p, "stopping", Cleanup(p), mq_tx[p], mq_rx[p]),
         mode' = [mode EXCEPT ![p] = "stopping"], todo' = [todo EXCEPT ![p] = Cleanup(p)],
         UNCHANGED <<queues, names, mq_tx, mq_rx, starts, count>>
  PROVE  ProcessTypes' /\ QueueTypes' /\ InOrder'
<1>1. ProcessTypes /\ QueueTypes
  BY DEF Base
<1>2. ProcessTypes'
  BY <1>1, CallsTyped DEF ProcessTypes
<1>3. QueueTypes'
  BY <1>1 DEF QueueTypes
<1>4. /\ mode'[p] = "stopping" /\ todo'[p] = Cleanup(p)
      /\ \A x \in Processes \ {p} : mode'[x] = mode[x] /\ todo'[x] = todo[x]
  BY <1>1 DEF ProcessTypes
<1>5. Cleanup(p)' = Cleanup(p)
  BY DEF Cleanup
<1>6. At(p, mode[p], todo[p], mq_tx[p], mq_rx[p])'
  BY <1>4
<1>7. QED
  BY <1>2, <1>3, <1>4, <1>6, StaysInOrder

LEMMA OpenFailsBase ==
  ASSUME RFAssumption, Base, NEW p \in Processes, OpenFails(p)
  PROVE  Base'
<1>1. At(p, mode[p], todo[p], mq_tx[p], mq_rx[p]) /\ HistoryTypes
  BY DEF Base, InOrder
<1>2. todo[p] # << >> /\ Head(todo[p]) \in {"open_tx", "open_rx"}
  BY DEF OpenFails
<1>3. mode[p] = "starting" /\ At(p, "stopping", Cleanup(p), mq_tx[p], mq_rx[p])
  BY <1>1, <1>2, RFAssumption, OpenCall
<1>4. ProcessTypes' /\ QueueTypes' /\ InOrder'
  BY <1>3, RFAssumption, StopsInOrder DEF OpenFails
<1>5. HistoryTypes'
  BY <1>1 DEF OpenFails, HistoryTypes, history
<1>6. QED
  BY <1>4, <1>5 DEF Base

LEMMA DeinitBase ==
  ASSUME RFAssumption, Base, NEW p \in Processes, Deinit(p)
  PROVE  Base'
<1>1. At(p, "stopping", Cleanup(p), mq_tx[p], mq_rx[p])
  BY DEF At, Left
<1>2. ProcessTypes' /\ QueueTypes' /\ InOrder'
  BY <1>1, RFAssumption, StopsInOrder DEF Deinit
<1>3. HistoryTypes'
  BY DEF Deinit, HistoryTypes, Base
<1>4. QED
  BY <1>2, <1>3 DEF Base

LEMMA SendEffect ==
  ASSUME RFAssumption, Base, NEW q \in Senders, Send(q),
         NEW m, m = [from |-> q, number |-> sent[q] + 1]
  PROVE  /\ m \in Message /\ mq_tx[q] \in Numbers
         /\ sent'[q] = sent[q] + 1 /\ \A x \in Senders \ {q} : sent'[x] = sent[x]
         /\ \A i \in Numbers : \/ queues'[i] = queues[i]
                               \/ /\ i = mq_tx[q] /\ Len(queues[i]) < MAX_MSG_COUNT
                                  /\ queues'[i] = Append(queues[i], m)
         /\ Base'
<1>1. ProcessTypes /\ QueueTypes /\ HistoryTypes /\ InOrder /\ q \in Processes
  BY DEF Base, Processes
<1>2. m \in Message
  BY <1>1 DEF Message, HistoryTypes
<1>3. mq_tx[q] \in Numbers
  BY <1>1 DEF InOrder, At, Send, QueueTypes
<1>4. sent'[q] = sent[q] + 1 /\ \A x \in Senders \ {q} : sent'[x] = sent[x]
  BY <1>1 DEF Send, HistoryTypes
<1>5. \/ queues' = queues
      \/ /\ Len(queues[mq_tx[q]]) < MAX_MSG_COUNT
         /\ queues' = [queues EXCEPT ![mq_tx[q]] = Append(queues[mq_tx[q]], m)]
  BY DEF Send
<1>6. \A i \in Numbers : \/ queues'[i] = queues[i]
                         \/ /\ i = mq_tx[q] /\ Len(queues[i]) < MAX_MSG_COUNT
                            /\ queues'[i] = Append(queues[i], m)
  BY <1>1, <1>3, <1>5 DEF QueueTypes
<1>7. Append(queues[mq_tx[q]], m) \in Seq(Message)
  BY <1>1, <1>2, <1>3 DEF QueueTypes
<1>8. queues' \in [Numbers -> Seq(Message)]
  BY <1>1, <1>5, <1>7 DEF QueueTypes
<1>9. \A i \in Numbers : Len(queues'[i]) <= MAX_MSG_COUNT
  <2>1. SUFFICES ASSUME NEW i \in Numbers PROVE Len(queues'[i]) <= MAX_MSG_COUNT
    OBVIOUS
  <2>2. PICK s : s = queues[i] /\ s \in Seq(Message) /\ Len(s) <= MAX_MSG_COUNT
    BY <1>1 DEF QueueTypes
  <2>3. queues'[i] = s \/ (Len(s) < MAX_MSG_COUNT /\ queues'[i] = Append(s, m))
    BY <1>6, <2>2
  <2>4. Len(Append(s, m)) = Len(s) + 1 /\ Len(s) \in Nat
    BY <1>2, <2>2
  <2>5. QED
    BY <2>2, <2>3, <2>4, RFAssumption
<1>10. QueueTypes'
  BY <1>1, <1>8, <1>9 DEF QueueTypes, Send
<1>11. ProcessTypes' /\ HistoryTypes' /\ InOrder'
  <2>1. ProcessTypes'
    BY <1>1 DEF Send, ProcessTypes
  <2>2. HistoryTypes'
    BY <1>1 DEF Send, HistoryTypes
  <2>3. InOrder'
    BY <1>1 DEF Send, InOrder
  <2>4. QED
    BY <2>1, <2>2, <2>3
<1>12. QED
  BY <1>2, <1>3, <1>4, <1>6, <1>10, <1>11 DEF Base

LEMMA ReceiveEffect ==
  ASSUME RFAssumption, Base, NEW p \in Nodes, Receive(p)
  PROVE  /\ mq_rx[p] \in Numbers /\ queues[mq_rx[p]] # << >>
         /\ queues'[mq_rx[p]] = Tail(queues[mq_rx[p]])
         /\ \A i \in Numbers \ {mq_rx[p]} : queues'[i] = queues[i]
         /\ got'[p] = Append(got[p], Head(queues[mq_rx[p]]))
         /\ \A o \in Nodes \ {p} : got'[o] = got[o]
         /\ Base'
<1>1. ProcessTypes /\ QueueTypes /\ HistoryTypes /\ InOrder /\ p \in Processes
  BY DEF Base, Processes
<1>2. mq_rx[p] \in Numbers /\ queues[mq_rx[p]] # << >>
  BY <1>1 DEF Receive, QueueTypes
<1>3. PICK i, s : i = mq_rx[p] /\ s = queues[i] /\ s \in Seq(Message) /\ s # << >>
  BY <1>1, <1>2 DEF QueueTypes
<1>4. /\ Head(s) \in Message /\ Tail(s) \in Seq(Message) /\ Len(Tail(s)) = Len(s) - 1
      /\ Len(s) \in Nat
  BY <1>3
<1>5. queues' = [queues EXCEPT ![i] = Tail(s)]
  BY <1>3 DEF Receive
<1>6. queues' \in [Numbers -> Seq(Message)]
  BY <1>1, <1>4, <1>5 DEF QueueTypes
<1>7. queues'[i] = Tail(s) /\ \A j \in Numbers \ {i} : queues'[j] = queues[j]
  BY <1>1, <1>2, <1>3, <1>5 DEF QueueTypes
<1>8. \A j \in Numbers : Len(queues'[j]) <= MAX_MSG_COUNT
  <2>1. SUFFICES ASSUME NEW j \in Numbers PROVE Len(queues'[j]) <= MAX_MSG_COUNT
    OBVIOUS
  <2>2. CASE j # i
    BY <1>1, <1>7, <2>2 DEF QueueTypes
  <2>3. CASE j = i
    <3>1. Len(s) <= MAX_MSG_COUNT
      BY <1>1, <1>2, <1>3 DEF QueueTypes
    <3>2. QED
      BY <1>4, <1>7, <2>3, <3>1, RFAssumption
  <2>4. QED
    BY <2>2, <2>3
<1>9. got' = [got EXCEPT ![p] = Append(got[p], Head(s))]
  BY <1>3 DEF Receive
<1>10. Append(got[p], Head(s)) \in Seq(Message)
  BY <1>1, <1>4 DEF HistoryTypes
<1>11. HistoryTypes'
  BY <1>1, <1>9, <1>10 DEF HistoryTypes, Receive
<1>12. QueueTypes' /\ ProcessTypes' /\ InOrder'
  BY <1>1, <1>6, <1>8 DEF QueueTypes, ProcessTypes, InOrder, Receive
<1>13. got'[p] = Append(got[p], Head(s)) /\ \A o \in Nodes \ {p} : got'[o] = got[o]
  BY <1>1, <1>9 DEF HistoryTypes
<1>14. QED
  BY <1>2, <1>3, <1>7, <1>11, <1>12, <1>13 DEF Base

LEMMA ReceiveClosedBase ==
  ASSUME RFAssumption, Base, NEW p \in Nodes, ReceiveClosed(p)
  PROVE  Base' /\ mode[p] = "stopping" /\ mode'[p] \in {"stopping", "off"}
<1>1. /\ ProcessTypes /\ QueueTypes /\ HistoryTypes /\ p \in Processes
      /\ At(p, mode[p], todo[p], mq_tx[p], mq_rx[p])
  BY DEF Base, InOrder, Processes
<1>2. mode[p] = "stopping" /\ mq_rx[p] = 0
  BY <1>1 DEF ReceiveClosed, At
<1>3. /\ mq_tx' \in [Processes -> Numbers \cup {0}] /\ mq_rx' = mq_rx /\ names' = names /\ Reaped
      /\ \A x \in Processes \ {p} : /\ mq_tx'[x] = mq_tx[x] /\ mode'[x] = mode[x]
                                    /\ todo'[x] = todo[x]
  BY <1>1 DEF ReceiveClosed, QueueTypes, ProcessTypes
<1>4. QueueTypes'
  BY <1>1, <1>3, RFAssumption, ReapedTypes DEF QueueTypes
<1>5. ProcessTypes'
  <2>1. << >> \in Seq({"unlink_s2c", "unlink_c2s", "create_tx", "create_rx",
                       "open_tx", "open_rx", "close_tx", "close_rx"})
    OBVIOUS
  <2>2. mode' \in [Processes -> {"off", "starting", "running", "stopping"}]
    BY <1>1 DEF ReceiveClosed, ProcessTypes
  <2>3. todo' \in [Processes -> Seq({"unlink_s2c", "unlink_c2s", "create_tx", "create_rx",
                                   "open_tx", "open_rx", "close_tx", "close_rx"})]
    BY <1>1, <2>1 DEF ReceiveClosed, ProcessTypes
  <2>4. QED
    BY <1>1, <2>2, <2>3 DEF ReceiveClosed, ProcessTypes
<1>6. HistoryTypes'
  BY <1>1 DEF ReceiveClosed, HistoryTypes
<1>7. CASE UNCHANGED <<mode, todo, mq_tx>>
  <2>1. InOrder'
    BY <1>3, <1>7 DEF Base, InOrder
  <2>2. QED
    BY <1>2, <1>4, <1>5, <1>6, <1>7, <2>1 DEF Base
<1>8. CASE /\ mode' = [mode EXCEPT ![p] = "off"] /\ todo' = [todo EXCEPT ![p] = << >>]
           /\ mq_tx' = [mq_tx EXCEPT ![p] = 0]
  <2>1. mode'[p] = "off" /\ todo'[p] = << >> /\ mq_tx'[p] = 0 /\ mq_rx'[p] = 0
    BY <1>1, <1>2, <1>3, <1>8 DEF ProcessTypes, QueueTypes
  <2>2. At(p, "off", << >>, 0, 0)
    BY DEF At, Left
  <2>3. At(p, mode[p], todo[p], mq_tx[p], mq_rx[p])'
    BY <2>1, <2>2
  <2>4. InOrder'
    BY <1>1, <1>3, <2>3, StaysInOrder
  <2>5. QED
    BY <1>2, <1>4, <1>5, <1>6, <2>1, <2>4 DEF Base
<1>9. QED
  BY <1>7, <1>8 DEF ReceiveClosed
-----------------------------------------------------------------------------
(* Queues and their directions.                                              *)

LEMMA AppendElements ==
  ASSUME NEW S, NEW s \in Seq(S), NEW e \in S
  PROVE  /\ Append(s, e) \in Seq(S) /\ Len(s) \in Nat
         /\ DOMAIN s = 1 .. Len(s) /\ DOMAIN Append(s, e) = 1 .. Len(s) + 1
         /\ \A k \in 1 .. Len(s) : Append(s, e)[k] = s[k]
         /\ Append(s, e)[Len(s) + 1] = e
OBVIOUS

LEMMA TailElements ==
  ASSUME NEW S, NEW s \in Seq(S), s # << >>
  PROVE  /\ Head(s) = s[1] /\ Head(s) \in S /\ Tail(s) \in Seq(S) /\ 1 \in DOMAIN s
         /\ Len(s) \in Nat /\ DOMAIN s = 1 .. Len(s) /\ DOMAIN Tail(s) = 1 .. Len(s) - 1
         /\ \A k \in DOMAIN Tail(s) : k + 1 \in DOMAIN s /\ Tail(s)[k] = s[k + 1]
OBVIOUS

LEMMA QueueElement ==
  ASSUME RFAssumption, QueueTypes, NEW i \in Numbers, NEW k \in DOMAIN queues[i]
  PROVE  /\ queues[i][k] \in Message /\ queues[i][k].from \in Senders
         /\ queues[i][k].number \in Nat \ {0}
         /\ queues[i][k].from \in Processes /\ TxName(queues[i][k].from) \in Names
<1>1. PICK s : s = queues[i] /\ s \in Seq(Message) /\ k \in DOMAIN s
  BY DEF QueueTypes
<1>2. s[k] \in Message
  BY <1>1
<1>3. s[k].from \in Senders /\ s[k].number \in Nat \ {0}
  BY <1>2 DEF Message
<1>4. QED
  BY <1>1, <1>2, <1>3, NamesOf DEF Processes

LEMMA UsedInUse ==
  InUse = Used("server_to_client") \cup Used("client_to_server")
<1>1. \A p : /\ TxName(p) = "server_to_client" \/ TxName(p) = "client_to_server"
             /\ RxName(p) = "server_to_client" \/ RxName(p) = "client_to_server"
  BY DEF TxName, RxName
<1>2. QED
  BY <1>1 DEF InUse, Used, Names

\* The uses that an action takes away.
Released ==
  /\ \A i \in Numbers : queues'[i] = IF i \in InUse' THEN queues[i] ELSE << >>
  /\ \A name \in Names : names'[name] \in {names[name], 0}
  /\ \A x \in Processes : mq_tx'[x] \in {mq_tx[x], 0} /\ mq_rx'[x] \in {mq_rx[x], 0}
  /\ UNCHANGED <<sent, got, before, undisturbed, partners, count>>

\* Process p opens queue j, found by the name or new.
Acquired(p, name, j) ==
  /\ queues' = queues /\ names'[name] = j
  /\ names[name] = j \/ (names[name] = 0 /\ j \notin InUse)
  /\ \A o \in Names \ {name} : names'[o] = names[o]
  /\ \A x \in Processes \ {p} : mq_tx'[x] = mq_tx[x] /\ mq_rx'[x] = mq_rx[x]
  /\ \/ TxName(p) = name /\ mq_tx[p] = 0 /\ mq_tx'[p] = j /\ mq_rx'[p] = mq_rx[p]
     \/ RxName(p) = name /\ mq_rx[p] = 0 /\ mq_rx'[p] = j /\ mq_tx'[p] = mq_tx[p]
  /\ UNCHANGED <<sent, got, before, undisturbed, partners, count>>

LEMMA UnlinkReleases ==
  ASSUME RFAssumption, Base, NEW p \in Processes, Unlink(p)
  PROVE  Released
<1>1. QueueTypes
  BY DEF Base
<1>2. names' \in [Names -> Numbers \cup {0}] /\ mq_tx' = mq_tx /\ mq_rx' = mq_rx /\ Reaped
  BY <1>1 DEF Unlink, QueueTypes
<1>3. \A i \in Numbers : queues'[i] = IF i \in InUse' THEN queues[i] ELSE << >>
  BY <1>1, <1>2, RFAssumption, ReapedTypes DEF QueueTypes
<1>4. \A name \in Names : names'[name] \in {names[name], 0}
  BY <1>1 DEF Unlink, QueueTypes
<1>5. UNCHANGED <<sent, got, before, undisturbed, partners, count>>
  BY DEF Unlink, Call, history
<1>6. QED
  BY <1>2, <1>3, <1>4, <1>5 DEF Released

LEMMA CloseReleases ==
  ASSUME RFAssumption, Base, NEW p \in Processes, CloseQueue(p)
  PROVE  Released
<1>1. QueueTypes
  BY DEF Base
<1>2. /\ names' = names /\ Reaped
      /\ mq_tx' \in [Processes -> Numbers \cup {0}] /\ mq_rx' \in [Processes -> Numbers \cup {0}]
  BY <1>1 DEF CloseQueue, QueueTypes
<1>3. \A i \in Numbers : queues'[i] = IF i \in InUse' THEN queues[i] ELSE << >>
  BY <1>1, <1>2, RFAssumption, ReapedTypes DEF QueueTypes
<1>4. \A x \in Processes : mq_tx'[x] \in {mq_tx[x], 0} /\ mq_rx'[x] \in {mq_rx[x], 0}
  BY <1>1 DEF CloseQueue, QueueTypes
<1>5. UNCHANGED <<sent, got, before, undisturbed, partners, count>>
  BY DEF CloseQueue, Call, history
<1>6. QED
  BY <1>2, <1>3, <1>4, <1>5 DEF Released

LEMMA ClosedReleases ==
  ASSUME RFAssumption, Base, NEW p \in Nodes, ReceiveClosed(p)
  PROVE  Released
<1>1. QueueTypes /\ p \in Processes
  BY DEF Base, Processes
<1>2. /\ names' = names /\ Reaped
      /\ mq_tx' \in [Processes -> Numbers \cup {0}] /\ mq_rx' = mq_rx
  BY <1>1 DEF ReceiveClosed, QueueTypes
<1>3. \A i \in Numbers : queues'[i] = IF i \in InUse' THEN queues[i] ELSE << >>
  BY <1>1, <1>2, RFAssumption, ReapedTypes DEF QueueTypes
<1>4. \A x \in Processes : mq_tx'[x] \in {mq_tx[x], 0} /\ mq_rx'[x] \in {mq_rx[x], 0}
  BY <1>1 DEF ReceiveClosed, QueueTypes
<1>5. UNCHANGED <<sent, got, before, undisturbed, partners, count>>
  BY DEF ReceiveClosed
<1>6. QED
  BY <1>2, <1>3, <1>4, <1>5 DEF Released

LEMMA CreateAcquires ==
  ASSUME RFAssumption, Base, NEW p \in Processes, CreateQueue(p)
  PROVE  \E name \in Names : \E j \in Numbers : Acquired(p, name, j)
<1>1. At(p, mode[p], todo[p], mq_tx[p], mq_rx[p]) /\ ProcessTypes /\ QueueTypes
  BY DEF Base, InOrder
<1>2. UNCHANGED <<sent, got, before, undisturbed, partners, count>>
  BY DEF CreateQueue, Call, history
<1>3. CASE /\ Call(p, "create_tx") /\ Opened(TxName(p))
           /\ mq_tx' = [mq_tx EXCEPT ![p] = names'[TxName(p)]] /\ mq_rx' = mq_rx
  <2>1. mq_tx[p] = 0
    BY <1>1, <1>3, RFAssumption, CallEffect, CreateCall
  <2>2. PICK name, j : name = TxName(p) /\ j = names'[name]
    OBVIOUS
  <2>3. /\ name \in Names /\ j \in Numbers /\ \A o \in Names \ {name} : names'[o] = names[o]
        /\ names[name] = j \/ (names[name] = 0 /\ j \notin InUse)
    BY <1>1, <1>3, <2>2, RFAssumption, NamesOf, OpenedNumber
  <2>4. mq_tx'[p] = j /\ \A x \in Processes \ {p} : mq_tx'[x] = mq_tx[x]
    BY <1>1, <1>3, <2>2 DEF QueueTypes
  <2>5. Acquired(p, name, j)
    BY <1>2, <1>3, <2>1, <2>2, <2>3, <2>4 DEF Acquired, Opened
  <2>6. QED
    BY <2>3, <2>5
<1>4. CASE /\ Call(p, "create_rx") /\ Opened(RxName(p))
           /\ mq_rx' = [mq_rx EXCEPT ![p] = names'[RxName(p)]] /\ mq_tx' = mq_tx
  <2>1. mq_rx[p] = 0
    BY <1>1, <1>4, RFAssumption, CallEffect, CreateCall
  <2>2. PICK name, j : name = RxName(p) /\ j = names'[name]
    OBVIOUS
  <2>3. /\ name \in Names /\ j \in Numbers /\ \A o \in Names \ {name} : names'[o] = names[o]
        /\ names[name] = j \/ (names[name] = 0 /\ j \notin InUse)
    BY <1>1, <1>4, <2>2, RFAssumption, NamesOf, OpenedNumber
  <2>4. mq_rx'[p] = j /\ \A x \in Processes \ {p} : mq_rx'[x] = mq_rx[x]
    BY <1>1, <1>4, <2>2 DEF QueueTypes
  <2>5. Acquired(p, name, j)
    BY <1>2, <1>4, <2>1, <2>2, <2>3, <2>4 DEF Acquired, Opened
  <2>6. QED
    BY <2>3, <2>5
<1>5. QED
  BY <1>3, <1>4 DEF CreateQueue

LEMMA OpenAcquires ==
  ASSUME RFAssumption, Base, NEW p \in Processes, OpenQueue(p)
  PROVE  \E name \in Names : \E j \in Numbers : Acquired(p, name, j)
<1>1. At(p, mode[p], todo[p], mq_tx[p], mq_rx[p]) /\ ProcessTypes /\ QueueTypes
  BY DEF Base, InOrder
<1>2. UNCHANGED <<sent, got, before, undisturbed, partners, count, queues, names>>
  BY DEF OpenQueue, Call, history
<1>3. CASE /\ names[TxName(p)] # 0 /\ Call(p, "open_tx")
           /\ mq_tx' = [mq_tx EXCEPT ![p] = names[TxName(p)]] /\ mq_rx' = mq_rx
  <2>1. mq_tx[p] = 0
    BY <1>1, <1>3, RFAssumption, CallEffect, OpenCall
  <2>2. PICK name, j : name = TxName(p) /\ j = names[name]
    OBVIOUS
  <2>3. name \in Names /\ j \in Numbers
    BY <1>1, <1>3, <2>2, NamesOf DEF QueueTypes
  <2>4. mq_tx'[p] = j /\ \A x \in Processes \ {p} : mq_tx'[x] = mq_tx[x]
    BY <1>1, <1>3, <2>2 DEF QueueTypes
  <2>5. Acquired(p, name, j)
    BY <1>2, <1>3, <2>1, <2>2, <2>3, <2>4 DEF Acquired
  <2>6. QED
    BY <2>3, <2>5
<1>4. CASE /\ names[RxName(p)] # 0 /\ Call(p, "open_rx")
           /\ mq_rx' = [mq_rx EXCEPT ![p] = names[RxName(p)]] /\ mq_tx' = mq_tx
  <2>1. mq_rx[p] = 0
    BY <1>1, <1>4, RFAssumption, CallEffect, OpenCall
  <2>2. PICK name, j : name = RxName(p) /\ j = names[name]
    OBVIOUS
  <2>3. name \in Names /\ j \in Numbers
    BY <1>1, <1>4, <2>2, NamesOf DEF QueueTypes
  <2>4. mq_rx'[p] = j /\ \A x \in Processes \ {p} : mq_rx'[x] = mq_rx[x]
    BY <1>1, <1>4, <2>2 DEF QueueTypes
  <2>5. Acquired(p, name, j)
    BY <1>2, <1>4, <2>1, <2>2, <2>3, <2>4 DEF Acquired
  <2>6. QED
    BY <2>3, <2>5
<1>5. QED
  BY <1>3, <1>4 DEF OpenQueue

\* Unlinking and closing takes uses away, and the queues without any are gone.
LEMMA ReleaseOneWay ==
  ASSUME RFAssumption, Base, OneWay, Released
  PROVE  OneWay'
<1>1. ASSUME NEW name \in Names, NEW i \in Numbers, i \in Used(name)'
      PROVE  i \in Used(name)
  <2>1. i # 0
    BY Zero
  <2>2. CASE i = names'[name]
    BY <2>1, <2>2 DEF Used, Released
  <2>3. CASE \E x \in Processes : TxName(x) = name /\ i = mq_tx'[x]
    BY <2>1, <2>3 DEF Used, Released
  <2>4. CASE \E x \in Processes : RxName(x) = name /\ i = mq_rx'[x]
    BY <2>1, <2>4 DEF Used, Released
  <2>5. QED
    BY <1>1, <2>2, <2>3, <2>4 DEF Used, TxName, RxName
<1>2. "server_to_client" \in Names /\ "client_to_server" \in Names
  BY DEF Names
<1>3. \A i \in Numbers : ~(i \in Used("server_to_client")' /\ i \in Used("client_to_server")')
  BY <1>1, <1>2 DEF OneWay
<1>4. ASSUME NEW i \in Numbers, NEW k \in DOMAIN queues'[i], NEW name \in Names,
             TxName(queues'[i][k].from) = name
      PROVE  i \in Used(name)'
  <2>1. queues'[i] = queues[i] /\ i \in InUse'
    BY <1>4 DEF Released
  <2>2. i \in Used(name)
    BY <1>4, <2>1 DEF OneWay
  <2>3. (InUse = Used("server_to_client") \cup Used("client_to_server"))'
    BY UsedInUse, PTL
  <2>4. PICK other \in Names : i \in Used(other)'
    BY <1>2, <2>1, <2>3
  <2>5. other = name
    BY <1>1, <2>2, <2>4 DEF OneWay, Names
  <2>6. QED
    BY <2>4, <2>5
<1>5. QED
  BY <1>3, <1>4 DEF OneWay

\* Making and opening a queue adds a use under the name it is found by.
LEMMA AcquireOneWay ==
  ASSUME RFAssumption, Base, OneWay, NEW p \in Processes, NEW name \in Names, NEW j \in Numbers,
         Acquired(p, name, j)
  PROVE  OneWay'
<1>1. queues' = queues /\ (j \in Used(name) \/ j \notin InUse)
  BY DEF Acquired, Used
<1>2. \A o \in Names : \/ names'[o] = names[o]
                       \/ o = name /\ names[o] = 0 /\ names'[o] = j
  BY DEF Acquired
<1>3. \A x \in Processes :
        /\ \/ mq_tx'[x] = mq_tx[x]
           \/ TxName(x) = name /\ mq_tx[x] = 0 /\ mq_tx'[x] = j
        /\ \/ mq_rx'[x] = mq_rx[x]
           \/ RxName(x) = name /\ mq_rx[x] = 0 /\ mq_rx'[x] = j
  BY DEF Acquired
<1>4. ASSUME NEW o \in Names, NEW i \in Numbers, i \in Used(o)
      PROVE  i \in Used(o)'
  <2>1. i # 0
    BY Zero
  <2>2. CASE i = names[o]
    BY <1>2, <2>1, <2>2 DEF Used
  <2>3. CASE \E x \in Processes : TxName(x) = o /\ i = mq_tx[x]
    BY <1>3, <2>1, <2>3 DEF Used, TxName
  <2>4. CASE \E x \in Processes : RxName(x) = o /\ i = mq_rx[x]
    BY <1>3, <2>1, <2>4 DEF Used, RxName
  <2>5. QED
    BY <1>4, <2>2, <2>3, <2>4 DEF Used
<1>5. ASSUME NEW o \in Names, NEW i \in Numbers, i \in Used(o)'
      PROVE  i \in Used(o) \/ (o = name /\ i = j)
  <2>1. CASE i = names'[o]
    BY <1>2, <2>1 DEF Used
  <2>2. CASE \E x \in Processes : TxName(x) = o /\ i = mq_tx'[x]
    BY <1>3, <2>2 DEF Used
  <2>3. CASE \E x \in Processes : RxName(x) = o /\ i = mq_rx'[x]
    BY <1>3, <2>3 DEF Used
  <2>4. QED
    BY <1>5, <2>1, <2>2, <2>3 DEF Used, TxName, RxName
<1>6. "server_to_client" \in Names /\ "client_to_server" \in Names
  BY DEF Names
<1>7. \A o \in Names : j \in Used(o) => o = name
  <2>1. \A o \in Names : o = "server_to_client" \/ o = "client_to_server"
    BY DEF Names
  <2>2. QED
    BY <1>1, <2>1, UsedInUse DEF OneWay
<1>8. \A i \in Numbers : ~(i \in Used("server_to_client")' /\ i \in Used("client_to_server")')
  <2>1. SUFFICES ASSUME NEW i \in Numbers, i \in Used("server_to_client")',
                        i \in Used("client_to_server")'
                 PROVE  FALSE
    OBVIOUS
  <2>2. CASE i = j
    <3>1. \A o \in Names : i \in Used(o)' => o = name
      BY <1>5, <1>7, <2>2
    <3>2. QED
      BY <1>6, <2>1, <3>1
  <2>3. CASE i # j
    BY <1>5, <1>6, <2>1, <2>3 DEF OneWay
  <2>4. QED
    BY <2>2, <2>3
<1>9. QED
  BY <1>4, <1>8, <1>1 DEF OneWay

LEMMA SameOneWay ==
  ASSUME OneWay, UNCHANGED <<queues, names, mq_tx, mq_rx>>
  PROVE  OneWay'
BY DEF OneWay, Used

LEMMA SendOneWay ==
  ASSUME RFAssumption, Base, OneWay, NEW q \in Senders, Send(q)
  PROVE  OneWay'
<1>1. \A name : Used(name)' = Used(name)
  BY DEF Send, Used, TxName, RxName
<1>2. PICK m : m = [from |-> q, number |-> sent[q] + 1]
  OBVIOUS
<1>3. mq_tx[q] \in Used(TxName(q)) /\ m.from = q
  BY <1>2 DEF Used, Processes
<1>4. ASSUME NEW i \in Numbers, NEW k \in DOMAIN queues'[i], NEW name \in Names,
             TxName(queues'[i][k].from) = name
      PROVE  i \in Used(name)
  <2>1. CASE queues'[i] = queues[i]
    BY <1>4, <2>1 DEF OneWay
  <2>2. CASE i = mq_tx[q] /\ queues'[i] = Append(queues[i], m)
    <3>1. PICK s : s = queues[i] /\ s \in Seq(Message)
      BY DEF Base, QueueTypes
    <3>2. m \in Message
      BY <1>2, RFAssumption, SendEffect
    <3>3. CASE k \in DOMAIN s
      <4>1. queues'[i][k] = queues[i][k]
        BY <2>2, <3>1, <3>2, <3>3, AppendElements
      <4>2. QED
        BY <1>4, <3>1, <3>3, <4>1 DEF OneWay
    <3>4. CASE k \notin DOMAIN s
      <4>1. queues'[i][k] = m
        BY <1>4, <2>2, <3>1, <3>2, <3>4, AppendElements
      <4>2. QED
        BY <1>3, <1>4, <2>2, <4>1
    <3>5. QED
      BY <3>3, <3>4
  <2>3. QED
    BY <1>2, <2>1, <2>2, RFAssumption, SendEffect
<1>5. QED
  BY <1>1, <1>4 DEF OneWay

LEMMA ReceiveOneWay ==
  ASSUME RFAssumption, Base, OneWay, NEW p \in Nodes, Receive(p)
  PROVE  OneWay'
<1>1. \A name : Used(name)' = Used(name)
  BY DEF Receive, Used, TxName, RxName
<1>2. ASSUME NEW i \in Numbers, NEW k \in DOMAIN queues'[i], NEW name \in Names,
             TxName(queues'[i][k].from) = name
      PROVE  i \in Used(name)
  <2>1. CASE i # mq_rx[p]
    BY <1>2, <2>1, RFAssumption, ReceiveEffect DEF OneWay
  <2>2. CASE i = mq_rx[p]
    <3>1. PICK s : s = queues[i] /\ s \in Seq(Message) /\ s # << >> /\ queues'[i] = Tail(s)
      BY <2>2, RFAssumption, ReceiveEffect DEF Base, QueueTypes
    <3>2. k + 1 \in DOMAIN s /\ queues'[i][k] = s[k + 1]
      BY <1>2, <3>1, TailElements
    <3>3. QED
      BY <1>2, <3>1, <3>2 DEF OneWay
  <2>3. QED
    BY <2>1, <2>2
<1>3. QED
  BY <1>1, <1>2 DEF OneWay
-----------------------------------------------------------------------------
(* The order of the messages.                                                *)

LEMMA NoElements ==
  /\ Increasing(<< >>)
  /\ \A n : Within(<< >>, n)
  /\ \A b : Free(<< >>, b)
  /\ \A s : Follow(<< >>, s) /\ Follow(s, << >>)
<1>1. DOMAIN << >> = {}
  OBVIOUS
<1>2. QED
  BY <1>1 DEF Increasing, Within, Free, Follow

\* A message is put behind others.
LEMMA AppendOrder ==
  ASSUME NEW s \in Seq(Message), NEW e \in Message, NEW g, NEW n, NEW b
  PROVE  /\ /\ Increasing(s)
            /\ \A k \in DOMAIN s : s[k].from = e.from => s[k].number < e.number
            => Increasing(Append(s, e))
         /\ Within(s, n) /\ e.number <= n[e.from] => Within(Append(s, e), n)
         /\ Free(s, b) /\ e \notin b => Free(Append(s, e), b)
         /\ /\ Follow(g, s)
            /\ \A j \in DOMAIN g : g[j].from = e.from => g[j].number < e.number
            => Follow(g, Append(s, e))
<1>1. PICK t, l : t = Append(s, e) /\ l = Len(s)
  OBVIOUS
<1>2. /\ l \in Nat /\ DOMAIN s = 1 .. l /\ DOMAIN t = 1 .. l + 1
      /\ \A k \in 1 .. l : t[k] = s[k]
      /\ t[l + 1] = e
  BY <1>1, AppendElements
<1>3. \A k \in DOMAIN t : (k \in DOMAIN s /\ t[k] = s[k]) \/ (k = l + 1 /\ t[k] = e)
  BY <1>2
<1>4. ASSUME Increasing(s), \A k \in DOMAIN s : s[k].from = e.from => s[k].number < e.number
      PROVE  Increasing(t)
  <2>1. SUFFICES ASSUME NEW j \in DOMAIN t, NEW k \in DOMAIN t, j < k, t[j].from = t[k].from
                 PROVE  t[j].number < t[k].number
    BY DEF Increasing
  <2>2. j \in DOMAIN s /\ t[j] = s[j]
    BY <1>2, <2>1
  <2>3. CASE k \in DOMAIN s /\ t[k] = s[k]
    BY <1>4, <2>1, <2>2, <2>3 DEF Increasing
  <2>4. CASE t[k] = e
    BY <1>4, <2>1, <2>2, <2>4
  <2>5. QED
    BY <1>3, <2>3, <2>4
<1>5. Within(s, n) /\ e.number <= n[e.from] => Within(t, n)
  BY <1>3 DEF Within
<1>6. Free(s, b) /\ e \notin b => Free(t, b)
  BY <1>3 DEF Free
<1>7. ASSUME Follow(g, s), \A j \in DOMAIN g : g[j].from = e.from => g[j].number < e.number
      PROVE  Follow(g, t)
  BY <1>3, <1>7 DEF Follow
<1>8. QED
  BY <1>1, <1>4, <1>5, <1>6, <1>7

\* The first message of a queue is taken.
LEMMA TakeOrder ==
  ASSUME NEW s \in Seq(Message), s # << >>, NEW g \in Seq(Message), NEW n, NEW b
  PROVE  /\ Increasing(s) => Increasing(Tail(s))
         /\ Within(s, n) => Within(Tail(s), n)
         /\ Free(s, b) => Free(Tail(s), b)
         /\ Follow(g, s) => Follow(g, Tail(s))
         /\ Follow(g, s) /\ Increasing(s) => Follow(Append(g, Head(s)), Tail(s))
         /\ Follow(g, s) /\ Increasing(g) => Increasing(Append(g, Head(s)))
         /\ Within(s, n) /\ Within(g, n) => Within(Append(g, Head(s)), n)
         /\ Free(s, b) /\ Free(g, b) => Free(Append(g, Head(s)), b)
<1>1. PICK t, h, a, l : t = Tail(s) /\ h = Head(s) /\ a = Append(g, h) /\ l = Len(g)
  OBVIOUS
<1>2. /\ h = s[1] /\ h \in Message /\ 1 \in DOMAIN s /\ DOMAIN s \subseteq Nat \ {0}
      /\ \A k \in DOMAIN t : k + 1 \in DOMAIN s /\ t[k] = s[k + 1]
      /\ DOMAIN t \subseteq Nat \ {0}
  BY <1>1, TailElements
<1>3. /\ l \in Nat /\ DOMAIN g = 1 .. l /\ \A k \in DOMAIN a :
           (k \in DOMAIN g /\ a[k] = g[k]) \/ (k = l + 1 /\ a[k] = h)
  <2>1. /\ l \in Nat /\ DOMAIN g = 1 .. l /\ DOMAIN a = 1 .. l + 1
        /\ \A k \in 1 .. l : a[k] = g[k]
        /\ a[l + 1] = h
    BY <1>1, <1>2, AppendElements
  <2>2. QED
    BY <2>1
<1>4. ASSUME Increasing(s)
      PROVE  Increasing(t)
  <2>1. SUFFICES ASSUME NEW j \in DOMAIN t, NEW k \in DOMAIN t, j < k, t[j].from = t[k].from
                 PROVE  t[j].number < t[k].number
    BY DEF Increasing
  <2>2. /\ j + 1 \in DOMAIN s /\ k + 1 \in DOMAIN s /\ j + 1 < k + 1
        /\ t[j] = s[j + 1] /\ t[k] = s[k + 1]
    BY <1>2, <2>1
  <2>3. QED
    BY <1>4, <2>1, <2>2 DEF Increasing
<1>5. (Within(s, n) => Within(t, n)) /\ (Free(s, b) => Free(t, b))
  BY <1>2 DEF Within, Free
<1>6. Follow(g, s) => Follow(g, t)
  BY <1>2 DEF Follow
<1>7. ASSUME Follow(g, s), Increasing(s)
      PROVE  Follow(a, t)
  <2>1. SUFFICES ASSUME NEW j \in DOMAIN a, NEW k \in DOMAIN t, a[j].from = t[k].from
                 PROVE  a[j].number < t[k].number
    BY DEF Follow
  <2>2. CASE j \in DOMAIN g /\ a[j] = g[j]
    BY <1>6, <1>7, <2>1, <2>2 DEF Follow
  <2>3. CASE a[j] = h
    <3>1. k + 1 \in DOMAIN s /\ t[k] = s[k + 1] /\ 1 < k + 1
      BY <1>2
    <3>2. QED
      BY <1>2, <1>7, <2>1, <2>3, <3>1 DEF Increasing
  <2>4. QED
    BY <1>3, <2>2, <2>3
<1>8. Follow(g, s) /\ Increasing(g) => Increasing(a)
  <2>1. ASSUME Follow(g, s)
        PROVE  \A k \in DOMAIN g : g[k].from = h.from => g[k].number < h.number
    BY <1>2, <2>1 DEF Follow
  <2>2. QED
    BY <1>1, <1>2, <2>1, AppendOrder
<1>9. /\ Within(s, n) => h.number <= n[h.from]
      /\ Free(s, b) => h \notin b
  BY <1>2 DEF Within, Free
<1>10. /\ Within(s, n) /\ Within(g, n) => Within(a, n)
       /\ Free(s, b) /\ Free(g, b) => Free(a, b)
  BY <1>1, <1>2, <1>9, AppendOrder
<1>11. QED
  BY <1>1, <1>4, <1>5, <1>6, <1>7, <1>8, <1>10
\* Nothing is in a queue without a use.
LEMMA UnusedIsEmpty ==
  ASSUME RFAssumption, Base, OneWay, NEW i \in Numbers, i \notin InUse
  PROVE  queues[i] = << >>
<1>1. PICK s : s = queues[i] /\ s \in Seq(Message)
  BY DEF Base, QueueTypes
<1>2. ASSUME NEW k \in DOMAIN s
      PROVE  FALSE
  <2>1. PICK name \in Names : TxName(s[k].from) = name
    BY NamesOf
  <2>2. i \in Used(name)
    BY <1>1, <1>2, <2>1 DEF OneWay
  <2>3. QED
    BY <2>2, UsedInUse DEF Names
<1>3. s = << >>
  BY <1>1, <1>2, TailElements
<1>4. QED
  BY <1>1, <1>3

LEMMA ReleaseSequenced ==
  ASSUME Base, Base', Sequenced, Fresh, Released,
         \A x \in Nodes : mode'[x] = "starting" => mode[x] = "starting",
         \A x \in Nodes : Unlinked(x)' => Unlinked(x) \/ names'[RxName(x)] = 0
  PROVE  Sequenced' /\ Fresh'
<1>1. \A i \in Numbers : queues'[i] = queues[i] \/ queues'[i] = << >>
  BY DEF Released
<1>2. sent' = sent /\ got' = got /\ before' = before
  BY DEF Released
<1>3. \A x \in Nodes : mq_rx'[x] # 0 => mq_rx'[x] = mq_rx[x] /\ mq_rx[x] \in Numbers
  BY DEF Released, Base, QueueTypes, Processes
<1>4. \A i \in Numbers : Increasing(queues'[i]) /\ Within(queues'[i], sent)
  BY <1>1, NoElements DEF Sequenced
<1>5. ASSUME NEW x \in Nodes, mq_rx'[x] # 0
      PROVE  Follow(got[x], queues'[mq_rx'[x]]) /\ Free(queues'[mq_rx'[x]], before[x])
  BY <1>1, <1>3, <1>5, NoElements DEF Sequenced, Fresh
<1>6. ASSUME NEW x \in Nodes, Unlinked(x)', names'[RxName(x)] # 0
      PROVE  Free(queues'[names'[RxName(x)]], before[x])
  <2>1. PICK name \in Names : name = RxName(x)
    BY NamesOf
  <2>2. names'[name] = names[name] /\ names[name] \in Numbers
    BY <1>6, <2>1 DEF Released, Base, QueueTypes
  <2>3. Unlinked(x)
    BY <1>6
  <2>4. Free(queues[names[name]], before[x])
    BY <1>6, <2>1, <2>2, <2>3 DEF Fresh
  <2>5. QED
    BY <1>1, <2>1, <2>2, <2>4, NoElements
<1>7. Sequenced'
  BY <1>2, <1>4, <1>5 DEF Sequenced
<1>8. Fresh'
  BY <1>2, <1>5, <1>6 DEF Fresh, RxName
<1>9. QED
  BY <1>7, <1>8

LEMMA AcquireSequenced ==
  ASSUME RFAssumption, Base, Base', OneWay, Sequenced, Fresh,
         NEW p \in Processes, NEW name \in Names, NEW j \in Numbers, Acquired(p, name, j),
         \A x \in Nodes : mode'[x] = "starting" => mode[x] = "starting",
         \A x \in Nodes : Unlinked(x)' => Unlinked(x),
         p \in Nodes => Unlinked(p)
  PROVE  Sequenced' /\ Fresh'
<1>1. queues' = queues /\ sent' = sent /\ got' = got /\ before' = before
  BY DEF Acquired
<1>2. names[name] = j \/ queues[j] = << >>
  BY RFAssumption, UnusedIsEmpty DEF Acquired
<1>3. ASSUME NEW x \in Nodes, Unlinked(x), names'[RxName(x)] # 0
      PROVE  Free(queues[names'[RxName(x)]], before[x])
  <2>1. CASE names'[RxName(x)] = names[RxName(x)]
    BY <1>3, <2>1 DEF Fresh
  <2>2. CASE names'[RxName(x)] # names[RxName(x)]
    <3>1. RxName(x) = name /\ names'[RxName(x)] = j
      BY <2>2, NamesOf DEF Acquired
    <3>2. queues[j] = << >>
      BY <1>2, <2>2, <3>1
    <3>3. QED
      BY <3>1, <3>2, NoElements
  <2>3. QED
    BY <2>1, <2>2
<1>4. ASSUME NEW x \in Nodes, mq_rx'[x] # 0
      PROVE  Follow(got[x], queues[mq_rx'[x]]) /\ Free(queues[mq_rx'[x]], before[x])
  <2>1. CASE mq_rx'[x] = mq_rx[x]
    BY <1>4, <2>1 DEF Sequenced, Fresh
  <2>2. CASE mq_rx'[x] # mq_rx[x]
    <3>1. x = p /\ RxName(p) = name /\ mq_rx'[x] = j /\ names'[name] = j
      BY <1>4, <2>2 DEF Acquired, Processes
    <3>2. Unlinked(p) /\ mode[p] = "starting"
      BY <1>4, <3>1 DEF Unlinked
    <3>3. got[x] = << >>
      BY <1>4, <3>1, <3>2 DEF Sequenced
    <3>4. Free(queues[j], before[x])
      BY <1>3, <1>4, <3>1, <3>2, Zero
    <3>5. QED
      BY <3>1, <3>3, <3>4, NoElements
  <2>3. QED
    BY <2>1, <2>2
<1>5. Sequenced'
  BY <1>1, <1>4 DEF Sequenced
<1>6. Fresh'
  BY <1>1, <1>3, <1>4 DEF Fresh, RxName
<1>7. QED
  BY <1>5, <1>6

LEMMA SameSequenced ==
  ASSUME Sequenced, Fresh, UNCHANGED <<queues, names, mq_rx, sent, got, before>>,
         \A x \in Nodes : mode'[x] = "starting" => mode[x] = "starting",
         \A x \in Nodes : Unlinked(x)' => Unlinked(x)
  PROVE  Sequenced' /\ Fresh'
<1>1. Sequenced'
  BY DEF Sequenced
<1>2. Fresh'
  BY DEF Fresh, RxName
<1>3. QED
  BY <1>1, <1>2

LEMMA SendSequenced ==
  ASSUME RFAssumption, Base, Sequenced, Fresh, NEW q \in Senders, Send(q)
  PROVE  Sequenced' /\ Fresh'
<1>1. PICK m : m = [from |-> q, number |-> sent[q] + 1]
  OBVIOUS
<1>2. /\ m \in Message /\ m.from = q /\ m.number = sent[q] + 1 /\ sent[q] \in Nat
      /\ sent'[q] = sent[q] + 1 /\ \A x \in Senders \ {q} : sent'[x] = sent[x]
      /\ \A i \in Numbers : queues'[i] = queues[i] \/ queues'[i] = Append(queues[i], m)
  BY <1>1, RFAssumption, SendEffect DEF Base, HistoryTypes
<1>3. /\ names' = names /\ mq_rx' = mq_rx /\ got' = got /\ before' = before
      /\ mode' = mode /\ todo' = todo
  BY DEF Send
<1>4. \A x \in Senders : sent[x] \in Nat /\ sent'[x] \in Nat /\ sent[x] <= sent'[x]
  BY <1>2 DEF Base, HistoryTypes
<1>5. ASSUME NEW s \in Seq(Message), Within(s, sent)
      PROVE  /\ Within(s, sent')
             /\ \A k \in DOMAIN s : s[k].from = m.from => s[k].number < m.number
  <2>1. SUFFICES ASSUME NEW k \in DOMAIN s
                 PROVE  /\ s[k].number <= sent'[s[k].from]
                        /\ s[k].from = q => s[k].number < m.number
    BY <1>2 DEF Within
  <2>2. s[k] \in Message
    OBVIOUS
  <2>3. PICK x, y : x = s[k].from /\ y = s[k].number
    OBVIOUS
  <2>4. x \in Senders /\ y \in Nat /\ y <= sent[x]
    BY <1>5, <2>2, <2>3 DEF Message, Within
  <2>5. y <= sent'[x] /\ (x = q => y < m.number)
    BY <1>2, <1>4, <2>4
  <2>6. QED
    BY <2>3, <2>5
<1>6. \A i \in Numbers : queues[i] \in Seq(Message)
  BY DEF Base, QueueTypes
<1>7. m.number <= sent'[m.from]
  BY <1>2
<1>8. ASSUME NEW i \in Numbers
      PROVE  Increasing(queues'[i]) /\ Within(queues'[i], sent')
  <2>1. PICK s : s = queues[i] /\ s \in Seq(Message) /\ Increasing(s) /\ Within(s, sent)
    BY <1>6 DEF Sequenced
  <2>2. Increasing(Append(s, m)) /\ Within(Append(s, m), sent') /\ Within(s, sent')
    BY <1>2, <1>5, <1>7, <2>1, AppendOrder
  <2>3. QED
    BY <1>2, <2>1, <2>2
<1>9. ASSUME NEW x \in Nodes
      PROVE  Within(got[x], sent')
  BY <1>5 DEF Sequenced, Base, HistoryTypes
<1>10. ASSUME NEW x \in Nodes, NEW i \in Numbers, Follow(got[x], queues[i])
       PROVE  Follow(got[x], queues'[i])
  <2>1. PICK s, g : /\ s = queues[i] /\ s \in Seq(Message) /\ g = got[x] /\ g \in Seq(Message)
                    /\ Within(g, sent) /\ Follow(g, s)
    BY <1>6, <1>10 DEF Sequenced, Base, HistoryTypes
  <2>2. \A k \in DOMAIN g : g[k].from = m.from => g[k].number < m.number
    BY <1>5, <2>1
  <2>3. Follow(g, Append(s, m))
    BY <1>2, <2>1, <2>2, AppendOrder
  <2>4. QED
    BY <1>2, <2>1, <2>3
<1>11. ASSUME NEW x \in Nodes
       PROVE  m \notin before[x] /\ \A e \in before[x] : e.number <= sent'[e.from]
  <2>1. \A e \in before[x] : e \in Message /\ e.number <= sent[e.from]
    BY DEF Fresh, Base, HistoryTypes
  <2>2. \A e \in before[x] : e.from \in Senders /\ e.number \in Nat
    BY <2>1 DEF Message
  <2>3. QED
    BY <1>2, <1>4, <2>1, <2>2
<1>12. ASSUME NEW x \in Nodes, NEW i \in Numbers, Free(queues[i], before[x])
       PROVE  Free(queues'[i], before[x])
  <2>1. PICK s : s = queues[i] /\ s \in Seq(Message)
    BY <1>6
  <2>2. Free(Append(s, m), before[x])
    BY <1>2, <1>11, <1>12, <2>1, AppendOrder
  <2>3. QED
    BY <1>2, <1>12, <2>1, <2>2
<1>13. /\ \A x \in Nodes : mq_rx[x] # 0 => mq_rx[x] \in Numbers
       /\ \A x \in Nodes : names[RxName(x)] # 0 => names[RxName(x)] \in Numbers
  BY NamesOf DEF Base, QueueTypes, Processes
<1>14. Sequenced'
  BY <1>3, <1>8, <1>9, <1>10, <1>13 DEF Sequenced
<1>15. Fresh'
  <2>1. \A x \in Nodes : Unlinked(x)' => Unlinked(x)
    BY <1>3 DEF Unlinked, RxName
  <2>2. QED
    BY <1>3, <1>11, <1>12, <1>13, <2>1 DEF Fresh, RxName
<1>16. QED
  BY <1>14, <1>15
LEMMA ReceiveSequenced ==
  ASSUME RFAssumption, Base, OneWay, Sequenced, Fresh, NEW p \in Nodes, Receive(p)
  PROVE  Sequenced' /\ Fresh'
<1>1. PICK i, s, g : i = mq_rx[p] /\ s = queues[i] /\ g = got[p]
  OBVIOUS
<1>2. /\ i \in Numbers /\ s \in Seq(Message) /\ s # << >> /\ g \in Seq(Message) /\ i # 0
      /\ queues'[i] = Tail(s) /\ \A j \in Numbers \ {i} : queues'[j] = queues[j]
      /\ got'[p] = Append(g, Head(s)) /\ \A x \in Nodes \ {p} : got'[x] = got[x]
  BY <1>1, RFAssumption, ReceiveEffect, Zero DEF Base, QueueTypes, HistoryTypes
<1>3. /\ names' = names /\ mq_rx' = mq_rx /\ sent' = sent /\ before' = before
      /\ mode' = mode /\ todo' = todo /\ mode[p] # "starting"
  BY DEF Receive
<1>4. \A j \in Numbers : queues[j] \in Seq(Message)
  BY DEF Base, QueueTypes
<1>5. \A x \in Nodes : got[x] \in Seq(Message)
  BY DEF Base, HistoryTypes
<1>6. Increasing(s) /\ Within(s, sent) /\ Increasing(g) /\ Within(g, sent) /\ Follow(g, s)
  BY <1>1, <1>2 DEF Sequenced
<1>7. Free(s, before[p]) /\ Free(g, before[p])
  BY <1>1, <1>2 DEF Fresh
<1>8. /\ Increasing(Tail(s)) /\ Within(Tail(s), sent)
      /\ Increasing(Append(g, Head(s))) /\ Within(Append(g, Head(s)), sent)
      /\ Follow(Append(g, Head(s)), Tail(s)) /\ Free(Append(g, Head(s)), before[p])
      /\ Free(Tail(s), before[p])
  BY <1>2, <1>6, <1>7, TakeOrder
<1>9. ASSUME NEW x \in Nodes \ {p}, NEW j \in Numbers
      PROVE  /\ Follow(got[x], queues[j]) => Follow(got'[x], queues'[j])
             /\ Free(queues[j], before[x]) => Free(queues'[j], before[x])
  <2>1. PICK u, b : u = got[x] /\ u \in Seq(Message) /\ b = before[x] /\ got'[x] = u
    BY <1>2, <1>5
  <2>2. (Follow(u, s) => Follow(u, Tail(s))) /\ (Free(s, b) => Free(Tail(s), b))
    BY <1>2, <2>1, TakeOrder
  <2>3. CASE j = i
    BY <1>1, <1>2, <2>1, <2>2, <2>3
  <2>4. CASE j # i
    BY <1>2, <2>1, <2>4
  <2>5. QED
    BY <2>3, <2>4
<1>10. ASSUME NEW j \in Numbers
       PROVE  /\ Increasing(queues'[j]) /\ Within(queues'[j], sent)
              /\ Free(queues[j], before[p]) => Free(queues'[j], before[p])
  <2>1. CASE j = i
    BY <1>2, <1>8, <2>1
  <2>2. CASE j # i
    BY <1>2, <2>2 DEF Sequenced
  <2>3. QED
    BY <2>1, <2>2
<1>11. Board[Head(s).from] # Board[p]
  <2>1. 1 \in DOMAIN queues[i] /\ queues[i][1] = Head(s)
    BY <1>1, <1>2, TailElements
  <2>2. PICK h, name : h = Head(s) /\ name = TxName(h.from)
    OBVIOUS
  <2>3. h.from \in Processes /\ name \in Names
    BY <1>2, <2>1, <2>2, RFAssumption, QueueElement DEF Base
  <2>4. i \in Used(name)
    BY <1>2, <2>1, <2>2, <2>3 DEF OneWay
  <2>5. i \in Used(RxName(p))
    BY <1>1 DEF Used, Processes
  <2>6. RxName(p) = name
    BY <1>2, <2>3, <2>4, <2>5, NamesOf DEF OneWay, Names
  <2>7. QED
    BY <2>2, <2>6 DEF TxName, RxName
<1>12. \A k \in DOMAIN got'[p] : Board[got'[p][k].from] # Board[p]
  <2>1. SUFFICES ASSUME NEW k \in DOMAIN got'[p] PROVE Board[got'[p][k].from] # Board[p]
    OBVIOUS
  <2>2. Head(s) \in Message
    BY <1>2, TailElements
  <2>3. CASE k \in DOMAIN g
    <3>1. got'[p][k] = g[k]
      BY <1>2, <2>2, <2>3, AppendElements
    <3>2. QED
      BY <1>1, <2>3, <3>1 DEF Sequenced
  <2>4. CASE k \notin DOMAIN g
    <3>1. got'[p][k] = Head(s)
      BY <1>2, <2>1, <2>2, <2>4, AppendElements
    <3>2. QED
      BY <1>11, <3>1
  <2>5. QED
    BY <2>3, <2>4
<1>13. /\ \A x \in Nodes : mq_rx[x] # 0 => mq_rx[x] \in Numbers
       /\ \A x \in Nodes : names[RxName(x)] # 0 => names[RxName(x)] \in Numbers
  BY NamesOf DEF Base, QueueTypes, Processes
<1>14. Sequenced'
  <2>1. \A j \in Numbers : Increasing(queues'[j]) /\ Within(queues'[j], sent')
    BY <1>3, <1>10
  <2>2. \A x \in Nodes : Increasing(got'[x]) /\ Within(got'[x], sent')
    BY <1>2, <1>3, <1>8 DEF Sequenced
  <2>3. \A x \in Nodes : mode'[x] = "starting" => got'[x] = << >>
    BY <1>2, <1>3 DEF Sequenced
  <2>4. ASSUME NEW x \in Nodes, mq_rx'[x] # 0
        PROVE  Follow(got'[x], queues'[mq_rx'[x]])
    <3>1. CASE x = p
      BY <1>1, <1>2, <1>3, <1>8, <3>1
    <3>2. CASE x # p
      BY <1>3, <1>9, <1>13, <2>4, <3>2 DEF Sequenced
    <3>3. QED
      BY <3>1, <3>2
  <2>5. \A x \in Nodes : \A k \in DOMAIN got'[x] : Board[got'[x][k].from] # Board[x]
    <3>1. SUFFICES ASSUME NEW x \in Nodes, NEW k \in DOMAIN got'[x]
                   PROVE  Board[got'[x][k].from] # Board[x]
      OBVIOUS
    <3>2. CASE x = p
      BY <1>12, <3>1, <3>2
    <3>3. CASE x # p
      <4>1. got'[x] = got[x]
        BY <1>2, <3>3
      <4>2. QED
        BY <3>1, <4>1 DEF Sequenced
    <3>4. QED
      BY <3>2, <3>3
  <2>6. QED
    BY <2>1, <2>2, <2>3, <2>4, <2>5 DEF Sequenced
<1>15. Fresh'
  <2>1. \A x \in Nodes : Unlinked(x)' => Unlinked(x)
    BY <1>3 DEF Unlinked, RxName
  <2>2. \A x \in Nodes : Free(got'[x], before[x])
    BY <1>2, <1>8 DEF Fresh
  <2>3. \A x \in Nodes : \A j \in Numbers :
          Free(queues[j], before[x]) => Free(queues'[j], before[x])
    BY <1>9, <1>10
  <2>4. QED
    BY <1>3, <1>13, <2>1, <2>2, <2>3 DEF Fresh, RxName
<1>16. QED
  BY <1>14, <1>15

LEMMA StartNodeSequenced ==
  ASSUME RFAssumption, Base, Base', Sequenced, Fresh, NEW p \in Nodes, StartNode(p)
  PROVE  Sequenced' /\ Fresh'
<1>1. p \in Processes /\ Create \in Left(p, "starting") /\ Begin(p, Create)
  BY DEF Processes, Left, StartNode
<1>2. /\ mode'[p] = "starting" /\ todo'[p] = Create
      /\ \A x \in Processes \ {p} : mode'[x] = mode[x] /\ todo'[x] = todo[x]
  BY <1>1, RFAssumption, BeginBase
<1>3. queues' = queues /\ names' = names /\ mq_rx' = mq_rx /\ sent' = sent
  BY <1>1 DEF Begin
<1>4. /\ got'[p] = << >> /\ \A x \in Nodes \ {p} : got'[x] = got[x]
      /\ before'[p] = UNION {SentBy(q) : q \in Senders}
      /\ \A x \in Nodes \ {p} : before'[x] = before[x]
  BY DEF StartNode, Base, HistoryTypes
<1>5. mq_rx[p] = 0
  BY <1>1 DEF Base, InOrder, At, Begin
<1>6. \A m \in before'[p] : m.number <= sent[m.from]
  BY <1>4 DEF SentBy, Base, HistoryTypes
<1>7. ~Unlinked(p)' /\ \A x \in Nodes \ {p} : Unlinked(x)' => Unlinked(x)
  <2>1. Head(Create) = "unlink_s2c"
    BY CallsOf DEF Create
  <2>2. QED
    BY <1>2, <2>1 DEF Unlinked, RxName, Processes
<1>8. DOMAIN << >> = {}
  OBVIOUS
<1>9. Sequenced'
  BY <1>2, <1>3, <1>4, <1>5, <1>8, NoElements DEF Sequenced, Processes
<1>10. Fresh'
  BY <1>3, <1>4, <1>5, <1>6, <1>7, NoElements DEF Fresh, RxName
<1>11. QED
  BY <1>9, <1>10

-----------------------------------------------------------------------------
(* What each call does to the modes.                                         *)

LEMMA UnlinkModes ==
  ASSUME RFAssumption, Base, NEW p \in Processes, Unlink(p)
  PROVE  /\ p \in Nodes /\ \A x \in Processes \ {p} : mode'[x] = mode[x] /\ todo'[x] = todo[x]
         /\ \/ /\ mode[p] = "starting" /\ mode'[p] = "starting"
               /\ mq_tx[p] = 0 /\ mq_rx[p] = 0
            \/ mode[p] = "stopping" /\ mode'[p] \in {"stopping", "off"} /\ Board[p] = "server"
         /\ \A x \in Nodes : Unlinked(x)' => Unlinked(x) \/ names'[RxName(x)] = 0
<1>1. At(p, mode[p], todo[p], mq_tx[p], mq_rx[p]) /\ ProcessTypes /\ QueueTypes
  BY DEF Base, InOrder
<1>2. PICK call \in {"unlink_s2c", "unlink_c2s"} :
        /\ Call(p, call)
        /\ call = "unlink_s2c" => names'["server_to_client"] = 0
        /\ call = "unlink_c2s" => names'["client_to_server"] = 0
  BY <1>1 DEF Unlink, QueueTypes, Names
<1>3. /\ todo[p] # << >> /\ Head(todo[p]) = call
      /\ mode'[p] = After(mode[p], todo[p]) /\ todo'[p] = Tail(todo[p])
      /\ \A x \in Processes \ {p} : mode'[x] = mode[x] /\ todo'[x] = todo[x]
  BY <1>1, <1>2, CallEffect
<1>4. /\ p \in Nodes
      /\ \/ /\ mode[p] = "starting" /\ mode'[p] = "starting"
            /\ mq_tx[p] = 0 /\ mq_rx[p] = 0
            /\ call = "unlink_s2c" => Head(todo'[p]) = "unlink_c2s"
            /\ call = "unlink_c2s" => Head(todo'[p]) = "create_tx"
         \/ mode[p] = "stopping" /\ mode'[p] \in {"stopping", "off"} /\ Board[p] = "server"
  <2>1. PICK m, s, tx, rx : m = mode[p] /\ s = todo[p] /\ tx = mq_tx[p] /\ rx = mq_rx[p]
    OBVIOUS
  <2>2. At(p, m, s, tx, rx) /\ s # << >> /\ Head(s) \in {"unlink_s2c", "unlink_c2s"}
    BY <1>1, <1>3, <2>1
  <2>3. /\ p \in Nodes
        /\ \/ /\ m = "starting" /\ After(m, s) = "starting" /\ Tail(s) # << >>
              /\ tx = 0 /\ rx = 0
              /\ Head(s) = "unlink_s2c" => Head(Tail(s)) = "unlink_c2s"
              /\ Head(s) = "unlink_c2s" => Head(Tail(s)) = "create_tx"
           \/ /\ m = "stopping" /\ After(m, s) \in {"stopping", "off"} /\ Board[p] = "server"
    BY <2>2, RFAssumption, UnlinkCall
  <2>4. mode'[p] = After(m, s) /\ todo'[p] = Tail(s) /\ Head(s) = call
    BY <1>3, <2>1
  <2>5. QED
    BY <2>1, <2>3, <2>4
<1>5. Unlinked(p)' => Unlinked(p) \/ names'[RxName(p)] = 0
  BY <1>2, <1>3, <1>4 DEF Unlinked, RxName
<1>6. \A x \in Nodes \ {p} : Unlinked(x)' => Unlinked(x)
  BY <1>3 DEF Unlinked, RxName, Processes
<1>7. QED
  BY <1>3, <1>4, <1>5, <1>6

LEMMA CreateModes ==
  ASSUME RFAssumption, Base, NEW p \in Processes, CreateQueue(p)
  PROVE  /\ p \in Nodes /\ \A x \in Processes \ {p} : mode'[x] = mode[x] /\ todo'[x] = todo[x]
         /\ mode[p] = "starting" /\ mode'[p] \in {"starting", "running"}
         /\ Unlinked(p) /\ \A x \in Nodes : Unlinked(x)' => Unlinked(x)
<1>1. At(p, mode[p], todo[p], mq_tx[p], mq_rx[p]) /\ ProcessTypes
  BY DEF Base, InOrder
<1>2. PICK call \in {"create_tx", "create_rx"} : Call(p, call)
  BY DEF CreateQueue
<1>3. /\ todo[p] # << >> /\ Head(todo[p]) = call
      /\ mode'[p] = After(mode[p], todo[p]) /\ todo'[p] = Tail(todo[p])
      /\ \A x \in Processes \ {p} : mode'[x] = mode[x] /\ todo'[x] = todo[x]
  BY <1>1, <1>2, CallEffect
<1>4. p \in Nodes /\ mode[p] = "starting" /\ mode'[p] \in {"starting", "running"}
  BY <1>1, <1>3, RFAssumption, CreateCall
<1>5. Unlinked(p)
  BY <1>3, <1>4 DEF Unlinked
<1>6. \A x \in Nodes \ {p} : Unlinked(x)' => Unlinked(x)
  BY <1>3 DEF Unlinked, RxName, Processes
<1>7. QED
  BY <1>3, <1>4, <1>5, <1>6

LEMMA OpenModes ==
  ASSUME RFAssumption, Base, NEW p \in Processes, OpenQueue(p)
  PROVE  /\ p \in Senders /\ \A x \in Processes \ {p} : mode'[x] = mode[x] /\ todo'[x] = todo[x]
         /\ mode[p] = "starting" /\ mode'[p] \in {"starting", "running"}
<1>1. At(p, mode[p], todo[p], mq_tx[p], mq_rx[p]) /\ ProcessTypes
  BY DEF Base, InOrder
<1>2. PICK call \in {"open_tx", "open_rx"} : Call(p, call)
  BY DEF OpenQueue
<1>3. /\ todo[p] # << >> /\ Head(todo[p]) = call
      /\ mode'[p] = After(mode[p], todo[p]) /\ todo'[p] = Tail(todo[p])
      /\ \A x \in Processes \ {p} : mode'[x] = mode[x] /\ todo'[x] = todo[x]
  BY <1>1, <1>2, CallEffect
<1>4. QED
  BY <1>1, <1>3, RFAssumption, OpenCall

LEMMA CloseModes ==
  ASSUME RFAssumption, Base, NEW p \in Processes, CloseQueue(p)
  PROVE  /\ \A x \in Processes \ {p} : mode'[x] = mode[x] /\ todo'[x] = todo[x]
         /\ mode[p] = "stopping" /\ mode'[p] \in {"stopping", "off"}
<1>1. At(p, mode[p], todo[p], mq_tx[p], mq_rx[p]) /\ ProcessTypes
  BY DEF Base, InOrder
<1>2. PICK call \in {"close_tx", "close_rx"} : Call(p, call)
  BY DEF CloseQueue
<1>3. /\ todo[p] # << >> /\ Head(todo[p]) = call
      /\ mode'[p] = After(mode[p], todo[p]) /\ todo'[p] = Tail(todo[p])
      /\ \A x \in Processes \ {p} : mode'[x] = mode[x] /\ todo'[x] = todo[x]
  BY <1>1, <1>2, CallEffect
<1>4. QED
  BY <1>1, <1>3, RFAssumption, CloseCall

LEMMA OpenFailsModes ==
  ASSUME RFAssumption, Base, NEW p \in Processes, OpenFails(p)
  PROVE  /\ p \in Senders /\ \A x \in Processes \ {p} : mode'[x] = mode[x] /\ todo'[x] = todo[x]
         /\ mode[p] = "starting" /\ mode'[p] = "stopping"
         /\ names[TxName(p)] = 0 \/ names[RxName(p)] = 0
<1>1. At(p, mode[p], todo[p], mq_tx[p], mq_rx[p]) /\ ProcessTypes
  BY DEF Base, InOrder
<1>2. todo[p] # << >> /\ Head(todo[p]) \in {"open_tx", "open_rx"}
  BY DEF OpenFails
<1>3. p \in Senders /\ mode[p] = "starting"
  BY <1>1, <1>2, RFAssumption, OpenCall
<1>4. QED
  BY <1>1, <1>3 DEF OpenFails, ProcessTypes
-----------------------------------------------------------------------------
(* Nodes that are undisturbed, and the senders that found them.              *)

\* A node of a running pair stands where its sender looks.
LEMMA Found ==
  ASSUME RFAssumption, Base, Quiet, Paired, NEW q \in Senders, NEW p \in partners[q],
         undisturbed[p]
  PROVE  /\ p \in Nodes /\ mode[p] = "running"
         /\ names[TxName(q)] = mq_rx[p] /\ mq_rx[p] # 0
         /\ names[RxName(q)] = mq_tx[p] /\ mq_tx[p] # 0
<1>1. p \in Nodes /\ p \in Processes /\ q \in Processes
  BY DEF Base, HistoryTypes, Processes
<1>2. mode[p] = "running"
  BY <1>1 DEF Quiet, Paired
<1>3. mq_tx[p] # 0 /\ mq_rx[p] # 0
  BY <1>1, <1>2 DEF Base, InOrder, At
<1>4. TxName(q) = RxName(p) /\ RxName(q) = TxName(p)
  BY <1>1, RFAssumption DEF Paired, TxName, RxName
<1>5. QED
  BY <1>1, <1>2, <1>3, <1>4 DEF Quiet

LEMMA UnlinkRest ==
  ASSUME RFAssumption, Base, Quiet, Paired, OverrunAtTheEnd, NEW y \in Processes, Unlink(y)
  PROVE  Quiet' /\ Paired' /\ OverrunAtTheEnd'
<1>1. /\ y \in Nodes /\ \A x \in Processes \ {y} : mode'[x] = mode[x] /\ todo'[x] = todo[x]
      /\ \/ mode[y] = "starting" /\ mode'[y] = "starting" /\ mq_tx[y] = 0 /\ mq_rx[y] = 0
         \/ mode[y] = "stopping" /\ mode'[y] \in {"stopping", "off"} /\ Board[y] = "server"
  BY RFAssumption, UnlinkModes
<1>2. /\ mq_tx' = mq_tx /\ mq_rx' = mq_rx
      /\ UNCHANGED <<undisturbed, partners, count, overrun>>
  BY DEF Unlink, Call, history
<1>3. \A x \in Nodes : undisturbed[x] => x = y /\ mode[y] = "starting"
  BY <1>1 DEF Quiet
<1>4. Quiet'
  BY <1>1, <1>2, <1>3 DEF Quiet, Processes
<1>5. Paired'
  <2>1. \A q \in Senders : q # y /\ q \in Processes
    BY <1>1, RFAssumption DEF Processes
  <2>2. \A q \in Senders : \A p \in partners[q] : p \in Processes
    BY DEF Base, HistoryTypes, Processes
  <2>3. \A p \in Processes : mode'[p] = "starting" => mode[p] = "starting"
    BY <1>1
  <2>4. QED
    BY <1>1, <1>2, <2>1, <2>2, <2>3 DEF Paired
<1>6. OverrunAtTheEnd'
  BY <1>1, <1>2 DEF OverrunAtTheEnd, Processes
<1>7. QED
  BY <1>4, <1>5, <1>6

LEMMA CreateRest ==
  ASSUME RFAssumption, Base, Quiet, Paired, OverrunAtTheEnd, NEW y \in Processes, CreateQueue(y)
  PROVE  Quiet' /\ Paired' /\ OverrunAtTheEnd'
<1>1. /\ y \in Nodes /\ \A x \in Processes \ {y} : mode'[x] = mode[x] /\ todo'[x] = todo[x]
      /\ mode[y] = "starting" /\ mode'[y] \in {"starting", "running"}
  BY RFAssumption, CreateModes
<1>2. PICK name \in Names, j \in Numbers : Acquired(y, name, j)
  BY RFAssumption, CreateAcquires
<1>3. /\ undisturbed' = undisturbed /\ partners' = partners /\ count' = count
      /\ \A x \in Processes \ {y} : mq_tx'[x] = mq_tx[x] /\ mq_rx'[x] = mq_rx[x]
  BY <1>2 DEF Acquired
<1>4. overrun' = overrun
  BY DEF CreateQueue, Call, history
<1>5. \A x \in Nodes : undisturbed[x] => x = y
  BY <1>1 DEF Quiet
<1>6. ASSUME undisturbed[y]
      PROVE  /\ mq_tx'[y] # 0 => names'[TxName(y)] = mq_tx'[y]
             /\ mq_rx'[y] # 0 => names'[RxName(y)] = mq_rx'[y]
  <2>1. /\ mq_tx[y] # 0 => names[TxName(y)] = mq_tx[y]
        /\ mq_rx[y] # 0 => names[RxName(y)] = mq_rx[y]
    BY <1>1, <1>6 DEF Quiet
  <2>2. TxName(y) # RxName(y) /\ TxName(y) \in Names /\ RxName(y) \in Names
    BY NamesOf
  <2>3. QED
    BY <1>2, <2>1, <2>2 DEF Acquired
<1>7. Quiet'
  BY <1>1, <1>3, <1>5, <1>6 DEF Quiet, TxName, RxName, Processes
<1>8. Paired'
  <2>1. \A q \in Senders : \A p \in partners[q] :
          p # y /\ p \in Processes /\ q # y /\ q \in Processes
    BY <1>1, RFAssumption DEF Paired, Base, HistoryTypes, Processes
  <2>2. QED
    BY <1>1, <1>3, <2>1 DEF Paired
<1>9. OverrunAtTheEnd'
  BY <1>1, <1>4 DEF OverrunAtTheEnd, Processes
<1>10. QED
  BY <1>7, <1>8, <1>9

LEMMA OpenRest ==
  ASSUME RFAssumption, Base, Quiet, Paired, OverrunAtTheEnd, NEW y \in Processes, OpenQueue(y)
  PROVE  Quiet' /\ Paired' /\ OverrunAtTheEnd'
<1>1. /\ y \in Senders /\ \A x \in Processes \ {y} : mode'[x] = mode[x] /\ todo'[x] = todo[x]
      /\ mode[y] = "starting" /\ mode'[y] \in {"starting", "running"}
  BY RFAssumption, OpenModes
<1>2. PICK name \in Names, j \in Numbers : Acquired(y, name, j)
  BY RFAssumption, OpenAcquires
<1>3. names' = names /\ overrun' = overrun
  BY DEF OpenQueue, Call, history
<1>4. /\ undisturbed' = undisturbed /\ partners' = partners /\ count' = count
      /\ \A x \in Processes \ {y} : mq_tx'[x] = mq_tx[x] /\ mq_rx'[x] = mq_rx[x]
      /\ mq_tx'[y] = mq_tx[y] \/ (mq_tx'[y] = names[TxName(y)])
  BY <1>2, <1>3 DEF Acquired
<1>5. \A x \in Nodes : x # y /\ x \in Processes
  BY <1>1, RFAssumption DEF Processes
<1>6. Quiet'
  BY <1>1, <1>3, <1>4, <1>5 DEF Quiet, TxName, RxName
<1>7. Paired'
  <2>1. SUFFICES ASSUME NEW q \in Senders, NEW p \in partners[q]
                 PROVE  /\ Board[p] # Board[q] /\ mode'[p] # "starting"
                        /\ undisturbed[p] =>
                             /\ mode'[q] \in {"starting", "running"} /\ mq_tx'[q] # 0
                                  => mq_tx'[q] = mq_rx'[p]
                             /\ mode'[q] = "stopping" => count[q] = Repeat
    BY <1>4 DEF Paired
  <2>2. p \in Nodes /\ q \in Processes
    BY DEF Base, HistoryTypes, Processes
  <2>3. mode'[p] = mode[p] /\ mq_rx'[p] = mq_rx[p] /\ Board[p] # Board[q] /\ mode[p] # "starting"
    BY <1>1, <1>4, <1>5, <2>2 DEF Paired
  <2>4. CASE q # y
    BY <1>1, <1>4, <2>2, <2>3, <2>4 DEF Paired
  <2>5. CASE q = y
    <3>1. undisturbed[p] => names[TxName(q)] = mq_rx[p]
      BY RFAssumption, Found
    <3>2. undisturbed[p] /\ mq_tx[q] # 0 => mq_tx[q] = mq_rx[p]
      BY <1>1, <2>5 DEF Paired
    <3>3. QED
      BY <1>1, <1>4, <2>3, <2>5, <3>1, <3>2
  <2>6. QED
    BY <2>4, <2>5
<1>8. OverrunAtTheEnd'
  BY <1>1, <1>3, <1>5 DEF OverrunAtTheEnd
<1>9. QED
  BY <1>6, <1>7, <1>8

LEMMA OpenFailsRest ==
  ASSUME RFAssumption, Base, Quiet, Paired, OverrunAtTheEnd, NEW y \in Processes, OpenFails(y)
  PROVE  Quiet' /\ Paired' /\ OverrunAtTheEnd'
<1>1. /\ y \in Senders /\ \A x \in Processes \ {y} : mode'[x] = mode[x] /\ todo'[x] = todo[x]
      /\ names[TxName(y)] = 0 \/ names[RxName(y)] = 0
  BY RFAssumption, OpenFailsModes
<1>2. UNCHANGED <<names, mq_tx, mq_rx, count, undisturbed, partners, overrun>>
  BY DEF OpenFails, history
<1>3. \A x \in Nodes : x # y /\ x \in Processes
  BY <1>1, RFAssumption DEF Processes
<1>4. \A p \in partners[y] : ~undisturbed[p]
  BY <1>1, RFAssumption, Found
<1>5. Quiet'
  BY <1>1, <1>2, <1>3 DEF Quiet, TxName, RxName
<1>6. Paired'
  <2>1. \A q \in Senders : \A p \in partners[q] : p \in Nodes /\ q \in Processes
    BY DEF Base, HistoryTypes, Processes
  <2>2. QED
    BY <1>1, <1>2, <1>3, <1>4, <2>1 DEF Paired
<1>7. OverrunAtTheEnd'
  BY <1>1, <1>2, <1>3 DEF OverrunAtTheEnd
<1>8. QED
  BY <1>5, <1>6, <1>7

\* A process that closes its queues, or dies in doing so.
LEMMA CloseRest ==
  ASSUME RFAssumption, Base, Quiet, Paired, OverrunAtTheEnd, NEW y \in Processes,
         Released, names' = names,
         \A x \in Processes \ {y} : /\ mode'[x] = mode[x]
                                    /\ mq_tx'[x] = mq_tx[x] /\ mq_rx'[x] = mq_rx[x],
         mode[y] = "stopping", mode'[y] \in {"stopping", "off"},
         \A x \in Nodes \ {y} : overrun'[x] = overrun[x]
  PROVE  Quiet' /\ Paired' /\ OverrunAtTheEnd'
<1>1. undisturbed' = undisturbed /\ partners' = partners /\ count' = count
  BY DEF Released
<1>2. \A x \in Nodes : undisturbed[x] => x # y
  BY DEF Quiet
<1>3. Quiet'
  BY <1>1, <1>2 DEF Quiet, TxName, RxName, Processes
<1>4. Paired'
  <2>1. \A q \in Senders : \A p \in partners[q] : p \in Nodes /\ p \in Processes /\ q \in Processes
    BY DEF Base, HistoryTypes, Processes
  <2>2. QED
    BY <1>1, <1>2, <2>1 DEF Paired
<1>5. OverrunAtTheEnd'
  BY DEF OverrunAtTheEnd, Processes
<1>6. QED
  BY <1>3, <1>4, <1>5

LEMMA DeinitRest ==
  ASSUME RFAssumption, Base, Quiet, Paired, OverrunAtTheEnd, NEW y \in Processes, Deinit(y)
  PROVE  Quiet' /\ Paired' /\ OverrunAtTheEnd'
<1>1. /\ mode[y] = "running" /\ mode'[y] = "stopping"
      /\ \A x \in Processes \ {y} : mode'[x] = mode[x]
      /\ y \in Senders => count[y] = Repeat
  BY DEF Deinit, Base, ProcessTypes
<1>2. UNCHANGED <<names, mq_tx, mq_rx, count, partners, overrun>>
  BY DEF Deinit
<1>3. \A x \in Nodes : undisturbed'[x] =>
        undisturbed[x] /\ x # y /\ ~(y \in Nodes /\ Board[y] = "server")
  BY DEF Deinit
<1>4. y \in Nodes => Board[y] \in {"server", "client"}
  BY RFAssumption DEF Processes
<1>5. Quiet'
  BY <1>1, <1>2, <1>3, <1>4 DEF Quiet, TxName, RxName, Processes
<1>6. Paired'
  <2>1. \A q \in Senders : \A p \in partners[q] : p \in Nodes /\ p \in Processes /\ q \in Processes
    BY DEF Base, HistoryTypes, Processes
  <2>2. QED
    BY <1>1, <1>2, <1>3, <2>1 DEF Paired
<1>7. OverrunAtTheEnd'
  BY <1>1, <1>2 DEF OverrunAtTheEnd, Processes
<1>8. QED
  BY <1>5, <1>6, <1>7

LEMMA StartNodeRest ==
  ASSUME RFAssumption, Base, Quiet, Paired, OverrunAtTheEnd, NEW y \in Nodes, StartNode(y)
  PROVE  Quiet' /\ Paired' /\ OverrunAtTheEnd'
<1>1. y \in Processes /\ Create \in Left(y, "starting") /\ Begin(y, Create)
  BY DEF Processes, Left, StartNode
<1>2. /\ mode'[y] = "starting"
      /\ \A x \in Processes \ {y} : mode'[x] = mode[x]
  BY <1>1, RFAssumption, BeginBase
<1>3. /\ \A q \in Senders : partners'[q] = {}
      /\ \A x \in Nodes : undisturbed'[x] =>
           x = y /\ \A z \in Nodes \ {y} : mode[z] \notin {"starting", "stopping"}
      /\ ~overrun'[y] /\ \A x \in Nodes \ {y} : overrun'[x] = overrun[x]
  BY DEF StartNode, Base, HistoryTypes
<1>4. mq_tx'[y] = 0 /\ mq_rx'[y] = 0
  BY <1>1 DEF Begin, Base, InOrder, At
<1>5. Quiet'
  BY <1>2, <1>3, <1>4 DEF Quiet, Processes
<1>6. Paired'
  BY <1>3 DEF Paired
<1>7. OverrunAtTheEnd'
  BY <1>2, <1>3 DEF OverrunAtTheEnd, Processes
<1>8. QED
  BY <1>5, <1>6, <1>7

LEMMA StartSenderRest ==
  ASSUME RFAssumption, Base, Quiet, Paired, OverrunAtTheEnd, NEW y \in Senders, StartSender(y)
  PROVE  Quiet' /\ Paired' /\ OverrunAtTheEnd'
<1>1. y \in Processes /\ Connect \in Left(y, "starting") /\ Begin(y, Connect)
  BY RFAssumption DEF Processes, Left, StartSender
<1>2. /\ mode'[y] = "starting"
      /\ \A x \in Processes \ {y} : mode'[x] = mode[x]
  BY <1>1, RFAssumption, BeginBase
<1>3. /\ UNCHANGED <<names, mq_tx, mq_rx, undisturbed, overrun>>
      /\ \A q \in Senders \ {y} : count'[q] = count[q] /\ partners'[q] = partners[q]
      /\ partners'[y] = {p \in Nodes : Board[p] # Board[y] /\ mode[p] = "running" /\ undisturbed[p]}
  BY <1>1 DEF StartSender, Begin, Base, ProcessTypes, HistoryTypes
<1>4. \A x \in Nodes : x # y /\ x \in Processes
  BY RFAssumption DEF Processes
<1>5. mq_tx[y] = 0
  BY <1>1 DEF Begin, Base, InOrder, At
<1>6. Quiet'
  BY <1>2, <1>3, <1>4 DEF Quiet, TxName, RxName
<1>7. Paired'
  <2>1. \A q \in Senders : \A p \in partners[q] : p \in Nodes /\ q \in Processes
    BY DEF Base, HistoryTypes, Processes
  <2>2. QED
    BY <1>2, <1>3, <1>4, <1>5, <2>1 DEF Paired
<1>8. OverrunAtTheEnd'
  BY <1>2, <1>3, <1>4 DEF OverrunAtTheEnd
<1>9. QED
  BY <1>6, <1>7, <1>8
LEMMA SendRest ==
  ASSUME Base, Quiet, Paired, OverrunAtTheEnd, NEW y \in Senders, Send(y)
  PROVE  Quiet' /\ Paired' /\ OverrunAtTheEnd'
<1>1. /\ UNCHANGED <<names, mode, mq_tx, mq_rx, overrun, undisturbed, partners>>
      /\ mode[y] = "running" /\ \A q \in Senders \ {y} : count'[q] = count[q]
  BY DEF Send, Base, ProcessTypes
<1>2. Quiet' /\ OverrunAtTheEnd'
  BY <1>1 DEF Quiet, OverrunAtTheEnd, TxName, RxName
<1>3. Paired'
  BY <1>1 DEF Paired
<1>4. QED
  BY <1>2, <1>3

LEMMA ReceiveRest ==
  ASSUME Quiet, Paired, OverrunAtTheEnd, NEW y \in Nodes, Receive(y)
  PROVE  Quiet' /\ Paired' /\ OverrunAtTheEnd'
<1>1. UNCHANGED <<names, mode, mq_tx, mq_rx, overrun, undisturbed, partners, count>>
  BY DEF Receive
<1>2. QED
  BY <1>1 DEF Quiet, OverrunAtTheEnd, Paired, TxName, RxName

-----------------------------------------------------------------------------
(* The invariant holds.                                                      *)

LEMMA InvInit ==
  ASSUME RFAssumption
  PROVE  Init => Inv
<1>1. SUFFICES ASSUME Init PROVE Inv
  OBVIOUS
<1>2. << >> \in Seq(Message) /\ Len(<< >>) = 0 /\ DOMAIN << >> = {}
  OBVIOUS
<1>3. << >> \in Seq({"unlink_s2c", "unlink_c2s", "create_tx", "create_rx",
                     "open_tx", "open_rx", "close_tx", "close_rx"})
  OBVIOUS
<1>4. ProcessTypes
  BY <1>1, <1>3 DEF Init, ProcessTypes
<1>5. QueueTypes
  BY <1>1, <1>2, RFAssumption DEF Init, QueueTypes
<1>6. HistoryTypes
  BY <1>1, <1>2 DEF Init, HistoryTypes
<1>7. InOrder
  <2>1. \A p : At(p, "off", << >>, 0, 0)
    BY DEF At, Left
  <2>2. QED
    BY <1>1, <2>1 DEF Init, InOrder
<1>8. OneWay
  <2>1. \A i \in Numbers, name \in Names : i \notin Used(name)
    BY <1>1, Zero DEF Init, Used
  <2>2. \A i \in Numbers : DOMAIN queues[i] = {}
    BY <1>1, <1>2 DEF Init
  <2>3. QED
    BY <2>1, <2>2 DEF OneWay, Names
<1>9. Sequenced
  BY <1>1, <1>2, NoElements DEF Init, Sequenced, Processes
<1>10. Fresh
  BY <1>1, NoElements, NamesOf DEF Init, Fresh, Processes
<1>11. Quiet /\ Paired /\ OverrunAtTheEnd
  BY <1>1 DEF Init, Quiet, Paired, OverrunAtTheEnd
<1>12. QED
  BY <1>4, <1>5, <1>6, <1>7, <1>8, <1>9, <1>10, <1>11 DEF Inv, Base

LEMMA CallStep ==
  ASSUME RFAssumption, Inv, NEW p \in Processes, SystemCall(p)
  PROVE  Inv'
<1>1. Base /\ OneWay /\ Sequenced /\ Fresh /\ Quiet /\ Paired /\ OverrunAtTheEnd
  BY DEF Inv
<1>2. p \in Senders => p \notin Nodes
  BY RFAssumption
<1>3. CASE Unlink(p)
  <2>1. Base' /\ Released
    BY <1>1, <1>3, RFAssumption, UnlinkBase, UnlinkReleases
  <2>2. OneWay'
    BY <1>1, <2>1, RFAssumption, ReleaseOneWay
  <2>3. \A x \in Nodes : /\ mode'[x] = "starting" => mode[x] = "starting"
                         /\ Unlinked(x)' => Unlinked(x) \/ names'[RxName(x)] = 0
    BY <1>1, <1>3, RFAssumption, UnlinkModes DEF Processes
  <2>4. Sequenced' /\ Fresh'
    BY <1>1, <2>1, <2>3, ReleaseSequenced
  <2>5. Quiet' /\ Paired' /\ OverrunAtTheEnd'
    BY <1>1, <1>3, RFAssumption, UnlinkRest
  <2>6. QED
    BY <2>1, <2>2, <2>4, <2>5 DEF Inv
<1>4. CASE CreateQueue(p)
  <2>1. PICK name \in Names, j \in Numbers : Acquired(p, name, j)
    BY <1>1, <1>4, RFAssumption, CreateAcquires
  <2>2. Base' /\ OneWay'
    BY <1>1, <1>4, <2>1, RFAssumption, CreateBase, AcquireOneWay
  <2>3. /\ \A x \in Nodes : mode'[x] = "starting" => mode[x] = "starting"
        /\ \A x \in Nodes : Unlinked(x)' => Unlinked(x)
        /\ Unlinked(p)
    BY <1>1, <1>4, RFAssumption, CreateModes DEF Processes
  <2>4. Sequenced' /\ Fresh'
    BY <1>1, <2>1, <2>2, <2>3, RFAssumption, AcquireSequenced
  <2>5. Quiet' /\ Paired' /\ OverrunAtTheEnd'
    BY <1>1, <1>4, RFAssumption, CreateRest
  <2>6. QED
    BY <2>2, <2>4, <2>5 DEF Inv
<1>5. CASE OpenQueue(p)
  <2>1. PICK name \in Names, j \in Numbers : Acquired(p, name, j)
    BY <1>1, <1>5, RFAssumption, OpenAcquires
  <2>2. Base' /\ OneWay'
    BY <1>1, <1>5, <2>1, RFAssumption, OpenBase, AcquireOneWay
  <2>3. p \notin Nodes /\ \A x \in Nodes : mode'[x] = mode[x] /\ todo'[x] = todo[x]
    BY <1>1, <1>2, <1>5, RFAssumption, OpenModes DEF Processes
  <2>4. \A x \in Nodes : Unlinked(x)' => Unlinked(x)
    BY <2>3 DEF Unlinked, RxName
  <2>5. Sequenced' /\ Fresh'
    BY <1>1, <2>1, <2>2, <2>3, <2>4, RFAssumption, AcquireSequenced
  <2>6. Quiet' /\ Paired' /\ OverrunAtTheEnd'
    BY <1>1, <1>5, RFAssumption, OpenRest
  <2>7. QED
    BY <2>2, <2>5, <2>6 DEF Inv
<1>6. CASE OpenFails(p)
  <2>1. Base' /\ UNCHANGED <<queues, names, mq_tx, mq_rx, sent, got, before>>
    BY <1>1, <1>6, RFAssumption, OpenFailsBase DEF OpenFails, history
  <2>2. \A x \in Nodes : mode'[x] = mode[x] /\ todo'[x] = todo[x]
    BY <1>1, <1>2, <1>6, RFAssumption, OpenFailsModes DEF Processes
  <2>3. \A x \in Nodes : Unlinked(x)' => Unlinked(x)
    BY <2>2 DEF Unlinked, RxName
  <2>4. OneWay' /\ Sequenced' /\ Fresh'
    BY <1>1, <2>1, <2>2, <2>3, SameOneWay, SameSequenced
  <2>5. Quiet' /\ Paired' /\ OverrunAtTheEnd'
    BY <1>1, <1>6, RFAssumption, OpenFailsRest
  <2>6. QED
    BY <2>1, <2>4, <2>5 DEF Inv
<1>7. CASE CloseQueue(p)
  <2>1. Base' /\ Released
    BY <1>1, <1>7, RFAssumption, CloseBase, CloseReleases
  <2>2. OneWay'
    BY <1>1, <2>1, RFAssumption, ReleaseOneWay
  <2>3. /\ \A x \in Processes \ {p} : mode'[x] = mode[x] /\ todo'[x] = todo[x]
        /\ mode[p] = "stopping" /\ mode'[p] \in {"stopping", "off"}
    BY <1>1, <1>7, RFAssumption, CloseModes
  <2>4. \A x \in Nodes : /\ mode'[x] = "starting" => mode[x] = "starting"
                         /\ Unlinked(x)' => Unlinked(x)
    BY <2>3 DEF Unlinked, RxName, Processes
  <2>5. Sequenced' /\ Fresh'
    BY <1>1, <2>1, <2>4, ReleaseSequenced
  <2>6. /\ names' = names /\ overrun' = overrun
        /\ \A x \in Processes \ {p} : mq_tx'[x] = mq_tx[x] /\ mq_rx'[x] = mq_rx[x]
    BY <1>1, <1>7 DEF CloseQueue, Call, history, Base, QueueTypes
  <2>7. Quiet' /\ Paired' /\ OverrunAtTheEnd'
    BY <1>1, <2>1, <2>3, <2>6, RFAssumption, CloseRest
  <2>8. QED
    BY <2>1, <2>2, <2>5, <2>7 DEF Inv
<1>8. QED
  BY <1>3, <1>4, <1>5, <1>6, <1>7 DEF SystemCall

LEMMA DeinitStep ==
  ASSUME RFAssumption, Inv, NEW p \in Processes, Deinit(p)
  PROVE  Inv'
<1>1. Base /\ OneWay /\ Sequenced /\ Fresh /\ Quiet /\ Paired /\ OverrunAtTheEnd
  BY DEF Inv
<1>2. Base' /\ UNCHANGED <<queues, names, mq_tx, mq_rx, sent, got, before>>
  BY <1>1, RFAssumption, DeinitBase DEF Deinit
<1>3. mode'[p] = "stopping" /\ \A x \in Processes \ {p} : mode'[x] = mode[x] /\ todo'[x] = todo[x]
  BY <1>1 DEF Deinit, Base, ProcessTypes
<1>4. \A x \in Nodes : /\ mode'[x] = "starting" => mode[x] = "starting"
                       /\ Unlinked(x)' => Unlinked(x)
  BY <1>3 DEF Unlinked, RxName, Processes
<1>5. OneWay' /\ Sequenced' /\ Fresh'
  BY <1>1, <1>2, <1>4, SameOneWay, SameSequenced
<1>6. QED
  BY <1>1, <1>2, <1>5, RFAssumption, DeinitRest DEF Inv

LEMMA StartNodeStep ==
  ASSUME RFAssumption, Inv, NEW p \in Nodes, StartNode(p)
  PROVE  Inv'
<1>1. Base /\ OneWay /\ Sequenced /\ Fresh /\ Quiet /\ Paired /\ OverrunAtTheEnd
  BY DEF Inv
<1>2. Base'
  BY <1>1, RFAssumption, StartNodeBase
<1>3. OneWay'
  BY <1>1, SameOneWay DEF StartNode, Begin
<1>4. QED
  BY <1>1, <1>2, <1>3, RFAssumption, StartNodeSequenced, StartNodeRest DEF Inv

LEMMA StartSenderStep ==
  ASSUME RFAssumption, Inv, NEW q \in Senders, StartSender(q)
  PROVE  Inv'
<1>1. Base /\ OneWay /\ Sequenced /\ Fresh /\ Quiet /\ Paired /\ OverrunAtTheEnd
  BY DEF Inv
<1>2. Base' /\ UNCHANGED <<queues, names, mq_tx, mq_rx, sent, got, before>>
  BY <1>1, RFAssumption, StartSenderBase DEF StartSender, Begin
<1>3. \A x \in Nodes : mode'[x] = mode[x] /\ todo'[x] = todo[x]
  BY <1>1, RFAssumption DEF StartSender, Begin, Base, ProcessTypes, Processes
<1>4. \A x \in Nodes : Unlinked(x)' => Unlinked(x)
  BY <1>3 DEF Unlinked, RxName
<1>5. OneWay' /\ Sequenced' /\ Fresh'
  BY <1>1, <1>2, <1>3, <1>4, SameOneWay, SameSequenced
<1>6. QED
  BY <1>1, <1>2, <1>5, RFAssumption, StartSenderRest DEF Inv

LEMMA ClosedStep ==
  ASSUME RFAssumption, Inv, NEW p \in Nodes, ReceiveClosed(p)
  PROVE  Inv'
<1>1. Base /\ OneWay /\ Sequenced /\ Fresh /\ Quiet /\ Paired /\ OverrunAtTheEnd
  BY DEF Inv
<1>2. Base' /\ Released /\ mode[p] = "stopping" /\ mode'[p] \in {"stopping", "off"}
  BY <1>1, RFAssumption, ReceiveClosedBase, ClosedReleases
<1>3. OneWay'
  BY <1>1, <1>2, RFAssumption, ReleaseOneWay
<1>4. /\ \A x \in Processes \ {p} : /\ mode'[x] = mode[x] /\ todo'[x] = todo[x]
                                    /\ mq_tx'[x] = mq_tx[x] /\ mq_rx'[x] = mq_rx[x]
      /\ names' = names /\ \A x \in Nodes \ {p} : overrun'[x] = overrun[x]
  BY <1>1 DEF ReceiveClosed, Base, ProcessTypes, QueueTypes, HistoryTypes
<1>5. \A x \in Nodes : /\ mode'[x] = "starting" => mode[x] = "starting"
                       /\ Unlinked(x)' => Unlinked(x)
  BY <1>2, <1>4 DEF Unlinked, RxName, Processes
<1>6. Sequenced' /\ Fresh'
  BY <1>1, <1>2, <1>5, ReleaseSequenced
<1>7. Quiet' /\ Paired' /\ OverrunAtTheEnd'
  <2>1. p \in Processes
    BY DEF Processes
  <2>2. QED
    BY <1>1, <1>2, <1>4, <2>1, RFAssumption, CloseRest
<1>8. QED
  BY <1>2, <1>3, <1>6, <1>7 DEF Inv

LEMMA InvStep ==
  ASSUME RFAssumption
  PROVE  Inv /\ [Next]_vars => Inv'
<1>1. SUFFICES ASSUME Inv, [Next]_vars PROVE Inv'
  OBVIOUS
<1>2. Base /\ OneWay /\ Sequenced /\ Fresh /\ Quiet /\ Paired /\ OverrunAtTheEnd
  BY <1>1 DEF Inv
<1>3. ASSUME NEW p \in Processes, SystemCall(p) \/ Deinit(p)
      PROVE  Inv'
  BY <1>1, <1>3, RFAssumption, CallStep, DeinitStep
<1>4. ASSUME NEW p \in Nodes, StartNode(p)
      PROVE  Inv'
  BY <1>1, <1>4, RFAssumption, StartNodeStep
<1>5. ASSUME NEW p \in Nodes, Receive(p)
      PROVE  Inv'
  BY <1>2, <1>5, RFAssumption, ReceiveEffect, ReceiveOneWay, ReceiveSequenced, ReceiveRest DEF Inv
<1>6. ASSUME NEW p \in Nodes, ReceiveClosed(p)
      PROVE  Inv'
  BY <1>1, <1>6, RFAssumption, ClosedStep
<1>7. ASSUME NEW q \in Senders, StartSender(q)
      PROVE  Inv'
  BY <1>1, <1>7, RFAssumption, StartSenderStep
<1>8. ASSUME NEW q \in Senders, Send(q)
      PROVE  Inv'
  <2>1. PICK m : m = [from |-> q, number |-> sent[q] + 1]
    OBVIOUS
  <2>2. QED
    BY <1>2, <1>8, <2>1, RFAssumption, SendEffect, SendOneWay, SendSequenced, SendRest DEF Inv
<1>9. CASE UNCHANGED vars
  <2>1. Base' /\ Sequenced' /\ Fresh' /\ Quiet' /\ Paired' /\ OverrunAtTheEnd'
    BY <1>2, <1>9 DEF vars, Base, ProcessTypes, QueueTypes, HistoryTypes, InOrder, Sequenced, Fresh,
         Unlinked, Quiet, Paired, OverrunAtTheEnd, RxName, TxName
  <2>2. OneWay'
    BY <1>2, <1>9, SameOneWay DEF vars
  <2>3. QED
    BY <2>1, <2>2 DEF Inv
<1>10. QED
  BY <1>1, <1>3, <1>4, <1>5, <1>6, <1>7, <1>8, <1>9 DEF Next

-----------------------------------------------------------------------------
(* Queues, names, places and calls keep their types, no queue holds more than *)
(* it can, and a process that has ended holds none open.                      *)
THEOREM TypeCorrect == Spec => []TypeOK
<1>1. Inv => TypeOK
  BY DEF Inv, Base, ProcessTypes, QueueTypes, InOrder, At, TypeOK
<1>2. QED
  BY <1>1, InvInit, InvStep, RFAssumption, PTL DEF Spec

(* However nodes and senders come and go, and whoever makes and unlinks queues *)
(* under the same names: what TF_Accept of a node is given was sent by the     *)
(* other board since the node was started, each message once and in order.     *)
THEOREM NothingStale == Spec => []AcceptsFresh
<1>1. Inv => AcceptsFresh
  <2>1. SUFFICES ASSUME Inv, NEW p \in Nodes, NEW i \in DOMAIN got[p]
                 PROVE  /\ got[p][i] \notin before[p]
                        /\ Board[got[p][i].from] # Board[p]
                        /\ \A j \in 1 .. i - 1 : got[p][j].from = got[p][i].from =>
                             got[p][j].number < got[p][i].number
    BY DEF AcceptsFresh
  <2>2. got[p][i] \notin before[p] /\ Board[got[p][i].from] # Board[p]
    BY <2>1 DEF Inv, Sequenced, Fresh, Free
  <2>3. PICK g : g = got[p] /\ g \in Seq(Message) /\ Increasing(g)
    BY <2>1 DEF Inv, Sequenced, Base, HistoryTypes
  <2>4. \A j \in 1 .. i - 1 : j \in DOMAIN g /\ i \in DOMAIN g /\ j < i
    BY <2>1, <2>3
  <2>5. QED
    BY <2>2, <2>3, <2>4 DEF Increasing
<1>2. QED
  BY <1>1, InvInit, InvStep, RFAssumption, PTL DEF Spec

(* The thread is told of bytes that never arrived only once the main thread    *)
(* closes the device: until then its queue is open.                            *)
THEOREM OverrunLate == Spec => []OverrunAtTheEnd
<1>1. Inv => OverrunAtTheEnd
  BY DEF Inv
<1>2. QED
  BY <1>1, InvInit, InvStep, RFAssumption, PTL DEF Spec

(* A sender that was started while a node of the other board ran finds both    *)
(* queues and sends to that node, as long as the node is undisturbed.          *)
THEOREM NodeReached == Spec => []ReachesTheNode
<1>1. Inv => ReachesTheNode
  <2>1. SUFFICES ASSUME Inv, NEW q \in Senders, NEW p \in partners[q],
                        undisturbed[p], mode[p] = "running"
                 PROVE  /\ mode[q] = "running" => mq_tx[q] = mq_rx[p]
                        /\ mode[q] = "stopping" => count[q] = Repeat
    BY DEF ReachesTheNode
  <2>2. mode[q] = "running" => mq_tx[q] # 0
    BY <2>1 DEF Inv, Base, InOrder, At, Processes
  <2>3. QED
    BY <2>1, <2>2 DEF Inv, Paired
<1>2. QED
  BY <1>1, InvInit, InvStep, RFAssumption, PTL DEF Spec
===============================================================================
