---------------------------- MODULE TFPeers_proofs ---------------------------
(****************************************************************************)
(* Proofs about two peers, for every width of an ID, every table size, and  *)
(* any number of queries and resets.  The types hold whatever the users do; *)
(* the rest supposes Timely.                                                *)
(****************************************************************************)
EXTENDS TFPeers, TLAPS

-----------------------------------------------------------------------------
(* Counters that wrap.                                                       *)

\* Below twice the modulus, the remainder is found by at most one subtraction.
LEMMA SmallMod ==
  ASSUME NEW N \in Nat \ {0}, NEW x \in 0 .. 2 * N - 1
  PROVE  x % N = IF x < N THEN x ELSE x - N
<1>1. CASE x < N
  BY <1>1
<1>2. CASE x >= N
  <2>1. x = N * 1 + (x - N) /\ x - N \in 0 .. N - 1
    BY <1>2
  <2>2. QED
    BY <2>1, <1>2
<1>3. QED
  BY <1>1, <1>2

\* The low bits of a counter of one bit more count on, and wrap when they are all set.
LEMMA CounterStep ==
  ASSUME NEW N \in Nat \ {0}, NEW x \in 0 .. 2 * N - 1
  PROVE  /\ (x + 1) % (2 * N) \in 0 .. 2 * N - 1
         /\ x % N \in 0 .. N - 1
         /\ ((x + 1) % (2 * N)) % N = IF x % N = N - 1 THEN 0 ELSE (x % N) + 1
<1>1. (x + 1) % (2 * N) = IF x + 1 < 2 * N THEN x + 1 ELSE 0
  <2>1. PICK M \in Nat \ {0} : M = 2 * N
    OBVIOUS
  <2>2. (x + 1) % M = IF x + 1 < M THEN x + 1 ELSE x + 1 - M
    <3>1. PICK y : y = x + 1
      OBVIOUS
    <3>2. y \in 0 .. 2 * M - 1
      BY <2>1, <3>1
    <3>3. y % M = IF y < M THEN y ELSE y - M
      BY <2>1, <3>2, SmallMod
    <3>4. QED
      BY <3>1, <3>3
  <2>3. QED
    BY <2>1, <2>2
<1>2. x % N = IF x < N THEN x ELSE x - N
  BY SmallMod
<1>3. ((x + 1) % (2 * N)) % N =
        IF (x + 1) % (2 * N) < N THEN (x + 1) % (2 * N) ELSE ((x + 1) % (2 * N)) - N
  <2>1. (x + 1) % (2 * N) \in 0 .. 2 * N - 1
    BY <1>1
  <2>2. QED
    BY <2>1, SmallMod
<1>4. QED
  BY <1>1, <1>2, <1>3

\* Products grow with their factors.
LEMMA ProductGrows ==
  ASSUME NEW r \in Nat, NEW t \in Nat, NEW u \in Nat, t <= u
  PROVE  r * t \in Nat /\ r * u \in Nat /\ r * t <= r * u
OBVIOUS

LEMMA ProductStep ==
  ASSUME NEW r \in Nat, NEW t \in Nat
  PROVE  r * (t + 1) = r * t + r
OBVIOUS

-----------------------------------------------------------------------------
LEMMA ConstantTypes ==
  /\ Rate \in Nat \ {0} /\ IdCount \in Nat \ {0} /\ Lifetime \in Nat
  /\ MaxRestarts \in Nat /\ Timeouts \subseteq Nat
  /\ \A p \in Peers : TF_PeerBit[p] \in {0, 1}
BY PeersAssumption

(* The two peers, and sequences changed in place.                            *)

LEMMA TwoPeers ==
  ASSUME NEW p \in Peers
  PROVE  /\ Other(p) \in Peers
         /\ Other(p) # p
         /\ \A o \in Peers : o = p \/ o = Other(p)
         /\ Other(Other(p)) = p
<1>1. PICK o \in Peers \ {p} : Peers = {p, o}
  BY PeersAssumption
<1>2. Other(p) = o
  BY <1>1 DEF Other
<1>3. Other(o) = p
  BY <1>1 DEF Other
<1>4. QED
  BY <1>1, <1>2, <1>3

LEMMA ChangedInPlace ==
  ASSUME NEW S, NEW s \in Seq(S), NEW t \in [DOMAIN s -> S]
  PROVE  t \in Seq(S) /\ Len(t) = Len(s)
<1>1. DOMAIN s = 1 .. Len(s) /\ Len(s) \in Nat
  OBVIOUS
<1>2. QED
  BY <1>1

-----------------------------------------------------------------------------
(* The window of a query, step by step.                                      *)

\* It stays when nothing it depends on changes.
LEMMA WindowKept ==
  ASSUME NEW p \in Peers, NEW id, NEW q, NEW t,
         InWindow(p, id, q, t),
         next_id'[p] = next_id[p], made'[p] = made[p], before'[p] = before[p],
         Len(result'[p]) = Len(result[p])
  PROVE  InWindow(p, id, q, t)'
BY DEF InWindow, Since, Number

\* A tick makes room for as many queries as the peer may make until the next.
LEMMA WindowTick ==
  ASSUME NEW p \in Peers, NEW id, NEW q, NEW t \in Nat,
         TypeOK, Tick,
         InWindow(p, id, q, t),
         Len(result'[p]) = Len(result[p])
  PROVE  InWindow(p, id, q, t + 1)'
<1>1. made[p] \in 0 .. Rate /\ made'[p] = 0 /\ next_id'[p] = next_id[p] /\ before' = before
  BY DEF TypeOK, Tick
<1>2. Rate \in Nat /\ Rate * t \in Nat /\ Rate * (t + 1) = Rate * t + Rate
  <2>1. Rate \in Nat
    BY ConstantTypes
  <2>2. QED
    BY <2>1, ProductStep
<1>3. Since(p, q)' = Since(p, q) /\ Number(p, id)' = Number(p, id)
  BY DEF Since, Number
<1>4. Len(result[p]) \in Nat
  BY DEF TypeOK
<1>5. q \in 1 .. Len(result[p]) /\ Since(p, q) \in Nat
  BY <1>4 DEF InWindow, Since
<1>6. q > before[p] => Since(p, q) <= Rate * (t + 1) + 0
  <2> SUFFICES ASSUME q > before[p] PROVE Since(p, q) <= Rate * (t + 1) + 0
    OBVIOUS
  <2>1. Since(p, q) <= Rate * t + made[p]
    BY DEF InWindow
  <2>2. QED
    BY <2>1, <1>1, <1>2, <1>5
<1>7. QED
  BY <1>1, <1>3, <1>5, <1>6 DEF InWindow

\* A query is one more to count, and the counter of IDs moves with it: the window
\* is smaller than the number of IDs.
LEMMA WindowQuery ==
  ASSUME Timely, NEW p \in Peers, NEW id, NEW q, NEW t \in 0 .. Lifetime,
         TypeOK, Query(p), InWindow(p, id, q, t)
  PROVE  InWindow(p, id, q, t)'
<1>1. PICK N \in Nat \ {0} : N = IdCount
  BY PeersAssumption
<1>2. PICK i : i = Number(p, id)
  OBVIOUS
<1>3. PICK n : n = next_id[p] % N
  OBVIOUS
<1>4. PICK d : d = Since(p, q)
  OBVIOUS
<1>5. /\ next_id'[p] = (next_id[p] + 1) % (2 * N)
      /\ made'[p] = made[p] + 1
      /\ Len(result'[p]) = Len(result[p]) + 1
      /\ made[p] < Rate /\ before' = before
  BY <1>1 DEF Query, TypeOK
<1> SUFFICES ASSUME q > before[p]
             PROVE  /\ Since(p, q)' <= Rate * t + made'[p]
                    /\ next_id'[p] % IdCount \in
                         {Number(p, id)' + Since(p, q)', Number(p, id)' + Since(p, q)' - IdCount}
  <2>1. q \in 1 .. Len(result'[p]) /\ Number(p, id)' = Number(p, id)
    BY <1>5 DEF InWindow, TypeOK, Number
  <2>2. QED
    BY <1>5, <2>1 DEF InWindow
<1>6. PICK x \in 0 .. 2 * N - 1 : x = next_id[p]
  BY <1>1 DEF TypeOK
<1>7. n \in 0 .. N - 1 /\ next_id'[p] % N = IF n = N - 1 THEN 0 ELSE n + 1
  <2>1. /\ x % N \in 0 .. N - 1
        /\ ((x + 1) % (2 * N)) % N = IF x % N = N - 1 THEN 0 ELSE (x % N) + 1
    BY <1>1, <1>6, CounterStep
  <2>2. QED
    BY <2>1, <1>3, <1>5, <1>6
<1>8. PICK w \in Nat : w = Rate * t
  BY ConstantTypes
<1>9. w + made[p] + 1 <= N
  <2>1. Rate \in Nat /\ Lifetime \in Nat /\ Rate * (Lifetime + 1) <= N
    BY <1>1, PeersAssumption DEF Timely
  <2>2. w <= Rate * Lifetime /\ Rate * Lifetime \in Nat
    BY <1>8, <2>1, ProductGrows
  <2>3. Rate * (Lifetime + 1) = Rate * Lifetime + Rate
    BY <2>1, ProductStep
  <2>4. made[p] \in Nat
    BY DEF TypeOK
  <2>5. QED
    BY <2>1, <2>2, <2>3, <2>4, <1>5
<1>10. /\ q \in 1 .. Len(result[p]) /\ Len(result[p]) \in Nat /\ d = Len(result[p]) - q + 1
       /\ i \in 0 .. N - 1
       /\ d <= w + made[p]
       /\ n = i + d \/ n = i + d - N
  BY <1>1, <1>2, <1>3, <1>4, <1>5, <1>8 DEF InWindow, TypeOK, Since
<1>11. Since(p, q)' = d + 1 /\ Number(p, id)' = i
  BY <1>2, <1>5, <1>10 DEF Since, Number
<1>12. made[p] \in Nat
  BY DEF TypeOK
<1>13. d + 1 <= w + made'[p] /\ q \in 1 .. Len(result'[p])
  <2>1. PICK k \in Nat : k = made[p]
    BY <1>12
  <2>2. PICK n1 \in Nat : n1 = Len(result[p])
    BY <1>10
  <2>3. q \in 1 .. n1 /\ d = n1 - q + 1 /\ d <= w + k
    BY <1>10, <2>1, <2>2
  <2>4. d + 1 <= w + (k + 1) /\ q \in 1 .. n1 + 1
    <3>1. w \in Nat /\ k \in Nat /\ n1 \in Nat
      BY <1>8, <2>1, <2>2
    <3>2. d + 1 <= w + (k + 1)
      <4>1. d \in Int
        BY <2>3, <3>1
      <4>2. QED
        BY <2>3, <3>1, <4>1
    <3>3. q \in 1 .. n1 + 1
      BY <2>3, <3>1
    <3>4. QED
      BY <3>2, <3>3
  <2>5. QED
    BY <1>5, <2>1, <2>2, <2>4
<1>14. next_id'[p] % N = i + (d + 1) \/ next_id'[p] % N = i + (d + 1) - N
  <2>1. PICK k \in Nat : k = made[p]
    BY <1>12
  <2>2. PICK m : m = next_id'[p] % N
    OBVIOUS
  <2>3. n \in 0 .. N - 1 /\ m = IF n = N - 1 THEN 0 ELSE n + 1
    BY <1>7, <2>2
  <2>4. w \in Nat /\ d \in Nat /\ d <= w + k /\ w + k + 1 <= N /\ i \in 0 .. N - 1
    BY <1>1, <1>8, <1>9, <1>10, <2>1
  <2>5. n = i + d \/ n = i + d - N
    BY <1>10
  <2>6. d + 1 <= N /\ N \in Nat
    BY <1>1, <2>1, <2>4
  <2>7. CASE n = i + d
    BY <2>2, <2>3, <2>4, <2>6, <2>7
  <2>8. CASE n = i + d - N
    BY <2>2, <2>3, <2>4, <2>6, <2>8
  <2>9. QED
    BY <2>5, <2>7, <2>8
<1>15. QED
  BY <1>1, <1>8, <1>11, <1>13, <1>14

\* The query itself is the newest.
LEMMA WindowNew ==
  ASSUME NEW p \in Peers, NEW id, NEW q, NEW t \in Nat, TypeOK, Query(p),
         id = NewId(p), q = Len(result[p]) + 1
  PROVE  InWindow(p, id, q, t)'
<1>1. PICK N \in Nat \ {0} : N = IdCount
  BY PeersAssumption
<1>2. PICK n : n = next_id[p] % N
  OBVIOUS
<1>3. /\ next_id'[p] = (next_id[p] + 1) % (2 * N)
      /\ made'[p] = made[p] + 1
      /\ Len(result'[p]) = Len(result[p]) + 1 /\ Len(result[p]) \in Nat
      /\ made[p] \in Nat
  BY <1>1 DEF Query, TypeOK
<1>4. PICK y \in 0 .. 2 * N - 1 : y = next_id[p]
  BY <1>1 DEF TypeOK
<1>5. n \in 0 .. N - 1 /\ next_id'[p] % N = IF n = N - 1 THEN 0 ELSE n + 1
  <2>1. /\ y % N \in 0 .. N - 1
        /\ ((y + 1) % (2 * N)) % N = IF y % N = N - 1 THEN 0 ELSE (y % N) + 1
    BY <1>1, <1>4, CounterStep
  <2>2. QED
    BY <2>1, <1>2, <1>3, <1>4
<1>6. Number(p, id) = n
  <2>1. PICK b \in {0, 1} : b = TF_PeerBit[p]
    BY ConstantTypes
  <2>2. id = n + b * N
    BY <1>1, <1>2, <2>1 DEF NewId
  <2>3. b * N \in Nat /\ n \in Nat
    BY <1>1, <1>5, <2>1
  <2>4. QED
    BY <1>1, <2>1, <2>2, <2>3 DEF Number
<1>7. PICK w \in Nat : w = Rate * t
  BY ConstantTypes
<1>8. q \in 1 .. Len(result'[p]) /\ Since(p, q)' = 1
  BY <1>3 DEF Since
<1>9. Number(p, id)' = n
  BY <1>6 DEF Number
<1>10. 1 <= w + made'[p]
  BY <1>3, <1>7
<1>11. \/ next_id'[p] % N = n + 1
       \/ next_id'[p] % N = n + 1 - N
  BY <1>5
<1>12. QED
  BY <1>1, <1>5, <1>7, <1>8, <1>9, <1>10, <1>11 DEF InWindow

\* Since the last reset, the ID counter went as many steps past a window's ID as
\* there were queries, and that is not once around.
LEMMA WindowDistance ==
  ASSUME Timely, NEW p \in Peers, NEW id, NEW q, NEW t \in 0 .. Lifetime,
         TypeOK, q > before[p], InWindow(p, id, q, t)
  PROVE  /\ q \in 1 .. Len(result[p])
         /\ Number(p, id) \in 0 .. IdCount - 1
         /\ Since(p, q) \in 1 .. IdCount
         /\ \/ next_id[p] % IdCount = Number(p, id) + Since(p, q)
            \/ next_id[p] % IdCount = Number(p, id) + Since(p, q) - IdCount
<1>1. PICK N \in Nat \ {0} : N = IdCount
  BY ConstantTypes
<1>2. PICK w \in Nat : w = Rate * t
  BY ConstantTypes
<1>3. PICK k \in Nat : k = made[p] /\ k <= Rate
  BY ConstantTypes DEF TypeOK
<1>4. w + k <= N
  <2>1. Rate \in Nat /\ Lifetime \in Nat /\ Rate * (Lifetime + 1) <= N
    BY <1>1, ConstantTypes DEF Timely
  <2>2. Rate * (Lifetime + 1) = Rate * Lifetime + Rate
    BY <2>1, ProductStep
  <2>3. w <= Rate * Lifetime /\ Rate * Lifetime \in Nat
    BY <1>2, <2>1, ProductGrows
  <2>4. QED
    BY <1>1, <1>2, <1>3, <2>1, <2>2, <2>3
<1>5. PICK n \in Nat : n = Len(result[p])
  BY DEF TypeOK
<1>6. /\ q \in 1 .. n
      /\ Since(p, q) = n - q + 1
      /\ Since(p, q) <= w + k
  BY <1>2, <1>3, <1>5 DEF InWindow, Since
<1>7. Since(p, q) \in 1 .. N
  BY <1>1, <1>2, <1>3, <1>4, <1>5, <1>6
<1>8. QED
  BY <1>1, <1>5, <1>6, <1>7 DEF InWindow

\* Since the last reset, two of a peer's windows with the same ID are the same query's.
LEMMA WindowsApart ==
  ASSUME Timely, NEW p \in Peers, NEW id, NEW q, NEW r,
         NEW t \in 0 .. Lifetime, NEW u \in 0 .. Lifetime,
         TypeOK, q > before[p], r > before[p],
         InWindow(p, id, q, t), InWindow(p, id, r, u)
  PROVE  q = r
<1>1. PICK N \in Nat \ {0} : N = IdCount
  BY ConstantTypes
<1>2. PICK i : i = Number(p, id)
  OBVIOUS
<1>3. PICK n : n = next_id[p] % N
  OBVIOUS
<1>4. PICK d : d = Since(p, q)
  OBVIOUS
<1>5. PICK e : e = Since(p, r)
  OBVIOUS
<1>6. /\ i \in 0 .. N - 1 /\ d \in 1 .. N
      /\ n = i + d \/ n = i + d - N
  BY <1>1, <1>2, <1>3, <1>4, WindowDistance
<1>7. e \in 1 .. N /\ (n = i + e \/ n = i + e - N)
  BY <1>1, <1>2, <1>3, <1>5, WindowDistance
<1>8. n \in 0 .. N - 1
  BY <1>1, <1>3 DEF TypeOK
<1>9. d = e
  <2>1. CASE n = i + d
    BY <1>1, <1>6, <1>7, <1>8, <2>1
  <2>2. CASE n = i + d - N
    BY <1>1, <1>6, <1>7, <1>8, <2>2
  <2>3. QED
    BY <1>6, <2>1, <2>2
<1>10. q \in 1 .. Len(result[p]) /\ r \in 1 .. Len(result[p]) /\ Len(result[p]) \in Nat
  BY DEF TypeOK, InWindow
<1>11. QED
  BY <1>4, <1>5, <1>9, <1>10 DEF Since

-----------------------------------------------------------------------------
(* The invariant.                                                            *)
Inv == TypeOK /\ PeersInv

LEMMA ListenerAge ==
  ASSUME Timely, NEW p \in Peers, NEW l \in id_listeners[p], TypeOK
  PROVE  /\ l.timeout \in 1 .. Lifetime + 1
         /\ Lifetime + 1 - l.timeout \in 0 .. Lifetime
<1>1. Lifetime \in Nat
  BY ConstantTypes
<1>2. l.timeout \in 1 .. Lifetime + 1
  <2>1. l.timeout \in TimeLeft
    BY DEF TypeOK, IdListener
  <2>2. 0 \notin Timeouts
    BY <1>1 DEF Timely
  <2>3. PICK u \in Timeouts : l.timeout \in Nat /\ l.timeout > 0 /\ l.timeout <= u
    BY <2>1, <2>2 DEF TimeLeft
  <2>4. u \in 1 .. Lifetime + 1
    BY DEF Timely
  <2>5. QED
    BY <1>1, <2>3, <2>4
<1>3. QED
  BY <1>1, <1>2

LEMMA FrameFields ==
  ASSUME NEW m \in line, TypeOK
  PROVE  /\ m.to \in Peers /\ m.type \in Peers /\ m.age \in 0 .. Lifetime /\ m.query \in Nat
         /\ m.frame_id \in 0 .. 2 * IdCount - 1
         /\ m = [to |-> m.to, frame_id |-> m.frame_id, type |-> m.type,
                 query |-> m.query, age |-> m.age]
BY DEF TypeOK, Frame

\* A frame that meets an ID listener with its ID is the answer to its query, or to
\* one made before the last reset: the other peer's frames have the other peer bit.
LEMMA ListenerMatch ==
  ASSUME Timely, Inv, NEW m \in line, NEW l \in id_listeners[m.to], l.id = m.frame_id
  PROVE  m.type = m.to /\ (m.query = l.query \/ m.query \in 1 .. before[m.to])
<1> USE DEF Inv, PeersInv
<1>1. m.to \in Peers /\ m.type \in Peers /\ m.age \in 0 .. Lifetime
  BY FrameFields
<1>2. InWindow(m.type, m.frame_id, m.query, m.age)
  BY DEF FramesInv
<1>3. InWindow(m.to, l.id, l.query, Lifetime + 1 - l.timeout)
  BY <1>1 DEF ListenersInv
<1>4. m.type = m.to
  <2>1. Number(m.type, m.frame_id) \in 0 .. IdCount - 1 /\ Number(m.to, m.frame_id) \in 0 .. IdCount - 1
    BY <1>2, <1>3 DEF InWindow
  <2>2. SUFFICES ASSUME m.type # m.to PROVE FALSE
    OBVIOUS
  <2>3. TF_PeerBit[m.type] # TF_PeerBit[m.to] /\ {TF_PeerBit[m.type], TF_PeerBit[m.to]} \subseteq {0, 1}
    BY <1>1, <2>2, PeersAssumption
  <2>4. m.frame_id \in Nat /\ IdCount \in Nat \ {0}
    BY FrameFields, ConstantTypes
  <2>5. QED
    BY <2>1, <2>3, <2>4 DEF Number
<1>5. Lifetime + 1 - l.timeout \in 0 .. Lifetime
  BY <1>1, ListenerAge
<1>6. m.query > before[m.to] => m.query = l.query
  <2>1. l.query > before[m.to]
    BY <1>1 DEF ListenersInv
  <2>2. PICK t \in 0 .. Lifetime : t = Lifetime + 1 - l.timeout
    BY <1>5
  <2>3. QED
    BY <1>1, <1>2, <1>3, <1>4, <2>1, <2>2, WindowsApart
<1>7. m.query \in Nat \ {0} /\ before[m.to] \in Nat
  BY <1>1, <1>2 DEF InWindow, TypeOK
<1>8. QED
  BY <1>4, <1>6, <1>7

LEMMA InvInit == Init => Inv
<1> SUFFICES ASSUME Init PROVE Inv
  OBVIOUS
<1>1. TypeOK
  BY ConstantTypes DEF Init, TypeOK
<1>2. PeersInv
  BY DEF Init, PeersInv, FramesInv, ListenersInv, HistoryInv, OnlyResetsMislead
<1>3. QED
  BY <1>1, <1>2 DEF Inv

\* NewId is an ID of the right range, the peer's half of it.
LEMMA NewIdRange ==
  ASSUME NEW p \in Peers, TypeOK
  PROVE  NewId(p) \in 0 .. 2 * IdCount - 1
<1>1. PICK N \in Nat \ {0} : N = IdCount
  BY ConstantTypes
<1>2. next_id[p] \in Nat /\ TF_PeerBit[p] \in {0, 1}
  BY <1>1, ConstantTypes DEF TypeOK
<1>3. next_id[p] % N \in 0 .. N - 1
  BY <1>2
<1>4. QED
  BY <1>1, <1>2, <1>3 DEF NewId

-----------------------------------------------------------------------------
(* Every action keeps the types.                                             *)
LEMMA TypeQuery ==
  ASSUME TypeOK, NEW p \in Peers, Query(p)
  PROVE  TypeOK'
<1>0. NewId(p) \in 0 .. 2 * IdCount - 1 /\ Len(result[p]) + 1 \in Nat
  <2>1. NewId(p) \in 0 .. 2 * IdCount - 1
    BY NewIdRange
  <2>2. result[p] \in Seq(Outcome)
    BY DEF TypeOK
  <2>3. QED
    BY <2>1, <2>2
<1> USE DEF TypeOK, Query
<1>1. next_id' \in [Peers -> 0 .. 2 * IdCount - 1]
  <2>1. next_id[p] \in 0 .. 2 * IdCount - 1 /\ IdCount \in Nat \ {0}
    BY ConstantTypes
  <2>2. (next_id[p] + 1) % (2 * IdCount) \in 0 .. 2 * IdCount - 1
    <3>1. PICK x \in 0 .. 2 * IdCount - 1 : x = next_id[p]
      BY <2>1
    <3>2. (x + 1) % (2 * IdCount) \in 0 .. 2 * IdCount - 1
      BY <2>1, CounterStep
    <3>3. QED
      BY <3>1, <3>2
  <2>3. next_id' = [next_id EXCEPT ![p] = (@ + 1) % (2 * IdCount)]
    OBVIOUS
  <2>4. QED
    BY <2>2, <2>3
<1>2. made' \in [Peers -> 0 .. Rate]
  <2>1. Rate \in Nat /\ made[p] \in 0 .. Rate /\ made[p] < Rate
    BY ConstantTypes
  <2>2. made[p] + 1 \in 0 .. Rate
    BY <2>1
  <2>3. QED
    BY <2>2
<1>3. result' \in [Peers -> Seq(Outcome)]
  <2>1. \E r \in Outcome : result' = [result EXCEPT ![p] = Append(@, r)]
    BY DEF Outcome
  <2>2. QED
    BY <2>1
<1>4. id_listeners' \in [Peers -> SUBSET IdListener]
  <2>1. NewId(p) \in 0 .. 2 * IdCount - 1 /\ Len(result[p]) + 1 \in Nat
    BY <1>0
  <2>2. \A t \in Timeouts :
          [id |-> NewId(p), timeout |-> t, query |-> Len(result[p]) + 1] \in IdListener
    <3>1. Timeouts \subseteq TimeLeft
      <4>1. \A t \in Timeouts : t \in Nat /\ t <= t /\ (t > 0 \/ t = 0)
        BY ConstantTypes
      <4>2. QED
        BY <4>1 DEF TimeLeft
    <3>2. QED
      BY <2>1, <3>1 DEF IdListener
  <2>3. CASE id_listeners' = id_listeners
    BY <2>3
  <2>4. CASE id_listeners' # id_listeners
    <3>1. PICK t \in Timeouts :
            id_listeners' = [id_listeners EXCEPT ![p] =
              @ \cup {[id |-> NewId(p), timeout |-> t, query |-> Len(result[p]) + 1]}]
      BY <2>4
    <3> DEFINE l == [id |-> NewId(p), timeout |-> t, query |-> Len(result[p]) + 1]
    <3>2. l \in IdListener
      BY <2>2
    <3>3. id_listeners' = [id_listeners EXCEPT ![p] = @ \cup {l}]
      BY <3>1
    <3> HIDE DEF l
    <3>4. QED
      BY <3>2, <3>3
  <2>5. QED
    BY <2>3, <2>4
<1>5. line' \in SUBSET Frame
  <2>1. NewId(p) \in 0 .. 2 * IdCount - 1 /\ Len(result[p]) + 1 \in Nat
    BY <1>0
  <2>2. [to |-> Other(p), frame_id |-> NewId(p), type |-> p,
         query |-> Len(result[p]) + 1, age |-> 0] \in Frame
    BY <2>1, TwoPeers, ConstantTypes DEF Frame
  <2>3. \/ line' = line
        \/ line' = line \cup {[to |-> Other(p), frame_id |-> NewId(p), type |-> p,
                               query |-> Len(result[p]) + 1, age |-> 0]}
    OBVIOUS
  <2>4. QED
    BY <2>2, <2>3
<1>6. QED
  BY <1>1, <1>2, <1>3, <1>4, <1>5

LEMMA TypeRestart ==
  ASSUME TypeOK, NEW p \in Peers, Restart(p)
  PROVE  TypeOK'
<1> USE DEF TypeOK, Restart
<1>1. next_id' \in [Peers -> 0 .. 2 * IdCount - 1]
  <2>1. 0 \in 0 .. 2 * IdCount - 1
    <3>1. IdCount \in Nat \ {0}
      BY ConstantTypes
    <3>2. QED
      BY <3>1
  <2>2. QED
    BY <2>1
<1>2. /\ restarts' \in 0 .. MaxRestarts /\ before' \in [Peers -> Nat]
      /\ made' \in [Peers -> 0 .. Rate]
  <2>1. MaxRestarts \in Nat /\ Rate \in Nat /\ Len(result[p]) \in Nat
    BY ConstantTypes
  <2>2. restarts' \in 0 .. MaxRestarts
    BY <2>1
  <2>3. before' \in [Peers -> Nat]
    BY <2>1
  <2>4. made' \in [Peers -> 0 .. Rate]
    BY <2>1
  <2>5. QED
    BY <2>2, <2>3, <2>4
<1>3. result' \in [Peers -> Seq(Outcome)]
  <2> DEFINE t == [q \in DOMAIN result[p] |-> IF result[p][q] = "open" THEN "forgotten" ELSE result[p][q]]
  <2>1. result[p] \in Seq(Outcome)
    OBVIOUS
  <2>2. t \in [DOMAIN result[p] -> Outcome]
    BY <2>1 DEF Outcome
  <2>3. t \in Seq(Outcome)
    BY <2>1, <2>2, ChangedInPlace
  <2>4. result' = [result EXCEPT ![p] = t]
    OBVIOUS
  <2>5. QED
    BY <2>3, <2>4
<1>4. id_listeners' \in [Peers -> SUBSET IdListener]
  OBVIOUS
<1>5. QED
  BY <1>1, <1>2, <1>3, <1>4

LEMMA TypeReceived ==
  ASSUME TypeOK, NEW m \in line, HandleReceivedMessage(m)
  PROVE  TypeOK'
<1> USE DEF TypeOK
<1>1. /\ m \in Frame /\ m.to \in Peers
      /\ UNCHANGED <<next_id, made, restarts, before>>
  BY DEF HandleReceivedMessage, Frame
<1>2. CASE IdListenerCalled(m)
  <2>1. PICK l \in id_listeners[m.to] :
          /\ id_listeners' = [id_listeners EXCEPT ![m.to] = @ \ {l}]
          /\ result' = [result EXCEPT ![m.to][l.query] = Called(m.to, l.query, m)]
    BY <1>2 DEF IdListenerCalled
  <2>2. line' = line \ {m} /\ served' = served
    BY <1>2 DEF IdListenerCalled
  <2> DEFINE r == Called(m.to, l.query, m)
             t == [result[m.to] EXCEPT ![l.query] = r]
  <2>3. result' \in [Peers -> Seq(Outcome)]
    <3>1. result[m.to] \in Seq(Outcome)
      BY <1>1
    <3>2. t \in [DOMAIN result[m.to] -> Outcome]
      <4>1. r \in Outcome
        BY DEF Outcome, Called
      <4>2. result[m.to] \in [DOMAIN result[m.to] -> Outcome]
        BY <3>1
      <4> HIDE DEF r
      <4>3. QED
        BY <4>1, <4>2
    <3>3. t \in Seq(Outcome)
      BY <3>1, <3>2, ChangedInPlace
    <3>4. result' = [result EXCEPT ![m.to] = t]
      BY <2>1
    <3> HIDE DEF t
    <3>5. QED
      BY <1>1, <3>3, <3>4
  <2>4. id_listeners' \in [Peers -> SUBSET IdListener]
    BY <1>1, <2>1
  <2>5. QED
    BY <1>1, <2>2, <2>3, <2>4
<1>3. CASE TypeListenerResponds(m)
  <2>1. [m EXCEPT !.to = Other(m.to)] \in Frame
    BY <1>1, TwoPeers DEF Frame
  <2>2. <<m.type, m.query>> \in Peers \X Nat
    BY <1>1 DEF Frame
  <2>3. line' = (line \ {m}) \cup {[m EXCEPT !.to = Other(m.to)]}
    BY <1>3 DEF TypeListenerResponds
  <2>4. QED
    BY <1>1, <1>3, <2>1, <2>2, <2>3 DEF TypeListenerResponds
<1>4. CASE Unhandled(m)
  BY <1>1, <1>4 DEF Unhandled
<1>5. QED
  BY <1>2, <1>3, <1>4 DEF HandleReceivedMessage

LEMMA TypeTick ==
  ASSUME TypeOK, Tick
  PROVE  TypeOK'
<1>0. Lifetime \in Nat
  BY ConstantTypes
<1> USE DEF TypeOK, Tick
<1>1. line' \subseteq Frame
  <2>1. ASSUME NEW m \in line, m.age < Lifetime
        PROVE  [m EXCEPT !.age = @ + 1] \in Frame
    <3>1. m \in Frame /\ m.age \in 0 .. Lifetime
      BY DEF Frame
    <3> DEFINE a == m.age + 1
    <3>2. a \in 0 .. Lifetime /\ [m EXCEPT !.age = @ + 1] = [m EXCEPT !.age = a]
      BY <1>0, <2>1, <3>1
    <3> HIDE DEF a
    <3>3. QED
      BY <3>1, <3>2 DEF Frame
  <2>2. QED
    BY <2>1
<1>2. result' \in [Peers -> Seq(Outcome)]
  <2> SUFFICES ASSUME NEW p \in Peers PROVE result'[p] \in Seq(Outcome)
    OBVIOUS
  <2>1. result[p] \in Seq(Outcome)
    OBVIOUS
  <2>2. result'[p] \in [DOMAIN result[p] -> Outcome]
    BY <2>1 DEF Outcome
  <2>3. QED
    BY <2>1, <2>2, ChangedInPlace
<1>3. id_listeners' \in [Peers -> SUBSET IdListener]
  <2> SUFFICES ASSUME NEW p \in Peers, NEW l \in id_listeners[p] \ Expired(p)
               PROVE  [l EXCEPT !.timeout = IF @ = 0 THEN 0 ELSE @ - 1] \in IdListener
    OBVIOUS
  <2>1. l \in IdListener /\ l.timeout # 1
    BY DEF Expired
  <2> DEFINE a == IF l.timeout = 0 THEN 0 ELSE l.timeout - 1
  <2>2. l.timeout \in TimeLeft
    BY <2>1 DEF IdListener
  <2>3. a \in TimeLeft /\ [l EXCEPT !.timeout = IF @ = 0 THEN 0 ELSE @ - 1] = [l EXCEPT !.timeout = a]
    <3>1. PICK u \in Timeouts : l.timeout \in Nat /\ l.timeout <= u /\ u \in Nat
      BY <2>2, ConstantTypes DEF TimeLeft
    <3>2. l.timeout > 0 \/ 0 \in Timeouts
      BY <2>2 DEF TimeLeft
    <3>3. a \in Nat /\ a <= u /\ (a > 0 \/ 0 \in Timeouts)
      BY <2>1, <3>1, <3>2
    <3>4. QED
      BY <3>3 DEF TimeLeft
  <2> HIDE DEF a
  <2>4. QED
    BY <2>1, <2>3 DEF IdListener
<1>4. made' \in [Peers -> 0 .. Rate]
  <2>1. Rate \in Nat
    BY ConstantTypes
  <2>2. QED
    BY <2>1
<1>5. QED
  BY <1>1, <1>2, <1>3, <1>4

-----------------------------------------------------------------------------
(* A query keeps the invariant.                                              *)

\* What the invariant says of one frame and of one listener.
FrameInv(m) ==
  /\ InWindow(m.type, m.frame_id, m.query, m.age)
  /\ result[m.type][m.query] # "refused"
  /\ m.to = m.type <=> <<m.type, m.query>> \in served

ListenerInv(p, l) ==
  /\ InWindow(p, l.id, l.query, Lifetime + 1 - l.timeout)
  /\ l.query > before[p]
  /\ result[p][l.query] = "open"

LEMMA InvParts ==
  ASSUME Inv
  PROVE  /\ TypeOK
         /\ \A m \in line : FrameInv(m)
         /\ \A m, n \in line : m.type = n.type /\ m.query = n.query => m = n
         /\ \A p \in Peers : \A l \in id_listeners[p] : ListenerInv(p, l)
         /\ \A p \in Peers : \A k, l \in id_listeners[p] : k.query = l.query => k = l
         /\ \A v \in served : v[2] \in 1 .. Len(result[v[1]])
         /\ \A p \in Peers : before[p] <= Len(result[p])
         /\ \A p \in Peers : \A q \in DOMAIN result[p] : result[p][q] # "wrong"
BY DEF Inv, PeersInv, FramesInv, ListenersInv, FrameInv, ListenerInv, HistoryInv, OnlyResetsMislead

\* Outcomes of earlier queries stay.
LEMMA QueryAppends ==
  ASSUME TypeOK, NEW p \in Peers, Query(p)
  PROVE  /\ \A o \in Peers \ {p} : result'[o] = result[o]
         /\ Len(result[p]) \in Nat /\ Len(result'[p]) = Len(result[p]) + 1
         /\ \A q \in 1 .. Len(result[p]) : result'[p][q] = result[p][q]
         /\ result'[p][Len(result[p]) + 1] \in {"open", "refused"}
<1>1. PICK r \in {"open", "refused"} : result' = [result EXCEPT ![p] = Append(@, r)]
  BY DEF Query
<1>2. result \in [Peers -> Seq(Outcome)] /\ r \in Outcome
  BY DEF TypeOK, Outcome
<1>3. result'[p] = Append(result[p], r) /\ \A o \in Peers \ {p} : result'[o] = result[o]
  BY <1>1, <1>2
<1>4. result[p] \in Seq(Outcome)
  BY <1>2
<1>5. QED
  BY <1>2, <1>3, <1>4

LEMMA QueryKeeps ==
  ASSUME Timely, TypeOK, NEW p \in Peers, Query(p),
         NEW o \in Peers, NEW id, NEW q, NEW t \in 0 .. Lifetime, InWindow(o, id, q, t)
  PROVE  InWindow(o, id, q, t)' /\ result'[o][q] = result[o][q]
<1>1. InWindow(o, id, q, t)'
  <2>1. CASE o = p
    BY <2>1, WindowQuery
  <2>2. CASE o # p
    <3>1. /\ next_id'[o] = next_id[o] /\ made'[o] = made[o]
          /\ result'[o] = result[o] /\ before' = before
      BY <2>2 DEF Query, TypeOK
    <3>2. QED
      BY <3>1, WindowKept
  <2>3. QED
    BY <2>1, <2>2
<1>2. q \in 1 .. Len(result[o])
  BY DEF InWindow
<1>3. QED
  BY <1>1, <1>2, QueryAppends

LEMMA InvQuery ==
  ASSUME Timely, Inv, NEW p \in Peers, Query(p)
  PROVE  Inv'
<1> DEFINE q == Len(result[p]) + 1
           new == [to |-> Other(p), frame_id |-> NewId(p), type |-> p, query |-> q, age |-> 0]
<1>1. TypeOK
  BY InvParts
<1>2. TypeOK'
  BY <1>1, TypeQuery
<1>3. served' = served /\ before' = before
  BY DEF Query
<1>4. /\ \A o \in Peers \ {p} : result'[o] = result[o]
      /\ Len(result[p]) \in Nat /\ Len(result'[p]) = q
      /\ \A k \in 1 .. Len(result[p]) : result'[p][k] = result[p][k]
      /\ result'[p][q] \in {"open", "refused"}
  BY <1>1, QueryAppends
<1>5. /\ line' \subseteq line \cup {new}
      /\ new \in line' => new \in line \/ result'[p][q] = "open"
  <2>1. CASE line' = line
    BY <2>1
  <2>2. CASE line' # line
    <3>1. result' = [result EXCEPT ![p] = Append(@, "open")] /\ line' = line \cup {new}
      BY <2>2 DEF Query
    <3>2. result[p] \in Seq(Outcome) /\ "open" \in Outcome /\ result \in [Peers -> Seq(Outcome)]
      BY <1>1 DEF TypeOK, Outcome
    <3>3. QED
      BY <3>1, <3>2
  <2>3. QED
    BY <2>1, <2>2
<1>6. /\ new.to = Other(p) /\ new.frame_id = NewId(p) /\ new.type = p
      /\ new.query = q /\ new.age = 0
  OBVIOUS
<1> HIDE DEF new
<1>7. ASSUME NEW m \in line
      PROVE  m.type \in Peers /\ m.age \in 0 .. Lifetime /\ m.query \in 1 .. Len(result[m.type])
  BY <1>1, FrameFields, InvParts DEF FrameInv, InWindow
<1>8. ASSUME NEW m \in line'
      PROVE  FrameInv(m)'
  <2>1. CASE m \in line
    <3>1. FrameInv(m)
      BY <2>1, InvParts
    <3>2. InWindow(m.type, m.frame_id, m.query, m.age)'
          /\ result'[m.type][m.query] = result[m.type][m.query]
      BY <1>1, <1>7, <2>1, <3>1, QueryKeeps DEF FrameInv
    <3>3. QED
      BY <1>3, <3>1, <3>2 DEF FrameInv
  <2>2. CASE m = new /\ m \notin line
    <3>1. InWindow(p, m.frame_id, m.query, m.age)'
      BY <1>1, <1>6, <2>2, WindowNew
    <3>2. <<p, q>> \notin served
      <4>1. <<p, q>> \in served => q \in 1 .. Len(result[p])
        BY InvParts
      <4>2. QED
        BY <1>4, <4>1
    <3>3. Other(p) # p
      BY TwoPeers
    <3>4. result'[p][q] # "refused"
      BY <1>5, <2>2
    <3>5. QED
      BY <1>3, <1>6, <2>2, <3>1, <3>2, <3>3, <3>4 DEF FrameInv
  <2>3. QED
    BY <1>5, <2>1, <2>2
<1>9. ASSUME NEW m \in line', NEW n \in line', m.type = n.type, m.query = n.query
      PROVE  m = n
  <2>1. CASE m \in line /\ n \in line
    BY <1>9, <2>1, InvParts
  <2>2. \A k \in line : ~(k.type = new.type /\ k.query = new.query)
    BY <1>4, <1>6, <1>7
  <2>3. QED
    BY <1>5, <1>9, <2>1, <2>2
<1>10. ASSUME NEW o \in Peers, NEW l \in id_listeners'[o]
       PROVE  /\ ListenerInv(o, l)'
              /\ \A k \in id_listeners'[o] : k.query = l.query => k = l
  <2>1. ASSUME NEW k \in id_listeners[o]
        PROVE  ListenerInv(o, k)' /\ k.query \in 1 .. Len(result[o])
    <3>1. ListenerInv(o, k)
      BY InvParts
    <3>2. Lifetime + 1 - k.timeout \in 0 .. Lifetime
      BY <1>1, ListenerAge
    <3>3. PICK t \in 0 .. Lifetime : t = Lifetime + 1 - k.timeout
      BY <3>2
    <3>4. InWindow(o, k.id, k.query, t)
      BY <3>1, <3>3 DEF ListenerInv
    <3>5. InWindow(o, k.id, k.query, t)' /\ result'[o][k.query] = result[o][k.query]
      BY <1>1, <3>4, QueryKeeps
    <3>6. QED
      BY <1>3, <3>1, <3>3, <3>4, <3>5 DEF ListenerInv, InWindow
  <2>2. CASE id_listeners'[o] = id_listeners[o]
    BY <2>1, <2>2, InvParts
  <2>3. CASE id_listeners'[o] # id_listeners[o]
    <3>1. o = p /\ line' = line \cup {new} /\ result' = [result EXCEPT ![p] = Append(@, "open")]
      BY <1>1, <2>3 DEF Query, TypeOK, new
    <3>2. PICK t \in Timeouts :
            id_listeners'[p] = id_listeners[p] \cup {[id |-> NewId(p), timeout |-> t, query |-> q]}
      BY <1>1, <2>3, <3>1 DEF Query, TypeOK
    <3>3. PICK own : own = [id |-> NewId(p), timeout |-> t, query |-> q]
      OBVIOUS
    <3>4. /\ id_listeners'[p] = id_listeners[p] \cup {own}
          /\ own.id = NewId(p) /\ own.timeout = t /\ own.query = q
      BY <3>2, <3>3
    <3>5. ListenerInv(p, own)'
      <4>1. Lifetime + 1 - t \in Nat
        BY <3>2, ConstantTypes DEF Timely
      <4>2. PICK u \in Nat : u = Lifetime + 1 - t
        BY <4>1
      <4>3. InWindow(p, own.id, own.query, u)'
        BY <1>1, <3>4, WindowNew
      <4>4. result'[p][q] = "open"
        <5>1. result[p] \in Seq(Outcome) /\ "open" \in Outcome
              /\ result \in [Peers -> Seq(Outcome)]
          BY <1>1 DEF TypeOK, Outcome
        <5>2. QED
          BY <3>1, <5>1
      <4>5. q > before'[p]
        <5>1. before[p] \in Nat /\ before[p] <= Len(result[p])
          BY <1>1, InvParts DEF TypeOK
        <5>2. QED
          BY <1>3, <1>4, <5>1
      <4>6. QED
        BY <1>3, <3>4, <4>2, <4>3, <4>4, <4>5 DEF ListenerInv
    <3>6. \A k \in id_listeners[p] : k.query # own.query
      BY <1>4, <2>1, <3>1, <3>4
    <3>7. \A k, j \in id_listeners[p] : k.query = j.query => k = j
      BY InvParts
    <3>8. QED
      BY <2>1, <3>1, <3>4, <3>5, <3>6, <3>7
  <2>4. QED
    BY <2>2, <2>3
<1>11. \A v \in served' : v[2] \in 1 .. Len(result'[v[1]])
  <2> SUFFICES ASSUME NEW v \in served PROVE v[2] \in 1 .. Len(result'[v[1]])
    BY <1>3
  <2>1. v[2] \in 1 .. Len(result[v[1]]) /\ v[1] \in Peers
    BY <1>1, InvParts DEF TypeOK
  <2>2. QED
    BY <1>4, <2>1
<1>12. \A o \in Peers : \A k \in DOMAIN result'[o] : result'[o][k] # "wrong"
  <2> SUFFICES ASSUME NEW o \in Peers, NEW k \in DOMAIN result'[o] PROVE result'[o][k] # "wrong"
    OBVIOUS
  <2>1. result[o] \in Seq(Outcome) /\ result'[o] \in Seq(Outcome)
    BY <1>1, <1>2 DEF TypeOK
  <2>2. \A j \in 1 .. Len(result[o]) : result[o][j] # "wrong"
    BY <2>1, InvParts
  <2>3. CASE o # p
    BY <1>4, <2>1, <2>2, <2>3
  <2>4. CASE o = p
    <3>1. k \in 1 .. Len(result[p]) \/ k = q
      BY <1>4, <2>1, <2>4
    <3>2. QED
      BY <1>4, <2>2, <2>4, <3>1
  <2>5. QED
    BY <2>3, <2>4
<1>13. \A o \in Peers : before'[o] <= Len(result'[o])
  <2> SUFFICES ASSUME NEW o \in Peers PROVE before[o] <= Len(result'[o])
    BY <1>3
  <2>1. before[o] \in Nat /\ before[o] <= Len(result[o]) /\ Len(result[o]) \in Nat
    BY <1>1, InvParts DEF TypeOK
  <2>2. QED
    BY <1>4, <2>1
<1>14. QED
  BY <1>2, <1>8, <1>9, <1>10, <1>11, <1>12, <1>13
  DEF Inv, PeersInv, FramesInv, FrameInv, ListenersInv, ListenerInv, HistoryInv, OnlyResetsMislead

-----------------------------------------------------------------------------
(* Restarts, frames that arrive, and ticks keep it.                          *)
LEMMA InvRestart ==
  ASSUME Timely, Inv, NEW p \in Peers, Restart(p)
  PROVE  Inv'
<1>1. TypeOK /\ TypeOK'
  BY InvParts, TypeRestart
<1>2. /\ line' = line /\ served' = served
      /\ \A o \in Peers \ {p} : /\ next_id'[o] = next_id[o] /\ made'[o] = made[o]
                                /\ before'[o] = before[o]
      /\ \A o \in Peers \ {p} : id_listeners'[o] = id_listeners[o] /\ result'[o] = result[o]
      /\ before'[p] = Len(result[p]) /\ id_listeners'[p] = {}
      /\ result'[p] = [q \in DOMAIN result[p] |->
                         IF result[p][q] = "open" THEN "forgotten" ELSE result[p][q]]
  BY <1>1 DEF Restart, TypeOK
<1>4. \A o \in Peers : Len(result'[o]) = Len(result[o]) /\ Len(result[o]) \in Nat
  <2> SUFFICES ASSUME NEW o \in Peers
               PROVE  Len(result'[o]) = Len(result[o]) /\ Len(result[o]) \in Nat
    OBVIOUS
  <2>1. result[o] \in Seq(Outcome)
    BY <1>1 DEF TypeOK
  <2>2. result'[p] \in [DOMAIN result[p] -> Outcome] /\ result[p] \in Seq(Outcome)
    <3>1. result[p] \in Seq(Outcome)
      BY <1>1 DEF TypeOK
    <3>2. \A q \in DOMAIN result[p] : result[p][q] \in Outcome
      BY <3>1
    <3>3. "forgotten" \in Outcome
      BY DEF Outcome
    <3>4. QED
      BY <1>2, <3>1, <3>2, <3>3
  <2>3. Len(result'[p]) = Len(result[p])
    BY <2>2, ChangedInPlace
  <2>4. QED
    BY <1>2, <2>1, <2>3
<1>5. ASSUME NEW o \in Peers, NEW id, NEW q, NEW t, InWindow(o, id, q, t)
      PROVE  InWindow(o, id, q, t)'
  <2>1. CASE o # p
    BY <1>2, <1>4, <1>5, <2>1, WindowKept
  <2>2. CASE o = p
    <3>1. q \in 1 .. Len(result[o]) /\ ~(q > before'[o])
      BY <1>2, <1>4, <1>5, <2>2 DEF InWindow
    <3>2. QED
      BY <1>2, <1>4, <1>5, <3>1 DEF InWindow, Since, Number
  <2>3. QED
    BY <2>1, <2>2
<1>6. ASSUME NEW m \in line'
      PROVE  FrameInv(m)'
  <2>1. FrameInv(m) /\ m.type \in Peers /\ m.age \in 0 .. Lifetime
    BY <1>1, <1>2, InvParts, FrameFields
  <2>2. InWindow(m.type, m.frame_id, m.query, m.age)'
    BY <1>5, <2>1 DEF FrameInv
  <2>3. result'[m.type][m.query] # "refused"
    <3>1. m.query \in DOMAIN result[m.type]
      <4>1. result[m.type] \in Seq(Outcome) /\ m.query \in 1 .. Len(result[m.type])
        BY <1>1, <2>1 DEF TypeOK, FrameInv, InWindow
      <4>2. QED
        BY <4>1
    <3>2. QED
      BY <1>2, <2>1, <3>1 DEF FrameInv
  <2>4. QED
    BY <1>2, <2>1, <2>2, <2>3 DEF FrameInv
<1>7. \A m, n \in line' : m.type = n.type /\ m.query = n.query => m = n
  BY <1>2, InvParts
<1>8. ASSUME NEW o \in Peers, NEW l \in id_listeners'[o]
      PROVE  /\ ListenerInv(o, l)'
             /\ \A k \in id_listeners'[o] : k.query = l.query => k = l
  <2>1. o # p /\ l \in id_listeners[o]
    BY <1>2
  <2>2. ListenerInv(o, l) /\ Lifetime + 1 - l.timeout \in 0 .. Lifetime
    BY <1>1, <2>1, InvParts, ListenerAge
  <2>3. PICK t \in 0 .. Lifetime : t = Lifetime + 1 - l.timeout
    BY <2>2
  <2>4. InWindow(o, l.id, l.query, t)'
    BY <1>5, <2>2, <2>3 DEF ListenerInv
  <2>5. ListenerInv(o, l)'
    BY <1>2, <2>1, <2>2, <2>3, <2>4 DEF ListenerInv
  <2>6. QED
    BY <1>2, <2>1, <2>5, InvParts
<1>9. \A v \in served' : v[2] \in 1 .. Len(result'[v[1]])
  BY <1>1, <1>2, <1>4, InvParts DEF TypeOK
<1>10. \A o \in Peers : \A k \in DOMAIN result'[o] : result'[o][k] # "wrong"
  BY <1>2, InvParts
<1>11. \A o \in Peers : before'[o] <= Len(result'[o])
  BY <1>2, <1>4, InvParts
<1>12. QED
  BY <1>1, <1>6, <1>7, <1>8, <1>9, <1>10, <1>11
  DEF Inv, PeersInv, FramesInv, FrameInv, ListenersInv, ListenerInv, HistoryInv, OnlyResetsMislead

\* An answer closes one listener; no other query's outcome changes.
LEMMA AnswerStep ==
  ASSUME Timely, Inv, NEW m \in line, IdListenerCalled(m)
  PROVE  \E q, r :
           /\ m.type = m.to /\ m.to \in Peers
           /\ \/ r = "answered" /\ q = m.query
              \/ r = "misled" /\ m.query \in 1 .. before[m.to]
           /\ q > before[m.to] /\ q \in DOMAIN result[m.to] /\ result[m.to][q] = "open"
           /\ result' = [result EXCEPT ![m.to][q] = r]
           /\ \A o \in Peers : id_listeners'[o] \subseteq id_listeners[o]
           /\ \A l \in id_listeners'[m.to] : l.query # q
<1>1. PICK l \in id_listeners[m.to] :
        /\ l.id = m.frame_id
        /\ id_listeners' = [id_listeners EXCEPT ![m.to] = @ \ {l}]
        /\ result' = [result EXCEPT ![m.to][l.query] = Called(m.to, l.query, m)]
  BY DEF IdListenerCalled
<1>2. PICK r : r = Called(m.to, l.query, m)
  OBVIOUS
<1>3. /\ m.to \in Peers /\ id_listeners \in [Peers -> SUBSET IdListener]
      /\ before[m.to] \in Nat /\ result[m.to] \in Seq(Outcome)
  BY InvParts, FrameFields DEF TypeOK
<1>4. m.type = m.to /\ (m.query = l.query \/ m.query \in 1 .. before[m.to])
  BY <1>1, ListenerMatch
<1>5. \/ r = "answered" /\ l.query = m.query
      \/ r = "misled" /\ m.query \in 1 .. before[m.to]
  <2>1. CASE m.query = l.query
    BY <1>2, <1>4, <2>1 DEF Called
  <2>2. CASE m.query # l.query /\ m.query \in 1 .. before[m.to]
    <3>1. m.query <= before[m.to]
      BY <1>3, <2>2
    <3>2. QED
      BY <1>2, <1>4, <2>2, <3>1 DEF Called
  <2>3. QED
    BY <1>4, <2>1, <2>2
<1>6. ListenerInv(m.to, l)
  BY <1>1, <1>3, InvParts
<1>7. l.query \in DOMAIN result[m.to]
  BY <1>3, <1>6 DEF ListenerInv, InWindow
<1>8. /\ \A o \in Peers : id_listeners'[o] \subseteq id_listeners[o]
      /\ id_listeners'[m.to] = id_listeners[m.to] \ {l}
  BY <1>1, <1>3
<1>9. \A k \in id_listeners[m.to] : k.query = l.query => k = l
  BY <1>1, <1>3, InvParts
<1>10. QED
  BY <1>1, <1>2, <1>3, <1>4, <1>5, <1>6, <1>7, <1>8, <1>9 DEF ListenerInv

LEMMA InvAnswer ==
  ASSUME Timely, Inv, TypeOK', NEW m \in line, HandleReceivedMessage(m), IdListenerCalled(m)
  PROVE  Inv'
<1>1. TypeOK /\ m.to \in Peers
  BY InvParts, FrameFields
<1>2. /\ next_id' = next_id /\ made' = made /\ before' = before /\ served' = served
      /\ line' = line \ {m}
  BY DEF HandleReceivedMessage, IdListenerCalled
<1>3. PICK a, r :
        /\ m.type = m.to /\ m.to \in Peers
        /\ \/ r = "answered" /\ a = m.query
           \/ r = "misled" /\ m.query \in 1 .. before[m.to]
        /\ a > before[m.to] /\ a \in DOMAIN result[m.to] /\ result[m.to][a] = "open"
        /\ result' = [result EXCEPT ![m.to][a] = r]
        /\ \A o \in Peers : id_listeners'[o] \subseteq id_listeners[o]
        /\ \A l \in id_listeners'[m.to] : l.query # a
  BY <1>1, AnswerStep
<1>4. result \in [Peers -> Seq(Outcome)]
  BY <1>1 DEF TypeOK
<1>5. /\ \A o \in Peers : DOMAIN result'[o] = DOMAIN result[o]
      /\ \A o \in Peers : \A k \in DOMAIN result[o] :
           \/ result'[o][k] = result[o][k]
           \/ result'[o][k] = r /\ o = m.to /\ k = a
  BY <1>3, <1>4
<1>6. \A o \in Peers : Len(result'[o]) = Len(result[o])
  <2> SUFFICES ASSUME NEW o \in Peers PROVE Len(result'[o]) = Len(result[o])
    OBVIOUS
  <2>1. result[o] \in Seq(Outcome) /\ result'[o] \in Seq(Outcome)
    BY <1>4 DEF TypeOK
  <2>2. QED
    BY <1>5, <2>1
<1>7. ASSUME NEW o \in Peers, NEW id, NEW q, NEW t, InWindow(o, id, q, t)
      PROVE  InWindow(o, id, q, t)' /\ q \in DOMAIN result[o]
  <2>1. InWindow(o, id, q, t)'
    BY <1>2, <1>6, <1>7, WindowKept
  <2>2. result[o] \in Seq(Outcome) /\ q \in 1 .. Len(result[o])
    BY <1>4, <1>7 DEF InWindow
  <2>3. QED
    BY <2>1, <2>2
<1>8. ASSUME NEW n \in line'
      PROVE  FrameInv(n)'
  <2>1. FrameInv(n) /\ n.type \in Peers
    BY <1>1, <1>2, InvParts, FrameFields
  <2>2. InWindow(n.type, n.frame_id, n.query, n.age)' /\ n.query \in DOMAIN result[n.type]
    BY <1>7, <2>1 DEF FrameInv
  <2>3. result'[n.type][n.query] # "refused"
    BY <1>3, <1>5, <2>1, <2>2 DEF FrameInv
  <2>4. QED
    BY <1>2, <2>1, <2>2, <2>3 DEF FrameInv
<1>9. \A k, n \in line' : k.type = n.type /\ k.query = n.query => k = n
  BY <1>2, InvParts
<1>10. ASSUME NEW o \in Peers, NEW l \in id_listeners'[o]
       PROVE  ListenerInv(o, l)'
  <2>1. l \in id_listeners[o]
    BY <1>3
  <2>2. ListenerInv(o, l)
    BY <2>1, InvParts
  <2>3. PICK t : t = Lifetime + 1 - l.timeout
    OBVIOUS
  <2>4. InWindow(o, l.id, l.query, t)' /\ l.query \in DOMAIN result[o]
    BY <1>7, <2>2, <2>3 DEF ListenerInv
  <2>5. result'[o][l.query] = "open"
    BY <1>3, <1>5, <2>2, <2>4 DEF ListenerInv
  <2>6. QED
    BY <1>2, <2>2, <2>3, <2>4, <2>5 DEF ListenerInv
<1>11. \A o \in Peers : \A k, l \in id_listeners'[o] : k.query = l.query => k = l
  BY <1>3, InvParts
<1>12. \A v \in served' : v[2] \in 1 .. Len(result'[v[1]])
  BY <1>1, <1>2, <1>6, InvParts DEF TypeOK
<1>13. \A o \in Peers : \A k \in DOMAIN result'[o] : result'[o][k] # "wrong"
  BY <1>3, <1>5, InvParts
<1>14. \A o \in Peers : before'[o] <= Len(result'[o])
  BY <1>2, <1>6, InvParts
<1>15. QED
  BY <1>8, <1>9, <1>10, <1>11, <1>12, <1>13, <1>14
  DEF Inv, PeersInv, FramesInv, FrameInv, ListenersInv, ListenerInv, HistoryInv, OnlyResetsMislead

\* A response is the request sent back.
LEMMA ServeStep ==
  ASSUME Inv, NEW m \in line, TypeListenerResponds(m)
  PROVE  \E n : /\ line' = (line \ {m}) \cup {n}
                /\ n.to = m.type /\ n.type = m.type /\ n.frame_id = m.frame_id
                /\ n.query = m.query /\ n.age = m.age
<1>1. m \in Frame /\ m.to \in Peers /\ m.type \in Peers /\ m.type # m.to
  BY InvParts DEF TypeListenerResponds, TypeOK, Frame
<1>2. Other(m.to) = m.type
  BY <1>1, TwoPeers
<1>3. PICK n : n = [m EXCEPT !.to = m.type]
  OBVIOUS
<1>4. line' = (line \ {m}) \cup {n}
  BY <1>2, <1>3 DEF TypeListenerResponds
<1>5. /\ n.to = m.type /\ n.type = m.type /\ n.frame_id = m.frame_id
      /\ n.query = m.query /\ n.age = m.age
  BY <1>1, <1>3 DEF Frame
<1>6. QED
  BY <1>4, <1>5

LEMMA InvServe ==
  ASSUME Inv, TypeOK', NEW m \in line, HandleReceivedMessage(m), TypeListenerResponds(m)
  PROVE  Inv'
<1>1. TypeOK /\ m.type \in Peers /\ FrameInv(m)
  BY InvParts, FrameFields
<1>2. /\ next_id' = next_id /\ made' = made /\ before' = before
      /\ id_listeners' = id_listeners /\ result' = result
      /\ served' = served \cup {<<m.type, m.query>>}
  BY DEF HandleReceivedMessage, TypeListenerResponds
<1>3. PICK r : /\ line' = (line \ {m}) \cup {r}
               /\ r.to = m.type /\ r.type = m.type /\ r.frame_id = m.frame_id
               /\ r.query = m.query /\ r.age = m.age
  BY ServeStep
<1>4. ASSUME NEW o \in Peers, NEW id, NEW q, NEW t, InWindow(o, id, q, t)
      PROVE  InWindow(o, id, q, t)'
  BY <1>2, <1>4, WindowKept
<1>5. ASSUME NEW n \in line'
      PROVE  FrameInv(n)'
  <2>1. CASE n \in line /\ n # m
    <3>1. FrameInv(n) /\ n.type \in Peers
      BY <1>1, <2>1, InvParts, FrameFields
    <3>2. InWindow(n.type, n.frame_id, n.query, n.age)'
      BY <1>4, <3>1 DEF FrameInv
    <3>3. ~(n.type = m.type /\ n.query = m.query)
      BY <2>1, InvParts
    <3>4. <<n.type, n.query>> \in served' <=> <<n.type, n.query>> \in served
      BY <1>2, <3>3
    <3>5. QED
      BY <1>2, <3>1, <3>2, <3>4 DEF FrameInv
  <2>2. CASE n = r
    <3>1. InWindow(r.type, r.frame_id, r.query, r.age)'
      BY <1>1, <1>3, <1>4 DEF FrameInv
    <3>2. QED
      BY <1>1, <1>2, <1>3, <2>2, <3>1 DEF FrameInv
  <2>3. QED
    BY <1>3, <2>1, <2>2
<1>6. \A k, n \in line' : k.type = n.type /\ k.query = n.query => k = n
  <2>1. \A n \in line : n.type = m.type /\ n.query = m.query => n = m
    BY InvParts
  <2>2. \A k, n \in line : k.type = n.type /\ k.query = n.query => k = n
    BY InvParts
  <2>3. QED
    BY <1>3, <2>1, <2>2
<1>7. ASSUME NEW o \in Peers, NEW l \in id_listeners'[o]
      PROVE  ListenerInv(o, l)'
  <2>1. l \in id_listeners[o]
    BY <1>2
  <2>2. ListenerInv(o, l)
    BY <2>1, InvParts
  <2>3. PICK t : t = Lifetime + 1 - l.timeout
    OBVIOUS
  <2>4. InWindow(o, l.id, l.query, t)'
    BY <1>4, <2>2, <2>3 DEF ListenerInv
  <2>5. QED
    BY <1>2, <2>2, <2>3, <2>4 DEF ListenerInv
<1>8. \A o \in Peers : \A k, l \in id_listeners'[o] : k.query = l.query => k = l
  BY <1>2, InvParts
<1>9. \A v \in served' : v[2] \in 1 .. Len(result'[v[1]])
  <2>1. m.query \in 1 .. Len(result[m.type])
    BY <1>1 DEF FrameInv, InWindow
  <2>2. QED
    BY <1>2, <2>1, InvParts
<1>10. \A o \in Peers : \A k \in DOMAIN result'[o] : result'[o][k] # "wrong"
  BY <1>2, InvParts
<1>11. \A o \in Peers : before'[o] <= Len(result'[o])
  BY <1>2, InvParts
<1>12. QED
  BY <1>5, <1>6, <1>7, <1>8, <1>9, <1>10, <1>11
  DEF Inv, PeersInv, FramesInv, FrameInv, ListenersInv, ListenerInv, HistoryInv, OnlyResetsMislead

LEMMA InvUnhandled ==
  ASSUME Inv, TypeOK', NEW m \in line, HandleReceivedMessage(m), Unhandled(m)
  PROVE  Inv'
<1>1. /\ next_id' = next_id /\ made' = made /\ before' = before /\ served' = served
      /\ id_listeners' = id_listeners /\ result' = result /\ line' = line \ {m}
  BY DEF HandleReceivedMessage, Unhandled
<1>2. \A o, id, q, t : InWindow(o, id, q, t)' <=> InWindow(o, id, q, t)
  BY <1>1 DEF InWindow, Since, Number
<1>3. \A n \in line' : FrameInv(n)'
  BY <1>1, InvParts DEF FrameInv, InWindow, Since, Number
<1>4. \A o \in Peers : \A l \in id_listeners'[o] : ListenerInv(o, l)'
  BY <1>1, InvParts DEF ListenerInv, InWindow, Since, Number
<1>5. QED
  BY <1>1, <1>3, <1>4, InvParts
  DEF Inv, PeersInv, FramesInv, FrameInv, ListenersInv, ListenerInv, HistoryInv, OnlyResetsMislead

\* What a tick does to the outcomes.
LEMMA TickOutcomes ==
  ASSUME Inv, Tick, NEW p \in Peers
  PROVE  /\ Len(result'[p]) = Len(result[p]) /\ DOMAIN result'[p] = DOMAIN result[p]
         /\ \A q \in DOMAIN result[p] :
              \/ result'[p][q] = result[p][q] /\ \A l \in Expired(p) : l.query # q
              \/ result[p][q] = "open" /\ result'[p][q] = "expired"
<1>1. TypeOK /\ TypeOK'
  BY InvParts, TypeTick
<1>2. result'[p] = [q \in DOMAIN result[p] |->
                      IF \E l \in Expired(p) : l.query = q THEN "expired" ELSE result[p][q]]
  BY DEF Tick
<1>3. result[p] \in Seq(Outcome) /\ result'[p] \in Seq(Outcome)
  BY <1>1 DEF TypeOK
<1>4. Len(result'[p]) = Len(result[p]) /\ DOMAIN result'[p] = DOMAIN result[p]
  BY <1>2, <1>3
<1>5. \A l \in Expired(p) : result[p][l.query] = "open"
  BY InvParts DEF Expired, ListenerInv
<1>6. QED
  BY <1>2, <1>4, <1>5

LEMMA InvTick ==
  ASSUME Timely, Inv, Tick
  PROVE  Inv'
<1>1. TypeOK /\ TypeOK'
  BY InvParts, TypeTick
<1>2. Lifetime \in Nat
  BY ConstantTypes
<1>3. /\ line' = {[m EXCEPT !.age = @ + 1] : m \in {f \in line : f.age < Lifetime}}
      /\ served' = served
      /\ before' = before
      /\ \A p \in Peers : id_listeners'[p] =
            {[l EXCEPT !.timeout = IF @ = 0 THEN 0 ELSE @ - 1] : l \in id_listeners[p] \ Expired(p)}
  BY DEF Tick
<1>4. \A p \in Peers : before'[p] <= Len(result'[p])
  BY <1>3, InvParts, TickOutcomes
<1>5. ASSUME NEW n \in line'
      PROVE  \E m \in line : /\ n = [m EXCEPT !.age = @ + 1] /\ m.age < Lifetime
                             /\ n.to = m.to /\ n.type = m.type /\ n.query = m.query
                             /\ n.frame_id = m.frame_id /\ n.age = m.age + 1
  <2>1. PICK m \in line : n = [m EXCEPT !.age = @ + 1] /\ m.age < Lifetime
    BY <1>3
  <2>2. m \in Frame
    BY <1>1 DEF TypeOK
  <2>3. QED
    BY <2>1, <2>2 DEF Frame
<1>6. ASSUME NEW n \in line'
      PROVE  FrameInv(n)'
  <2>1. PICK m \in line : /\ m.age < Lifetime
                          /\ n.to = m.to /\ n.type = m.type /\ n.query = m.query
                          /\ n.frame_id = m.frame_id /\ n.age = m.age + 1
    BY <1>5
  <2>2. FrameInv(m) /\ m.type \in Peers /\ m.age \in 0 .. Lifetime
    BY <1>1, InvParts, FrameFields
  <2>3. Len(result'[m.type]) = Len(result[m.type])
    BY <2>2, TickOutcomes
  <2>4. PICK t \in Nat : t = m.age
    BY <2>2
  <2>5. InWindow(m.type, m.frame_id, m.query, t + 1)'
    BY <1>1, <2>2, <2>3, <2>4, WindowTick DEF FrameInv
  <2>6. result'[m.type][m.query] # "refused"
    <3>1. result[m.type] \in Seq(Outcome) /\ m.query \in 1 .. Len(result[m.type])
      BY <1>1, <2>2 DEF TypeOK, FrameInv, InWindow
    <3>2. QED
      BY <2>2, <3>1, TickOutcomes DEF FrameInv
  <2>7. QED
    BY <1>3, <2>1, <2>2, <2>4, <2>5, <2>6 DEF FrameInv
<1>7. ASSUME NEW k \in line', NEW n \in line', k.type = n.type, k.query = n.query
      PROVE  k = n
  <2>1. PICK m \in line : k = [m EXCEPT !.age = @ + 1] /\ k.type = m.type /\ k.query = m.query
    BY <1>5
  <2>2. PICK j \in line : n = [j EXCEPT !.age = @ + 1] /\ n.type = j.type /\ n.query = j.query
    BY <1>5
  <2>3. m = j
    BY <1>7, <2>1, <2>2, InvParts
  <2>4. QED
    BY <2>1, <2>2, <2>3
<1>8. ASSUME NEW p \in Peers, NEW k \in id_listeners'[p]
      PROVE  \E l \in id_listeners[p] \ Expired(p) :
                /\ k = [l EXCEPT !.timeout = IF @ = 0 THEN 0 ELSE @ - 1]
                /\ k.id = l.id /\ k.query = l.query /\ k.timeout = l.timeout - 1
  <2>1. PICK l \in id_listeners[p] \ Expired(p) : k = [l EXCEPT !.timeout = IF @ = 0 THEN 0 ELSE @ - 1]
    BY <1>3
  <2>2. l \in IdListener /\ l.timeout # 0
    <3>1. l.timeout \in 1 .. Lifetime + 1
      BY <1>1, ListenerAge
    <3>2. QED
      BY <1>1, <1>2, <3>1 DEF TypeOK
  <2>3. QED
    BY <2>1, <2>2 DEF IdListener
<1>9. ASSUME NEW p \in Peers, NEW k \in id_listeners'[p]
      PROVE  ListenerInv(p, k)'
  <2>1. PICK l \in id_listeners[p] \ Expired(p) :
          k.id = l.id /\ k.query = l.query /\ k.timeout = l.timeout - 1
    BY <1>8
  <2>2. ListenerInv(p, l)
    BY InvParts
  <2>3. l.timeout \in 1 .. Lifetime + 1 /\ Lifetime + 1 - l.timeout \in 0 .. Lifetime
    BY <1>1, ListenerAge
  <2>4. PICK t \in Nat : t = Lifetime + 1 - l.timeout
    BY <2>3
  <2>5. l.query > before'[p]
    BY <1>3, <2>2 DEF ListenerInv
  <2>6. InWindow(p, l.id, l.query, t + 1)'
    <3>1. Len(result'[p]) = Len(result[p])
      BY TickOutcomes
    <3>2. InWindow(p, l.id, l.query, t)
      BY <2>2, <2>4 DEF ListenerInv
    <3>3. QED
      BY <1>1, <3>1, <3>2, WindowTick
  <2>7. t + 1 = Lifetime + 1 - k.timeout
    BY <1>2, <2>1, <2>3, <2>4
  <2>8. result'[p][l.query] = "open"
    <3>1. result[p] \in Seq(Outcome) /\ l.query \in 1 .. Len(result[p])
      BY <1>1, <2>2 DEF TypeOK, ListenerInv, InWindow
    <3>2. \A e \in Expired(p) : e.query # l.query
      BY <2>1, InvParts DEF Expired
    <3>3. result'[p] = [q \in DOMAIN result[p] |->
                          IF \E e \in Expired(p) : e.query = q THEN "expired" ELSE result[p][q]]
      BY DEF Tick
    <3>4. QED
      BY <2>2, <3>1, <3>2, <3>3 DEF ListenerInv
  <2>9. QED
    BY <2>1, <2>5, <2>6, <2>7, <2>8 DEF ListenerInv
<1>10. ASSUME NEW p \in Peers, NEW j \in id_listeners'[p], NEW k \in id_listeners'[p],
              j.query = k.query
       PROVE  j = k
  <2>1. PICK l \in id_listeners[p] : j = [l EXCEPT !.timeout = IF @ = 0 THEN 0 ELSE @ - 1] /\ j.query = l.query
    BY <1>8
  <2>2. PICK i \in id_listeners[p] : k = [i EXCEPT !.timeout = IF @ = 0 THEN 0 ELSE @ - 1] /\ k.query = i.query
    BY <1>8
  <2>3. l = i
    BY <1>10, <2>1, <2>2, InvParts
  <2>4. QED
    BY <2>1, <2>2, <2>3
<1>11. \A v \in served' : v[2] \in 1 .. Len(result'[v[1]])
  BY <1>1, <1>3, InvParts, TickOutcomes DEF TypeOK
<1>12. \A p \in Peers : \A q \in DOMAIN result'[p] : result'[p][q] # "wrong"
  BY InvParts, TickOutcomes
<1>13. QED
  BY <1>1, <1>4, <1>6, <1>7, <1>9, <1>10, <1>11, <1>12
  DEF Inv, PeersInv, FramesInv, FrameInv, ListenersInv, ListenerInv, HistoryInv, OnlyResetsMislead

LEMMA InvNext ==
  ASSUME Timely, Inv, [Next]_vars
  PROVE  Inv'
<1>1. ASSUME NEW p \in Peers, Query(p) PROVE Inv'
  BY <1>1, InvQuery
<1>2. ASSUME NEW p \in Peers, Restart(p) PROVE Inv'
  BY <1>2, InvRestart
<1>3. ASSUME NEW m \in line, HandleReceivedMessage(m) PROVE Inv'
  <2>1. TypeOK'
    BY <1>3, TypeReceived DEF Inv
  <2>2. IdListenerCalled(m) \/ TypeListenerResponds(m) \/ Unhandled(m)
    BY <1>3 DEF HandleReceivedMessage
  <2>3. QED
    BY <1>3, <2>1, <2>2, InvAnswer, InvServe, InvUnhandled
<1>4. CASE Tick
  BY <1>4, InvTick
<1>5. CASE UNCHANGED vars
  BY <1>5 DEF vars, Inv, TypeOK, PeersInv, FramesInv, ListenersInv, HistoryInv, OnlyResetsMislead,
              InWindow, Since, Number
<1>6. QED
  BY <1>1, <1>2, <1>3, <1>4, <1>5 DEF Next

-----------------------------------------------------------------------------
(* The theorems.                                                             *)

(* The state of both peers and of the line keeps its types, whatever the     *)
(* users do: every ID fits the ID field and no listener is left with no time *)
(* unless it was to be kept for ever.                                        *)
THEOREM PeersTypes == Spec => []TypeOK
<1>1. Init => TypeOK
  BY ConstantTypes DEF Init, TypeOK
<1>2. TypeOK /\ [Next]_vars => TypeOK'
  <2> SUFFICES ASSUME TypeOK, [Next]_vars PROVE TypeOK'
    OBVIOUS
  <2>1. CASE UNCHANGED vars
    BY <2>1 DEF TypeOK, vars
  <2>2. QED
    BY <2>1, TypeQuery, TypeRestart, TypeReceived, TypeTick DEF Next
<1>3. QED
  BY <1>1, <1>2, PTL DEF Spec

(* All that is kept of queries, listeners and frames keeps to its window, if *)
(* queries do not wait longer than their exchanges can take and the IDs last *)
(* for as many queries as are made in that time.                             *)
THEOREM PeersInvariant ==
  ASSUME Timely
  PROVE  Spec => []Inv
<1>1. Inv /\ [Next]_vars => Inv'
  BY InvNext
<1>2. QED
  BY InvInit, <1>1, PTL DEF Spec

(* Under the same conditions an ID listener is called with the answer to its *)
(* own query, or, after a reset, to one its peer made before: with nothing   *)
(* else, although IDs come round and start again.                            *)
THEOREM MisledAfterResetsOnly ==
  ASSUME Timely
  PROVE  Spec => []OnlyResetsMislead
<1>1. Inv => OnlyResetsMislead
  BY DEF Inv, PeersInv
<1>2. QED
  BY PeersInvariant, <1>1, PTL

(* Where no peer is reset, it is always the answer to its own query.         *)
THEOREM AnswersRight ==
  ASSUME Timely, MaxRestarts = 0
  PROVE  Spec => []AnswersMatch
<1> DEFINE NeverReset == \A p \in Peers : before[p] = 0 /\ \A q \in DOMAIN result[p] : result[p][q] # "misled"
<1>1. Init => NeverReset
  BY DEF Init
<1>2. Inv /\ NeverReset /\ [Next]_vars => NeverReset'
  <2> SUFFICES ASSUME Inv, NeverReset, [Next]_vars PROVE NeverReset'
    OBVIOUS
  <2>1. TypeOK
    BY InvParts
  <2>2. ASSUME NEW p \in Peers, Query(p) PROVE NeverReset'
    <3>1. before' = before
      BY <2>2 DEF Query
    <3>2. PICK r \in {"open", "refused"} : result' = [result EXCEPT ![p] = Append(@, r)]
      BY <2>2 DEF Query
    <3>3. ASSUME NEW o \in Peers, NEW q \in DOMAIN result'[o] PROVE result'[o][q] # "misled"
      <4>1. CASE o # p
        BY <2>1, <3>2, <3>3, <4>1 DEF TypeOK
      <4>2. CASE o = p
        <5>1. result[p] \in Seq(Outcome) /\ result'[p] = Append(result[p], r)
          BY <2>1, <3>2 DEF TypeOK
        <5>2. QED
          BY <3>2, <3>3, <4>2, <5>1
      <4>3. QED
        BY <4>1, <4>2
    <3>4. QED
      BY <3>1, <3>3
  <2>3. ASSUME NEW p \in Peers, Restart(p) PROVE FALSE
    BY <2>1, <2>3 DEF Restart, TypeOK
  <2>4. ASSUME NEW m \in line, HandleReceivedMessage(m) PROVE NeverReset'
    <3>1. before' = before
      BY <2>4 DEF HandleReceivedMessage
    <3>2. CASE IdListenerCalled(m)
      <4>1. PICK q, r :
              /\ m.type = m.to /\ m.to \in Peers
              /\ \/ r = "answered" /\ q = m.query
                 \/ r = "misled" /\ m.query \in 1 .. before[m.to]
              /\ q > before[m.to] /\ q \in DOMAIN result[m.to] /\ result[m.to][q] = "open"
              /\ result' = [result EXCEPT ![m.to][q] = r]
        BY <2>4, <3>2, AnswerStep
      <4>2. r = "answered"
        BY <4>1
      <4>3. QED
        BY <2>1, <3>1, <4>1, <4>2 DEF TypeOK
    <3>3. CASE TypeListenerResponds(m) \/ Unhandled(m)
      BY <3>1, <3>3 DEF TypeListenerResponds, Unhandled
    <3>4. QED
      BY <2>4, <3>2, <3>3 DEF HandleReceivedMessage
  <2>5. CASE Tick
    <3>1. before' = before
      BY <2>5 DEF Tick
    <3>2. QED
      BY <2>5, <3>1, TickOutcomes
  <2>6. CASE UNCHANGED vars
    BY <2>6 DEF vars
  <2>7. QED
    BY <2>2, <2>3, <2>4, <2>5, <2>6 DEF Next
<1>3. Inv /\ NeverReset => AnswersMatch
  BY DEF Inv, PeersInv, OnlyResetsMislead, AnswersMatch
<1>4. QED
  BY PeersInvariant, <1>1, <1>2, <1>3, PTL DEF Spec

(* No two queries that wait for their answers share an ID, resets or not, if *)
(* users are timely.                                                         *)
THEOREM IdsDistinct ==
  ASSUME Timely
  PROVE  Spec => []AwaitedIdsDistinct
<1>1. Inv => AwaitedIdsDistinct
  <2> SUFFICES ASSUME Inv, NEW p \in Peers,
                      NEW k \in id_listeners[p], NEW l \in id_listeners[p], k.id = l.id
               PROVE  k = l
    BY DEF AwaitedIdsDistinct
  <2>1. TypeOK /\ ListenerInv(p, k) /\ ListenerInv(p, l)
    BY InvParts
  <2>2. Lifetime + 1 - k.timeout \in 0 .. Lifetime /\ Lifetime + 1 - l.timeout \in 0 .. Lifetime
    BY <2>1, ListenerAge
  <2>3. PICK t \in 0 .. Lifetime, u \in 0 .. Lifetime :
          t = Lifetime + 1 - k.timeout /\ u = Lifetime + 1 - l.timeout
    BY <2>2
  <2>4. k.query = l.query
    BY <2>1, <2>3, WindowsApart DEF ListenerInv
  <2>5. QED
    BY <2>4, InvParts
<1>2. QED
  BY PeersInvariant, <1>1, PTL

\* Every step is one of TFExchange's, or none that it sees.
LEMMA StepImplements ==
  ASSUME Timely, Inv, Inv', [Next]_vars
  PROVE  [Exchange!Next]_(Exchange!vars)
<1>1. TypeOK /\ TypeOK'
  BY DEF Inv
<1>2. ASSUME NEW p \in Peers, Query(p) PROVE Exchange!Ask(p)
  BY <1>2 DEF Query, Exchange!Ask
<1>3. ASSUME NEW p \in Peers, Restart(p) PROVE Exchange!Reset(p)
  <2>1. result[p] \in Seq(Outcome) /\ result \in [Peers -> Seq(Outcome)]
    BY <1>1 DEF TypeOK
  <2>2. [q \in DOMAIN result[p] |-> IF Exchange!Open(p, q) THEN "forgotten" ELSE result[p][q]]
          = [q \in DOMAIN result[p] |-> IF result[p][q] = "open" THEN "forgotten" ELSE result[p][q]]
    BY DEF Exchange!Open
  <2>3. QED
    BY <1>3, <2>1, <2>2 DEF Restart, Exchange!Reset
<1>4. CASE Tick
  <2>1. served' = served /\ before' = before
    BY <1>4 DEF Tick
  <2>2. \A p \in Peers : /\ DOMAIN result'[p] = DOMAIN result[p]
                         /\ \A q \in DOMAIN result[p] :
                              \/ result'[p][q] = result[p][q]
                              \/ result[p][q] = "open" /\ result'[p][q] = "expired"
    BY <1>4, TickOutcomes
  <2>3. result' \in [Peers -> Seq(Exchange!Result)]
    <3> SUFFICES ASSUME NEW p \in Peers PROVE result'[p] \in Seq(Exchange!Result)
      BY <1>1 DEF TypeOK
    <3>1. result'[p] \in Seq(Outcome)
      BY <1>1 DEF TypeOK
    <3>2. \A q \in DOMAIN result'[p] : result'[p][q] # "wrong"
      BY DEF Inv, PeersInv, OnlyResetsMislead
    <3>3. result'[p] \in [DOMAIN result'[p] -> Exchange!Result]
      BY <3>1, <3>2 DEF Outcome, Exchange!Result
    <3>4. QED
      BY <3>1, <3>3
  <2>4. QED
    BY <2>1, <2>2, <2>3 DEF Exchange!Next, Exchange!Expire, Exchange!Open
<1>5. ASSUME NEW m \in line, HandleReceivedMessage(m)
      PROVE  \/ \E p \in Peers : \E q \in DOMAIN result[p] :
                   Exchange!Serve(p, q) \/ Exchange!Answer(p, q) \/ Exchange!Mislead(p, q)
             \/ UNCHANGED Exchange!vars
  <2>1. FrameInv(m) /\ m.type \in Peers /\ before' = before
    BY <1>1, <1>5, InvParts, FrameFields DEF HandleReceivedMessage
  <2>2. m.query \in DOMAIN result[m.type]
    <3>1. result[m.type] \in Seq(Outcome) /\ m.query \in 1 .. Len(result[m.type])
      BY <1>1, <2>1 DEF TypeOK, FrameInv, InWindow
    <3>2. QED
      BY <3>1
  <2>3. CASE IdListenerCalled(m)
    <3>1. PICK q, r :
            /\ m.type = m.to
            /\ \/ r = "answered" /\ q = m.query
               \/ r = "misled" /\ m.query \in 1 .. before[m.to]
            /\ q > before[m.to] /\ q \in DOMAIN result[m.to] /\ result[m.to][q] = "open"
            /\ result' = [result EXCEPT ![m.to][q] = r]
      BY <2>3, AnswerStep
    <3>2. served' = served /\ <<m.to, m.query>> \in served
      BY <2>1, <2>3, <3>1 DEF IdListenerCalled, FrameInv
    <3>3. CASE r = "answered" /\ q = m.query
      BY <2>1, <3>1, <3>2, <3>3 DEF Exchange!Answer, Exchange!Open
    <3>4. CASE r = "misled" /\ m.query \in 1 .. before[m.to]
      BY <2>1, <3>1, <3>2, <3>4 DEF Exchange!Mislead, Exchange!Open
    <3>5. QED
      BY <2>1, <3>1, <3>3, <3>4
  <2>4. CASE TypeListenerResponds(m)
    <3>1. Exchange!Serve(m.type, m.query)
      BY <2>1, <2>2, <2>4 DEF TypeListenerResponds, Exchange!Serve, FrameInv
    <3>2. QED
      BY <2>1, <2>2, <3>1
  <2>5. CASE Unhandled(m)
    BY <2>1, <2>5 DEF Unhandled, Exchange!vars
  <2>6. QED
    BY <1>5, <2>3, <2>4, <2>5 DEF HandleReceivedMessage
<1>6. CASE UNCHANGED vars
  BY <1>6 DEF vars, Exchange!vars
<1>7. QED
  BY <1>2, <1>3, <1>4, <1>5, <1>6 DEF Next, Exchange!Next

(* Two instances over a line do what TFExchange promises of them: a query is *)
(* served at most once, answered at most once and only after it was served,  *)
(* and given another's answer only after a reset; for timely users.          *)
THEOREM Implements ==
  ASSUME Timely
  PROVE  Spec => Exchange!Safety
<1>1. Init => Exchange!Init
  BY DEF Init, Exchange!Init
<1>2. Inv /\ Inv' /\ [Next]_vars => [Exchange!Next]_(Exchange!vars)
  BY StepImplements
<1>3. QED
  BY PeersInvariant, <1>1, <1>2, PTL DEF Spec, Exchange!Safety
=============================================================================
