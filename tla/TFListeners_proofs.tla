-------------------------- MODULE TFListeners_proofs -------------------------
(****************************************************************************)
(* Proofs about the listener tables, for every table size, every set of     *)
(* registrations and messages, and every nesting of callbacks.              *)
(****************************************************************************)
EXTENDS TFListeners, SequenceTheorems, TLAPS

(* The activations of the library: what `stack` holds.                      *)
Dispatch ==
  [op : {"dispatch"}, table : Tables, i : Nat, callback : {"none", "listener"},
   reg : Nat, userdata : 0 .. MaxRegs, msg : [id : Nat, type : Nat], before : Nat,
   offered : SUBSET Nat]
TickActivation ==
  [op : {"tick"}, table : {"id"}, i : Nat, callback : {"none", "timeout", "cleanup"},
   reg : Nat, userdata : 0 .. MaxRegs]
Removal ==
  [op : {"remove"}, table : Tables, i : Nat, callback : {"cleanup"},
   reg : Nat, userdata : 0 .. MaxRegs]
Activation == Dispatch \cup TickActivation \cup Removal

\* An activation in a callback has called a listener of its table.
InTable(f) == f.callback # "none" => f.i \in Slots(f.table)

(* Why NoneSkipped holds: the slots a dispatch has been through, the one it  *)
(* is in a callback of included, hold listeners it has called, or new ones.  *)
BeenThrough(f, tbl, i) ==
  \/ tbl = f.table /\ i < f.i
  \/ tbl = f.table /\ i = f.i /\ f.callback # "none"
  \/ tbl = "id" /\ f.table # "id"
  \/ tbl = "type" /\ f.table = "generic"

Offered(f) ==
  f.op = "dispatch" =>
    /\ f.before <= Len(log)
    /\ \A tbl \in Tables : \A i \in Slots(tbl) :
         LET lst == listeners[tbl][i]
         IN  /\ lst # Free /\ lst.reg <= f.before
             /\ Matches(tbl, lst, f.msg) /\ BeenThrough(f, tbl, i)
             => lst.reg \in f.offered

TablesOK ==
  /\ DOMAIN listeners = Tables
  /\ \A tbl \in Tables : listeners[tbl] \in [Slots(tbl) -> Listener \cup {Free}]
CountsOK ==
  /\ count \in [Tables -> Nat]
  /\ \A tbl \in Tables : count[tbl] <= Size[tbl]
LogOK == log \in Seq(Entry) /\ Len(log) <= MaxRegs
StackOK ==
  /\ stack \in Seq(Activation) /\ Len(stack) <= MaxDepth
  /\ \A k \in 1 .. Len(stack) : InTable(stack[k]) /\ Offered(stack[k])

IInv == TablesOK /\ CountsOK /\ LogOK /\ StackOK /\ CountsCoverListeners

-----------------------------------------------------------------------------
(* The tables.                                                               *)

\* The listeners after a step: each was there before, or is a new registration.
SameOrNew ==
  \A tbl \in Tables : \A i \in Slots(tbl) :
    listeners'[tbl][i] # Free =>
      \/ /\ listeners[tbl][i] # Free
         /\ listeners'[tbl][i].reg = listeners[tbl][i].reg
         /\ listeners'[tbl][i].key = listeners[tbl][i].key
      \/ listeners'[tbl][i].reg > Len(log)

LEMMA SizeType ==
  ASSUME NEW tbl \in Tables
  PROVE  Size[tbl] \in Nat
BY ListenerAssumption

LEMMA FreeIsNoListener == Free \notin Listener
<1>1. Listener \subseteq [reg : Nat, key : Nat, timeout : Nat, timeout_max : Nat,
                          fn_timeout : BOOLEAN, userdata : Nat]
  BY ListenerAssumption DEF Listener
<1> QED
  BY <1>1, ListenerAssumption

LEMMA SetSlot ==
  ASSUME TablesOK, NEW tbl \in Tables, NEW i \in Nat, NEW x \in Listener \cup {Free},
         listeners' = [listeners EXCEPT ![tbl][i] = x]
  PROVE  /\ TablesOK'
         /\ \A t \in Tables : \A j \in Slots(t) :
              listeners'[t][j] = IF t = tbl /\ j = i THEN x ELSE listeners[t][j]
<1>1. DOMAIN listeners' = Tables
  BY DEF TablesOK
<1>2. \A t \in Tables : listeners'[t] = IF t = tbl THEN [listeners[t] EXCEPT ![i] = x]
                                                    ELSE listeners[t]
  BY DEF TablesOK
<1>3. ASSUME NEW t \in Tables
      PROVE  /\ listeners'[t] \in [Slots(t) -> Listener \cup {Free}]
             /\ \A j \in Slots(t) :
                  listeners'[t][j] = IF t = tbl /\ j = i THEN x ELSE listeners[t][j]
  BY <1>2 DEF TablesOK
<1> QED
  BY <1>1, <1>3 DEF TablesOK

LEMMA DiscardKeeps ==
  ASSUME TablesOK, CountsOK, CountsCoverListeners, NEW tbl \in Tables, NEW i \in Nat,
         Discard(tbl, i)
  PROVE  TablesOK' /\ CountsOK' /\ CountsCoverListeners' /\ SameOrNew
<1>1. /\ listeners' = [listeners EXCEPT ![tbl][i] = Free]
      /\ count' = [count EXCEPT ![tbl] = IF i = @ - 1 THEN @ - 1 ELSE @]
  BY DEF Discard
<1>2. /\ TablesOK'
      /\ \A t \in Tables : \A j \in Slots(t) :
           listeners'[t][j] = IF t = tbl /\ j = i THEN Free ELSE listeners[t][j]
  <2>1. Free \in Listener \cup {Free}
    OBVIOUS
  <2> QED
    BY <1>1, <2>1, SetSlot
<1>3. \A t \in Tables :
        count'[t] = IF t = tbl /\ i = count[t] - 1 THEN count[t] - 1 ELSE count[t]
  BY <1>1 DEF CountsOK
<1>4. CountsOK'
  BY <1>1, <1>3, SizeType DEF CountsOK
<1>5. CountsCoverListeners'
  <2> SUFFICES ASSUME NEW t \in Tables, NEW j \in Slots(t), listeners'[t][j] # Free
               PROVE  j < count'[t]
    BY DEF CountsCoverListeners
  <2>1. listeners[t][j] # Free /\ ~(t = tbl /\ j = i)
    BY <1>2
  <2>2. j < count[t] /\ j \in Int /\ count[t] \in Nat
    BY <2>1, SizeType DEF CountsCoverListeners, CountsOK, Slots
  <2> QED
    BY <1>3, <2>1, <2>2
<1>6. SameOrNew
  BY <1>2 DEF SameOrNew
<1> QED
  BY <1>2, <1>4, <1>5, <1>6

(* A listener in its slot is given other timeouts or userdata.               *)
LEMMA RetouchKeeps ==
  ASSUME TablesOK, CountsOK, CountsCoverListeners, NEW tbl \in Tables,
         NEW i \in Slots(tbl), NEW x \in Listener, listeners[tbl][i] # Free,
         x.reg = listeners[tbl][i].reg, x.key = listeners[tbl][i].key,
         listeners' = [listeners EXCEPT ![tbl][i] = x], count' = count
  PROVE  TablesOK' /\ CountsOK' /\ CountsCoverListeners' /\ SameOrNew
<1>1. i \in Nat
  BY SizeType DEF Slots
<1>2. /\ TablesOK'
      /\ \A t \in Tables : \A j \in Slots(t) :
           listeners'[t][j] = IF t = tbl /\ j = i THEN x ELSE listeners[t][j]
  <2>1. x \in Listener \cup {Free}
    OBVIOUS
  <2> QED
    BY <1>1, <2>1, SetSlot
<1>3. CountsOK'
  BY DEF CountsOK
<1>4. CountsCoverListeners'
  BY <1>2 DEF CountsCoverListeners
<1>5. SameOrNew
  BY <1>2 DEF SameOrNew
<1> QED
  BY <1>2, <1>3, <1>4, <1>5

LEMMA UnchangedKeeps ==
  ASSUME TablesOK, CountsOK, CountsCoverListeners, UNCHANGED <<listeners, count>>
  PROVE  TablesOK' /\ CountsOK' /\ CountsCoverListeners' /\ SameOrNew
BY DEF TablesOK, CountsOK, CountsCoverListeners, SameOrNew

(* What an activation has offered is not undone by such a step.              *)
LEMMA OfferedKept ==
  ASSUME SameOrNew, TablesOK', LogOK, LogOK', Len(log') >= Len(log), NEW f \in Activation, Offered(f)
  PROVE  Offered(f)'
<1> SUFFICES ASSUME f.op = "dispatch" PROVE Offered(f)'
  BY DEF Offered
<1>1. f \in Dispatch
  BY DEF Activation, TickActivation, Removal
<1>2. f.before \in Nat /\ Len(log) \in Nat /\ Len(log') \in Nat
  BY <1>1, LenProperties DEF Dispatch, LogOK
<1>3. f.before <= Len(log)
  BY DEF Offered
<1>4. f.before <= Len(log')
  BY <1>2, <1>3
<1>5. ASSUME NEW tbl \in Tables, NEW i \in Slots(tbl), listeners'[tbl][i] # Free,
             listeners'[tbl][i].reg <= f.before, Matches(tbl, listeners'[tbl][i], f.msg),
             BeenThrough(f, tbl, i)
      PROVE  listeners'[tbl][i].reg \in f.offered
  <2>1. ~(listeners'[tbl][i].reg > Len(log))
    <3>1. listeners'[tbl][i] \in Listener
      BY <1>5 DEF TablesOK
    <3>2. listeners'[tbl][i].reg \in Nat
      BY <3>1, ListenerAssumption DEF Listener
    <3> QED
      BY <1>2, <1>3, <1>5, <3>2
  <2>2. /\ listeners[tbl][i] # Free
        /\ listeners'[tbl][i].reg = listeners[tbl][i].reg
        /\ listeners'[tbl][i].key = listeners[tbl][i].key
    BY <2>1, <1>5 DEF SameOrNew
  <2>3. Matches(tbl, listeners[tbl][i], f.msg)
    BY <1>5, <2>2 DEF Matches
  <2> QED
    BY <1>5, <2>2, <2>3 DEF Offered
<1> QED
  BY <1>4, <1>5 DEF Offered, BeenThrough, Matches

-----------------------------------------------------------------------------
(* The log.                                                                  *)

LEMMA LogChanged ==
  ASSUME NEW h \in Seq(Entry), NEW g, g = [t \in DOMAIN h |-> g[t]],
         \A t \in DOMAIN h : g[t] \in Entry
  PROVE  g \in Seq(Entry) /\ Len(g) = Len(h)
<1>1. DOMAIN h = 1 .. Len(h) /\ Len(h) \in Nat
  BY LenProperties
<1>2. g \in [1 .. Len(h) -> Entry]
  BY <1>1
<1>3. g \in Seq(Entry)
  BY <1>1, <1>2, SeqDef
<1>4. DOMAIN g = 1 .. Len(g) /\ Len(g) \in Nat
  BY <1>3, LenProperties
<1>5. DOMAIN g = 1 .. Len(h)
  BY <1>2
<1> QED
  BY <1>1, <1>3, <1>4, <1>5

LEMMA EndedType ==
  ASSUME NEW h \in Seq(Entry), NEW reg, NEW fate \in {"closed", "removed", "expired"}
  PROVE  Ended(h, reg, fate) \in Seq(Entry) /\ Len(Ended(h, reg, fate)) = Len(h)
<1> DEFINE g == Ended(h, reg, fate)
<1>1. h \in [1 .. Len(h) -> Entry]
  BY LenProperties, ElementOfSeq
<1>2. g = [t \in DOMAIN h |-> g[t]]
  BY <1>1 DEF Ended
<1>3. \A t \in DOMAIN h : g[t] \in Entry
  BY <1>1 DEF Ended, Entry
<1> QED
  BY <1>2, <1>3, LogChanged

LEMMA ReleasedType ==
  ASSUME NEW h \in Seq(Entry), NEW d
  PROVE  Released(h, d) \in Seq(Entry) /\ Len(Released(h, d)) = Len(h)
<1> DEFINE g == Released(h, d)
<1>1. h \in [1 .. Len(h) -> Entry]
  BY LenProperties, ElementOfSeq
<1>2. g = [t \in DOMAIN h |-> g[t]]
  BY <1>1 DEF Released
<1>3. \A t \in DOMAIN h : g[t] \in Entry
  BY <1>1 DEF Released, Entry
<1> QED
  BY <1>2, <1>3, LogChanged

LEMMA RenewedType ==
  ASSUME NEW h \in Seq(Entry), NEW reg
  PROVE  Renewed(h, reg) \in Seq(Entry) /\ Len(Renewed(h, reg)) = Len(h)
<1> DEFINE g == Renewed(h, reg)
<1>1. h \in [1 .. Len(h) -> Entry]
  BY LenProperties, ElementOfSeq
<1>2. g = [t \in DOMAIN h |-> g[t]]
  BY <1>1 DEF Renewed
<1>3. InTick \in BOOLEAN
  BY DEF InTick
<1>4. \A t \in DOMAIN h : g[t] \in Entry
  BY <1>1, <1>3 DEF Renewed, Entry
<1> QED
  BY <1>2, <1>4, LogChanged

-----------------------------------------------------------------------------
(* The stack.                                                                *)

\* The other activations are as they were; Offered is re-established for them.
Settled == TablesOK' /\ CountsOK' /\ CountsCoverListeners' /\ SameOrNew /\ LogOK'
             /\ Len(log') >= Len(log)

LEMMA StackSet ==
  ASSUME IInv, Settled, NEW s \in Seq(Activation), stack' = s, Len(s) <= MaxDepth,
         \A k \in 1 .. Len(s) :
           \/ k \in 1 .. Len(stack) /\ s[k] = stack[k]
           \/ InTable(s[k]) /\ Offered(s[k])'
  PROVE  IInv'
<1>1. ASSUME NEW k \in 1 .. Len(s)
      PROVE  InTable(s[k]) /\ Offered(s[k])'
  <2>1. CASE k \in 1 .. Len(stack) /\ s[k] = stack[k]
    <3> DEFINE f == stack[k]
    <3>1. f \in Activation /\ InTable(f) /\ Offered(f)
      BY <2>1, ElementOfSeq DEF IInv, StackOK
    <3>2. Offered(f)'
      BY <2>1, ElementOfSeq, OfferedKept DEF IInv, StackOK, Settled
    <3> QED
      BY <2>1, <3>1, <3>2
  <2> QED
    BY <1>1, <2>1
<1>2. StackOK'
  BY <1>1 DEF StackOK
<1> QED
  BY <1>2 DEF IInv, Settled

(* The running activation, and those below it.                               *)
LEMMA TopType ==
  ASSUME StackOK, stack # << >>
  PROVE  /\ Top \in Activation /\ InTable(Top) /\ Offered(Top)
         /\ Below \in Seq(Activation) /\ Len(Below) = Len(stack) - 1
         /\ \A k \in 1 .. Len(Below) : k \in 1 .. Len(stack) /\ Below[k] = stack[k]
<1>1. stack \in Seq(Activation) /\ Len(stack) \in Nat \ {0}
  BY EmptySeq, LenProperties DEF StackOK
<1> DEFINE n == Len(stack)
<1>2. n \in 1 .. n /\ stack[n] \in Activation
  BY <1>1, ElementOfSeq
<1>3. Top \in Activation /\ InTable(Top) /\ Offered(Top)
  BY <1>2 DEF StackOK, Top
<1>4. \A k \in 1 .. n - 1 : stack[k] \in Activation
  BY <1>1, ElementOfSeq
<1>5. /\ Below \in Seq(Activation) /\ Len(Below) = n - 1
      /\ \A k \in 1 .. n - 1 : Below[k] = stack[k]
  <2>1. 1 \in Int /\ n - 1 \in Int
    BY <1>1
  <2> HIDE DEF n
  <2>2. /\ SubSeq(stack, 1, n - 1) \in Seq(Activation)
        /\ Len(SubSeq(stack, 1, n - 1)) = IF 1 <= n - 1 THEN n - 1 - 1 + 1 ELSE 0
        /\ \A k \in 1 .. n - 1 - 1 + 1 : SubSeq(stack, 1, n - 1)[k] = stack[1 + k - 1]
    BY <1>4, <2>1, SubSeqProperties
  <2> DEFINE b == SubSeq(stack, 1, n - 1)
  <2>3. Below = b
    BY DEF Below, n
  <2>4. n \in Nat \ {0}
    BY <1>1 DEF n
  <2>5. Len(b) = n - 1
    BY <2>2, <2>4
  <2>6. \A k \in 1 .. n - 1 : b[k] = stack[k]
    <3> TAKE k \in 1 .. n - 1
    <3>1. k \in 1 .. n - 1 - 1 + 1 /\ 1 + k - 1 = k
      BY <2>4
    <3> QED
      BY <2>2, <3>1
  <2> HIDE DEF b
  <2> QED
    BY <2>2, <2>3, <2>5, <2>6 DEF b
<1> QED
  BY <1>1, <1>3, <1>5

LEMMA PushStep ==
  ASSUME IInv, Settled, NEW f \in Activation, InTable(f), Offered(f)',
         Len(stack) < MaxDepth, stack' = Append(stack, f)
  PROVE  IInv'
<1>1. stack \in Seq(Activation) /\ Len(stack) \in Nat
  BY LenProperties DEF IInv, StackOK
<1> DEFINE s == Append(stack, f)
<1>2. /\ s \in Seq(Activation) /\ Len(s) = Len(stack) + 1
      /\ \A k \in 1 .. Len(stack) : s[k] = stack[k]
      /\ s[Len(stack) + 1] = f
  BY <1>1, AppendProperties
<1>3. PICK t \in Seq(Activation) : t = s
  BY <1>2
<1> HIDE DEF s
<1>4. stack' = t
  BY <1>3 DEF s
<1>5. Len(t) <= MaxDepth
  BY <1>1, <1>2, <1>3, ListenerAssumption
<1>6. ASSUME NEW k \in 1 .. Len(t)
      PROVE  \/ k \in 1 .. Len(stack) /\ t[k] = stack[k]
             \/ InTable(t[k]) /\ Offered(t[k])'
  <2>1. CASE k \in 1 .. Len(stack)
    BY <1>2, <1>3, <2>1
  <2>2. CASE k \notin 1 .. Len(stack)
    <3>1. k = Len(stack) + 1
      BY <1>1, <1>2, <1>3, <2>2
    <3>2. t[k] = f
      BY <1>2, <1>3, <3>1
    <3> QED
      BY <3>2
  <2> QED
    BY <2>1, <2>2
<1> QED
  BY <1>4, <1>5, <1>6, StackSet

LEMMA BecomeStep ==
  ASSUME IInv, Settled, stack # << >>, NEW f \in Activation, InTable(f), Offered(f)',
         Become(f)
  PROVE  IInv'
<1>1. /\ Below \in Seq(Activation) /\ Len(Below) = Len(stack) - 1
      /\ \A k \in 1 .. Len(Below) : k \in 1 .. Len(stack) /\ Below[k] = stack[k]
      /\ Len(stack) \in Nat /\ Len(stack) <= MaxDepth
  BY TopType, LenProperties DEF IInv, StackOK
<1> DEFINE s == Append(Below, f)
<1>2. /\ s \in Seq(Activation) /\ Len(s) = Len(Below) + 1
      /\ \A k \in 1 .. Len(Below) : s[k] = Below[k]
      /\ s[Len(Below) + 1] = f
  BY <1>1, AppendProperties
<1>3. PICK t \in Seq(Activation) : t = s
  BY <1>2
<1>4. stack' = t
  BY <1>3 DEF Become
<1> HIDE DEF s
<1>5. Len(t) <= MaxDepth
  BY <1>1, <1>2, <1>3
<1>6. ASSUME NEW k \in 1 .. Len(t)
      PROVE  \/ k \in 1 .. Len(stack) /\ t[k] = stack[k]
             \/ InTable(t[k]) /\ Offered(t[k])'
  <2>1. CASE k \in 1 .. Len(Below)
    BY <1>1, <1>2, <1>3, <2>1
  <2>2. CASE k \notin 1 .. Len(Below)
    <3>1. k = Len(Below) + 1
      BY <1>1, <1>2, <1>3, <2>2
    <3>2. t[k] = f
      BY <1>2, <1>3, <3>1
    <3> QED
      BY <3>2
  <2> QED
    BY <2>1, <2>2
<1> QED
  BY <1>4, <1>5, <1>6, StackSet

LEMMA ReturnStep ==
  ASSUME IInv, Settled, stack # << >>, Return
  PROVE  IInv'
<1>1. /\ Below \in Seq(Activation) /\ Len(Below) = Len(stack) - 1
      /\ \A k \in 1 .. Len(Below) : k \in 1 .. Len(stack) /\ Below[k] = stack[k]
      /\ Len(stack) \in Nat /\ Len(stack) <= MaxDepth
  BY TopType, LenProperties DEF IInv, StackOK
<1>2. PICK t \in Seq(Activation) : t = Below
  BY <1>1
<1>3. stack' = t
  BY <1>2 DEF Return
<1>4. Len(t) <= MaxDepth
  BY <1>1, <1>2, ListenerAssumption
<1> QED
  BY <1>1, <1>2, <1>3, <1>4, StackSet

LEMMA SameStep ==
  ASSUME IInv, Settled, UNCHANGED stack
  PROVE  IInv'
<1>1. PICK t \in Seq(Activation) : t = stack
  BY DEF IInv, StackOK
<1>2. Len(t) <= MaxDepth
  BY <1>1 DEF IInv, StackOK
<1> QED
  BY <1>1, <1>2, StackSet

-----------------------------------------------------------------------------
(* The steps.                                                                *)

\* A step that leaves the log as it is, or the tables.
LEMMA LogSame ==
  ASSUME IInv, UNCHANGED log
  PROVE  LogOK' /\ Len(log') >= Len(log)
BY LenProperties DEF IInv, LogOK

LEMMA LogSet ==
  ASSUME IInv, NEW h \in Seq(Entry), Len(h) = Len(log), log' = h
  PROVE  LogOK' /\ Len(log') >= Len(log)
BY LenProperties DEF IInv, LogOK

LEMMA AddListenerStep ==
  ASSUME IInv, NEW r \in Requests, AddListener(r)
  PROVE  IInv'
<1> DEFINE tbl == r.table
           n == Len(log) + 1
           x == [reg |-> n, key |-> r.key, timeout |-> r.timeout,
                 timeout_max |-> r.timeout, fn_timeout |-> r.fn_timeout,
                 userdata |-> IF r.userdata THEN n ELSE 0]
           e == [request |-> r, fate |-> "live", age |-> 0, early |-> InTick,
                 released |-> 0]
<1>1. r \in Request /\ tbl \in Tables
  BY ListenerAssumption DEF Request
<1>2. /\ Len(log) < MaxRegs /\ log' = Append(log, e) /\ UNCHANGED stack
      /\ \E i \in Slots(tbl) :
           /\ listeners' = [listeners EXCEPT ![tbl][i] = x]
           /\ count' = [count EXCEPT ![tbl] = IF i >= @ THEN i + 1 ELSE @]
  BY DEF AddListener
<1>3. log \in Seq(Entry) /\ Len(log) \in Nat /\ MaxRegs \in Nat
  BY LenProperties, ListenerAssumption DEF IInv, LogOK
<1>4. n \in 1 .. MaxRegs
  BY <1>2, <1>3
<1>5. x \in Listener
  <2>1. (IF r.userdata THEN n ELSE 0) \in 0 .. MaxRegs
    BY <1>3, <1>4
  <2> HIDE DEF n
  <2> QED
    BY <1>1, <1>4, <2>1 DEF Listener, Request
<1>6. e \in Entry
  BY <1>1 DEF Entry, InTick
<1> DEFINE reg == x.reg
<1>7. x.reg = n
  OBVIOUS
<1>8. PICK i \in Slots(tbl) :
        /\ listeners' = [listeners EXCEPT ![tbl][i] = x]
        /\ count' = [count EXCEPT ![tbl] = IF i >= @ THEN i + 1 ELSE @]
  BY <1>2
<1> HIDE DEF x, e, tbl
<1>9. i \in Nat /\ i < Size[tbl]
  BY <1>1, SizeType DEF Slots
<1>10. /\ TablesOK'
       /\ \A t \in Tables : \A j \in Slots(t) :
            listeners'[t][j] = IF t = tbl /\ j = i THEN x ELSE listeners[t][j]
  <2>1. x \in Listener \cup {Free}
    BY <1>5
  <2> QED
    BY <1>1, <1>8, <1>9, <2>1, SetSlot DEF IInv
<1>11. \A t \in Tables :
         count'[t] = IF t = tbl /\ i >= count[t] THEN i + 1 ELSE count[t]
  BY <1>8 DEF IInv, CountsOK
<1>12. CountsOK'
  <2>1. \A t \in Tables : count'[t] \in Nat /\ count'[t] <= Size[t]
    BY <1>9, <1>11, SizeType DEF IInv, CountsOK
  <2>2. count' = [t \in Tables |-> count'[t]]
    BY <1>8 DEF IInv, CountsOK
  <2> QED
    BY <2>1, <2>2 DEF CountsOK
<1>13. CountsCoverListeners'
  <2> SUFFICES ASSUME NEW t \in Tables, NEW j \in Slots(t), listeners'[t][j] # Free
               PROVE  j < count'[t]
    BY DEF CountsCoverListeners
  <2>1. j \in Int /\ count[t] \in Nat
    BY SizeType DEF Slots, IInv, CountsOK
  <2>2. CASE t = tbl /\ j = i
    BY <1>9, <1>11, <2>1, <2>2
  <2>3. CASE ~(t = tbl /\ j = i)
    <3>1. j < count[t]
      BY <1>10, <2>3 DEF IInv, CountsCoverListeners
    <3> QED
      BY <1>9, <1>11, <2>1, <3>1
  <2> QED
    BY <2>2, <2>3
<1>14. SameOrNew
  <2>1. n > Len(log)
    BY <1>3
  <2> QED
    BY <1>7, <1>10, <2>1 DEF SameOrNew
<1>15. LogOK' /\ Len(log') >= Len(log)
  <2>1. log' \in Seq(Entry) /\ Len(log') = n
    BY <1>2, <1>3, <1>6, AppendProperties
  <2> QED
    BY <1>3, <1>4, <2>1 DEF LogOK
<1> QED
  BY <1>2, <1>10, <1>12, <1>13, <1>14, <1>15, SameStep DEF Settled

LEMMA ListeningType ==
  ASSUME IInv, NEW tbl \in Tables, NEW i \in Listening(tbl)
  PROVE  /\ i \in Slots(tbl) /\ i \in Nat /\ i < count[tbl]
         /\ listeners[tbl][i] # Free /\ listeners[tbl][i] \in Listener
         /\ listeners[tbl][i].reg \in Nat /\ listeners[tbl][i].userdata \in 0 .. MaxRegs
<1>1. i \in Slots(tbl) /\ i < count[tbl] /\ listeners[tbl][i] # Free
  BY DEF Listening
<1>2. listeners[tbl][i] \in Listener
  BY <1>1 DEF IInv, TablesOK
<1>3. i \in Nat
  BY <1>1, SizeType DEF Slots
<1> QED
  BY <1>1, <1>2, <1>3 DEF Listener

LEMMA RemoveListenerStep ==
  ASSUME IInv, NEW tbl \in Tables, NEW key, RemoveListener(tbl, key)
  PROVE  IInv'
<1>1. PICK i \in Listening(tbl) :
        /\ log' = Ended(log, listeners[tbl][i].reg, "removed")
        /\ \/ Discard(tbl, i) /\ UNCHANGED stack
           \/ /\ Len(stack) < MaxDepth
              /\ stack' = Append(stack, [op |-> "remove", table |-> tbl, i |-> i,
                                         callback |-> "cleanup",
                                         reg |-> listeners[tbl][i].reg,
                                         userdata |-> listeners[tbl][i].userdata])
              /\ UNCHANGED <<listeners, count>>
  BY DEF RemoveListener
<1>2. /\ i \in Slots(tbl) /\ i \in Nat
      /\ listeners[tbl][i].reg \in Nat /\ listeners[tbl][i].userdata \in 0 .. MaxRegs
  BY ListeningType
<1>3. LogOK' /\ Len(log') >= Len(log)
  <2>1. log \in Seq(Entry)
    BY DEF IInv, LogOK
  <2>2. log' \in Seq(Entry) /\ Len(log') = Len(log)
    BY <1>1, <2>1, EndedType
  <2> QED
    BY <2>2, LogSet
<1>4. CASE Discard(tbl, i) /\ UNCHANGED stack
  BY <1>2, <1>3, <1>4, DiscardKeeps, SameStep DEF IInv, Settled
<1>5. CASE /\ Len(stack) < MaxDepth
           /\ stack' = Append(stack, [op |-> "remove", table |-> tbl, i |-> i,
                                      callback |-> "cleanup",
                                      reg |-> listeners[tbl][i].reg,
                                      userdata |-> listeners[tbl][i].userdata])
           /\ UNCHANGED <<listeners, count>>
  <2>1. PICK f : f = [op |-> "remove", table |-> tbl, i |-> i, callback |-> "cleanup",
                      reg |-> listeners[tbl][i].reg,
                      userdata |-> listeners[tbl][i].userdata]
    OBVIOUS
  <2>2. f \in Activation /\ f.op = "remove" /\ f.table = tbl /\ f.i = i
    BY <1>2, <2>1 DEF Activation, Removal
  <2>3. InTable(f) /\ Offered(f)'
    BY <1>2, <2>2 DEF InTable, Offered
  <2>4. Settled
    BY <1>3, <1>5, UnchangedKeeps DEF IInv, Settled
  <2> QED
    BY <1>5, <2>1, <2>2, <2>3, <2>4, PushStep
<1> QED
  BY <1>1, <1>4, <1>5

LEMMA RenewIdListenerStep ==
  ASSUME IInv, NEW key, RenewIdListener(key)
  PROVE  IInv'
<1>1. PICK i \in Listening("id") :
        /\ listeners' = [listeners EXCEPT !["id"][i].timeout = listeners["id"][i].timeout_max]
        /\ log' = Renewed(log, listeners["id"][i].reg)
        /\ UNCHANGED <<count, stack>>
  BY DEF RenewIdListener
<1> DEFINE lst == listeners["id"][i]
           x == [lst EXCEPT !.timeout = lst.timeout_max]
<1>2. "id" \in Tables
  BY DEF Tables
<1>3. i \in Slots("id") /\ lst # Free /\ lst \in Listener
  BY <1>2, ListeningType
<1>4. x \in Listener /\ x.reg = lst.reg /\ x.key = lst.key
  <2> HIDE DEF lst
  <2> QED
    BY <1>3 DEF Listener
<1>5. listeners' = [listeners EXCEPT !["id"][i] = x]
  BY <1>1
<1> HIDE DEF x
<1>6. TablesOK' /\ CountsOK' /\ CountsCoverListeners' /\ SameOrNew
  BY <1>1, <1>2, <1>3, <1>4, <1>5, RetouchKeeps DEF IInv
<1>7. LogOK' /\ Len(log') >= Len(log)
  <2>1. log \in Seq(Entry)
    BY DEF IInv, LogOK
  <2>2. log' \in Seq(Entry) /\ Len(log') = Len(log)
    BY <1>1, <2>1, RenewedType
  <2> QED
    BY <2>2, LogSet
<1> QED
  BY <1>1, <1>6, <1>7, SameStep DEF Settled

LEMMA HandleReceivedMessageStep ==
  ASSUME IInv, NEW m \in Messages, HandleReceivedMessage(m)
  PROVE  IInv'
<1>1. PICK f : f = [op |-> "dispatch", table |-> "id", i |-> 0, callback |-> "none",
                    reg |-> 0, userdata |-> 0, msg |-> m, before |-> Len(log),
                    offered |-> {}]
  OBVIOUS
<1>2. /\ stack = << >> /\ stack' = <<f>> /\ UNCHANGED <<listeners, count, log>>
  BY <1>1 DEF HandleReceivedMessage
<1>3. f \in Activation
  <2>1. m \in [id : Nat, type : Nat] /\ MaxRegs \in Nat /\ Len(log) \in Nat
    BY ListenerAssumption, LenProperties DEF IInv, LogOK
  <2> QED
    BY <1>1, <2>1 DEF Activation, Dispatch, Tables
<1>4. InTable(f)
  BY <1>1 DEF InTable
<1>5. Offered(f)'
  <2>1. ASSUME NEW tbl \in Tables, NEW i \in Slots(tbl)
        PROVE  ~BeenThrough(f, tbl, i)
    BY <1>1, SizeType DEF BeenThrough, Slots
  <2>2. Len(log') = Len(log) /\ f.before = Len(log) /\ Len(log) \in Nat
    BY <1>1, <1>2, LenProperties DEF IInv, LogOK
  <2> QED
    BY <2>1, <2>2 DEF Offered, BeenThrough
<1>6. Settled
  BY <1>2, LogSame, UnchangedKeeps DEF IInv, Settled
<1>7. stack' = Append(stack, f) /\ Len(stack) = 0
  BY <1>2
<1>8. Len(stack) < MaxDepth
  BY <1>7, ListenerAssumption
<1> QED
  BY <1>3, <1>4, <1>5, <1>6, <1>7, <1>8, PushStep

(* The loop of the dispatch.                                                 *)
LEMMA DispatchingType ==
  ASSUME IInv, Dispatching
  PROVE  /\ stack # << >> /\ Top \in Dispatch /\ Top \in Activation
         /\ Top.op = "dispatch" /\ Top.callback = "none"
         /\ Top.i \in Nat /\ Top.table \in Tables /\ Offered(Top)
<1>1. stack # << >> /\ Top.op = "dispatch" /\ Top.callback = "none"
  BY DEF Dispatching
<1>2. Top \in Activation /\ Offered(Top)
  BY <1>1, TopType DEF IInv
<1>3. Top \in Dispatch
  BY <1>1, <1>2 DEF Activation, TickActivation, Removal
<1> QED
  BY <1>1, <1>2, <1>3 DEF Dispatch

LEMMA NextRoundType ==
  ASSUME Top \in Dispatch
  PROVE  /\ NextRound \in Dispatch /\ NextRound.op = "dispatch"
         /\ NextRound.callback = "none" /\ NextRound.i = Top.i + 1
         /\ NextRound.table = Top.table /\ NextRound.msg = Top.msg
         /\ NextRound.before = Top.before /\ NextRound.offered = Top.offered
<1> DEFINE n == Top.i + 1
<1>1. n \in Nat /\ 0 \in 0 .. MaxRegs
  BY ListenerAssumption DEF Dispatch
<1>2. NextRound = [Top EXCEPT !.callback = "none", !.i = n, !.reg = 0, !.userdata = 0]
  BY DEF NextRound
<1> HIDE DEF n
<1>3. /\ NextRound \in Dispatch /\ NextRound.op = "dispatch"
      /\ NextRound.callback = "none" /\ NextRound.i = n
      /\ NextRound.table = Top.table /\ NextRound.msg = Top.msg
      /\ NextRound.before = Top.before /\ NextRound.offered = Top.offered
  BY <1>1, <1>2 DEF Dispatch
<1> QED
  BY <1>3 DEF n

LEMMA CallListenerStep ==
  ASSUME IInv, CallListener
  PROVE  IInv'
<1>1. Dispatching /\ Top.i \in Listening(Top.table) /\ UNCHANGED <<listeners, count, log>>
  BY DEF CallListener
<1>2. /\ stack # << >> /\ Top \in Dispatch /\ Top.op = "dispatch"
      /\ Top.i \in Nat /\ Top.table \in Tables /\ Offered(Top)
  BY <1>1, DispatchingType
<1> DEFINE lst == listeners[Top.table][Top.i]
<1>3. /\ Top.i \in Slots(Top.table) /\ lst.reg \in Nat /\ lst.userdata \in 0 .. MaxRegs
  BY <1>1, <1>2, ListeningType
<1>4. PICK f : f = [Top EXCEPT !.callback = "listener", !.reg = lst.reg,
                               !.userdata = lst.userdata, !.offered = @ \cup {lst.reg}]
  OBVIOUS
<1>5. Become(f)
  BY <1>4 DEF CallListener
<1> HIDE DEF lst
<1>6. /\ f \in Dispatch /\ f.op = "dispatch" /\ f.callback = "listener"
      /\ f.i = Top.i /\ f.table = Top.table /\ f.msg = Top.msg /\ f.before = Top.before
      /\ f.offered = Top.offered \cup {lst.reg}
  BY <1>2, <1>3, <1>4 DEF Dispatch
<1>7. InTable(f)
  BY <1>3, <1>6 DEF InTable
<1>8. Offered(f)'
  <2>1. ASSUME NEW tbl \in Tables, NEW i \in Slots(tbl), listeners[tbl][i] # Free,
               listeners[tbl][i].reg <= f.before, Matches(tbl, listeners[tbl][i], f.msg),
               BeenThrough(f, tbl, i)
        PROVE  listeners[tbl][i].reg \in f.offered
    <3>1. CASE tbl = f.table /\ i = f.i
      BY <1>6, <3>1 DEF lst
    <3>2. CASE ~(tbl = f.table /\ i = f.i)
      <4>1. BeenThrough(Top, tbl, i)
        BY <1>6, <2>1, <3>2 DEF BeenThrough
      <4>2. listeners[tbl][i].reg \in Top.offered
        BY <1>2, <1>6, <2>1, <4>1 DEF Offered
      <4> QED
        BY <1>6, <4>2
    <3> QED
      BY <3>1, <3>2
  <2>2. f.before <= Len(log)
    BY <1>2, <1>6 DEF Offered
  <2> QED
    BY <1>1, <2>1, <2>2 DEF Offered, BeenThrough, Matches
<1>9. Settled
  BY <1>1, LogSame, UnchangedKeeps DEF IInv, Settled
<1> QED
  BY <1>2, <1>5, <1>6, <1>7, <1>8, <1>9, BecomeStep DEF Activation

LEMMA SkipSlotStep ==
  ASSUME IInv, SkipSlot
  PROVE  IInv'
<1>1. /\ Dispatching /\ Top.i < count[Top.table] /\ UNCHANGED <<listeners, count, log>>
      /\ Top.i \in Listening(Top.table) =>
           ~Matches(Top.table, listeners[Top.table][Top.i], Top.msg)
  BY DEF SkipSlot
<1>2. /\ stack # << >> /\ Top \in Dispatch /\ Top.op = "dispatch"
      /\ Top.callback = "none"
      /\ Top.i \in Nat /\ Top.table \in Tables /\ Offered(Top)
  BY <1>1, DispatchingType
<1>3. PICK f : f = NextRound
  OBVIOUS
<1>4. Become(f)
  BY <1>3 DEF SkipSlot
<1>5. /\ f \in Dispatch /\ f.op = "dispatch" /\ f.callback = "none"
      /\ f.i = Top.i + 1 /\ f.table = Top.table /\ f.msg = Top.msg
      /\ f.before = Top.before /\ f.offered = Top.offered
  BY <1>2, <1>3, NextRoundType
<1>6. InTable(f)
  BY <1>5 DEF InTable
<1>7. Offered(f)'
  <2>1. ASSUME NEW tbl \in Tables, NEW i \in Slots(tbl), listeners[tbl][i] # Free,
               listeners[tbl][i].reg <= f.before, Matches(tbl, listeners[tbl][i], f.msg),
               BeenThrough(f, tbl, i)
        PROVE  listeners[tbl][i].reg \in f.offered
    <3>1. i \in Nat
      BY SizeType DEF Slots
    <3>2. ~(tbl = Top.table /\ i = Top.i)
      BY <1>1, <1>5, <2>1 DEF Listening
    <3>3. BeenThrough(Top, tbl, i)
      BY <1>2, <1>5, <2>1, <3>1, <3>2 DEF BeenThrough
    <3> QED
      BY <1>2, <1>5, <2>1, <3>3 DEF Offered
  <2>2. f.before <= Len(log)
    BY <1>2, <1>5 DEF Offered
  <2> QED
    BY <1>1, <2>1, <2>2 DEF Offered, BeenThrough, Matches
<1>8. Settled
  BY <1>1, LogSame, UnchangedKeeps DEF IInv, Settled
<1> QED
  BY <1>2, <1>4, <1>5, <1>6, <1>7, <1>8, BecomeStep DEF Activation

(* Beyond the count of a table there is nobody: it has been offered to all.  *)
LEMMA NextTableStep ==
  ASSUME IInv, NextTable
  PROVE  IInv'
<1>1. Dispatching /\ Top.i >= count[Top.table] /\ UNCHANGED <<listeners, count, log>>
  BY DEF NextTable
<1>2. /\ stack # << >> /\ Top \in Dispatch /\ Top.op = "dispatch"
      /\ Top.callback = "none"
      /\ Top.i \in Nat /\ Top.table \in Tables /\ Offered(Top)
  BY <1>1, DispatchingType
<1>3. Settled
  BY <1>1, LogSame, UnchangedKeeps DEF IInv, Settled
<1>4. CASE Return
  BY <1>2, <1>3, <1>4, ReturnStep
<1>5. ASSUME NEW next \in Tables,
             \/ Top.table = "id" /\ next = "type"
             \/ Top.table = "type" /\ next = "generic",
             Become([Top EXCEPT !.table = next, !.i = 0])
      PROVE  IInv'
  <2>1. PICK f : f = [Top EXCEPT !.table = next, !.i = 0]
    OBVIOUS
  <2>2. Become(f)
    BY <1>5, <2>1
  <2>3. /\ f \in Dispatch /\ f.op = "dispatch" /\ f.callback = "none"
        /\ f.i = 0 /\ f.table = next /\ f.msg = Top.msg
        /\ f.before = Top.before /\ f.offered = Top.offered
    BY <1>2, <2>1 DEF Dispatch
  <2>4. InTable(f)
    BY <2>3 DEF InTable
  <2>5. Offered(f)'
    <3>1. ASSUME NEW tbl \in Tables, NEW i \in Slots(tbl), listeners[tbl][i] # Free,
                 listeners[tbl][i].reg <= f.before,
                 Matches(tbl, listeners[tbl][i], f.msg), BeenThrough(f, tbl, i)
          PROVE  listeners[tbl][i].reg \in f.offered
      <4>1. i \in Nat /\ i < count[tbl] /\ count[tbl] \in Nat
        BY <3>1, SizeType DEF Slots, IInv, CountsCoverListeners, CountsOK
      <4>2. \/ tbl = Top.table
            \/ tbl = "id" /\ Top.table # "id"
        BY <1>5, <2>3, <3>1, <4>1 DEF BeenThrough
      <4>3. BeenThrough(Top, tbl, i)
        BY <1>1, <1>2, <4>1, <4>2 DEF BeenThrough
      <4> QED
        BY <1>2, <2>3, <3>1, <4>3 DEF Offered
    <3>2. f.before <= Len(log)
      BY <1>2, <2>3 DEF Offered
    <3> QED
      BY <1>1, <3>1, <3>2 DEF Offered, BeenThrough, Matches
  <2> QED
    BY <1>2, <1>3, <2>2, <2>3, <2>4, <2>5, BecomeStep DEF Activation
<1>6. "type" \in Tables /\ "generic" \in Tables
  BY DEF Tables
<1>7. \/ Top.table = "id" /\ Become([Top EXCEPT !.table = "type", !.i = 0])
      \/ Top.table = "type" /\ Become([Top EXCEPT !.table = "generic", !.i = 0])
      \/ Return
  BY DEF NextTable
<1> QED
  BY <1>4, <1>5, <1>6, <1>7

(* The round in which a listener was called ends when it returns.            *)
LEMMA RoundOffered ==
  ASSUME NEW t \in Dispatch, t.callback # "none", Offered(t)',
         NEW f \in Dispatch, f.i = t.i + 1, f.callback = "none", f.table = t.table,
         f.msg = t.msg, f.before = t.before, f.offered = t.offered
  PROVE  Offered(f)'
<1>1. t.op = "dispatch" /\ t.i \in Nat
  BY DEF Dispatch
<1>2. ASSUME NEW tbl \in Tables, NEW i \in Slots(tbl), BeenThrough(f, tbl, i)
      PROVE  BeenThrough(t, tbl, i)
  <2>1. i \in Nat
    BY SizeType DEF Slots
  <2> QED
    BY <1>1, <1>2, <2>1 DEF BeenThrough
<1> QED
  BY <1>1, <1>2 DEF Offered, BeenThrough, Matches

LEMMA PutBackKeeps ==
  ASSUME IInv, Top \in Dispatch, Top.i \in Slots(Top.table), NEW d \in 0 .. MaxRegs,
         NEW res, listeners' = PutBack(d, res), UNCHANGED count
  PROVE  TablesOK' /\ CountsOK' /\ CountsCoverListeners' /\ SameOrNew
<1>1. CASE Top.table # "id" \/ listeners["id"][Top.i] = Free
  <2>1. listeners' = listeners
    BY <1>1 DEF PutBack
  <2> QED
    BY <2>1, UnchangedKeeps DEF IInv
<1>2. CASE Top.table = "id" /\ listeners["id"][Top.i] # Free
  <2>1. PICK i : i = Top.i
    OBVIOUS
  <2> DEFINE lst == listeners["id"][i]
             z == IF res = "RENEW" THEN lst.timeout_max ELSE lst.timeout
             x == [lst EXCEPT !.userdata = d, !.timeout = z]
  <2>2. "id" \in Tables /\ i \in Slots("id")
    BY <1>2, <2>1 DEF Tables
  <2>3. lst \in Listener /\ lst # Free
    BY <1>2, <2>1, <2>2 DEF IInv, TablesOK
  <2>4. x \in Listener /\ x.reg = lst.reg /\ x.key = lst.key
    <3>1. z \in Nat
      BY <2>3 DEF Listener
    <3> HIDE DEF z, lst
    <3> QED
      BY <2>3, <3>1 DEF Listener
  <2>5. listeners' = [listeners EXCEPT !["id"][i].userdata = d,
                        !["id"][i].timeout = IF res = "RENEW"
                            THEN listeners["id"][i].timeout_max ELSE @]
    BY <1>2, <2>1 DEF PutBack
  <2>6. listeners' = [listeners EXCEPT !["id"][i] = x]
    BY <2>2, <2>3, <2>5 DEF IInv, TablesOK, Listener
  <2> HIDE DEF x
  <2> QED
    BY <2>2, <2>3, <2>4, <2>6, RetouchKeeps DEF IInv
<1> QED
  BY <1>1, <1>2

LEMMA ListenerReturnsStep ==
  ASSUME IInv, NEW res \in Results, NEW release \in BOOLEAN, ListenerReturns(res, release)
  PROVE  IInv'
<1> DEFINE history == IF release THEN Released(log, Top.userdata) ELSE log
           d == IF release THEN 0 ELSE Top.userdata
<1>1. stack # << >> /\ Top.callback = "listener"
  BY DEF ListenerReturns
<1>2. PICK t : t = Top
  OBVIOUS
<1>3. /\ t \in Dispatch /\ t \in Activation /\ t.i \in Slots(t.table) /\ Offered(t)
      /\ t.i \in Nat /\ t.table \in Tables /\ t.callback = "listener"
  <2>1. Top \in Activation /\ InTable(Top) /\ Offered(Top)
    BY <1>1, TopType DEF IInv
  <2>2. Top \in Dispatch
    BY <1>1, <2>1 DEF Activation, TickActivation, Removal
  <2> QED
    BY <1>1, <1>2, <2>1, <2>2 DEF Dispatch, InTable
<1>4. history \in Seq(Entry) /\ Len(history) = Len(log)
  BY ReleasedType DEF IInv, LogOK
<1>5. d \in 0 .. MaxRegs
  BY <1>2, <1>3, ListenerAssumption DEF Dispatch
<1>6. CASE res = "CLOSE"
  <2>1. /\ \/ UNCHANGED <<listeners, count>>
           \/ Discard(Top.table, Top.i)
        /\ log' = Ended(history, Top.reg, "closed")
        /\ Return
    BY <1>6 DEF ListenerReturns
  <2> HIDE DEF history
  <2>2. TablesOK' /\ CountsOK' /\ CountsCoverListeners' /\ SameOrNew
    BY <1>2, <1>3, <2>1, UnchangedKeeps, DiscardKeeps DEF IInv
  <2>3. LogOK' /\ Len(log') >= Len(log)
    <3>1. log' \in Seq(Entry) /\ Len(log') = Len(log)
      BY <1>4, <2>1, EndedType
    <3> QED
      BY <3>1, LogSet
  <2> QED
    BY <1>1, <2>1, <2>2, <2>3, ReturnStep DEF Settled
<1>7. CASE res # "CLOSE"
  <2>1. /\ listeners' = PutBack(d, res) /\ UNCHANGED count
        /\ log' = Renewed(history, Top.reg) \/ log' = history
        /\ Become(NextRound) \/ Return
    BY <1>7 DEF ListenerReturns
  <2> HIDE DEF history, d
  <2>2. TablesOK' /\ CountsOK' /\ CountsCoverListeners' /\ SameOrNew
    BY <1>2, <1>3, <1>5, <2>1, PutBackKeeps
  <2>3. LogOK' /\ Len(log') >= Len(log)
    <3>1. log' \in Seq(Entry) /\ Len(log') = Len(log)
      BY <1>4, <2>1, RenewedType
    <3> QED
      BY <3>1, LogSet
  <2>4. Settled
    BY <2>2, <2>3 DEF Settled
  <2>5. CASE Return
    BY <1>1, <2>4, <2>5, ReturnStep
  <2>6. CASE Become(NextRound)
    <3>1. PICK f : f = NextRound
      OBVIOUS
    <3>2. /\ f \in Dispatch /\ f.callback = "none" /\ f.i = t.i + 1
          /\ f.table = t.table /\ f.msg = t.msg /\ f.before = t.before
          /\ f.offered = t.offered
      BY <1>2, <1>3, <3>1, NextRoundType
    <3>3. Offered(t)'
      BY <1>3, <2>2, <2>3, OfferedKept DEF IInv
    <3>4. Offered(f)'
      BY <1>3, <3>2, <3>3, RoundOffered
    <3>5. InTable(f) /\ f \in Activation /\ Become(f)
      BY <2>6, <3>1, <3>2 DEF InTable, Activation
    <3> QED
      BY <1>1, <2>4, <3>4, <3>5, BecomeStep
  <2> QED
    BY <2>1, <2>5, <2>6
<1> QED
  BY <1>6, <1>7

(* TF_Tick.                                                                  *)
LEMMA TickStep ==
  ASSUME IInv, Tick
  PROVE  IInv'
<1>1. PICK f : f = [op |-> "tick", table |-> "id", i |-> 0, callback |-> "none",
                    reg |-> 0, userdata |-> 0]
  OBVIOUS
<1>2. /\ stack' = Append(stack, f) /\ UNCHANGED <<listeners, count>>
      /\ stack = << >> \/ Len(stack) < MaxDepth
  BY <1>1 DEF Tick
<1>3. Len(stack) < MaxDepth
  <2>1. Len(<< >>) < MaxDepth
    BY EmptySeq, ListenerAssumption
  <2> QED
    BY <1>2, <2>1
<1>4. /\ f \in Activation /\ InTable(f) /\ f.op = "tick"
  BY <1>1, ListenerAssumption DEF Activation, TickActivation, InTable
<1>5. Offered(f)'
  BY <1>4 DEF Offered
<1>6. LogOK' /\ Len(log') >= Len(log)
  <2> DEFINE grown(t) == IF /\ log[t].fate = "live" /\ log[t].request.timeout > 0
                            /\ log[t].age <= log[t].request.timeout
                           THEN [log[t] EXCEPT !.age = @ + 1] ELSE log[t]
             g == [t \in DOMAIN log |-> grown(t)]
  <2>1. log' = g
    BY DEF Tick
  <2>2. log \in Seq(Entry) /\ \A t \in DOMAIN log : log[t] \in Entry
    BY ElementOfSeq, LenProperties DEF IInv, LogOK
  <2>3. ASSUME NEW t \in DOMAIN log PROVE g[t] \in Entry
    <3>1. log[t] \in Entry
      BY <2>2
    <3>2. log[t].age + 1 \in Nat
      BY <3>1 DEF Entry
    <3> DEFINE a == log[t].age + 1
    <3>3. [log[t] EXCEPT !.age = a] \in Entry
      <4> HIDE DEF a
      <4> QED
        BY <3>1, <3>2 DEF Entry, a
    <3>4. g[t] = log[t] \/ g[t] = [log[t] EXCEPT !.age = a]
      OBVIOUS
    <3> HIDE DEF g
    <3> QED
      BY <3>1, <3>3, <3>4
  <2>4. g = [t \in DOMAIN log |-> g[t]]
    OBVIOUS
  <2> HIDE DEF g
  <2>5. g \in Seq(Entry) /\ Len(g) = Len(log)
    BY <2>2, <2>3, <2>4, LogChanged
  <2> QED
    BY <2>1, <2>5, LogSet
<1>7. Settled
  BY <1>2, <1>6, UnchangedKeeps DEF IInv, Settled
<1> QED
  BY <1>2, <1>3, <1>4, <1>5, <1>7, PushStep

LEMMA TickRound ==
  ASSUME IInv, Settled, stack # << >>, Top \in TickActivation, Become(NextRound)
  PROVE  IInv'
<1>1. PICK f : f = NextRound
  OBVIOUS
<1> DEFINE n == Top.i + 1
<1>2. n \in Nat /\ 0 \in 0 .. MaxRegs
  BY ListenerAssumption DEF TickActivation
<1>3. f = [Top EXCEPT !.callback = "none", !.i = n, !.reg = 0, !.userdata = 0]
  BY <1>1 DEF NextRound
<1> HIDE DEF n
<1>4. f \in TickActivation /\ f.op = "tick" /\ f.callback = "none"
  BY <1>2, <1>3 DEF TickActivation
<1> QED
  BY <1>1, <1>4, BecomeStep DEF Activation, InTable, Offered

(* The slot i of the ID table, in which y is to be discarded.                *)
LEMMA ExpireStep ==
  ASSUME IInv, stack # << >>, Top \in TickActivation, NEW i \in Slots("id"), i = Top.i,
         NEW y \in Listener \cup {Free}, (y = Free) <=> (listeners["id"][i] = Free),
         y # Free => /\ y.reg = listeners["id"][i].reg
                     /\ y.key = listeners["id"][i].key,
         NEW table, table = [listeners["id"] EXCEPT ![i] = y],
         LogOK', Len(log') >= Len(log), ExpireSlot(table, Top.i)
  PROVE  IInv'
<1>1. "id" \in Tables /\ i \in Nat
  BY SizeType DEF Tables, Slots
<1>2. table[i] = y
  BY <1>1 DEF IInv, TablesOK
<1>3. CASE y # Free /\ y.userdata # 0
  <2>1. PICK f : f = [Top EXCEPT !.callback = "cleanup", !.reg = y.reg,
                                 !.userdata = y.userdata]
    OBVIOUS
  <2>2. /\ Become(f) /\ listeners' = [listeners EXCEPT !["id"] = table]
        /\ UNCHANGED count
    BY <1>2, <1>3, <2>1 DEF ExpireSlot
  <2>3. y \in Listener
    BY <1>3
  <2>4. /\ f \in TickActivation /\ f.op = "tick" /\ f.i = i /\ f.table = "id"
    <3>1. y.reg \in Nat /\ y.userdata \in 0 .. MaxRegs
      BY <2>3 DEF Listener
    <3> QED
      BY <2>1, <3>1 DEF TickActivation
  <2>5. listeners' = [listeners EXCEPT !["id"][i] = y]
    BY <2>2
  <2>6. Settled
    <3>1. listeners["id"][i] # Free /\ count' = count
      BY <1>3, <2>2
    <3>2. TablesOK' /\ CountsOK' /\ CountsCoverListeners' /\ SameOrNew
      BY <1>1, <1>3, <2>3, <2>5, <3>1, RetouchKeeps DEF IInv
    <3> QED
      BY <3>2 DEF Settled
  <2> QED
    BY <2>2, <2>4, <2>6, BecomeStep DEF Activation, InTable, Offered
<1>4. CASE ~(y # Free /\ y.userdata # 0)
  <2>1. /\ Become(NextRound)
        /\ UNCHANGED <<listeners, count>> \/ Discard("id", i)
    BY <1>2, <1>4 DEF ExpireSlot
  <2>2. Settled
    BY <1>1, <2>1, UnchangedKeeps, DiscardKeeps DEF IInv, Settled
  <2> QED
    BY <2>1, <2>2, TickRound
<1> QED
  BY <1>3, <1>4

LEMMA TickSlotStep ==
  ASSUME IInv, TickSlot
  PROVE  IInv'
<1>1. stack # << >> /\ Top.op = "tick" /\ Top.callback = "none" /\ Top.i < count["id"]
  BY DEF TickSlot, Ticking
<1>2. Top \in TickActivation
  BY <1>1, TopType DEF IInv, Activation, Dispatch, Removal
<1>3. PICK i : i = Top.i
  OBVIOUS
<1>4. "id" \in Tables
  BY DEF Tables
<1>5. i \in Slots("id") /\ i \in Nat
  <2>1. i \in Nat /\ count["id"] \in Nat /\ count["id"] <= Size["id"] /\ Size["id"] \in Nat
    BY <1>2, <1>3, <1>4, SizeType DEF TickActivation, IInv, CountsOK
  <2> QED
    BY <1>1, <1>3, <2>1 DEF Slots
<1> DEFINE lst == listeners["id"][i]
           y == [lst EXCEPT !.timeout = lst.timeout - 1]
           table == [listeners["id"] EXCEPT ![i].timeout = lst.timeout - 1]
<1>6. CASE Become(NextRound) /\ UNCHANGED <<listeners, count, log>>
  <2>1. Settled
    BY <1>6, LogSame, UnchangedKeeps DEF IInv, Settled
  <2> QED
    BY <1>1, <1>2, <1>6, <2>1, TickRound
<1>7. ASSUME lst # Free, lst.timeout >= 1
      PROVE  /\ y \in Listener /\ y.reg = lst.reg /\ y.key = lst.key
             /\ lst \in Listener
             /\ table = [listeners["id"] EXCEPT ![i] = y]
             /\ [listeners EXCEPT !["id"] = table] = [listeners EXCEPT !["id"][i] = y]
  <2>1. lst \in Listener
    BY <1>4, <1>5, <1>7 DEF IInv, TablesOK
  <2> DEFINE n == lst.timeout - 1
  <2>2. n \in Nat
    BY <1>7, <2>1 DEF Listener
  <2>3. y \in Listener /\ y.reg = lst.reg /\ y.key = lst.key
    <3> HIDE DEF n, lst
    <3> QED
      BY <2>1, <2>2 DEF Listener, n
  <2>4. table = [listeners["id"] EXCEPT ![i] = y]
    OBVIOUS
  <2> HIDE DEF y, table
  <2> QED
    BY <2>1, <2>3, <2>4
<1>8. CASE /\ lst # Free /\ lst.timeout > 1
           /\ listeners' = [listeners EXCEPT !["id"] = table]
           /\ Become(NextRound)
           /\ UNCHANGED <<count, log>>
  <2>1. lst.timeout >= 1
    <3>1. lst \in Listener
      BY <1>4, <1>5, <1>8 DEF IInv, TablesOK
    <3>2. lst.timeout \in Nat
      BY <3>1 DEF Listener
    <3> QED
      BY <1>8, <3>2
  <2>2. /\ y \in Listener /\ y.reg = lst.reg /\ y.key = lst.key
        /\ listeners' = [listeners EXCEPT !["id"][i] = y]
    BY <1>7, <1>8, <2>1
  <2> HIDE DEF y, table
  <2>3. Settled
    BY <1>4, <1>5, <1>8, <2>2, LogSame, RetouchKeeps DEF IInv, Settled
  <2> QED
    BY <1>1, <1>2, <1>8, <2>3, TickRound
<1>9. ASSUME lst # Free, lst.timeout = 1, log' = Ended(log, lst.reg, "expired"),
             \/ /\ listeners' = [listeners EXCEPT !["id"] = table]
                /\ Become([Top EXCEPT !.callback = "timeout", !.reg = lst.reg])
                /\ UNCHANGED count
             \/ ExpireSlot(table, Top.i)
      PROVE  IInv'
  <2>1. /\ y \in Listener /\ y.reg = lst.reg /\ y.key = lst.key /\ lst \in Listener
        /\ table = [listeners["id"] EXCEPT ![i] = y]
        /\ [listeners EXCEPT !["id"] = table] = [listeners EXCEPT !["id"][i] = y]
    BY <1>7, <1>9
  <2> HIDE DEF y, table
  <2>2. LogOK' /\ Len(log') >= Len(log)
    <3>1. log' \in Seq(Entry) /\ Len(log') = Len(log)
      BY <1>9, EndedType DEF IInv, LogOK
    <3> QED
      BY <3>1, LogSet
  <2>3. CASE /\ listeners' = [listeners EXCEPT !["id"] = table]
             /\ Become([Top EXCEPT !.callback = "timeout", !.reg = lst.reg])
             /\ UNCHANGED count
    <3>1. PICK f : f = [Top EXCEPT !.callback = "timeout", !.reg = lst.reg]
      OBVIOUS
    <3>2. /\ f \in TickActivation /\ f.op = "tick" /\ f.i = i /\ f.table = "id"
      <4>1. lst.reg \in Nat
        BY <2>1 DEF Listener
      <4> HIDE DEF lst
      <4> QED
        BY <1>2, <1>3, <3>1, <4>1 DEF TickActivation
    <3>3. Settled
      BY <1>4, <1>5, <1>9, <2>1, <2>2, <2>3, RetouchKeeps DEF IInv, Settled
    <3> QED
      BY <1>1, <1>5, <2>3, <3>1, <3>2, <3>3, BecomeStep DEF Activation, InTable, Offered
  <2>4. CASE ExpireSlot(table, Top.i)
    <3>1. y # Free
      BY <2>1, FreeIsNoListener
    <3> QED
      BY <1>1, <1>2, <1>3, <1>5, <1>9, <2>1, <2>2, <2>4, <3>1, ExpireStep
  <2> QED
    BY <1>9, <2>3, <2>4
<1> QED
  BY <1>3, <1>6, <1>8, <1>9 DEF TickSlot

LEMMA TimeoutReturnsStep ==
  ASSUME IInv, TimeoutReturns
  PROVE  IInv'
<1>1. /\ stack # << >> /\ Top.callback = "timeout" /\ UNCHANGED log
      /\ ExpireSlot(listeners["id"], Top.i)
  BY DEF TimeoutReturns
<1>2. Top \in TickActivation /\ InTable(Top)
  BY <1>1, TopType DEF IInv, Activation, Dispatch, Removal
<1>3. PICK i : i = Top.i
  OBVIOUS
<1>4. i \in Slots("id") /\ "id" \in Tables
  BY <1>1, <1>2, <1>3 DEF InTable, TickActivation, Tables
<1>5. PICK y : y = listeners["id"][i]
  OBVIOUS
<1>6. y \in Listener \cup {Free} /\ listeners["id"] = [listeners["id"] EXCEPT ![i] = y]
  BY <1>4, <1>5 DEF IInv, TablesOK
<1>7. LogOK' /\ Len(log') >= Len(log)
  BY <1>1, LogSame
<1> QED
  BY <1>1, <1>2, <1>3, <1>4, <1>5, <1>6, <1>7, ExpireStep

LEMMA CleanupReturnsStep ==
  ASSUME IInv, CleanupReturns
  PROVE  IInv'
<1>1. /\ stack # << >> /\ Top.callback = "cleanup"
      /\ log' = Released(log, Top.userdata) /\ Discard("id", Top.i)
      /\ IF Top.op = "tick" THEN Become(NextRound) ELSE Return
  BY DEF CleanupReturns
<1>2. Top \in TickActivation \/ Top \in Removal
  BY <1>1, TopType DEF IInv, Activation, Dispatch
<1>3. Top.i \in Nat /\ "id" \in Tables
  BY <1>2 DEF TickActivation, Removal, Tables
<1>4. LogOK' /\ Len(log') >= Len(log)
  <2>1. log' \in Seq(Entry) /\ Len(log') = Len(log)
    BY <1>1, ReleasedType DEF IInv, LogOK
  <2> QED
    BY <2>1, LogSet
<1>5. Settled
  BY <1>1, <1>3, <1>4, DiscardKeeps DEF IInv, Settled
<1>6. CASE Top.op = "tick"
  <2>1. Top \in TickActivation
    BY <1>2, <1>6 DEF Removal
  <2> QED
    BY <1>1, <1>5, <1>6, <2>1, TickRound
<1>7. CASE Top.op # "tick"
  BY <1>1, <1>5, <1>7, ReturnStep
<1> QED
  BY <1>6, <1>7

LEMMA TickReturnsStep ==
  ASSUME IInv, TickReturns
  PROVE  IInv'
<1>1. stack # << >> /\ Return /\ UNCHANGED <<listeners, count, log>>
  BY DEF TickReturns, Ticking
<1>2. Settled
  BY <1>1, LogSame, UnchangedKeeps DEF IInv, Settled
<1> QED
  BY <1>1, <1>2, ReturnStep

-----------------------------------------------------------------------------
(* The invariant and what follows from it.                                   *)

LEMMA InvInit == Init => IInv
<1> SUFFICES ASSUME Init PROVE IInv
  OBVIOUS
<1>1. << >> \in Seq(Activation) /\ << >> \in Seq(Entry) /\ Len(<< >>) = 0
  BY EmptySeq
<1>2. TablesOK
  BY DEF Init, TablesOK
<1>3. CountsOK
  BY SizeType DEF Init, CountsOK
<1>4. LogOK
  BY <1>1, ListenerAssumption DEF Init, LogOK
<1>5. StackOK
  <2>1. Len(stack) <= MaxDepth /\ stack \in Seq(Activation) /\ Len(stack) = 0
    BY <1>1, ListenerAssumption DEF Init
  <2>2. \A k \in 1 .. Len(stack) : FALSE
    BY <2>1
  <2> QED
    BY <2>1, <2>2 DEF StackOK
<1>6. CountsCoverListeners
  BY DEF Init, CountsCoverListeners
<1> QED
  BY <1>2, <1>3, <1>4, <1>5, <1>6 DEF IInv

LEMMA InvNext ==
  ASSUME IInv, [Next]_vars
  PROVE  IInv'
<1>1. CASE UserCall
  BY <1>1, AddListenerStep, RemoveListenerStep, RenewIdListenerStep DEF UserCall
<1>2. CASE \E m \in Messages : HandleReceivedMessage(m)
  BY <1>2, HandleReceivedMessageStep
<1>3. CASE Tick
  BY <1>3, TickStep
<1>4. CASE CallbackReturns
  BY <1>4, ListenerReturnsStep, TimeoutReturnsStep, CleanupReturnsStep DEF CallbackReturns
<1>5. CASE LibraryStep
  BY <1>5, CallListenerStep, SkipSlotStep, NextTableStep, TickSlotStep, TickReturnsStep
     DEF LibraryStep
<1>6. CASE UNCHANGED vars
  <2>1. UNCHANGED <<listeners, count, stack, log>>
    BY <1>6 DEF vars
  <2>2. Settled
    BY <2>1, LogSame, UnchangedKeeps DEF IInv, Settled
  <2> QED
    BY <2>1, <2>2, SameStep
<1> QED
  BY <1>1, <1>2, <1>3, <1>4, <1>5, <1>6 DEF Next

LEMMA InvAlways == Spec => []IInv
BY InvInit, InvNext, PTL DEF Spec

(* cleanup_id_listener and its kin only ever shrink a count over empty       *)
(* slots, and the add functions raise it: the loops never stop short of a    *)
(* listener, whatever callbacks do in between.                               *)
THEOREM CountsCover == Spec => []CountsCoverListeners
<1>1. IInv => CountsCoverListeners
  BY DEF IInv
<1> QED
  BY <1>1, InvAlways, PTL

(* TF_HandleReceivedMessage calls every listener that was registered when    *)
(* the message came in, still is, matches, and is not behind one that kept   *)
(* the message; for every table size and whatever callbacks add and remove,  *)
(* a listener removing itself and a tick in the middle of a callback         *)
(* included.                                                                 *)
THEOREM AllOffered == Spec => []NoneSkipped
<1>1. IInv => NoneSkipped
  <2> SUFFICES ASSUME IInv, NEW k \in DOMAIN stack, stack[k].op = "dispatch",
                      NEW tbl \in Tables, NEW i \in Slots(tbl),
                      listeners[tbl][i] # Free, listeners[tbl][i].reg <= stack[k].before,
                      Matches(tbl, listeners[tbl][i], stack[k].msg),
                      \/ tbl = stack[k].table /\ i < stack[k].i
                      \/ tbl = "id" /\ stack[k].table # "id"
                      \/ tbl = "type" /\ stack[k].table = "generic"
               PROVE  listeners[tbl][i].reg \in stack[k].offered
    BY DEF NoneSkipped
  <2>1. k \in 1 .. Len(stack)
    BY LenProperties DEF IInv, StackOK
  <2>2. Offered(stack[k])
    BY <2>1 DEF IInv, StackOK
  <2> QED
    BY <2>2 DEF Offered, BeenThrough
<1> QED
  BY <1>1, InvAlways, PTL

(* The tables, the counts, the nesting and the log keep their types.         *)
THEOREM ListenerTypes == Spec => []TypeOK
<1>1. IInv => TypeOK
  BY DEF IInv, TablesOK, CountsOK, LogOK, StackOK, TypeOK
<1> QED
  BY <1>1, InvAlways, PTL
=============================================================================
