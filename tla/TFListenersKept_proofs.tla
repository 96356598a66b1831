------------------------- MODULE TFListenersKept_proofs ----------------------
(****************************************************************************)
(* Registrations are kept, userdata is released once and timeouts are       *)
(* counted right, for every table size, set of registrations and messages,  *)
(* and every nesting of callbacks, when users do not remove a listener      *)
(* inside a callback made through it and ticks do not interrupt callbacks.  *)
(****************************************************************************)
EXTENDS TFListeners_proofs, FiniteSetTheorems

Careful == ~SelfRemoval /\ ~TickPreempts

(* Registration t has slot i of a table.                                     *)
Held(t, tbl, i) ==
  /\ tbl \in Tables /\ i \in Slots(tbl)
  /\ listeners[tbl][i] # Free /\ listeners[tbl][i].reg = t

\* An activation that is in a callback, and one that is in a callback of slot i.
Calling(f) == f.callback # "none"
CallingAt(f, tbl, i) == Calling(f) /\ f.table = tbl /\ f.i = i

\* One activation runs the library's loop; what nests above it are removals, and
\* below the running activation all are in callbacks.  A tick has no userdata at
\* hand between two of them.
Shape ==
  \A k \in 1 .. Len(stack) :
    /\ k > 1 => stack[k].op = "remove"
    /\ k < Len(stack) => Calling(stack[k])
    /\ stack[k].op = "tick" /\ ~Calling(stack[k]) => stack[k].userdata = 0

\* An activation comes back to the slot it left, and to the same listener; a
\* listener that is called for the last time has ended.
Attached ==
  \A k \in 1 .. Len(stack) : Calling(stack[k]) =>
    LET f == stack[k]
    IN  /\ Held(f.reg, f.table, f.i)
        /\ f.callback # "listener" => f.table = "id" /\ log[f.reg].fate # "live"

\* No two activations are in callbacks of the same slot.
Apart ==
  \A k, l \in 1 .. Len(stack) :
    /\ Calling(stack[k]) /\ Calling(stack[l])
    /\ stack[k].table = stack[l].table /\ stack[k].i = stack[l].i
    => k = l

\* A slot belongs to one registration, and holds what was registered.
OneSlot ==
  \A t1, t2 \in Tables : \A i \in Slots(t1), j \in Slots(t2) :
    /\ listeners[t1][i] # Free /\ listeners[t2][j] # Free
    /\ listeners[t1][i].reg = listeners[t2][j].reg
    => t1 = t2 /\ i = j
Faithful ==
  \A tbl \in Tables : \A i \in Slots(tbl) : listeners[tbl][i] # Free =>
    LET lst == listeners[tbl][i]
    IN  /\ lst.reg <= Len(log)
        /\ log[lst.reg].request.table = tbl
        /\ log[lst.reg].request.timeout = lst.timeout_max
        /\ lst.userdata # 0 => log[lst.reg].request.userdata
Requested == \A t \in 1 .. Len(log) : log[t].request \in Requests

\* A registration that has not ended has its slot; one that has ended has it no
\* longer, or its last callbacks are running.
LiveHeld ==
  \A t \in 1 .. Len(log) : log[t].fate = "live" =>
    \E tbl \in Tables : \E i \in Slots(tbl) : Held(t, tbl, i)
Leaving ==
  \A tbl \in Tables : \A i \in Slots(tbl) :
    listeners[tbl][i] # Free /\ log[listeners[tbl][i].reg].fate # "live" =>
      \E k \in 1 .. Len(stack) :
        stack[k].callback \in {"timeout", "cleanup"} /\ CallingAt(stack[k], tbl, i)

KInv ==
  /\ Shape /\ Attached /\ Apart
  /\ OneSlot /\ Faithful /\ Requested /\ LiveHeld /\ Leaving

(* Why UserdataReleasedOnce holds: the slot, the callback that was given it   *)
(* and the log agree on who owns the userdata.                               *)
UserdataInSlot ==
  \A tbl \in Tables : \A i \in Slots(tbl) : listeners[tbl][i] # Free =>
    LET lst == listeners[tbl][i]
    IN  /\ lst.userdata \in {0, lst.reg}
        /\ lst.userdata # 0 => log[lst.reg].released = 0
UserdataInCall ==
  \A k \in 1 .. Len(stack) : Calling(stack[k]) =>
    stack[k].userdata = IF stack[k].callback = "timeout" THEN 0
                        ELSE listeners[stack[k].table][stack[k].i].userdata
UserdataInLog ==
  \A t \in 1 .. Len(log) :
    /\ log[t].released \in {0, 1}
    /\ log[t].request.userdata /\ log[t].released = 0 =>
         \E i \in Slots("id") : Held(t, "id", i) /\ listeners["id"][i].userdata = t

UInv == UserdataInSlot /\ UserdataInCall /\ UserdataInLog

(* Why ExpiresOnTime holds: what is left of a timeout and the age add up, a  *)
(* tick that has not come to the slot yet apart.                             *)
Ahead(i) == stack # << >> /\ stack[1].op = "tick" /\ stack[1].i <= i
OnTime(lst, e, ahead) ==
  LET d == IF ahead THEN 1 ELSE 0
  IN  /\ lst.timeout_max = 0 => lst.timeout = 0
      /\ lst.timeout_max > 0 =>
           /\ lst.timeout > 0
           /\ \/ lst.timeout + e.age = lst.timeout_max + d
              \/ e.early /\ lst.timeout + e.age = lst.timeout_max + d - 1
TimeLeft ==
  \A i \in Slots("id") :
    LET lst == listeners["id"][i]
    IN  lst # Free /\ log[lst.reg].fate = "live" => OnTime(lst, log[lst.reg], Ahead(i))
TimeOut ==
  \A t \in 1 .. Len(log) : log[t].fate = "expired" =>
    \/ log[t].age = log[t].request.timeout
    \/ log[t].early /\ log[t].age = log[t].request.timeout - 1

TInv == TimeLeft /\ TimeOut

-----------------------------------------------------------------------------
(* The stack before and after a step.                                        *)

LEMMA StackIs ==
  ASSUME IInv
  PROVE  /\ stack \in Seq(Activation) /\ Len(stack) \in Nat
         /\ DOMAIN stack = 1 .. Len(stack)
         /\ stack # << >> => Len(stack) > 0 /\ Top = stack[Len(stack)]
         /\ \A k \in 1 .. Len(stack) : stack[k] \in Activation /\ InTable(stack[k])
BY LenProperties, EmptySeq, ElementOfSeq DEF IInv, StackOK, Top

LEMMA BecomeIs ==
  ASSUME IInv, stack # << >>, NEW f \in Activation, Become(f)
  PROVE  /\ Len(stack') = Len(stack) /\ stack'[Len(stack)] = f
         /\ \A k \in 1 .. Len(stack) : k # Len(stack) => stack'[k] = stack[k]
<1>1. /\ Below \in Seq(Activation) /\ Len(Below) = Len(stack) - 1
      /\ \A k \in 1 .. Len(Below) : Below[k] = stack[k]
      /\ Len(stack) \in Nat
  BY TopType, StackIs DEF IInv
<1> DEFINE s == Append(Below, f)
<1>2. /\ Len(s) = Len(Below) + 1 /\ s[Len(Below) + 1] = f
      /\ \A k \in 1 .. Len(Below) : s[k] = Below[k]
  BY <1>1, AppendProperties
<1>3. PICK t : t = s
  OBVIOUS
<1>4. stack' = t
  BY <1>3 DEF Become
<1> HIDE DEF s
<1> QED
  BY <1>1, <1>2, <1>3, <1>4

LEMMA ReturnIs ==
  ASSUME IInv, stack # << >>, Return
  PROVE  /\ Len(stack') = Len(stack) - 1
         /\ \A k \in 1 .. Len(stack) : k # Len(stack) => stack'[k] = stack[k]
<1>1. /\ Len(Below) = Len(stack) - 1 /\ Len(stack) \in Nat
      /\ \A k \in 1 .. Len(Below) : Below[k] = stack[k]
  BY TopType, StackIs DEF IInv
<1>2. PICK t : t = Below
  OBVIOUS
<1> QED
  BY <1>1, <1>2 DEF Return

LEMMA PushIs ==
  ASSUME IInv, NEW f \in Activation, stack' = Append(stack, f)
  PROVE  /\ Len(stack') = Len(stack) + 1 /\ stack'[Len(stack) + 1] = f
         /\ \A k \in 1 .. Len(stack) : stack'[k] = stack[k]
<1> DEFINE s == Append(stack, f)
<1>1. /\ Len(s) = Len(stack) + 1 /\ s[Len(stack) + 1] = f
      /\ \A k \in 1 .. Len(stack) : s[k] = stack[k]
  BY StackIs, AppendProperties
<1>2. PICK t : t = s
  OBVIOUS
<1> HIDE DEF s
<1> QED
  BY <1>1, <1>2

(* What the log says of each registration after an update.                   *)
LEMMA EndedIs ==
  ASSUME NEW h \in Seq(Entry), NEW reg, NEW fate
  PROVE  LET g == Ended(h, reg, fate)
         IN  \A t \in 1 .. Len(h) :
               /\ g[t].request = h[t].request /\ g[t].age = h[t].age
               /\ g[t].early = h[t].early /\ g[t].released = h[t].released
               /\ g[t].fate = IF t = reg /\ h[t].fate = "live" THEN fate ELSE h[t].fate
               /\ t # reg => g[t] = h[t]
<1>1. h \in [1 .. Len(h) -> Entry]
  BY LenProperties, ElementOfSeq
<1> QED
  BY <1>1 DEF Ended, Entry

LEMMA ReleasedIs ==
  ASSUME NEW h \in Seq(Entry), NEW d
  PROVE  LET g == Released(h, d)
         IN  \A t \in 1 .. Len(h) :
               /\ g[t].request = h[t].request /\ g[t].age = h[t].age
               /\ g[t].early = h[t].early /\ g[t].fate = h[t].fate
               /\ g[t].released = IF t = d /\ d # 0 THEN h[t].released + 1 ELSE h[t].released
               /\ t # d => g[t] = h[t]
<1>1. h \in [1 .. Len(h) -> Entry]
  BY LenProperties, ElementOfSeq
<1> QED
  BY <1>1 DEF Released, Entry

LEMMA RenewedIs ==
  ASSUME NEW h \in Seq(Entry), NEW reg \in 1 .. Len(h)
  PROVE  LET g == Renewed(h, reg)
         IN  \A t \in 1 .. Len(h) :
               /\ g[t].request = h[t].request
               /\ g[t].fate = h[t].fate /\ g[t].released = h[t].released
               /\ g[t].age = IF t = reg /\ h[t].fate = "live" THEN 0 ELSE h[t].age
               /\ g[t].early = IF t = reg /\ h[t].fate = "live" THEN InTick ELSE h[t].early
               /\ t # reg => g[t] = h[t]
<1>1. h \in [1 .. Len(h) -> Entry]
  BY LenProperties, ElementOfSeq
<1> QED
  BY <1>1 DEF Renewed, Entry

-----------------------------------------------------------------------------
(* Most steps concern one listener, in slot i of a table.                    *)

\* The other slots and the other registrations stay as they are.
OnlyAt(tbl, i) ==
  LET old == listeners[tbl][i]
      new == listeners'[tbl][i]
  IN  /\ \A t \in Tables : \A j \in Slots(t) :
           t # tbl \/ j # i => listeners'[t][j] = listeners[t][j]
      /\ new # Free => /\ new.reg = old.reg /\ new.timeout_max = old.timeout_max
                       /\ new.userdata \in {0, old.userdata}
      /\ Len(log') = Len(log)
      /\ log'[old.reg].request = log[old.reg].request
      /\ log[old.reg].fate # "live" => log'[old.reg].fate # "live"
      /\ \A t \in 1 .. Len(log) : t # old.reg => log'[t] = log[t]

\* The callbacks of other slots go on.
OtherCalls(tbl, i) ==
  /\ \A k \in 1 .. Len(stack) :
       Calling(stack[k]) /\ ~CallingAt(stack[k], tbl, i) =>
         k \in 1 .. Len(stack') /\ stack'[k] = stack[k]
  /\ \A k \in 1 .. Len(stack') :
       Calling(stack'[k]) /\ ~CallingAt(stack'[k], tbl, i) =>
         k \in 1 .. Len(stack) /\ stack'[k] = stack[k]

\* There is at most one callback of this slot, of the listener it holds.
CallAt(tbl, i) ==
  LET new == listeners'[tbl][i]
  IN  /\ \A k, l \in 1 .. Len(stack') :
           CallingAt(stack'[k], tbl, i) /\ CallingAt(stack'[l], tbl, i) => k = l
      /\ \A k \in 1 .. Len(stack') :
           LET f == stack'[k]
           IN  CallingAt(f, tbl, i) =>
                 /\ new # Free /\ new.reg = f.reg
                 /\ f.callback # "listener" => tbl = "id" /\ log'[f.reg].fate # "live"
                 /\ f.userdata = IF f.callback = "timeout" THEN 0 ELSE new.userdata

\* The listener leaves its slot when it has ended and its callbacks returned.
LeavingAt(tbl, i) ==
  LET ended == log'[listeners[tbl][i].reg].fate # "live"
  IN  IF listeners'[tbl][i] = Free THEN ended
      ELSE ended => \E k \in 1 .. Len(stack') :
                      /\ stack'[k].callback \in {"timeout", "cleanup"}
                      /\ CallingAt(stack'[k], tbl, i)

AtSlot(tbl, i) ==
  /\ tbl \in Tables /\ i \in Slots(tbl) /\ listeners[tbl][i] # Free
  /\ OnlyAt(tbl, i) /\ OtherCalls(tbl, i) /\ CallAt(tbl, i) /\ LeavingAt(tbl, i)
  /\ Shape'

\* Its userdata stays, or is released and no longer there.
UserdataAt(tbl, i) ==
  LET old == listeners[tbl][i]
      new == listeners'[tbl][i]
      before == log[old.reg].released
      after == log'[old.reg].released
  IN  \/ /\ after = before
         /\ IF new = Free THEN old.userdata = 0 ELSE new.userdata = old.userdata
      \/ /\ old.userdata # 0 /\ after = before + 1
         /\ new # Free => new.userdata = 0

\* Its timeout still adds up, or it expired in time; and so do the others'.
Expiry(e) ==
  \/ e.age = e.request.timeout
  \/ e.early /\ e.age = e.request.timeout - 1
TimeAt(tbl, i) ==
  LET new == listeners'[tbl][i]
      e == log'[listeners[tbl][i].reg]
  IN  /\ tbl = "id" /\ new # Free /\ e.fate = "live" => OnTime(new, e, Ahead(i)')
      /\ e.fate = "expired" => Expiry(e)
      /\ \A j \in Slots("id") :
           (tbl # "id" \/ j # i) /\ listeners["id"][j] # Free => Ahead(j)' = Ahead(j)

FInv == KInv /\ UInv /\ TInv

LEMMA SlotIs ==
  ASSUME IInv, KInv, NEW tbl \in Tables, NEW i \in Slots(tbl), listeners[tbl][i] # Free
  PROVE  LET lst == listeners[tbl][i]
         IN  /\ lst \in Listener /\ lst.reg \in 1 .. Len(log) /\ log[lst.reg] \in Entry
             /\ lst.timeout \in Nat /\ lst.timeout_max \in Nat /\ lst.userdata \in Nat
             /\ log[lst.reg].request.table = tbl
             /\ log[lst.reg].request.timeout = lst.timeout_max
             /\ lst.userdata # 0 => tbl = "id"
<1> DEFINE lst == listeners[tbl][i]
<1>1. lst \in Listener
  BY DEF IInv, TablesOK
<1>2. /\ lst.reg \in 1 .. MaxRegs /\ lst.timeout \in Nat /\ lst.timeout_max \in Nat
      /\ lst.userdata \in Nat
  BY <1>1, ListenerAssumption DEF Listener
<1>3. /\ lst.reg <= Len(log) /\ log[lst.reg].request.table = tbl
      /\ log[lst.reg].request.timeout = lst.timeout_max
      /\ lst.userdata # 0 => log[lst.reg].request.userdata
  BY DEF KInv, Faithful
<1>4. lst.reg \in 1 .. Len(log)
  BY <1>2, <1>3, LenProperties, ListenerAssumption DEF IInv, LogOK
<1>5. log[lst.reg] \in Entry /\ log[lst.reg].request \in Requests
  BY <1>4, ElementOfSeq DEF IInv, LogOK, KInv, Requested
<1>6. lst.userdata # 0 => tbl = "id"
  BY <1>3, <1>5, ListenerAssumption
<1> QED
  BY <1>1, <1>2, <1>3, <1>4, <1>5, <1>6

LEMMA KeptAtSlot ==
  ASSUME IInv, IInv', KInv, NEW tbl, NEW i, AtSlot(tbl, i)
  PROVE  KInv'
<1> DEFINE old == listeners[tbl][i]
           new == listeners'[tbl][i]
<1>1. /\ tbl \in Tables /\ i \in Slots(tbl) /\ old # Free /\ Shape'
      /\ OnlyAt(tbl, i) /\ OtherCalls(tbl, i) /\ CallAt(tbl, i) /\ LeavingAt(tbl, i)
  BY DEF AtSlot
<1>2. old.reg \in 1 .. Len(log)
  BY <1>1, SlotIs
<1>3. /\ new # Free => new.reg = old.reg
      /\ Len(log') = Len(log)
      /\ \A t \in Tables : \A j \in Slots(t) :
           t # tbl \/ j # i => listeners'[t][j] = listeners[t][j]
      /\ \A t \in 1 .. Len(log) : t # old.reg => log'[t] = log[t]
  BY <1>1 DEF OnlyAt
<1>4. \A t \in Tables : \A j \in Slots(t) :
        listeners'[t][j] # Free =>
          listeners[t][j] # Free /\ listeners'[t][j].reg = listeners[t][j].reg
  BY <1>1, <1>3
<1>5. OneSlot'
  BY <1>4 DEF KInv, OneSlot
<1>6. Attached'
  <2> SUFFICES ASSUME NEW k \in 1 .. Len(stack'), Calling(stack'[k])
               PROVE  LET f == stack'[k]
                      IN  /\ f.table \in Tables /\ f.i \in Slots(f.table)
                          /\ listeners'[f.table][f.i] # Free
                          /\ listeners'[f.table][f.i].reg = f.reg
                          /\ f.callback # "listener" =>
                               f.table = "id" /\ log'[f.reg].fate # "live"
    BY DEF Attached, Held, Calling
  <2>1. CASE CallingAt(stack'[k], tbl, i)
    BY <1>1, <2>1 DEF CallAt, CallingAt
  <2>2. CASE ~CallingAt(stack'[k], tbl, i)
    <3>1. k \in 1 .. Len(stack) /\ stack'[k] = stack[k]
      BY <1>1, <2>2 DEF OtherCalls
    <3> DEFINE f == stack[k]
    <3>2. /\ f.table \in Tables /\ f.i \in Slots(f.table)
          /\ listeners[f.table][f.i] # Free /\ listeners[f.table][f.i].reg = f.reg
          /\ f.callback # "listener" => f.table = "id" /\ log[f.reg].fate # "live"
      BY <3>1 DEF KInv, Attached, Held
    <3>3. f.table # tbl \/ f.i # i
      BY <2>2, <3>1 DEF CallingAt
    <3>4. f.reg # old.reg /\ f.reg \in 1 .. Len(log)
      <4>1. f.reg \in 1 .. Len(log)
        BY <3>2, SlotIs
      <4>2. OneSlot
        BY DEF KInv
      <4>3. f.reg # old.reg
        BY <1>1, <3>2, <3>3, <4>2 DEF OneSlot
      <4> QED
        BY <4>1, <4>3
    <3> QED
      BY <1>3, <3>1, <3>2, <3>3, <3>4
  <2> QED
    BY <2>1, <2>2
<1>7. Apart'
  <2> SUFFICES ASSUME NEW k \in 1 .. Len(stack'), NEW l \in 1 .. Len(stack'),
                      Calling(stack'[k]), Calling(stack'[l]),
                      stack'[k].table = stack'[l].table, stack'[k].i = stack'[l].i
               PROVE  k = l
    BY DEF Apart, Calling
  <2>1. CASE CallingAt(stack'[k], tbl, i)
    <3>1. CallingAt(stack'[l], tbl, i)
      BY <2>1 DEF CallingAt
    <3> QED
      BY <1>1, <2>1, <3>1 DEF CallAt
  <2>2. CASE ~CallingAt(stack'[k], tbl, i)
    <3>1. ~CallingAt(stack'[l], tbl, i)
      BY <2>2 DEF CallingAt
    <3> QED
      BY <1>1, <2>2, <3>1 DEF OtherCalls, KInv, Apart
  <2> QED
    BY <2>1, <2>2
<1>8. Requested'
  BY <1>1, <1>2, <1>3 DEF KInv, Requested, OnlyAt
<1>9. Faithful'
  <2> SUFFICES ASSUME NEW t \in Tables, NEW j \in Slots(t), listeners'[t][j] # Free
               PROVE  LET lst == listeners'[t][j]
                      IN  /\ lst.reg <= Len(log')
                          /\ log'[lst.reg].request.table = t
                          /\ log'[lst.reg].request.timeout = lst.timeout_max
                          /\ lst.userdata # 0 => log'[lst.reg].request.userdata
    BY DEF Faithful
  <2>1. listeners[t][j] # Free /\ listeners'[t][j].reg = listeners[t][j].reg
    BY <1>4
  <2>2. LET lst == listeners[t][j]
        IN  /\ lst.reg <= Len(log) /\ lst.reg \in 1 .. Len(log)
            /\ log[lst.reg].request.table = t
            /\ log[lst.reg].request.timeout = lst.timeout_max
            /\ lst.userdata # 0 => log[lst.reg].request.userdata
    <3>1. listeners[t][j].reg \in 1 .. Len(log)
      BY <2>1, SlotIs
    <3>2. Faithful
      BY DEF KInv
    <3> QED
      BY <2>1, <3>1, <3>2 DEF Faithful
  <2>3. CASE t = tbl /\ j = i
    <3>1. /\ new.reg = old.reg /\ new.timeout_max = old.timeout_max
          /\ new.userdata \in {0, old.userdata}
          /\ Len(log') = Len(log) /\ log'[old.reg].request = log[old.reg].request
      BY <1>1, <2>3 DEF OnlyAt
    <3>2. /\ old.reg <= Len(log) /\ log[old.reg].request.table = t
          /\ log[old.reg].request.timeout = old.timeout_max
          /\ old.userdata # 0 => log[old.reg].request.userdata
      BY <2>2, <2>3
    <3> HIDE DEF old
    <3> QED
      BY <2>3, <3>1, <3>2
  <2>4. CASE t # tbl \/ j # i
    <3>1. listeners[t][j].reg # old.reg
      BY <1>1, <2>1, <2>4 DEF KInv, OneSlot
    <3> QED
      BY <1>3, <2>1, <2>2, <2>4, <3>1
  <2> QED
    BY <2>3, <2>4
<1>10. LiveHeld'
  <2> SUFFICES ASSUME NEW t \in 1 .. Len(log'), log'[t].fate = "live"
               PROVE  \E s \in Tables : \E j \in Slots(s) :
                        listeners'[s][j] # Free /\ listeners'[s][j].reg = t
    BY DEF LiveHeld, Held
  <2>1. CASE t = old.reg
    BY <1>1, <1>3, <2>1 DEF LeavingAt
  <2>2. CASE t # old.reg
    <3>1. log[t].fate = "live" /\ t \in 1 .. Len(log)
      BY <1>3, <2>2
    <3>2. PICK s \in Tables : \E j \in Slots(s) :
            listeners[s][j] # Free /\ listeners[s][j].reg = t
      BY <3>1 DEF KInv, LiveHeld, Held
    <3>3. PICK j \in Slots(s) : listeners[s][j] # Free /\ listeners[s][j].reg = t
      BY <3>2
    <3> QED
      BY <1>3, <2>2, <3>3
  <2> QED
    BY <2>1, <2>2
<1>11. Leaving'
  <2> SUFFICES ASSUME NEW t \in Tables, NEW j \in Slots(t), listeners'[t][j] # Free,
                      log'[listeners'[t][j].reg].fate # "live"
               PROVE  \E k \in 1 .. Len(stack') :
                        /\ stack'[k].callback \in {"timeout", "cleanup"}
                        /\ CallingAt(stack'[k], t, j)
    BY DEF Leaving, CallingAt, Calling
  <2>1. CASE t = tbl /\ j = i
    BY <1>1, <1>3, <2>1 DEF LeavingAt
  <2>2. CASE t # tbl \/ j # i
    <3>1. listeners[t][j] # Free /\ listeners'[t][j] = listeners[t][j]
      BY <1>3, <2>2
    <3>2. listeners[t][j].reg # old.reg /\ listeners[t][j].reg \in 1 .. Len(log)
      BY <1>1, <2>2, <3>1, SlotIs DEF KInv, OneSlot
    <3>3. log[listeners[t][j].reg].fate # "live"
      BY <1>3, <3>1, <3>2
    <3>4. PICK k \in 1 .. Len(stack) :
            stack[k].callback \in {"timeout", "cleanup"} /\ CallingAt(stack[k], t, j)
      BY <3>1, <3>3 DEF KInv, Leaving
    <3>5. k \in 1 .. Len(stack') /\ stack'[k] = stack[k]
      BY <1>1, <2>2, <3>4 DEF OtherCalls, CallingAt
    <3> QED
      BY <3>4, <3>5
  <2> QED
    BY <2>1, <2>2
<1> QED
  BY <1>1, <1>5, <1>6, <1>7, <1>8, <1>9, <1>10, <1>11 DEF KInv

LEMMA UserdataAtSlot ==
  ASSUME IInv, IInv', KInv, UInv, NEW tbl, NEW i, AtSlot(tbl, i), UserdataAt(tbl, i)
  PROVE  UInv'
<1> DEFINE old == listeners[tbl][i]
           new == listeners'[tbl][i]
           before == log[old.reg].released
           after == log'[old.reg].released
<1>1. /\ tbl \in Tables /\ i \in Slots(tbl) /\ old # Free
      /\ OnlyAt(tbl, i) /\ OtherCalls(tbl, i) /\ CallAt(tbl, i)
  BY DEF AtSlot
<1>2. old.reg \in 1 .. Len(log)
  BY <1>1, SlotIs
<1>3. /\ new # Free => new.reg = old.reg
      /\ Len(log') = Len(log)
      /\ \A t \in Tables : \A j \in Slots(t) :
           t # tbl \/ j # i => listeners'[t][j] = listeners[t][j]
      /\ \A t \in 1 .. Len(log) : log'[t].request = log[t].request
      /\ \A t \in 1 .. Len(log) : t # old.reg => log'[t] = log[t]
  BY <1>1, <1>2 DEF OnlyAt
<1>4. \/ /\ after = before
         /\ IF new = Free THEN old.userdata = 0 ELSE new.userdata = old.userdata
      \/ /\ old.userdata # 0 /\ after = before + 1
         /\ new # Free => new.userdata = 0
  BY DEF UserdataAt
<1>5. /\ old.userdata \in {0, old.reg}
      /\ old.userdata # 0 => before = 0 /\ tbl = "id"
      /\ before \in {0, 1}
  BY <1>1, <1>2, SlotIs DEF UInv, UserdataInSlot, UserdataInLog
<1>6. UserdataInSlot'
  <2> SUFFICES ASSUME NEW t \in Tables, NEW j \in Slots(t), listeners'[t][j] # Free
               PROVE  LET lst == listeners'[t][j]
                      IN  /\ lst.userdata \in {0, lst.reg}
                          /\ lst.userdata # 0 => log'[lst.reg].released = 0
    BY DEF UserdataInSlot
  <2>1. CASE t = tbl /\ j = i
    BY <1>3, <1>4, <1>5, <2>1
  <2>2. CASE t # tbl \/ j # i
    <3>1. listeners'[t][j] = listeners[t][j] /\ listeners[t][j] # Free
      BY <1>3, <2>2
    <3>2. listeners[t][j].reg # old.reg /\ listeners[t][j].reg \in 1 .. Len(log)
      BY <1>1, <2>2, <3>1, SlotIs DEF KInv, OneSlot
    <3> QED
      BY <1>3, <3>1, <3>2 DEF UInv, UserdataInSlot
  <2> QED
    BY <2>1, <2>2
<1>7. UserdataInCall'
  <2> SUFFICES ASSUME NEW k \in 1 .. Len(stack'), Calling(stack'[k])
               PROVE  LET f == stack'[k]
                      IN  f.userdata = IF f.callback = "timeout" THEN 0
                                       ELSE listeners'[f.table][f.i].userdata
    BY DEF UserdataInCall, Calling
  <2>1. CASE CallingAt(stack'[k], tbl, i)
    BY <1>1, <2>1 DEF CallAt, CallingAt
  <2>2. CASE ~CallingAt(stack'[k], tbl, i)
    <3>1. k \in 1 .. Len(stack) /\ stack'[k] = stack[k]
      BY <1>1, <2>2 DEF OtherCalls
    <3> DEFINE f == stack[k]
    <3>2. /\ f.table \in Tables /\ f.i \in Slots(f.table)
          /\ f.userdata = IF f.callback = "timeout" THEN 0
                          ELSE listeners[f.table][f.i].userdata
      BY <3>1 DEF KInv, Attached, Held, UInv, UserdataInCall
    <3>3. f.table # tbl \/ f.i # i
      BY <2>2, <3>1 DEF CallingAt
    <3> QED
      BY <1>3, <3>1, <3>2, <3>3
  <2> QED
    BY <2>1, <2>2
<1>8. UserdataInLog'
  <2> SUFFICES ASSUME NEW t \in 1 .. Len(log)
               PROVE  /\ log'[t].released \in {0, 1}
                      /\ log'[t].request.userdata /\ log'[t].released = 0 =>
                           \E j \in Slots("id") :
                             /\ listeners'["id"][j] # Free /\ listeners'["id"][j].reg = t
                             /\ listeners'["id"][j].userdata = t
    BY <1>3 DEF UserdataInLog, Held, Tables
  <2>1. /\ log[t].released \in {0, 1} /\ log'[t].request = log[t].request
        /\ log[t].request.userdata /\ log[t].released = 0 =>
             \E j \in Slots("id") :
               /\ listeners["id"][j] # Free /\ listeners["id"][j].reg = t
               /\ listeners["id"][j].userdata = t
    BY <1>3 DEF UInv, UserdataInLog, Held
  <2>2. log'[t].released \in {0, 1}
    BY <1>3, <1>4, <1>5, <2>1
  <2>3. ASSUME log[t].request.userdata, log'[t].released = 0
        PROVE  \E j \in Slots("id") :
                 /\ listeners'["id"][j] # Free /\ listeners'["id"][j].reg = t
                 /\ listeners'["id"][j].userdata = t
    <3>1. log[t].released = 0
      BY <1>3, <1>4, <1>5, <2>3
    <3>2. PICK j \in Slots("id") :
            /\ listeners["id"][j] # Free /\ listeners["id"][j].reg = t
            /\ listeners["id"][j].userdata = t
      BY <2>1, <2>3, <3>1
    <3>3. CASE tbl = "id" /\ j = i
      <4>1. after = before /\ old.userdata = t /\ t # 0
        BY <2>3, <3>1, <3>2, <3>3
      <4>2. new # Free /\ new.userdata = t /\ new.reg = t
        BY <1>3, <1>4, <1>5, <3>2, <3>3, <4>1
      <4> QED
        BY <3>2, <3>3, <4>2
    <3>4. CASE tbl # "id" \/ j # i
      BY <1>3, <3>2, <3>4 DEF Tables
    <3> QED
      BY <3>3, <3>4
  <2> QED
    BY <2>1, <2>2, <2>3
<1> QED
  BY <1>6, <1>7, <1>8 DEF UInv

LEMMA TimeAtSlot ==
  ASSUME IInv, IInv', KInv, TInv, NEW tbl, NEW i, AtSlot(tbl, i), TimeAt(tbl, i)
  PROVE  TInv'
<1> DEFINE old == listeners[tbl][i]
           new == listeners'[tbl][i]
<1>1. /\ tbl \in Tables /\ i \in Slots(tbl) /\ old # Free /\ OnlyAt(tbl, i)
  BY DEF AtSlot
<1>2. old.reg \in 1 .. Len(log)
  BY <1>1, SlotIs
<1>3. /\ new # Free => new.reg = old.reg
      /\ Len(log') = Len(log)
      /\ \A t \in Tables : \A j \in Slots(t) :
           t # tbl \/ j # i => listeners'[t][j] = listeners[t][j]
      /\ \A t \in 1 .. Len(log) : t # old.reg => log'[t] = log[t]
  BY <1>1, <1>2 DEF OnlyAt
<1>4. TimeLeft'
  <2> SUFFICES ASSUME NEW j \in Slots("id"), listeners'["id"][j] # Free,
                      log'[listeners'["id"][j].reg].fate = "live"
               PROVE  OnTime(listeners'["id"][j], log'[listeners'["id"][j].reg], Ahead(j)')
    BY DEF TimeLeft, Ahead, OnTime
  <2>1. CASE tbl = "id" /\ j = i
    BY <1>3, <2>1 DEF TimeAt
  <2>2. CASE tbl # "id" \/ j # i
    <3>1. listeners'["id"][j] = listeners["id"][j] /\ listeners["id"][j] # Free
      BY <1>3, <2>2 DEF Tables
    <3>2. listeners["id"][j].reg # old.reg /\ listeners["id"][j].reg \in 1 .. Len(log)
      BY <1>1, <2>2, <3>1, SlotIs DEF KInv, OneSlot, Tables
    <3>3. Ahead(j)' = Ahead(j)
      BY <2>2, <3>1 DEF TimeAt
    <3> QED
      BY <1>3, <3>1, <3>2, <3>3 DEF TInv, TimeLeft
  <2> QED
    BY <2>1, <2>2
<1>5. TimeOut'
  <2> SUFFICES ASSUME NEW t \in 1 .. Len(log), log'[t].fate = "expired"
               PROVE  Expiry(log'[t])
    BY <1>3 DEF TimeOut, Expiry
  <2>1. CASE t = old.reg
    BY <2>1 DEF TimeAt
  <2>2. CASE t # old.reg
    BY <1>3, <2>2 DEF TInv, TimeOut, Expiry
  <2> QED
    BY <2>1, <2>2
<1> QED
  BY <1>4, <1>5 DEF TInv

LEMMA AllAtSlot ==
  ASSUME IInv, IInv', FInv, NEW tbl, NEW i,
         AtSlot(tbl, i), UserdataAt(tbl, i), TimeAt(tbl, i)
  PROVE  FInv'
BY KeptAtSlot, UserdataAtSlot, TimeAtSlot DEF FInv

(* Other steps change neither a slot nor what became of a registration.      *)
Quiet ==
  /\ UNCHANGED listeners
  /\ Len(log') = Len(log)
  /\ \A t \in 1 .. Len(log) :
       /\ log'[t].request = log[t].request /\ log'[t].fate = log[t].fate
       /\ log'[t].released = log[t].released
  /\ \A k \in 1 .. Len(stack) :
       Calling(stack[k]) => k \in 1 .. Len(stack') /\ stack'[k] = stack[k]
  /\ \A k \in 1 .. Len(stack') :
       Calling(stack'[k]) => k \in 1 .. Len(stack) /\ stack'[k] = stack[k]
  /\ Shape'

LEMMA KeptQuiet ==
  ASSUME IInv, IInv', KInv, UInv, Quiet
  PROVE  KInv' /\ UInv'
<1>1. \A tbl \in Tables : \A i \in Slots(tbl) :
        listeners[tbl][i] # Free => listeners[tbl][i].reg \in 1 .. Len(log)
  BY SlotIs
<1>2. listeners' = listeners /\ Len(log') = Len(log) /\ Shape'
  BY DEF Quiet
<1>3. ASSUME NEW k \in 1 .. Len(stack'), Calling(stack'[k])
      PROVE  /\ k \in 1 .. Len(stack) /\ stack'[k] = stack[k]
             /\ Held(stack[k].reg, stack[k].table, stack[k].i)
             /\ stack[k].reg \in 1 .. Len(log)
  <2>1. k \in 1 .. Len(stack) /\ stack'[k] = stack[k]
    BY <1>3 DEF Quiet
  <2>2. Held(stack[k].reg, stack[k].table, stack[k].i)
    BY <1>3, <2>1 DEF KInv, Attached
  <2> QED
    BY <1>1, <2>1, <2>2 DEF Held
<1>4. Attached'
  <2> SUFFICES ASSUME NEW k \in 1 .. Len(stack'), Calling(stack'[k])
               PROVE  LET f == stack'[k]
                      IN  /\ f.table \in Tables /\ f.i \in Slots(f.table)
                          /\ listeners'[f.table][f.i] # Free
                          /\ listeners'[f.table][f.i].reg = f.reg
                          /\ f.callback # "listener" =>
                               f.table = "id" /\ log'[f.reg].fate # "live"
    BY DEF Attached, Held, Calling
  <2> QED
    BY <1>2, <1>3 DEF Quiet, KInv, Attached, Held
<1>5. Apart'
  BY <1>3 DEF KInv, Apart, Calling
<1>6. OneSlot'
  BY <1>2 DEF KInv, OneSlot
<1>7. Faithful'
  BY <1>1, <1>2 DEF KInv, Faithful, Quiet
<1>8. Requested'
  BY <1>2 DEF KInv, Requested, Quiet
<1>9. LiveHeld'
  BY <1>2 DEF KInv, LiveHeld, Held, Quiet
<1>10. Leaving'
  <2> SUFFICES ASSUME NEW t \in Tables, NEW j \in Slots(t), listeners[t][j] # Free,
                      log'[listeners[t][j].reg].fate # "live"
               PROVE  \E k \in 1 .. Len(stack') :
                        /\ stack'[k].callback \in {"timeout", "cleanup"}
                        /\ CallingAt(stack'[k], t, j)
    BY <1>2 DEF Leaving, CallingAt, Calling
  <2>1. log[listeners[t][j].reg].fate # "live"
    BY <1>1 DEF Quiet
  <2>2. PICK k \in 1 .. Len(stack) :
          stack[k].callback \in {"timeout", "cleanup"} /\ CallingAt(stack[k], t, j)
    BY <2>1 DEF KInv, Leaving
  <2>3. k \in 1 .. Len(stack') /\ stack'[k] = stack[k]
    BY <2>2 DEF Quiet, CallingAt
  <2> QED
    BY <2>2, <2>3
<1>11. UserdataInSlot'
  BY <1>1, <1>2 DEF UInv, UserdataInSlot, Quiet
<1>12. UserdataInCall'
  <2> SUFFICES ASSUME NEW k \in 1 .. Len(stack'), Calling(stack'[k])
               PROVE  LET f == stack'[k]
                      IN  f.userdata = IF f.callback = "timeout" THEN 0
                                       ELSE listeners'[f.table][f.i].userdata
    BY DEF UserdataInCall, Calling
  <2> QED
    BY <1>2, <1>3 DEF UInv, UserdataInCall
<1>13. UserdataInLog'
  BY <1>2 DEF UInv, UserdataInLog, Held, Quiet
<1> QED
  BY <1>2, <1>4, <1>5, <1>6, <1>7, <1>8, <1>9, <1>10, <1>11, <1>12, <1>13 DEF KInv, UInv

LEMMA AllQuiet ==
  ASSUME IInv, IInv', FInv, Quiet, UNCHANGED log,
         \A j \in Slots("id") :
           listeners["id"][j] # Free /\ listeners["id"][j].timeout > 0 =>
             Ahead(j)' = Ahead(j)
  PROVE  FInv'
<1>1. KInv' /\ UInv'
  BY KeptQuiet DEF FInv
<1>2. listeners' = listeners /\ log' = log
  BY DEF Quiet
<1>3. TimeLeft'
  <2> SUFFICES ASSUME NEW j \in Slots("id"), listeners["id"][j] # Free,
                      log[listeners["id"][j].reg].fate = "live"
               PROVE  OnTime(listeners["id"][j], log[listeners["id"][j].reg], Ahead(j)')
    BY <1>2 DEF TimeLeft, Ahead, OnTime
  <2>1. OnTime(listeners["id"][j], log[listeners["id"][j].reg], Ahead(j))
    BY DEF FInv, TInv, TimeLeft
  <2>2. CASE listeners["id"][j].timeout > 0
    BY <2>1, <2>2
  <2>3. CASE ~(listeners["id"][j].timeout > 0)
    <3>1. ~(listeners["id"][j].timeout_max > 0)
      BY <2>1, <2>3 DEF OnTime
    <3> QED
      BY <2>1, <3>1 DEF OnTime
  <2> QED
    BY <2>2, <2>3
<1>4. TimeOut'
  BY <1>2 DEF FInv, TInv, TimeOut
<1> QED
  BY <1>1, <1>3, <1>4 DEF FInv, TInv

-----------------------------------------------------------------------------
(* The user's calls.                                                         *)

LEMMA AheadInTick ==
  ASSUME IInv, NEW i, Ahead(i)
  PROVE  InTick
BY StackIs DEF Ahead, InTick

\* A listener whose timeout begins now is on time.
LEMMA FreshOnTime ==
  ASSUME IInv, NEW lst, lst.timeout \in Nat, lst.timeout = lst.timeout_max,
         NEW e, e.age = 0, e.early = InTick, NEW i
  PROVE  OnTime(lst, e, Ahead(i))
<1>1. CASE Ahead(i)
  <2>1. e.early
    BY <1>1, AheadInTick
  <2> QED
    BY <1>1, <2>1 DEF OnTime
<1>2. CASE ~Ahead(i)
  BY <1>2 DEF OnTime
<1> QED
  BY <1>1, <1>2

LEMMA AddListenerKeeps ==
  ASSUME IInv, IInv', FInv, NEW r \in Requests, AddListener(r)
  PROVE  FInv'
<1> DEFINE tbl == r.table
           n == Len(log) + 1
           x == [reg |-> n, key |-> r.key, timeout |-> r.timeout,
                 timeout_max |-> r.timeout, fn_timeout |-> r.fn_timeout,
                 userdata |-> IF r.userdata THEN n ELSE 0]
           e == [request |-> r, fate |-> "live", age |-> 0, early |-> InTick,
                 released |-> 0]
<1>1. PICK i \in Slots(tbl) :
        /\ listeners[tbl][i] = Free
        /\ listeners' = [listeners EXCEPT ![tbl][i] = x]
  BY DEF AddListener, First
<1>2. /\ r \in Request /\ tbl \in Tables /\ r.timeout \in Nat
      /\ r.userdata => tbl = "id"
  BY ListenerAssumption DEF Request
<1>3. log' = Append(log, e) /\ UNCHANGED stack /\ Len(log) < MaxRegs
  BY DEF AddListener
<1>4. /\ log \in Seq(Entry) /\ Len(log) \in Nat /\ n \in 1 .. MaxRegs /\ n # 0
      /\ MaxRegs \in Nat
  BY <1>3, LenProperties, ListenerAssumption DEF IInv, LogOK
<1>5. /\ x.reg = n /\ x.timeout = r.timeout /\ x.timeout_max = r.timeout
      /\ x.userdata = IF r.userdata THEN n ELSE 0
  OBVIOUS
<1>6. /\ e.request = r /\ e.fate = "live" /\ e.age = 0 /\ e.early = InTick
      /\ e.released = 0
  OBVIOUS
<1>7. e \in Entry
  BY <1>2 DEF Entry, InTick
<1>8. x \in Listener
  <2>1. (IF r.userdata THEN n ELSE 0) \in 0 .. MaxRegs
    BY <1>4
  <2> HIDE DEF n
  <2> QED
    BY <1>2, <1>4, <2>1 DEF Listener, Request
<1> HIDE DEF x, e, tbl
<1>9. /\ Len(log') = n /\ log'[n] = e
      /\ \A t \in 1 .. Len(log) : log'[t] = log[t]
  BY <1>3, <1>4, <1>7, AppendProperties
<1>10. \A t \in Tables : \A j \in Slots(t) :
         listeners'[t][j] = IF t = tbl /\ j = i THEN x ELSE listeners[t][j]
  <2>1. x \in Listener \cup {Free} /\ i \in Nat /\ TablesOK /\ tbl \in Tables
    BY <1>2, <1>8, SizeType DEF Slots, IInv
  <2>2. listeners' = [listeners EXCEPT ![tbl][i] = x]
    BY <1>1
  <2> QED
    BY <2>1, <2>2, SetSlot
<1>11. x # Free
  BY <1>8, FreeIsNoListener
<1>12. \A t \in Tables : \A j \in Slots(t) : listeners[t][j] # Free =>
         listeners[t][j].reg \in 1 .. Len(log) /\ listeners'[t][j] = listeners[t][j]
  BY <1>1, <1>10, SlotIs DEF FInv
<1>13. \A t \in Tables : \A j \in Slots(t) : listeners'[t][j] # Free =>
         \/ t = tbl /\ j = i /\ listeners'[t][j] = x
         \/ listeners[t][j] # Free /\ listeners'[t][j] = listeners[t][j]
  BY <1>10
<1> HIDE DEF n
<1>14. \A t \in 1 .. n : t = n \/ t \in 1 .. Len(log)
  BY <1>4 DEF n
<1>15. \A t \in 1 .. Len(log) : t # n /\ t \in 1 .. n
  BY <1>4 DEF n
<1>16. stack' = stack
  BY <1>3
<1>17. \A k \in 1 .. Len(stack) : Calling(stack[k]) =>
         LET f == stack[k]
         IN  /\ f.table \in Tables /\ f.i \in Slots(f.table)
             /\ listeners[f.table][f.i] # Free /\ listeners[f.table][f.i].reg = f.reg
             /\ listeners'[f.table][f.i] = listeners[f.table][f.i]
             /\ f.reg \in 1 .. Len(log)
  BY <1>12 DEF FInv, KInv, Attached, Held
<1>18. Shape' /\ Apart'
  BY <1>16 DEF FInv, KInv, Shape, Apart, Calling
<1>19. Attached'
  BY <1>9, <1>16, <1>17 DEF FInv, KInv, Attached, Held, Calling
<1>20. OneSlot'
  BY <1>5, <1>12, <1>13, <1>15 DEF FInv, KInv, OneSlot
<1>21. Requested'
  BY <1>6, <1>9, <1>14 DEF FInv, KInv, Requested
<1>22. Faithful'
  <2> SUFFICES ASSUME NEW t \in Tables, NEW j \in Slots(t), listeners'[t][j] # Free
               PROVE  LET lst == listeners'[t][j]
                      IN  /\ lst.reg <= Len(log')
                          /\ log'[lst.reg].request.table = t
                          /\ log'[lst.reg].request.timeout = lst.timeout_max
                          /\ lst.userdata # 0 => log'[lst.reg].request.userdata
    BY DEF Faithful
  <2>1. CASE t = tbl /\ j = i /\ listeners'[t][j] = x
    BY <1>4, <1>5, <1>6, <1>9, <2>1 DEF tbl
  <2>2. CASE listeners[t][j] # Free /\ listeners'[t][j] = listeners[t][j]
    BY <1>4, <1>9, <1>12, <1>15, <2>2 DEF FInv, KInv, Faithful
  <2> QED
    BY <1>13, <2>1, <2>2
<1>23. LiveHeld'
  <2> SUFFICES ASSUME NEW t \in 1 .. n, log'[t].fate = "live"
               PROVE  \E s \in Tables : \E j \in Slots(s) :
                        listeners'[s][j] # Free /\ listeners'[s][j].reg = t
    BY <1>9 DEF LiveHeld, Held
  <2>1. CASE t = n
    BY <1>2, <1>5, <1>10, <1>11, <2>1
  <2>2. CASE t \in 1 .. Len(log)
    BY <1>9, <1>12, <2>2 DEF FInv, KInv, LiveHeld, Held
  <2> QED
    BY <1>14, <2>1, <2>2
<1>24. Leaving'
  <2> SUFFICES ASSUME NEW t \in Tables, NEW j \in Slots(t), listeners'[t][j] # Free,
                      log'[listeners'[t][j].reg].fate # "live"
               PROVE  \E k \in 1 .. Len(stack) :
                        /\ stack[k].callback \in {"timeout", "cleanup"}
                        /\ CallingAt(stack[k], t, j)
    BY <1>16 DEF Leaving, CallingAt, Calling
  <2>1. listeners[t][j] # Free /\ listeners'[t][j] = listeners[t][j]
    BY <1>5, <1>6, <1>9, <1>13
  <2> QED
    BY <1>9, <1>12, <2>1 DEF FInv, KInv, Leaving
<1>25. KInv'
  BY <1>18, <1>19, <1>20, <1>21, <1>22, <1>23, <1>24 DEF KInv
<1>26. UserdataInSlot'
  <2> SUFFICES ASSUME NEW t \in Tables, NEW j \in Slots(t), listeners'[t][j] # Free
               PROVE  LET lst == listeners'[t][j]
                      IN  /\ lst.userdata \in {0, lst.reg}
                          /\ lst.userdata # 0 => log'[lst.reg].released = 0
    BY DEF UserdataInSlot
  <2>1. CASE t = tbl /\ j = i /\ listeners'[t][j] = x
    BY <1>5, <1>6, <1>9, <2>1
  <2>2. CASE listeners[t][j] # Free /\ listeners'[t][j] = listeners[t][j]
    BY <1>9, <1>12, <2>2 DEF FInv, UInv, UserdataInSlot
  <2> QED
    BY <1>13, <2>1, <2>2
<1>27. UserdataInCall'
  BY <1>16, <1>17 DEF FInv, UInv, UserdataInCall, Calling
<1>28. UserdataInLog'
  <2> SUFFICES ASSUME NEW t \in 1 .. n
               PROVE  /\ log'[t].released \in {0, 1}
                      /\ log'[t].request.userdata /\ log'[t].released = 0 =>
                           \E j \in Slots("id") :
                             /\ listeners'["id"][j] # Free /\ listeners'["id"][j].reg = t
                             /\ listeners'["id"][j].userdata = t
    BY <1>9 DEF UserdataInLog, Held, Tables
  <2>1. CASE t = n
    <3>1. log'[t] = e /\ log'[t].released = 0 /\ log'[t].request = r
      BY <1>6, <1>9, <2>1
    <3>2. ASSUME r.userdata
          PROVE  /\ i \in Slots("id") /\ listeners'["id"][i] # Free
                 /\ listeners'["id"][i].reg = t /\ listeners'["id"][i].userdata = t
      BY <1>2, <1>5, <1>10, <1>11, <2>1, <3>2
    <3> QED
      BY <3>1, <3>2
  <2>2. CASE t \in 1 .. Len(log)
    BY <1>9, <1>12, <2>2 DEF FInv, UInv, UserdataInLog, Held, Tables
  <2> QED
    BY <1>14, <2>1, <2>2
<1>29. TimeLeft'
  <2> SUFFICES ASSUME NEW j \in Slots("id"), listeners'["id"][j] # Free,
                      log'[listeners'["id"][j].reg].fate = "live"
               PROVE  OnTime(listeners'["id"][j], log'[listeners'["id"][j].reg], Ahead(j))
    BY <1>16 DEF TimeLeft, Ahead, OnTime
  <2>1. CASE "id" = tbl /\ j = i /\ listeners'["id"][j] = x
    BY <1>2, <1>5, <1>6, <1>9, <2>1, FreshOnTime
  <2>2. CASE listeners["id"][j] # Free /\ listeners'["id"][j] = listeners["id"][j]
    BY <1>9, <1>12, <2>2 DEF FInv, TInv, TimeLeft, Tables
  <2> QED
    BY <1>13, <2>1, <2>2 DEF Tables
<1>30. TimeOut'
  BY <1>6, <1>9, <1>14 DEF FInv, TInv, TimeOut
<1> QED
  BY <1>25, <1>26, <1>27, <1>28, <1>29, <1>30 DEF FInv, UInv, TInv

(* A slot is cleared, or its listener gets other timeouts or userdata.       *)
LEMMA DiscardIs ==
  ASSUME IInv, NEW tbl \in Tables, NEW i \in Slots(tbl), Discard(tbl, i)
  PROVE  /\ listeners'[tbl][i] = Free
         /\ \A t \in Tables : \A j \in Slots(t) :
              t # tbl \/ j # i => listeners'[t][j] = listeners[t][j]
<1>1. listeners' = [listeners EXCEPT ![tbl][i] = Free]
  BY DEF Discard
<1>2. Free \in Listener \cup {Free} /\ i \in Nat /\ TablesOK
  BY SizeType DEF Slots, IInv
<1>3. \A t \in Tables : \A j \in Slots(t) :
        listeners'[t][j] = IF t = tbl /\ j = i THEN Free ELSE listeners[t][j]
  BY <1>1, <1>2, SetSlot
<1> QED
  BY <1>3

LEMMA RetouchIs ==
  ASSUME IInv, NEW tbl \in Tables, NEW i \in Slots(tbl), NEW x \in Listener,
         listeners' = [listeners EXCEPT ![tbl][i] = x]
  PROVE  /\ listeners'[tbl][i] = x /\ x # Free
         /\ \A t \in Tables : \A j \in Slots(t) :
              t # tbl \/ j # i => listeners'[t][j] = listeners[t][j]
<1>1. x \in Listener \cup {Free} /\ i \in Nat /\ TablesOK
  BY SizeType DEF Slots, IInv
<1>2. \A t \in Tables : \A j \in Slots(t) :
        listeners'[t][j] = IF t = tbl /\ j = i THEN x ELSE listeners[t][j]
  BY <1>1, SetSlot
<1> QED
  BY <1>2, FreeIsNoListener

\* An update of the log that only ends a registration.
LEMMA EndedAt ==
  ASSUME IInv, NEW reg \in 1 .. Len(log), NEW fate \in {"closed", "removed", "expired"},
         log' = Ended(log, reg, fate)
  PROVE  /\ Len(log') = Len(log)
         /\ log'[reg].request = log[reg].request /\ log'[reg].age = log[reg].age
         /\ log'[reg].early = log[reg].early /\ log'[reg].released = log[reg].released
         /\ log'[reg].fate = IF log[reg].fate = "live" THEN fate ELSE log[reg].fate
         /\ \A t \in 1 .. Len(log) : t # reg => log'[t] = log[t]
<1>1. log \in Seq(Entry)
  BY DEF IInv, LogOK
<1> QED
  BY <1>1, EndedIs, EndedType

(* A listener called for the last time has not been called already.          *)
LEMMA NotInCall ==
  ASSUME IInv, FInv, NEW tbl \in Tables, NEW i \in Slots(tbl), ~InCall(tbl, i),
         listeners[tbl][i] # Free
  PROVE  /\ \A k \in 1 .. Len(stack) : ~CallingAt(stack[k], tbl, i)
         /\ log[listeners[tbl][i].reg].fate = "live"
<1>1. \A k \in 1 .. Len(stack) : ~CallingAt(stack[k], tbl, i)
  BY StackIs DEF InCall, CallingAt, Calling
<1> QED
  BY <1>1 DEF FInv, KInv, Leaving

LEMMA RemoveListenerKeeps ==
  ASSUME IInv, IInv', FInv, Careful, NEW tbl \in Tables, NEW key,
         RemoveListener(tbl, key)
  PROVE  FInv'
<1>1. PICK i \in Listening(tbl) :
        LET lst == listeners[tbl][i]
        IN  /\ ~InCall(tbl, i)
            /\ log' = Ended(log, lst.reg, "removed")
            /\ \/ /\ lst.userdata = 0 /\ Discard(tbl, i) /\ UNCHANGED stack
               \/ /\ lst.userdata # 0
                  /\ stack' = Append(stack, [op |-> "remove", table |-> tbl, i |-> i,
                                             callback |-> "cleanup", reg |-> lst.reg,
                                             userdata |-> lst.userdata])
                  /\ UNCHANGED <<listeners, count>>
  BY DEF RemoveListener, Careful
<1> DEFINE lst == listeners[tbl][i]
<1>2. /\ i \in Slots(tbl) /\ lst # Free /\ i \in Nat /\ lst.reg \in 1 .. Len(log)
      /\ lst.reg \in Nat /\ lst.userdata \in 0 .. MaxRegs
      /\ lst.userdata # 0 => tbl = "id"
  BY ListeningType, SlotIs DEF FInv
<1>3. /\ \A k \in 1 .. Len(stack) : ~CallingAt(stack[k], tbl, i)
      /\ log[lst.reg].fate = "live"
  BY <1>1, <1>2, NotInCall
<1>4. /\ Len(log') = Len(log) /\ log'[lst.reg].request = log[lst.reg].request
      /\ log'[lst.reg].released = log[lst.reg].released
      /\ log'[lst.reg].fate = "removed"
      /\ \A t \in 1 .. Len(log) : t # lst.reg => log'[t] = log[t]
  BY <1>1, <1>2, <1>3, EndedAt
<1>5. CASE lst.userdata = 0 /\ Discard(tbl, i) /\ UNCHANGED stack
  <2>1. /\ listeners'[tbl][i] = Free
        /\ \A t \in Tables : \A j \in Slots(t) :
             t # tbl \/ j # i => listeners'[t][j] = listeners[t][j]
    BY <1>2, <1>5, DiscardIs
  <2>2. stack' = stack /\ Shape'
    BY <1>5 DEF FInv, KInv, Shape, Calling
  <2>3. AtSlot(tbl, i)
    BY <1>2, <1>3, <1>4, <2>1, <2>2
       DEF AtSlot, OnlyAt, OtherCalls, CallAt, LeavingAt
  <2>4. UserdataAt(tbl, i)
    BY <1>4, <1>5, <2>1 DEF UserdataAt
  <2>5. TimeAt(tbl, i)
    BY <1>4, <2>1, <2>2 DEF TimeAt, Ahead
  <2> QED
    BY <2>3, <2>4, <2>5, AllAtSlot
<1>6. CASE /\ lst.userdata # 0
           /\ stack' = Append(stack, [op |-> "remove", table |-> tbl, i |-> i,
                                      callback |-> "cleanup", reg |-> lst.reg,
                                      userdata |-> lst.userdata])
           /\ UNCHANGED <<listeners, count>>
  <2>1. PICK f : f = [op |-> "remove", table |-> tbl, i |-> i, callback |-> "cleanup",
                      reg |-> lst.reg, userdata |-> lst.userdata]
    OBVIOUS
  <2>2. /\ f \in Activation /\ f.op = "remove" /\ f.table = tbl /\ f.i = i
        /\ f.callback = "cleanup" /\ f.reg = lst.reg /\ f.userdata = lst.userdata
    BY <1>2, <2>1 DEF Activation, Removal
  <2> DEFINE n == Len(stack)
  <2>3. /\ Len(stack') = n + 1 /\ stack'[n + 1] = f /\ n \in Nat
        /\ \A k \in 1 .. n : stack'[k] = stack[k]
    BY <1>6, <2>1, <2>2, PushIs, StackIs
  <2>4. \A k \in 1 .. n : k \in 1 .. n + 1 /\ k # n + 1
    BY <2>3
  <2>5. \A k \in 1 .. n + 1 : k = n + 1 \/ k \in 1 .. n
    BY <2>3
  <2>6. n + 1 \in 1 .. n + 1
    BY <2>3
  <2>7. listeners' = listeners
    BY <1>6
  <2>8. Shape'
    <3>1. UserRuns
      BY DEF RemoveListener
    <3>2. n > 0 => Calling(stack[n])
      BY <2>3, <3>1, StackIs, EmptySeq DEF UserRuns, Calling
    <3>3. ASSUME NEW k \in 1 .. n + 1
          PROVE  /\ k > 1 => stack'[k].op = "remove"
                 /\ k < n + 1 => stack'[k].callback # "none"
                 /\ stack'[k].op = "tick" /\ stack'[k].callback = "none" =>
                      stack'[k].userdata = 0
      BY <2>2, <2>3, <2>5, <3>2 DEF FInv, KInv, Shape, Calling
    <3> QED
      BY <2>3, <3>3 DEF Shape, Calling
  <2> HIDE DEF n
  <2>9. OnlyAt(tbl, i)
    BY <1>4, <2>7 DEF OnlyAt
  <2>10. OtherCalls(tbl, i)
    BY <2>2, <2>3, <2>4, <2>5 DEF OtherCalls, CallingAt, Calling, n
  <2>11. CallAt(tbl, i)
    <3>1. \A k \in 1 .. n + 1 : CallingAt(stack'[k], tbl, i) => k = n + 1
      BY <1>3, <2>3, <2>5 DEF n
    <3>2. /\ listeners'[tbl][i] = lst
          /\ f.reg = lst.reg /\ f.userdata = lst.userdata /\ f.callback = "cleanup"
          /\ tbl = "id" /\ log'[f.reg].fate # "live"
      BY <1>2, <1>4, <1>6, <2>2, <2>7
    <3> HIDE DEF lst
    <3> QED
      BY <1>2, <2>3, <3>1, <3>2 DEF CallAt
  <2>12. LeavingAt(tbl, i)
    BY <1>2, <2>2, <2>3, <2>6, <2>7 DEF LeavingAt, CallingAt, Calling
  <2>13. AtSlot(tbl, i)
    BY <1>2, <2>8, <2>9, <2>10, <2>11, <2>12 DEF AtSlot
  <2>14. UserdataAt(tbl, i)
    BY <1>2, <1>4, <2>7 DEF UserdataAt
  <2>15. TimeAt(tbl, i)
    <3>1. \A j : Ahead(j)' = Ahead(j)
      <4>1. n = 0 => stack = << >>
        BY EmptySeq, StackIs DEF n
      <4>2. stack' # << >>
        BY <2>3, EmptySeq
      <4>3. stack = << >> => n = 0
        BY EmptySeq DEF n
      <4> QED
        BY <2>2, <2>3, <4>1, <4>2, <4>3 DEF Ahead
    <3> QED
      BY <1>4, <3>1 DEF TimeAt
  <2> QED
    BY <2>13, <2>14, <2>15, AllAtSlot
<1> QED
  BY <1>1, <1>5, <1>6

LEMMA RenewedAt ==
  ASSUME IInv, NEW reg \in 1 .. Len(log), log' = Renewed(log, reg)
  PROVE  /\ Len(log') = Len(log)
         /\ log'[reg].request = log[reg].request /\ log'[reg].fate = log[reg].fate
         /\ log'[reg].released = log[reg].released
         /\ log[reg].fate = "live" => log'[reg].age = 0 /\ log'[reg].early = InTick
         /\ log[reg].fate # "live" => log'[reg].age = log[reg].age
                                      /\ log'[reg].early = log[reg].early
         /\ \A t \in 1 .. Len(log) : t # reg => log'[t] = log[t]
<1>1. log \in Seq(Entry)
  BY DEF IInv, LogOK
<1> QED
  BY <1>1, RenewedIs, RenewedType

LEMMA RenewIdListenerKeeps ==
  ASSUME IInv, IInv', FInv, NEW key, RenewIdListener(key)
  PROVE  FInv'
<1>1. PICK i \in Listening("id") :
        /\ listeners' = [listeners EXCEPT !["id"][i].timeout = listeners["id"][i].timeout_max]
        /\ log' = Renewed(log, listeners["id"][i].reg)
        /\ UNCHANGED stack
  BY DEF RenewIdListener
<1> DEFINE lst == listeners["id"][i]
           x == [lst EXCEPT !.timeout = lst.timeout_max]
<1>2. "id" \in Tables
  BY DEF Tables
<1>3. /\ i \in Slots("id") /\ lst # Free /\ lst \in Listener /\ lst.reg \in 1 .. Len(log)
      /\ lst.timeout_max \in Nat
  BY <1>2, ListeningType, SlotIs DEF FInv
<1>4. /\ x \in Listener /\ x.reg = lst.reg /\ x.timeout_max = lst.timeout_max
      /\ x.timeout = lst.timeout_max /\ x.userdata = lst.userdata
  <2> HIDE DEF lst
  <2> QED
    BY <1>3 DEF Listener
<1>5. listeners' = [listeners EXCEPT !["id"][i] = x]
  BY <1>1
<1> HIDE DEF x
<1>6. /\ listeners'["id"][i] = x /\ x # Free
      /\ \A t \in Tables : \A j \in Slots(t) :
           t # "id" \/ j # i => listeners'[t][j] = listeners[t][j]
  BY <1>2, <1>3, <1>4, <1>5, RetouchIs
<1>7. /\ Len(log') = Len(log)
      /\ log'[lst.reg].request = log[lst.reg].request
      /\ log'[lst.reg].fate = log[lst.reg].fate
      /\ log'[lst.reg].released = log[lst.reg].released
      /\ log[lst.reg].fate = "live" => log'[lst.reg].age = 0 /\ log'[lst.reg].early = InTick
      /\ log[lst.reg].fate # "live" => log'[lst.reg].age = log[lst.reg].age
                                       /\ log'[lst.reg].early = log[lst.reg].early
      /\ \A t \in 1 .. Len(log) : t # lst.reg => log'[t] = log[t]
  BY <1>1, <1>3, RenewedAt
<1>8. stack' = stack /\ Shape'
  BY <1>1 DEF FInv, KInv, Shape, Calling
<1>9. OnlyAt("id", i)
  BY <1>4, <1>6, <1>7 DEF OnlyAt
<1>10. OtherCalls("id", i)
  BY <1>8 DEF OtherCalls
<1>11. CallAt("id", i)
  <2>1. ASSUME NEW k \in 1 .. Len(stack), CallingAt(stack[k], "id", i)
        PROVE  LET f == stack[k]
               IN  /\ x.reg = f.reg
                   /\ f.callback # "listener" => log'[f.reg].fate # "live"
                   /\ f.userdata = IF f.callback = "timeout" THEN 0 ELSE x.userdata
    <3>1. Calling(stack[k]) /\ stack[k].table = "id" /\ stack[k].i = i
      BY <2>1 DEF CallingAt
    <3>2. /\ Held(stack[k].reg, "id", i)
          /\ stack[k].callback # "listener" => log[stack[k].reg].fate # "live"
      BY <3>1 DEF FInv, KInv, Attached
    <3>3. stack[k].reg = lst.reg
      BY <3>2 DEF Held
    <3>4. stack[k].userdata = IF stack[k].callback = "timeout" THEN 0 ELSE lst.userdata
      BY <3>1 DEF FInv, UInv, UserdataInCall
    <3> QED
      BY <1>4, <1>7, <3>2, <3>3, <3>4
  <2> QED
    BY <1>6, <1>8, <2>1 DEF FInv, KInv, Apart, CallAt, CallingAt
<1>12. LeavingAt("id", i)
  BY <1>2, <1>3, <1>6, <1>7, <1>8 DEF FInv, KInv, Leaving, LeavingAt
<1>13. AtSlot("id", i)
  BY <1>2, <1>3, <1>8, <1>9, <1>10, <1>11, <1>12 DEF AtSlot
<1>14. UserdataAt("id", i)
  BY <1>4, <1>6, <1>7 DEF UserdataAt
<1>15. TimeAt("id", i)
  <2>1. \A j : Ahead(j)' = Ahead(j)
    BY <1>8 DEF Ahead
  <2>2. ASSUME log'[lst.reg].fate = "live"
        PROVE  OnTime(x, log'[lst.reg], Ahead(i)')
    BY <1>3, <1>4, <1>7, <2>1, <2>2, FreshOnTime
  <2>3. ASSUME log'[lst.reg].fate = "expired"
        PROVE  Expiry(log'[lst.reg])
    BY <1>3, <1>7, <2>3 DEF FInv, TInv, TimeOut, Expiry
  <2> QED
    BY <1>6, <2>1, <2>2, <2>3 DEF TimeAt
<1> QED
  BY <1>13, <1>14, <1>15, AllAtSlot

-----------------------------------------------------------------------------
(* The dispatch of a message.                                                *)

(* The activation that runs a loop is alone.                                 *)
LEMMA Alone ==
  ASSUME IInv, FInv, stack # << >>, Top.op # "remove"
  PROVE  /\ Len(stack) = 1 /\ stack[1] = Top
         /\ \A k \in 1 .. Len(stack) : k = 1
<1>1. Len(stack) \in Nat /\ Len(stack) > 0 /\ Top = stack[Len(stack)]
  BY StackIs
<1>2. Len(stack) \in 1 .. Len(stack)
  BY <1>1
<1>3. ~(Len(stack) > 1)
  BY <1>1, <1>2 DEF FInv, KInv, Shape
<1>4. Len(stack) = 1
  BY <1>1, <1>3
<1> QED
  BY <1>1, <1>4

LEMMA AloneBecomes ==
  ASSUME IInv, FInv, stack # << >>, Top.op # "remove", NEW f \in Activation, Become(f),
         f.op = "tick" /\ f.callback = "none" => f.userdata = 0
  PROVE  /\ Len(stack') = 1 /\ stack'[1] = f /\ stack' # << >> /\ Shape'
         /\ \A k \in 1 .. Len(stack') : k = 1
<1>1. Len(stack) = 1
  BY Alone
<1>2. Len(stack') = 1 /\ stack'[1] = f
  BY <1>1, BecomeIs
<1>3. stack' # << >>
  BY <1>2, EmptySeq
<1> QED
  BY <1>2, <1>3 DEF Shape, Calling

LEMMA AloneReturns ==
  ASSUME IInv, FInv, stack # << >>, Top.op # "remove", Return
  PROVE  stack' = << >> /\ Len(stack') = 0 /\ Shape'
<1>1. Len(stack) = 1
  BY Alone
<1>2. Len(stack') = 0
  BY <1>1, ReturnIs
<1>3. Below \in Seq(Activation) /\ stack' = Below
  BY TopType DEF IInv, Return
<1>4. stack' = << >>
  BY <1>2, <1>3, EmptySeq
<1> QED
  BY <1>2, <1>4 DEF Shape

LEMMA HandleReceivedMessageKeeps ==
  ASSUME IInv, IInv', FInv, NEW m \in Messages, HandleReceivedMessage(m)
  PROVE  FInv'
<1>1. PICK f : f = [op |-> "dispatch", table |-> "id", i |-> 0, callback |-> "none",
                    reg |-> 0, userdata |-> 0, msg |-> m, before |-> Len(log),
                    offered |-> {}]
  OBVIOUS
<1>2. /\ stack = << >> /\ stack' = <<f>> /\ UNCHANGED <<listeners, count, log>>
  BY <1>1 DEF HandleReceivedMessage
<1>3. Len(stack) = 0 /\ Len(stack') = 1 /\ stack'[1] = f
  BY <1>2
<1>4. f.op = "dispatch" /\ f.callback = "none"
  BY <1>1
<1>5. Quiet
  BY <1>2, <1>3, <1>4 DEF Quiet, Calling, Shape
<1>6. \A j : Ahead(j)' = Ahead(j)
  BY <1>2, <1>3, <1>4 DEF Ahead
<1>7. UNCHANGED log
  BY <1>2
<1> QED
  BY <1>5, <1>6, <1>7, AllQuiet

\* A dispatch that goes on, or returns, between two callbacks.
LEMMA DispatchQuiet ==
  ASSUME IInv, IInv', FInv, Dispatching, UNCHANGED <<listeners, log>>,
         \/ Return
         \/ \E f \in Activation : f.op = "dispatch" /\ f.callback = "none" /\ Become(f)
  PROVE  FInv'
<1>1. /\ stack # << >> /\ Top.op = "dispatch" /\ Top.callback = "none"
      /\ listeners' = listeners /\ log' = log
  BY DEF Dispatching
<1>2. /\ Len(stack) = 1 /\ stack[1] = Top
      /\ \A k \in 1 .. Len(stack) : k = 1
  BY <1>1, Alone
<1>3. CASE Return
  <2>1. stack' = << >> /\ Len(stack') = 0 /\ Shape'
    BY <1>1, <1>3, AloneReturns
  <2>2. Quiet
    BY <1>1, <1>2, <2>1 DEF Quiet, Calling
  <2>3. \A j : Ahead(j)' = Ahead(j)
    BY <1>1, <1>2, <2>1 DEF Ahead
  <2> QED
    BY <1>1, <2>2, <2>3, AllQuiet
<1>4. ASSUME NEW f \in Activation, f.op = "dispatch", f.callback = "none", Become(f)
      PROVE  FInv'
  <2>1. /\ Len(stack') = 1 /\ stack'[1] = f /\ Shape'
        /\ \A k \in 1 .. Len(stack') : k = 1
    BY <1>1, <1>4, AloneBecomes
  <2>2. Quiet
    BY <1>1, <1>2, <1>4, <2>1 DEF Quiet, Calling
  <2>3. \A j : Ahead(j)' = Ahead(j)
    BY <1>1, <1>2, <1>4, <2>1 DEF Ahead
  <2> QED
    BY <1>1, <2>2, <2>3, AllQuiet
<1> QED
  BY <1>3, <1>4

LEMMA SkipSlotKeeps ==
  ASSUME IInv, IInv', FInv, SkipSlot
  PROVE  FInv'
<1>1. Dispatching /\ Become(NextRound) /\ UNCHANGED <<listeners, log>>
  BY DEF SkipSlot
<1>2. NextRound \in Dispatch /\ NextRound.op = "dispatch" /\ NextRound.callback = "none"
  BY <1>1, DispatchingType, NextRoundType
<1> QED
  BY <1>1, <1>2, DispatchQuiet DEF Activation

LEMMA NextTableKeeps ==
  ASSUME IInv, IInv', FInv, NextTable
  PROVE  FInv'
<1>1. Dispatching /\ UNCHANGED <<listeners, log>>
  BY DEF NextTable
<1>2. Top \in Dispatch /\ Top.op = "dispatch" /\ Top.callback = "none"
  BY <1>1, DispatchingType
<1>3. CASE Return
  BY <1>1, <1>3, DispatchQuiet
<1>4. ASSUME NEW next \in Tables, Become([Top EXCEPT !.table = next, !.i = 0])
      PROVE  FInv'
  <2>1. PICK f : f = [Top EXCEPT !.table = next, !.i = 0]
    OBVIOUS
  <2>2. f \in Dispatch /\ f.op = "dispatch" /\ f.callback = "none"
    BY <1>2, <2>1 DEF Dispatch
  <2> QED
    BY <1>1, <1>4, <2>1, <2>2, DispatchQuiet DEF Activation
<1>5. "type" \in Tables /\ "generic" \in Tables
  BY DEF Tables
<1>6. \/ Become([Top EXCEPT !.table = "type", !.i = 0])
      \/ Become([Top EXCEPT !.table = "generic", !.i = 0])
      \/ Return
  BY DEF NextTable
<1> QED
  BY <1>3, <1>4, <1>5, <1>6

LEMMA CallListenerKeeps ==
  ASSUME IInv, IInv', FInv, CallListener
  PROVE  FInv'
<1>1. /\ Dispatching /\ Top.i \in Listening(Top.table)
      /\ listeners' = listeners /\ log' = log
  BY DEF CallListener
<1>2. /\ stack # << >> /\ Top \in Dispatch /\ Top.op = "dispatch" /\ Top.callback = "none"
      /\ Top.i \in Nat /\ Top.table \in Tables
  BY <1>1, DispatchingType
<1>3. PICK tbl \in Tables : tbl = Top.table
  BY <1>2
<1>4. PICK i : i = Top.i
  OBVIOUS
<1> DEFINE lst == listeners[tbl][i]
<1>5. /\ i \in Slots(tbl) /\ lst # Free /\ lst.reg \in Nat /\ lst.userdata \in 0 .. MaxRegs
  BY <1>1, <1>3, <1>4, ListeningType
<1>6. PICK f : f = [Top EXCEPT !.callback = "listener", !.reg = lst.reg,
                               !.userdata = lst.userdata, !.offered = @ \cup {lst.reg}]
  OBVIOUS
<1>7. Become(f)
  BY <1>3, <1>4, <1>6 DEF CallListener
<1> HIDE DEF lst
<1>8. /\ f \in Dispatch /\ f.op = "dispatch" /\ f.callback = "listener"
      /\ f.i = i /\ f.table = tbl /\ f.reg = lst.reg /\ f.userdata = lst.userdata
  BY <1>2, <1>3, <1>4, <1>5, <1>6 DEF Dispatch
<1> USE DEF lst
<1>9. /\ Len(stack) = 1 /\ stack[1] = Top
      /\ \A k \in 1 .. Len(stack) : k = 1
  BY <1>2, Alone
<1>10. /\ Len(stack') = 1 /\ stack'[1] = f /\ Shape'
       /\ \A k \in 1 .. Len(stack') : k = 1
  BY <1>2, <1>7, <1>8, AloneBecomes DEF Activation
<1>11. log[lst.reg].fate = "live"
  BY <1>2, <1>5, <1>9 DEF FInv, KInv, Leaving
<1>12. OnlyAt(tbl, i)
  BY <1>1 DEF OnlyAt
<1>13. OtherCalls(tbl, i)
  BY <1>2, <1>8, <1>9, <1>10 DEF OtherCalls, CallingAt, Calling
<1>14. CallAt(tbl, i)
  BY <1>1, <1>5, <1>8, <1>10 DEF CallAt
<1>15. LeavingAt(tbl, i)
  BY <1>1, <1>5, <1>11 DEF LeavingAt
<1>16. AtSlot(tbl, i)
  BY <1>5, <1>10, <1>12, <1>13, <1>14, <1>15 DEF AtSlot
<1>17. UserdataAt(tbl, i)
  BY <1>1, <1>5 DEF UserdataAt
<1>18. TimeAt(tbl, i)
  <2>1. \A j : ~Ahead(j) /\ ~Ahead(j)'
    BY <1>2, <1>8, <1>9, <1>10 DEF Ahead
  <2>2. \A j : Ahead(j)' = Ahead(j)
    BY <1>2, <1>8, <1>9, <1>10 DEF Ahead
  <2>3. tbl = "id" => OnTime(lst, log[lst.reg], Ahead(i))
    BY <1>5, <1>11 DEF FInv, TInv, TimeLeft
  <2> QED
    BY <1>1, <1>11, <2>2, <2>3 DEF TimeAt
<1> QED
  BY <1>16, <1>17, <1>18, AllAtSlot

(* A callback that returns leaves no callback of its slot.                   *)
LEMMA CallEnds ==
  ASSUME IInv, FInv, stack # << >>, Top.op # "remove",
         \/ Return
         \/ \E f \in Activation :
              /\ f.callback = "none" /\ Become(f)
              /\ f.op = "tick" => f.userdata = 0,
         NEW tbl, NEW i, Calling(Top) => Top.table = tbl /\ Top.i = i
  PROVE  /\ OtherCalls(tbl, i) /\ CallAt(tbl, i) /\ Shape'
         /\ \A k \in 1 .. Len(stack') : ~Calling(stack'[k])
<1>1. /\ Len(stack) = 1 /\ stack[1] = Top
      /\ \A k \in 1 .. Len(stack) : k = 1
  BY Alone
<1>2. Shape' /\ \A k \in 1 .. Len(stack') : ~Calling(stack'[k])
  BY AloneReturns, AloneBecomes DEF Calling
<1>3. \A k \in 1 .. Len(stack) : Calling(stack[k]) => CallingAt(stack[k], tbl, i)
  BY <1>1 DEF CallingAt
<1> QED
  BY <1>2, <1>3 DEF OtherCalls, CallAt, CallingAt

(* The userdata a listener may have released when it returns.                *)
LEMMA ReleasedAt ==
  ASSUME IInv, NEW reg \in 1 .. Len(log), NEW d \in {0, reg}, NEW release \in BOOLEAN,
         release => d # 0,
         NEW h, h = IF release THEN Released(log, d) ELSE log
  PROVE  /\ h \in Seq(Entry) /\ Len(h) = Len(log)
         /\ h[reg].request = log[reg].request /\ h[reg].fate = log[reg].fate
         /\ h[reg].age = log[reg].age /\ h[reg].early = log[reg].early
         /\ h[reg].released = IF release THEN log[reg].released + 1
                              ELSE log[reg].released
         /\ \A t \in 1 .. Len(log) : t # reg => h[t] = log[t]
<1>1. log \in Seq(Entry)
  BY DEF IInv, LogOK
<1>2. CASE release
  BY <1>1, <1>2, ReleasedIs, ReleasedType
<1>3. CASE ~release
  BY <1>1, <1>3
<1> QED
  BY <1>2, <1>3

\* PutBack changes the listener in slot i of the ID table.
LEMMA PutBackIs ==
  ASSUME IInv, NEW i \in Slots("id"), Top.table = "id", Top.i = i,
         listeners["id"][i] # Free, NEW d \in 0 .. MaxRegs, NEW res,
         listeners' = PutBack(d, res)
  PROVE  LET old == listeners["id"][i]
             new == listeners'["id"][i]
         IN  /\ new # Free /\ new.reg = old.reg /\ new.timeout_max = old.timeout_max
             /\ new.userdata = d
             /\ new.timeout = IF res = "RENEW" THEN old.timeout_max ELSE old.timeout
             /\ \A t \in Tables : \A j \in Slots(t) :
                  t # "id" \/ j # i => listeners'[t][j] = listeners[t][j]
<1> DEFINE lst == listeners["id"][i]
           z == IF res = "RENEW" THEN lst.timeout_max ELSE lst.timeout
           x == [lst EXCEPT !.userdata = d, !.timeout = z]
<1>1. "id" \in Tables
  BY DEF Tables
<1>2. lst \in Listener
  BY <1>1 DEF IInv, TablesOK
<1>3. /\ x \in Listener /\ x.reg = lst.reg /\ x.timeout_max = lst.timeout_max
      /\ x.userdata = d /\ x.timeout = z
  <2>1. z \in Nat
    BY <1>2 DEF Listener
  <2> HIDE DEF z, lst
  <2> QED
    BY <1>2, <2>1 DEF Listener
<1>4. listeners' = [listeners EXCEPT !["id"][i] = x]
  <2>1. listeners' = [listeners EXCEPT !["id"][i].userdata = d,
                        !["id"][i].timeout = IF res = "RENEW"
                            THEN listeners["id"][i].timeout_max ELSE @]
    BY DEF PutBack
  <2>2. /\ "id" \in DOMAIN listeners /\ i \in DOMAIN listeners["id"]
        /\ "userdata" \in DOMAIN lst /\ "timeout" \in DOMAIN lst
        /\ lst = [k \in DOMAIN lst |-> lst[k]]
    BY <1>1, <1>2 DEF IInv, TablesOK, Listener
  <2>3. [lst EXCEPT !.userdata = d].timeout = lst.timeout
    BY <2>2
  <2>4. [listeners EXCEPT !["id"][i].userdata = d]["id"][i] = [lst EXCEPT !.userdata = d]
    BY <2>2
  <2>5. listeners' = [listeners EXCEPT !["id"][i].userdata = d, !["id"][i].timeout = z]
    BY <2>1, <2>2, <2>3, <2>4
  <2>6. [listeners EXCEPT !["id"][i].userdata = d, !["id"][i].timeout = z]
          = [listeners EXCEPT !["id"][i] = [lst EXCEPT !.userdata = d, !.timeout = z]]
    <3> HIDE DEF z
    <3> QED
      BY <2>2
  <2> QED
    BY <2>5, <2>6
<1>5. x \in Listener
  BY <1>3
<1> HIDE DEF x
<1>6. /\ listeners'["id"][i] = x /\ x # Free
      /\ \A t \in Tables : \A j \in Slots(t) :
           t # "id" \/ j # i => listeners'[t][j] = listeners[t][j]
  <2>1. i \in Slots("id") /\ IInv
    OBVIOUS
  <2>2. x # Free
    BY <1>5, FreeIsNoListener
  <2>3. listeners'["id"][i] = x
    BY <1>1, <1>4, <2>1 DEF IInv, TablesOK
  <2>4. \A t \in Tables : \A j \in Slots(t) :
          t # "id" \/ j # i => listeners'[t][j] = listeners[t][j]
    BY <1>1, <1>4, <1>5, <2>1, RetouchIs
  <2> QED
    BY <2>2, <2>3, <2>4
<1> QED
  BY <1>3, <1>6

LEMMA ListenerReturnsKeeps ==
  ASSUME IInv, IInv', FInv, NEW res \in Results, NEW release \in BOOLEAN,
         ListenerReturns(res, release)
  PROVE  FInv'
<1>1. stack # << >> /\ Top.callback = "listener"
  BY DEF ListenerReturns
<1>2. Top \in Dispatch /\ Top.op = "dispatch"
  BY <1>1, TopType DEF IInv, Activation, TickActivation, Removal, Dispatch
<1>3. PICK tbl \in Tables : tbl = Top.table
  BY <1>2 DEF Dispatch
<1>4. PICK i : i = Top.i
  OBVIOUS
<1>5. /\ Len(stack) = 1 /\ stack[1] = Top
      /\ \A k \in 1 .. Len(stack) : k = 1
  BY <1>1, <1>2, Alone
<1> DEFINE lst == listeners[tbl][i]
           history == IF release THEN Released(log, lst.userdata) ELSE log
           d == IF release THEN 0 ELSE lst.userdata
<1>6. /\ i \in Slots(tbl) /\ lst # Free /\ lst.reg = Top.reg
      /\ lst.userdata = Top.userdata
  BY <1>1, <1>3, <1>4, <1>5
     DEF FInv, KInv, Attached, Held, UInv, UserdataInCall, Calling
<1>7. /\ lst.reg \in 1 .. Len(log) /\ lst.userdata \in {0, lst.reg}
      /\ lst.timeout_max \in Nat
      /\ lst.userdata # 0 => tbl = "id"
  BY <1>6, SlotIs DEF FInv, UInv, UserdataInSlot
<1>8. log[lst.reg].fate = "live"
  BY <1>1, <1>5, <1>6 DEF FInv, KInv, Leaving
<1>9. release => lst.userdata # 0
  BY <1>6 DEF ListenerReturns
<1>10. /\ history \in Seq(Entry) /\ Len(history) = Len(log)
       /\ history[lst.reg].request = log[lst.reg].request
       /\ history[lst.reg].fate = "live"
       /\ history[lst.reg].age = log[lst.reg].age
       /\ history[lst.reg].early = log[lst.reg].early
       /\ history[lst.reg].released = IF release THEN log[lst.reg].released + 1
                                      ELSE log[lst.reg].released
       /\ \A t \in 1 .. Len(log) : t # lst.reg => history[t] = log[t]
  <2>1. PICK reg, u, h : reg = lst.reg /\ u = lst.userdata /\ h = history
    OBVIOUS
  <2>2. h = IF release THEN Released(log, u) ELSE log
    BY <2>1
  <2>3. reg \in 1 .. Len(log) /\ u \in {0, reg} /\ (release => u # 0)
        /\ log[reg].fate = "live"
    BY <1>7, <1>8, <1>9, <2>1
  <2>4. /\ h \in Seq(Entry) /\ Len(h) = Len(log)
        /\ h[reg].request = log[reg].request /\ h[reg].fate = log[reg].fate
        /\ h[reg].age = log[reg].age /\ h[reg].early = log[reg].early
        /\ h[reg].released = IF release THEN log[reg].released + 1
                             ELSE log[reg].released
        /\ \A t \in 1 .. Len(log) : t # reg => h[t] = log[t]
    BY <2>2, <2>3, ReleasedAt
  <2> HIDE DEF lst, history
  <2> QED
    BY <2>1, <2>3, <2>4
<1> HIDE DEF history
<1>11. ASSUME \/ Return
              \/ \E f \in Activation :
                   f.op = "dispatch" /\ f.callback = "none" /\ Become(f)
       PROVE  /\ OtherCalls(tbl, i) /\ CallAt(tbl, i) /\ Shape'
              /\ \A j : ~Ahead(j)
              /\ \A j : Ahead(j)' = Ahead(j)
  <2>1. OtherCalls(tbl, i) /\ CallAt(tbl, i) /\ Shape'
    BY <1>1, <1>2, <1>3, <1>4, <1>11, CallEnds
  <2>2. stack' # << >> => stack'[1].op = "dispatch"
    BY <1>1, <1>2, <1>11, AloneReturns, AloneBecomes
  <2>3. /\ \A j : ~Ahead(j)
        /\ \A j : Ahead(j)' = Ahead(j)
    BY <1>2, <1>5, <2>2 DEF Ahead
  <2> QED
    BY <2>1, <2>3
<1>12. CASE res = "CLOSE"
  <2>1. /\ IF Top.table = "id" /\ listeners["id"][Top.i] = Free
             THEN UNCHANGED <<listeners, count>>
             ELSE Discard(Top.table, Top.i)
        /\ log' = Ended(IF release THEN Released(log, Top.userdata) ELSE log,
                        Top.reg, "closed")
        /\ Return
        /\ Top.userdata # 0 => release
    BY <1>12 DEF ListenerReturns
  <2>2. Discard(tbl, i)
    BY <1>3, <1>4, <1>6, <2>1
  <2>3. log' = Ended(history, lst.reg, "closed")
    BY <1>6, <2>1 DEF history
  <2>4. lst.userdata # 0 => release
    BY <1>6, <2>1
  <2>5. /\ listeners'[tbl][i] = Free
        /\ \A t \in Tables : \A j \in Slots(t) :
             t # tbl \/ j # i => listeners'[t][j] = listeners[t][j]
    BY <1>6, <2>2, DiscardIs
  <2>6. /\ Len(log') = Len(log)
        /\ log'[lst.reg].request = log[lst.reg].request
        /\ log'[lst.reg].fate = "closed"
        /\ log'[lst.reg].released = IF release THEN log[lst.reg].released + 1
                                    ELSE log[lst.reg].released
        /\ \A t \in 1 .. Len(log) : t # lst.reg => log'[t] = log[t]
    <3>1. PICK reg : reg = lst.reg
      OBVIOUS
    <3>2. /\ history \in Seq(Entry) /\ reg \in 1 .. Len(history)
          /\ log' = Ended(history, reg, "closed") /\ "closed" \in {"closed", "removed", "expired"}
      BY <1>7, <1>10, <2>3, <3>1
    <3>3. Len(log') = Len(history)
      BY <3>2, EndedType
    <3>4. \A t \in 1 .. Len(history) :
            /\ log'[t].request = history[t].request
            /\ log'[t].released = history[t].released
            /\ log'[t].fate = IF t = reg /\ history[t].fate = "live" THEN "closed"
                              ELSE history[t].fate
            /\ t # reg => log'[t] = history[t]
      BY <3>2, EndedIs
    <3> HIDE DEF lst
    <3> QED
      BY <1>10, <3>1, <3>2, <3>3, <3>4
  <2>7. OtherCalls(tbl, i) /\ CallAt(tbl, i) /\ Shape' /\ \A j : Ahead(j)' = Ahead(j)
    BY <1>11, <2>1
  <2>8. AtSlot(tbl, i)
    BY <1>6, <2>5, <2>6, <2>7 DEF AtSlot, OnlyAt, LeavingAt
  <2>9. UserdataAt(tbl, i)
    BY <1>9, <2>4, <2>5, <2>6 DEF UserdataAt
  <2>10. TimeAt(tbl, i)
    BY <2>5, <2>6, <2>7 DEF TimeAt
  <2> QED
    BY <2>8, <2>9, <2>10, AllAtSlot
<1>13. CASE res # "CLOSE"
  <2>1. /\ listeners' = PutBack(IF release THEN 0 ELSE Top.userdata, res)
        /\ log' = IF res = "RENEW" /\ Top.table = "id"
                    THEN Renewed(IF release THEN Released(log, Top.userdata) ELSE log,
                                 Top.reg)
                    ELSE IF release THEN Released(log, Top.userdata) ELSE log
        /\ Return \/ Become(NextRound)
    BY <1>13 DEF ListenerReturns
  <2>2. listeners' = PutBack(d, res)
    BY <1>6, <2>1
  <2>3. log' = IF res = "RENEW" /\ tbl = "id" THEN Renewed(history, lst.reg) ELSE history
    BY <1>3, <1>6, <2>1 DEF history
  <2>4. NextRound \in Activation /\ NextRound.op = "dispatch" /\ NextRound.callback = "none"
    BY <1>2, NextRoundType DEF Activation
  <2>5. /\ OtherCalls(tbl, i) /\ CallAt(tbl, i) /\ Shape'
        /\ \A j : ~Ahead(j)
        /\ \A j : Ahead(j)' = Ahead(j)
    BY <1>11, <2>1, <2>4
  <2>6. d \in 0 .. MaxRegs
    BY <1>2, <1>6, ListenerAssumption DEF Dispatch
  <2>7. LET new == listeners'[tbl][i]
        IN  /\ new # Free /\ new.reg = lst.reg /\ new.timeout_max = lst.timeout_max
            /\ new.userdata = d
            /\ tbl = "id" => new.timeout = IF res = "RENEW" THEN lst.timeout_max
                                           ELSE lst.timeout
            /\ \A t \in Tables : \A j \in Slots(t) :
                 t # tbl \/ j # i => listeners'[t][j] = listeners[t][j]
    <3>1. CASE tbl = "id"
      <4> HIDE DEF d
      <4> QED
        BY <1>3, <1>4, <1>6, <2>2, <2>6, <3>1, PutBackIs
    <3>2. CASE tbl # "id"
      <4>1. listeners' = listeners
        BY <1>3, <2>2, <3>2 DEF PutBack
      <4>2. lst.userdata = 0
        BY <1>7, <3>2
      <4> QED
        BY <1>6, <3>2, <4>1, <4>2
    <3> QED
      BY <3>1, <3>2
  <2>8. /\ Len(log') = Len(log)
        /\ log'[lst.reg].request = log[lst.reg].request
        /\ log'[lst.reg].fate = "live"
        /\ log'[lst.reg].released = IF release THEN log[lst.reg].released + 1
                                    ELSE log[lst.reg].released
        /\ \A t \in 1 .. Len(log) : t # lst.reg => log'[t] = log[t]
        /\ IF res = "RENEW" /\ tbl = "id"
             THEN log'[lst.reg].age = 0 /\ log'[lst.reg].early = InTick
             ELSE /\ log'[lst.reg].age = log[lst.reg].age
                  /\ log'[lst.reg].early = log[lst.reg].early
    <3>1. CASE res = "RENEW" /\ tbl = "id"
      <4>1. log' = Renewed(history, lst.reg) /\ lst.reg \in 1 .. Len(history)
        BY <1>7, <1>10, <2>3, <3>1
      <4> DEFINE reg == lst.reg
      <4> HIDE DEF reg
      <4>2. /\ log' = Renewed(history, reg) /\ reg \in 1 .. Len(history)
            /\ history \in Seq(Entry)
        BY <1>10, <4>1 DEF reg
      <4>3. /\ Len(log') = Len(history)
            /\ \A t \in 1 .. Len(history) :
                 /\ log'[t].request = history[t].request
                 /\ log'[t].fate = history[t].fate
                 /\ log'[t].released = history[t].released
                 /\ log'[t].age =
                      IF t = reg /\ history[t].fate = "live" THEN 0 ELSE history[t].age
                 /\ log'[t].early =
                      IF t = reg /\ history[t].fate = "live" THEN InTick
                      ELSE history[t].early
                 /\ t # reg => log'[t] = history[t]
        BY <4>2, RenewedIs, RenewedType
      <4>4. /\ log'[reg].request = history[reg].request
            /\ log'[reg].fate = history[reg].fate
            /\ log'[reg].released = history[reg].released
            /\ history[reg].fate = "live" =>
                 log'[reg].age = 0 /\ log'[reg].early = InTick
        BY <4>2, <4>3
      <4>5. reg = lst.reg
        BY DEF reg
      <4> HIDE DEF lst
      <4> QED
        BY <1>10, <3>1, <4>3, <4>4, <4>5
    <3>2. CASE ~(res = "RENEW" /\ tbl = "id")
      <4>1. log' = history
        BY <2>3, <3>2
      <4> HIDE DEF lst
      <4> QED
        BY <1>10, <3>2, <4>1
    <3> QED
      BY <3>1, <3>2
  <2>9. OnlyAt(tbl, i)
    BY <1>8, <2>7, <2>8 DEF OnlyAt
  <2>10. AtSlot(tbl, i)
    BY <1>6, <2>5, <2>7, <2>8, <2>9 DEF AtSlot, LeavingAt
  <2>11. UserdataAt(tbl, i)
    BY <1>9, <2>7, <2>8 DEF UserdataAt
  <2>12. TimeAt(tbl, i)
    <3>1. ASSUME tbl = "id"
          PROVE  OnTime(listeners'[tbl][i], log'[lst.reg], Ahead(i)')
      <4>1. CASE res = "RENEW"
        BY <1>7, <2>5, <2>7, <2>8, <3>1, <4>1, FreshOnTime
      <4>2. CASE res # "RENEW"
        <5>1. OnTime(lst, log[lst.reg], Ahead(i))
          BY <1>6, <1>8, <3>1 DEF FInv, TInv, TimeLeft
        <5> HIDE DEF lst
        <5> QED
          BY <2>5, <2>7, <2>8, <3>1, <4>2, <5>1 DEF OnTime
      <4> QED
        BY <4>1, <4>2
    <3> QED
      BY <2>5, <2>8, <3>1 DEF TimeAt
  <2> QED
    BY <2>10, <2>11, <2>12, AllAtSlot
<1> QED
  BY <1>12, <1>13

-----------------------------------------------------------------------------
(* TF_Tick.                                                                  *)

LEMMA TickKeeps ==
  ASSUME IInv, IInv', FInv, Careful, Tick
  PROVE  FInv'
<1>1. PICK f : f = [op |-> "tick", table |-> "id", i |-> 0, callback |-> "none",
                    reg |-> 0, userdata |-> 0]
  OBVIOUS
<1>2. /\ stack = << >> /\ stack' = Append(stack, f) /\ listeners' = listeners
      /\ log' = [t \in DOMAIN log |->
                   IF log[t].fate = "live" /\ log[t].request.timeout > 0
                        /\ log[t].age <= log[t].request.timeout
                     THEN [log[t] EXCEPT !.age = @ + 1] ELSE log[t]]
  BY <1>1 DEF Tick, Careful
<1>3. f.op = "tick" /\ f.i = 0 /\ f.callback = "none" /\ f.userdata = 0
  BY <1>1
<1>4. /\ Len(stack) = 0 /\ Len(stack') = 1 /\ stack'[1] = f /\ stack' # << >>
      /\ \A k \in 1 .. Len(stack') : k = 1
  BY <1>2
<1>5. DOMAIN log = 1 .. Len(log) /\ \A t \in 1 .. Len(log) : log[t] \in Entry
  BY LenProperties, ElementOfSeq DEF IInv, LogOK
<1>6. Len(log') = Len(log)
  <2>1. DOMAIN log' = DOMAIN log
    BY <1>2
  <2>2. DOMAIN log' = 1 .. Len(log') /\ Len(log') \in Nat /\ Len(log) \in Nat
    BY LenProperties DEF IInv, LogOK
  <2> QED
    BY <1>5, <2>1, <2>2
<1>7. \A t \in 1 .. Len(log) :
        /\ log'[t].request = log[t].request /\ log'[t].fate = log[t].fate
        /\ log'[t].released = log[t].released /\ log'[t].early = log[t].early
        /\ log'[t].age =
             IF log[t].fate = "live" /\ log[t].request.timeout > 0
                  /\ log[t].age <= log[t].request.timeout
               THEN log[t].age + 1 ELSE log[t].age
  BY <1>2, <1>5 DEF Entry
<1>8. Quiet
  BY <1>2, <1>3, <1>4, <1>6, <1>7 DEF Quiet, Calling, Shape
<1>9. TimeLeft'
  <2> SUFFICES ASSUME NEW j \in Slots("id"), listeners'["id"][j] # Free,
                      log'[listeners'["id"][j].reg].fate = "live"
               PROVE  OnTime(listeners'["id"][j], log'[listeners'["id"][j].reg], Ahead(j)')
    BY DEF TimeLeft, Ahead, OnTime
  <2> DEFINE lst == listeners["id"][j]
             e == log[lst.reg]
  <2>1. /\ lst # Free /\ lst.reg \in 1 .. Len(log) /\ e \in Entry
        /\ lst.timeout \in Nat /\ lst.timeout_max \in Nat
        /\ e.request.timeout = lst.timeout_max
    BY <1>2, SlotIs DEF FInv, Tables
  <2>2. e.fate = "live" /\ e.age \in Nat
    BY <1>2, <1>7, <2>1 DEF Entry
  <2>3. OnTime(lst, e, Ahead(j)) /\ ~Ahead(j)
    BY <1>2, <2>1, <2>2 DEF FInv, TInv, TimeLeft, Ahead
  <2>4. Ahead(j)'
    <3>1. j >= 0
      BY SizeType DEF Slots, Tables
    <3> QED
      BY <1>3, <1>4, <3>1 DEF Ahead
  <2>5. /\ log'[lst.reg].early = e.early
        /\ log'[lst.reg].age = IF lst.timeout_max > 0 /\ e.age <= lst.timeout_max
                                 THEN e.age + 1 ELSE e.age
    BY <1>7, <2>1, <2>2
  <2> HIDE DEF lst, e
  <2>6. OnTime(lst, log'[lst.reg], Ahead(j)')
    <3>1. CASE lst.timeout_max = 0
      BY <2>3, <3>1 DEF OnTime
    <3>2. CASE lst.timeout_max > 0
      <4>1. /\ lst.timeout > 0
            /\ \/ lst.timeout + e.age = lst.timeout_max
               \/ e.early /\ lst.timeout + e.age = lst.timeout_max - 1
        BY <2>1, <2>2, <2>3, <3>2 DEF OnTime
      <4>2. log'[lst.reg].age = e.age + 1
        BY <2>1, <2>2, <2>5, <3>2, <4>1
      <4>3. \/ lst.timeout + log'[lst.reg].age = lst.timeout_max + 1
            \/ log'[lst.reg].early /\ lst.timeout + log'[lst.reg].age = lst.timeout_max
        <5>1. CASE lst.timeout + e.age = lst.timeout_max
          BY <2>1, <2>2, <4>2, <5>1
        <5>2. CASE e.early /\ lst.timeout + e.age = lst.timeout_max - 1
          <6>1. log'[lst.reg].early
            BY <2>5, <5>2, Zenon
          <6>2. lst.timeout + e.age = lst.timeout_max - 1
            BY <5>2, Zenon
          <6>3. lst.timeout \in Nat /\ lst.timeout_max \in Nat
            BY <2>1, Zenon
          <6>4. lst.timeout + log'[lst.reg].age = lst.timeout_max
            BY <2>2, <4>2, <6>2, <6>3
          <6> QED
            BY <6>1, <6>4
        <5> QED
          BY <4>1, <5>1, <5>2
      <4> QED
        BY <2>1, <2>4, <3>2, <4>1, <4>3 DEF OnTime
    <3> QED
      BY <2>1, <3>1, <3>2
  <2> QED
    BY <1>2, <2>6 DEF lst
<1>10. TimeOut'
  BY <1>6, <1>7 DEF FInv, TInv, TimeOut
<1> QED
  BY <1>8, <1>9, <1>10, KeptQuiet DEF FInv, TInv

(* Between two callbacks of a tick all listeners are live.                   *)
LEMMA TickingIs ==
  ASSUME IInv, FInv, Ticking
  PROVE  /\ stack # << >> /\ Top \in TickActivation /\ Top.op = "tick"
         /\ Top.callback = "none" /\ Top.i \in Nat /\ Top.userdata = 0
         /\ \A tbl \in Tables : \A i \in Slots(tbl) :
              listeners[tbl][i] # Free => log[listeners[tbl][i].reg].fate = "live"
<1>1. stack # << >> /\ Top.op = "tick" /\ Top.callback = "none"
  BY DEF Ticking
<1>2. Top \in TickActivation
  BY <1>1, TopType DEF IInv, Activation, Dispatch, Removal
<1>3. /\ Len(stack) = 1 /\ stack[1] = Top
      /\ \A k \in 1 .. Len(stack) : k = 1
  BY <1>1, Alone
<1> QED
  BY <1>1, <1>2, <1>3 DEF FInv, KInv, Leaving, Shape, Calling, TickActivation

\* The tick goes on with the next slot, or is in a callback of this one.
LEMMA TickBecomes ==
  ASSUME IInv, FInv, stack # << >>, Top \in TickActivation,
         NEW f \in TickActivation, Become(f),
         f.callback = "none" => f.userdata = 0
  PROVE  /\ Len(stack') = 1 /\ stack'[1] = f /\ Shape'
         /\ \A k \in 1 .. Len(stack') : k = 1
         /\ \A j : Ahead(j) <=> Top.i <= j
         /\ \A j : Ahead(j)' <=> f.i <= j
<1>1. Top.op = "tick" /\ f.op = "tick" /\ f \in Activation
  BY DEF TickActivation, Activation
<1>2. Len(stack) = 1 /\ stack[1] = Top
  BY <1>1, Alone
<1>3. /\ Len(stack') = 1 /\ stack'[1] = f /\ stack' # << >> /\ Shape'
      /\ \A k \in 1 .. Len(stack') : k = 1
  BY <1>1, AloneBecomes
<1> QED
  BY <1>1, <1>2, <1>3 DEF Ahead

LEMMA TickNextRound ==
  ASSUME IInv, FInv, stack # << >>, Top \in TickActivation, Become(NextRound),
         NEW i, i = Top.i
  PROVE  /\ \A k \in 1 .. Len(stack') : ~Calling(stack'[k])
         /\ OtherCalls("id", i) /\ CallAt("id", i) /\ Shape'
         /\ \A j \in Slots("id") : j # i => Ahead(j)' = Ahead(j)
         /\ Ahead(i) /\ ~Ahead(i)'
<1>1. PICK f : f = NextRound
  OBVIOUS
<1> DEFINE n == i + 1
<1>2. n \in Nat /\ 0 \in 0 .. MaxRegs /\ Top.op = "tick" /\ Top.table = "id" /\ i \in Nat
  BY ListenerAssumption DEF TickActivation
<1>3. f = [Top EXCEPT !.callback = "none", !.i = n, !.reg = 0, !.userdata = 0]
  BY <1>1 DEF NextRound
<1> HIDE DEF n
<1>4. /\ f \in TickActivation /\ f.op = "tick" /\ f.callback = "none" /\ f.i = n
      /\ f.userdata = 0
  BY <1>2, <1>3 DEF TickActivation
<1>5. /\ \A j : Ahead(j) <=> i <= j
      /\ \A j : Ahead(j)' <=> n <= j
  BY <1>1, <1>4, TickBecomes
<1>6. /\ OtherCalls("id", i) /\ CallAt("id", i) /\ Shape'
      /\ \A k \in 1 .. Len(stack') : ~Calling(stack'[k])
  <2>1. f \in Activation
    BY <1>4 DEF Activation
  <2> QED
    BY <1>1, <1>2, <1>4, <2>1, CallEnds
<1>7. \A j \in Slots("id") : j \in Int
  BY SizeType DEF Slots, Tables
<1>8. \A j \in Slots("id") : j # i => (n <= j <=> i <= j)
  BY <1>2, <1>7 DEF n
<1>9. \A j \in Slots("id") : j # i => Ahead(j)' = Ahead(j)
  <2> SUFFICES ASSUME NEW j \in Slots("id"), j # i
               PROVE  Ahead(j)' <=> Ahead(j)
    BY DEF Ahead
  <2> QED
    BY <1>5, <1>8
<1>10. Ahead(i) /\ ~Ahead(i)'
  BY <1>2, <1>5 DEF n
<1> QED
  BY <1>6, <1>9, <1>10

\* TF_Tick is at slot i, whose listener reg has ended; y is what the slot holds
\* by then, in the given table.
Overdue(i, y, table, reg) ==
  /\ stack # << >> /\ Top \in TickActivation
  /\ i \in Slots("id") /\ i = Top.i /\ listeners["id"][i] # Free
  /\ Calling(Top) \/ Top.userdata = 0
  /\ y \in Listener /\ y.reg = listeners["id"][i].reg
  /\ y.timeout_max = listeners["id"][i].timeout_max
  /\ y.userdata = listeners["id"][i].userdata
  /\ table = [listeners["id"] EXCEPT ![i] = y]
  /\ reg = listeners["id"][i].reg
  /\ Len(log') = Len(log)
  /\ log'[reg].request = log[reg].request /\ log'[reg].released = log[reg].released
  /\ log'[reg].fate # "live"
  /\ log'[reg].fate = "expired" => Expiry(log'[reg])
  /\ \A t \in 1 .. Len(log) : t # reg => log'[t] = log[t]

(* cleanup_id_listener, for a listener whose timeout has passed.             *)
LEMMA ExpireKeeps ==
  ASSUME IInv, IInv', FInv, NEW i, NEW y, NEW table, NEW reg,
         Overdue(i, y, table, reg), ExpireSlot(table, Top.i)
  PROVE  FInv'
<1>1. /\ stack # << >> /\ Top \in TickActivation
      /\ i \in Slots("id") /\ i = Top.i /\ listeners["id"][i] # Free
      /\ Calling(Top) \/ Top.userdata = 0
  BY DEF Overdue
<1>2. /\ y \in Listener /\ y.reg = listeners["id"][i].reg
      /\ y.timeout_max = listeners["id"][i].timeout_max
      /\ y.userdata = listeners["id"][i].userdata
      /\ table = [listeners["id"] EXCEPT ![i] = y]
  BY DEF Overdue
<1>3. /\ reg = listeners["id"][i].reg
      /\ Len(log') = Len(log)
      /\ log'[reg].request = log[reg].request /\ log'[reg].released = log[reg].released
      /\ log'[reg].fate # "live"
      /\ log'[reg].fate = "expired" => Expiry(log'[reg])
      /\ \A t \in 1 .. Len(log) : t # reg => log'[t] = log[t]
  BY DEF Overdue
<1>4. "id" \in Tables /\ i \in Nat /\ Top.op = "tick" /\ Top.table = "id"
  BY <1>1, SizeType DEF Tables, Slots, TickActivation
<1>5. table[i] = y /\ y # Free
  BY <1>1, <1>2, <1>4, FreeIsNoListener DEF IInv, TablesOK
<1>6. /\ Len(stack) = 1 /\ stack[1] = Top
      /\ \A k \in 1 .. Len(stack) : k = 1
  BY <1>1, <1>4, Alone
<1>7. CASE y.userdata # 0
  <2>1. PICK f : f = [Top EXCEPT !.callback = "cleanup", !.reg = y.reg,
                                 !.userdata = y.userdata]
    OBVIOUS
  <2>2. Become(f) /\ listeners' = [listeners EXCEPT !["id"] = table]
    <3>1. table[Top.i] = y
      BY <1>1, <1>5
    <3>2. /\ Become([Top EXCEPT !.callback = "cleanup", !.reg = table[Top.i].reg,
                                !.userdata = table[Top.i].userdata])
          /\ listeners' = [listeners EXCEPT !["id"] = table]
      BY <1>1, <1>5, <1>7, <3>1 DEF ExpireSlot
    <3> QED
      BY <2>1, <3>1, <3>2
  <2>3. /\ f \in TickActivation /\ f.i = i /\ f.table = "id" /\ f.callback = "cleanup"
        /\ f.reg = y.reg /\ f.userdata = y.userdata
    <3>1. y.reg \in Nat /\ y.userdata \in 0 .. MaxRegs
      BY <1>2 DEF Listener
    <3> QED
      BY <1>1, <1>4, <2>1, <3>1 DEF TickActivation
  <2>4. /\ Len(stack') = 1 /\ stack'[1] = f /\ Shape'
        /\ \A k \in 1 .. Len(stack') : k = 1
        /\ \A j : Ahead(j) <=> i <= j
        /\ \A j : Ahead(j)' <=> i <= j
    BY <1>1, <2>2, <2>3, TickBecomes
  <2>5. /\ listeners'["id"][i] = y
        /\ \A t \in Tables : \A j \in Slots(t) :
             t # "id" \/ j # i => listeners'[t][j] = listeners[t][j]
    <3>1. listeners' = [listeners EXCEPT !["id"][i] = y]
      BY <1>2, <2>2
    <3>2. listeners'["id"][i] = y
      BY <1>1, <1>4, <3>1 DEF IInv, TablesOK
    <3>3. \A t \in Tables : \A j \in Slots(t) :
            t # "id" \/ j # i => listeners'[t][j] = listeners[t][j]
      BY <1>1, <1>4, <3>1, RetouchIs
    <3> QED
      BY <3>2, <3>3
  <2>6. OnlyAt("id", i)
    BY <1>2, <1>3, <2>5 DEF OnlyAt
  <2>7. OtherCalls("id", i)
    BY <1>1, <1>4, <1>6, <2>3, <2>4 DEF OtherCalls, CallingAt, Calling
  <2>8. CallAt("id", i)
    <3>1. /\ listeners'["id"][i] # Free /\ listeners'["id"][i].reg = f.reg
          /\ listeners'["id"][i].userdata = f.userdata
      BY <1>5, <2>3, <2>5
    <3>2. f.callback = "cleanup" /\ log'[f.reg].fate # "live"
      BY <1>2, <1>3, <2>3
    <3>3. \A k \in 1 .. Len(stack') : k = 1 /\ stack'[k] = f
      BY <2>4
    <3> QED
      BY <3>1, <3>2, <3>3 DEF CallAt
  <2>9. LeavingAt("id", i)
    <3>1. listeners'["id"][i] # Free
      BY <1>5, <2>5
    <3>2. /\ 1 \in 1 .. Len(stack') /\ stack'[1].callback \in {"timeout", "cleanup"}
          /\ CallingAt(stack'[1], "id", i)
      BY <2>3, <2>4 DEF CallingAt, Calling
    <3> QED
      BY <3>1, <3>2 DEF LeavingAt
  <2>10. AtSlot("id", i)
    BY <1>1, <1>4, <2>4, <2>6, <2>7, <2>8, <2>9 DEF AtSlot
  <2>11. UserdataAt("id", i)
    BY <1>2, <1>3, <1>5, <2>5 DEF UserdataAt
  <2>12. TimeAt("id", i)
    <3>1. \A j : Ahead(j)' = Ahead(j)
      BY <2>4 DEF Ahead
    <3> QED
      BY <1>3, <3>1 DEF TimeAt
  <2> QED
    BY <2>10, <2>11, <2>12, AllAtSlot
<1>8. CASE y.userdata = 0
  <2>1. Become(NextRound) /\ Discard("id", i)
    BY <1>1, <1>5, <1>8 DEF ExpireSlot
  <2>2. /\ OtherCalls("id", i) /\ CallAt("id", i) /\ Shape'
        /\ \A j \in Slots("id") : j # i => Ahead(j)' = Ahead(j)
    BY <1>1, <2>1, TickNextRound
  <2>3. /\ listeners'["id"][i] = Free
        /\ \A t \in Tables : \A j \in Slots(t) :
             t # "id" \/ j # i => listeners'[t][j] = listeners[t][j]
    BY <1>1, <1>4, <2>1, DiscardIs
  <2>4. AtSlot("id", i)
    BY <1>1, <1>3, <1>4, <2>2, <2>3 DEF AtSlot, OnlyAt, LeavingAt
  <2>5. UserdataAt("id", i)
    BY <1>2, <1>3, <1>8, <2>3 DEF UserdataAt
  <2>6. TimeAt("id", i)
    BY <1>3, <2>2, <2>3 DEF TimeAt
  <2> QED
    BY <2>4, <2>5, <2>6, AllAtSlot
<1> QED
  BY <1>7, <1>8

LEMMA TimeoutReturnsKeeps ==
  ASSUME IInv, IInv', FInv, TimeoutReturns
  PROVE  FInv'
<1>1. /\ stack # << >> /\ Top.callback = "timeout" /\ log' = log
      /\ ExpireSlot(listeners["id"], Top.i)
  BY DEF TimeoutReturns
<1>2. Top \in TickActivation /\ Top.op = "tick" /\ Top.table = "id" /\ Calling(Top)
  BY <1>1, TopType DEF IInv, Activation, Dispatch, Removal, TickActivation, Calling
<1>3. Len(stack) = 1 /\ stack[1] = Top
  BY <1>1, <1>2, Alone
<1>4. PICK i : i = Top.i
  OBVIOUS
<1> DEFINE y == listeners["id"][i]
<1>5. /\ "id" \in Tables /\ i \in Slots("id") /\ y # Free /\ y.reg = Top.reg
      /\ log[y.reg].fate # "live"
  BY <1>1, <1>2, <1>3, <1>4 DEF FInv, KInv, Attached, Held
<1>6. y \in Listener /\ y.reg \in 1 .. Len(log)
  BY <1>5, SlotIs DEF FInv
<1>7. listeners["id"] = [listeners["id"] EXCEPT ![i] = y]
  BY <1>5 DEF IInv, TablesOK
<1>8. log[y.reg].fate = "expired" => Expiry(log[y.reg])
  BY <1>6 DEF FInv, TInv, TimeOut, Expiry
<1>9. Overdue(i, y, listeners["id"], y.reg)
  BY <1>1, <1>2, <1>4, <1>5, <1>6, <1>7, <1>8 DEF Overdue
<1> QED
  BY <1>1, <1>9, ExpireKeeps

LEMMA CleanupReturnsKeeps ==
  ASSUME IInv, IInv', FInv, CleanupReturns
  PROVE  FInv'
<1>1. /\ stack # << >> /\ Top.callback = "cleanup"
      /\ log' = Released(log, Top.userdata) /\ Discard("id", Top.i)
      /\ IF Top.op = "tick" THEN Become(NextRound) ELSE Return
  BY DEF CleanupReturns
<1>2. Top \in TickActivation \/ Top \in Removal
  BY <1>1, TopType DEF IInv, Activation, Dispatch
<1> DEFINE n == Len(stack)
<1>3. /\ n \in Nat /\ n > 0 /\ n \in 1 .. n /\ stack[n] = Top
      /\ Calling(stack[n]) /\ Top.callback # "listener" /\ Top.callback # "timeout"
  BY <1>1, StackIs DEF Calling
<1>4. PICK i : i = Top.i
  OBVIOUS
<1> DEFINE lst == listeners["id"][i]
<1>5. /\ "id" \in Tables /\ i \in Slots("id") /\ lst # Free /\ lst.reg = Top.reg
      /\ Top.table = "id" /\ log[lst.reg].fate # "live" /\ lst.userdata = Top.userdata
  BY <1>3, <1>4 DEF FInv, KInv, Attached, Held, UInv, UserdataInCall
<1>6. lst.reg \in 1 .. Len(log) /\ lst.userdata \in {0, lst.reg}
  BY <1>5, SlotIs DEF FInv, UInv, UserdataInSlot
<1>7. /\ listeners'["id"][i] = Free
      /\ \A t \in Tables : \A j \in Slots(t) :
           t # "id" \/ j # i => listeners'[t][j] = listeners[t][j]
  BY <1>1, <1>4, <1>5, DiscardIs
<1>8. /\ Len(log') = Len(log)
      /\ log'[lst.reg].request = log[lst.reg].request
      /\ log'[lst.reg].fate = log[lst.reg].fate
      /\ log'[lst.reg].age = log[lst.reg].age
      /\ log'[lst.reg].early = log[lst.reg].early
      /\ log'[lst.reg].released = IF lst.userdata = 0 THEN log[lst.reg].released
                                  ELSE log[lst.reg].released + 1
      /\ \A t \in 1 .. Len(log) : t # lst.reg => log'[t] = log[t]
  <2>1. log' = Released(log, lst.userdata) /\ log \in Seq(Entry)
    BY <1>1, <1>5 DEF IInv, LogOK
  <2> HIDE DEF lst
  <2> QED
    BY <1>6, <2>1, ReleasedIs, ReleasedType
<1>9. log[lst.reg].fate = "expired" => Expiry(log'[lst.reg])
  BY <1>6, <1>8 DEF FInv, TInv, TimeOut, Expiry
<1>10. UserdataAt("id", i)
  BY <1>7, <1>8 DEF UserdataAt
<1>11. /\ OtherCalls("id", i) /\ CallAt("id", i) /\ Shape'
       /\ \A j \in Slots("id") : j # i => Ahead(j)' = Ahead(j)
  <2>1. CASE Top.op = "tick"
    <3>1. Top \in TickActivation
      BY <1>2, <2>1 DEF Removal
    <3> QED
      BY <1>1, <1>4, <2>1, <3>1, TickNextRound
  <2>2. CASE Top.op # "tick"
    <3>1. /\ Len(stack') = n - 1
          /\ \A k \in 1 .. n : k # n => stack'[k] = stack[k]
      BY <1>1, <2>2, ReturnIs
    <3>2. /\ \A k \in 1 .. n - 1 : k \in 1 .. n /\ k # n /\ stack'[k] = stack[k] /\ k < n
          /\ \A k \in 1 .. n : k = n \/ k \in 1 .. n - 1
      BY <1>3, <3>1
    <3>3. \A k \in 1 .. n : CallingAt(stack[k], "id", i) => k = n
      BY <1>3, <1>4, <1>5 DEF FInv, KInv, Apart, CallingAt
    <3>4. CallingAt(stack[n], "id", i)
      BY <1>3, <1>4, <1>5 DEF CallingAt
    <3>5. OtherCalls("id", i)
      <4>1. ASSUME NEW k \in 1 .. Len(stack), ~CallingAt(stack[k], "id", i)
            PROVE  k \in 1 .. Len(stack') /\ stack'[k] = stack[k]
        BY <3>1, <3>2, <3>4, <4>1
      <4>2. ASSUME NEW k \in 1 .. Len(stack')
            PROVE  k \in 1 .. Len(stack) /\ stack'[k] = stack[k]
        BY <3>1, <3>2
      <4> QED
        BY <4>1, <4>2 DEF OtherCalls, Calling, CallingAt
    <3>6. CallAt("id", i)
      BY <3>1, <3>2, <3>3 DEF CallAt, CallingAt, Calling
    <3>7. Shape'
      BY <3>1, <3>2 DEF FInv, KInv, Shape, Calling
    <3>8. \A j : Ahead(j)' = Ahead(j)
      <4>1. CASE n = 1
        <5>1. stack' = << >>
          <6>1. Below \in Seq(Activation) /\ stack' = Below
            BY <1>1, <2>2, TopType DEF IInv, Return
          <6> QED
            BY <3>1, <4>1, <6>1, EmptySeq
        <5> QED
          BY <1>3, <2>2, <4>1, <5>1 DEF Ahead
      <4>2. CASE n # 1
        <5>1. stack' # << >> /\ stack'[1] = stack[1]
          BY <1>3, <3>1, <4>2, EmptySeq
        <5> QED
          BY <1>1, <5>1 DEF Ahead
      <4> QED
        BY <4>1, <4>2
    <3> QED
      BY <3>5, <3>6, <3>7, <3>8
  <2> QED
    BY <2>1, <2>2
<1>12. AtSlot("id", i)
  BY <1>5, <1>7, <1>8, <1>11 DEF AtSlot, OnlyAt, LeavingAt
<1>13. TimeAt("id", i)
  BY <1>7, <1>8, <1>9, <1>11 DEF TimeAt
<1> QED
  BY <1>10, <1>12, <1>13, AllAtSlot

LEMMA TickReturnsKeeps ==
  ASSUME IInv, IInv', FInv, TickReturns
  PROVE  FInv'
<1>1. /\ Ticking /\ Top.i >= count["id"] /\ Return
      /\ listeners' = listeners /\ log' = log
  BY DEF TickReturns
<1>2. /\ stack # << >> /\ Top \in TickActivation /\ Top.op = "tick"
      /\ Top.callback = "none" /\ Top.i \in Nat
  BY <1>1, TickingIs
<1>3. /\ Len(stack) = 1 /\ stack[1] = Top
      /\ \A k \in 1 .. Len(stack) : k = 1
  BY <1>2, Alone
<1>4. stack' = << >> /\ Len(stack') = 0 /\ Shape'
  BY <1>1, <1>2, AloneReturns
<1>5. Quiet
  BY <1>1, <1>2, <1>3, <1>4 DEF Quiet, Calling
<1>6. ASSUME NEW j \in Slots("id"), listeners["id"][j] # Free
      PROVE  Ahead(j)' = Ahead(j)
  <2>1. "id" \in Tables
    BY DEF Tables
  <2>2. j < count["id"] /\ j \in Int /\ count["id"] \in Nat
    BY <1>6, <2>1, SizeType DEF IInv, CountsCoverListeners, CountsOK, Slots
  <2>3. ~(Top.i <= j)
    BY <1>1, <1>2, <2>2
  <2> QED
    BY <1>3, <1>4, <2>3 DEF Ahead
<1> QED
  BY <1>1, <1>5, <1>6, AllQuiet

\* A tick takes one off what is left, or finds the last one.
LEMMA TickOnTime ==
  ASSUME NEW lst, NEW e, lst.timeout \in Nat, lst.timeout_max \in Nat, e.age \in Nat,
         lst.timeout > 0, OnTime(lst, e, TRUE)
  PROVE  /\ lst.timeout_max > 0
         /\ \/ lst.timeout - 1 + e.age = lst.timeout_max
            \/ e.early /\ lst.timeout - 1 + e.age = lst.timeout_max - 1
<1>1. lst.timeout_max > 0
  BY DEF OnTime
<1>2. \/ lst.timeout + e.age = lst.timeout_max + 1
      \/ e.early /\ lst.timeout + e.age = lst.timeout_max + 1 - 1
  BY <1>1 DEF OnTime
<1>3. lst.timeout + e.age = lst.timeout_max + 1
      => lst.timeout - 1 + e.age = lst.timeout_max
  OBVIOUS
<1>4. lst.timeout + e.age = lst.timeout_max + 1 - 1
      => lst.timeout - 1 + e.age = lst.timeout_max - 1
  OBVIOUS
<1> QED
  BY <1>1, <1>2, <1>3, <1>4, Zenon

LEMMA NotAheadOnTime ==
  ASSUME NEW lst, NEW e, lst.timeout_max > 0, lst.timeout > 0, lst.timeout_max \in Nat,
         \/ lst.timeout + e.age = lst.timeout_max
         \/ e.early /\ lst.timeout + e.age = lst.timeout_max - 1
  PROVE  OnTime(lst, e, FALSE)
<1>1. lst.timeout_max + 0 = lst.timeout_max /\ lst.timeout_max # 0
  OBVIOUS
<1> QED
  BY <1>1 DEF OnTime

LEMMA TickSlotKeeps ==
  ASSUME IInv, IInv', FInv, TickSlot
  PROVE  FInv'
<1>1. Ticking /\ Top.i < count["id"]
  BY DEF TickSlot
<1>2. /\ stack # << >> /\ Top \in TickActivation /\ Top.op = "tick"
      /\ Top.callback = "none" /\ Top.i \in Nat /\ Top.userdata = 0
      /\ \A tbl \in Tables : \A j \in Slots(tbl) :
           listeners[tbl][j] # Free => log[listeners[tbl][j].reg].fate = "live"
  BY <1>1, TickingIs
<1>3. PICK i : i = Top.i
  OBVIOUS
<1>4. "id" \in Tables
  BY DEF Tables
<1>5. i \in Slots("id") /\ i \in Nat
  <2>1. count["id"] \in Nat /\ count["id"] <= Size["id"] /\ Size["id"] \in Nat
    BY <1>4, SizeType DEF IInv, CountsOK
  <2> QED
    BY <1>1, <1>2, <1>3, <2>1 DEF Slots
<1>6. /\ Len(stack) = 1 /\ stack[1] = Top
      /\ \A k \in 1 .. Len(stack) : k = 1
  BY <1>2, Alone
<1> DEFINE lst == listeners["id"][i]
           y == [lst EXCEPT !.timeout = lst.timeout - 1]
           table == [listeners["id"] EXCEPT ![i].timeout = lst.timeout - 1]
<1>7. ASSUME Become(NextRound), listeners' = listeners, log' = log,
             lst # Free => lst.timeout = 0
      PROVE  FInv'
  <2>1. /\ \A k \in 1 .. Len(stack') : ~Calling(stack'[k])
        /\ Shape'
        /\ \A j \in Slots("id") : j # i => Ahead(j)' = Ahead(j)
    BY <1>2, <1>3, <1>7, TickNextRound
  <2>2. Quiet
    BY <1>2, <1>6, <1>7, <2>1 DEF Quiet, Calling
  <2>3. ~(0 > 0)
    OBVIOUS
  <2> QED
    BY <1>7, <2>1, <2>2, <2>3, AllQuiet
<1>8. ASSUME lst # Free
      PROVE  /\ lst \in Listener /\ lst.reg \in 1 .. Len(log) /\ log[lst.reg] \in Entry
             /\ lst.timeout \in Nat /\ lst.timeout_max \in Nat /\ log[lst.reg].age \in Nat
             /\ log[lst.reg].fate = "live"
             /\ log[lst.reg].request.timeout = lst.timeout_max
             /\ OnTime(lst, log[lst.reg], TRUE)
  <2>1. /\ lst \in Listener /\ lst.reg \in 1 .. Len(log) /\ log[lst.reg] \in Entry
        /\ lst.timeout \in Nat /\ lst.timeout_max \in Nat
        /\ log[lst.reg].request.timeout = lst.timeout_max
    BY <1>4, <1>5, <1>8, SlotIs DEF FInv
  <2>2. log[lst.reg].fate = "live" /\ log[lst.reg].age \in Nat
    BY <1>2, <1>4, <1>5, <1>8, <2>1 DEF Entry
  <2>3. Ahead(i)
    BY <1>2, <1>3, <1>6 DEF Ahead
  <2>4. OnTime(lst, log[lst.reg], Ahead(i))
    BY <1>5, <1>8, <2>2 DEF FInv, TInv, TimeLeft
  <2>5. OnTime(lst, log[lst.reg], TRUE)
    BY <2>3, <2>4 DEF OnTime
  <2> QED
    BY <2>1, <2>2, <2>5
<1>9. ASSUME lst # Free, lst.timeout >= 1
      PROVE  /\ y \in Listener /\ y.reg = lst.reg /\ y.timeout_max = lst.timeout_max
             /\ y.userdata = lst.userdata /\ y.timeout = lst.timeout - 1
             /\ table = [listeners["id"] EXCEPT ![i] = y]
             /\ [listeners EXCEPT !["id"] = table] = [listeners EXCEPT !["id"][i] = y]
  <2>1. lst \in Listener
    BY <1>8, <1>9
  <2> DEFINE n == lst.timeout - 1
  <2>2. n \in Nat
    BY <1>9, <2>1 DEF Listener
  <2>3. /\ y \in Listener /\ y.reg = lst.reg /\ y.timeout_max = lst.timeout_max
        /\ y.userdata = lst.userdata /\ y.timeout = n
    <3> HIDE DEF n, lst
    <3> QED
      BY <2>1, <2>2 DEF Listener, n
  <2>4. table = [listeners["id"] EXCEPT ![i] = y]
    OBVIOUS
  <2> HIDE DEF y, table
  <2> QED
    BY <2>1, <2>3, <2>4
<1>10. ASSUME lst # Free, lst.timeout > 1, log' = log, Become(NextRound),
              listeners' = [listeners EXCEPT !["id"] = table]
       PROVE  FInv'
  <2>0. lst.timeout \in Nat
    BY <1>8, <1>10, Zenon
  <2>1. lst.timeout >= 1 /\ lst.timeout > 0
    BY <1>10, <2>0
  <2>2. /\ y \in Listener /\ y.reg = lst.reg /\ y.timeout_max = lst.timeout_max
        /\ y.userdata = lst.userdata /\ y.timeout = lst.timeout - 1
        /\ listeners' = [listeners EXCEPT !["id"][i] = y]
    BY <1>9, <1>10, <2>1
  <2> HIDE DEF y, table
  <2>3. /\ listeners'["id"][i] = y /\ y # Free
        /\ \A t \in Tables : \A j \in Slots(t) :
             t # "id" \/ j # i => listeners'[t][j] = listeners[t][j]
    <3>1. listeners'["id"][i] = y
      BY <1>4, <1>5, <2>2 DEF IInv, TablesOK
    <3>2. y # Free
      BY <2>2, FreeIsNoListener
    <3>3. \A t \in Tables : \A j \in Slots(t) :
            t # "id" \/ j # i => listeners'[t][j] = listeners[t][j]
      BY <1>4, <1>5, <2>2, RetouchIs
    <3> QED
      BY <3>1, <3>2, <3>3
  <2>4. /\ OtherCalls("id", i) /\ CallAt("id", i) /\ Shape'
        /\ \A j \in Slots("id") : j # i => Ahead(j)' = Ahead(j)
        /\ ~Ahead(i)'
    BY <1>2, <1>3, <1>10, TickNextRound
  <2>5. AtSlot("id", i)
    BY <1>4, <1>5, <1>8, <1>10, <2>2, <2>3, <2>4 DEF AtSlot, OnlyAt, LeavingAt
  <2>6. UserdataAt("id", i)
    BY <1>10, <2>2, <2>3 DEF UserdataAt
  <2>7. OnTime(y, log[lst.reg], FALSE)
    <3>1. /\ lst.timeout_max > 0
          /\ \/ lst.timeout - 1 + log[lst.reg].age = lst.timeout_max
             \/ log[lst.reg].early /\ lst.timeout - 1 + log[lst.reg].age = lst.timeout_max - 1
      BY <1>8, <1>10, <2>1, TickOnTime
    <3>2. lst.timeout - 1 > 0
      BY <2>0, <1>10
    <3>3. lst.timeout_max \in Nat
      BY <1>8, <1>10, Zenon
    <3> HIDE DEF lst
    <3> QED
      BY <2>2, <3>1, <3>2, <3>3, NotAheadOnTime
  <2>8. TimeAt("id", i)
    <3>1. OnTime(y, log[lst.reg], Ahead(i)')
      BY <2>4, <2>7 DEF OnTime
    <3> QED
      BY <1>8, <1>10, <2>3, <2>4, <3>1 DEF TimeAt
  <2> QED
    BY <2>5, <2>6, <2>8, AllAtSlot
<1>11. ASSUME lst # Free, lst.timeout = 1, log' = Ended(log, lst.reg, "expired"),
              \/ /\ listeners' = [listeners EXCEPT !["id"] = table]
                 /\ Become([Top EXCEPT !.callback = "timeout", !.reg = lst.reg])
              \/ ExpireSlot(table, Top.i)
       PROVE  FInv'
  <2>1. lst.timeout >= 1 /\ lst.timeout > 0 /\ lst.timeout - 1 = 0
    BY <1>11
  <2>2. /\ y \in Listener /\ y.reg = lst.reg /\ y.timeout_max = lst.timeout_max
        /\ y.userdata = lst.userdata
        /\ table = [listeners["id"] EXCEPT ![i] = y]
        /\ [listeners EXCEPT !["id"] = table] = [listeners EXCEPT !["id"][i] = y]
    BY <1>9, <1>11, <2>1
  <2>3. PICK reg : reg = lst.reg
    OBVIOUS
  <2>4. /\ reg \in 1 .. Len(log) /\ log[reg].fate = "live"
        /\ log[reg].request.timeout = lst.timeout_max
    BY <1>8, <1>11, <2>3
  <2>5. \/ log[reg].age = lst.timeout_max
        \/ log[reg].early /\ log[reg].age = lst.timeout_max - 1
    <3>1. /\ \/ 0 + log[reg].age = lst.timeout_max
             \/ log[reg].early /\ 0 + log[reg].age = lst.timeout_max - 1
          /\ log[reg].age \in Nat
      BY <1>8, <1>11, <2>1, <2>3, TickOnTime
    <3>2. 0 + log[reg].age = log[reg].age
      BY <3>1
    <3> QED
      BY <3>1, <3>2, Zenon
  <2>6. /\ Len(log') = Len(log)
        /\ log'[reg].request = log[reg].request /\ log'[reg].age = log[reg].age
        /\ log'[reg].early = log[reg].early /\ log'[reg].released = log[reg].released
        /\ log'[reg].fate = "expired"
        /\ \A t \in 1 .. Len(log) : t # reg => log'[t] = log[t]
    BY <1>11, <2>3, <2>4, EndedAt
  <2>7. Expiry(log'[reg])
    BY <2>4, <2>5, <2>6, Zenon DEF Expiry
  <2>8. CASE /\ listeners' = [listeners EXCEPT !["id"] = table]
             /\ Become([Top EXCEPT !.callback = "timeout", !.reg = lst.reg])
    <3> HIDE DEF y, table
    <3>1. PICK f : f = [Top EXCEPT !.callback = "timeout", !.reg = reg]
      OBVIOUS
    <3>2. Become(f) /\ listeners' = [listeners EXCEPT !["id"][i] = y]
      BY <2>2, <2>3, <2>8, <3>1
    <3>3. /\ f \in TickActivation /\ f.i = i /\ f.table = "id" /\ f.callback = "timeout"
          /\ f.reg = reg /\ f.userdata = 0
      <4>1. reg \in Nat
        BY <2>4, StackIs
      <4> QED
        BY <1>2, <1>3, <3>1, <4>1 DEF TickActivation
    <3>4. /\ Len(stack') = 1 /\ stack'[1] = f /\ Shape'
          /\ \A k \in 1 .. Len(stack') : k = 1
          /\ \A j : Ahead(j) <=> i <= j
          /\ \A j : Ahead(j)' <=> i <= j
      BY <1>2, <1>3, <3>2, <3>3, TickBecomes
    <3>5. /\ listeners'["id"][i] = y /\ y # Free
          /\ \A t \in Tables : \A j \in Slots(t) :
               t # "id" \/ j # i => listeners'[t][j] = listeners[t][j]
      <4>1. listeners'["id"][i] = y
        BY <1>4, <1>5, <3>2 DEF IInv, TablesOK
      <4>2. y # Free
        BY <2>2, FreeIsNoListener
      <4>3. \A t \in Tables : \A j \in Slots(t) :
              t # "id" \/ j # i => listeners'[t][j] = listeners[t][j]
        BY <1>4, <1>5, <3>2, RetouchIs
      <4> QED
        BY <4>1, <4>2, <4>3
    <3>6. OnlyAt("id", i)
      BY <2>2, <2>3, <2>4, <2>6, <3>5 DEF OnlyAt
    <3>7. OtherCalls("id", i)
      BY <1>2, <1>6, <3>3, <3>4 DEF OtherCalls, CallingAt, Calling
    <3>8. CallAt("id", i)
      BY <2>2, <2>3, <2>6, <3>3, <3>4, <3>5 DEF CallAt
    <3>9. LeavingAt("id", i)
      BY <2>3, <2>6, <3>3, <3>4, <3>5 DEF LeavingAt, CallingAt, Calling
    <3>10. AtSlot("id", i)
      BY <1>4, <1>5, <1>11, <3>4, <3>6, <3>7, <3>8, <3>9 DEF AtSlot
    <3>11. UserdataAt("id", i)
      BY <2>2, <2>3, <2>6, <3>5 DEF UserdataAt
    <3>12. TimeAt("id", i)
      <4>1. \A j : Ahead(j)' = Ahead(j)
        BY <3>4 DEF Ahead
      <4> QED
        BY <2>3, <2>6, <2>7, <4>1 DEF TimeAt
    <3> QED
      BY <3>10, <3>11, <3>12, AllAtSlot
  <2>9. CASE ExpireSlot(table, Top.i)
    <3>1. PICK x, tb : x = y /\ tb = table
      OBVIOUS
    <3> HIDE DEF y, table
    <3>2. /\ x \in Listener /\ x.reg = listeners["id"][i].reg
          /\ x.timeout_max = listeners["id"][i].timeout_max
          /\ x.userdata = listeners["id"][i].userdata
          /\ tb = [listeners["id"] EXCEPT ![i] = x]
      BY <2>2, <3>1
    <3>3. /\ reg = listeners["id"][i].reg /\ listeners["id"][i] # Free
          /\ ExpireSlot(tb, Top.i) /\ i = Top.i /\ log'[reg].fate # "live"
      BY <1>3, <1>11, <2>3, <2>6, <2>9, <3>1
    <3>4. /\ stack # << >> /\ Top \in TickActivation /\ i \in Slots("id")
          /\ Calling(Top) \/ Top.userdata = 0
      BY <1>2, <1>5
    <3>5. Overdue(i, x, tb, reg)
      BY <2>6, <2>7, <3>2, <3>3, <3>4 DEF Overdue
    <3> QED
      BY <3>3, <3>5, ExpireKeeps
  <2> QED
    BY <1>11, <2>8, <2>9
<1> QED
  BY <1>3, <1>7, <1>10, <1>11 DEF TickSlot

-----------------------------------------------------------------------------
(* The invariant and what follows from it.                                   *)

LEMMA FInvInit == Init => FInv
<1> SUFFICES ASSUME Init PROVE FInv
  OBVIOUS
<1>1. /\ stack = << >> /\ log = << >> /\ Len(stack) = 0 /\ Len(log) = 0
      /\ \A tbl \in Tables : \A i \in Slots(tbl) : listeners[tbl][i] = Free
  BY EmptySeq DEF Init
<1>2. /\ \A k \in 1 .. Len(stack) : FALSE
      /\ \A t \in 1 .. Len(log) : FALSE
  BY <1>1
<1>3. Shape /\ Attached /\ Apart
  BY <1>2 DEF Shape, Attached, Apart
<1>4. OneSlot /\ Faithful /\ Requested /\ LiveHeld /\ Leaving
  BY <1>1, <1>2 DEF OneSlot, Faithful, Requested, LiveHeld, Leaving
<1>5. UInv
  BY <1>1, <1>2 DEF UInv, UserdataInSlot, UserdataInCall, UserdataInLog
<1>6. TInv
  <2>1. "id" \in Tables
    BY DEF Tables
  <2> QED
    BY <1>1, <1>2, <2>1 DEF TInv, TimeLeft, TimeOut
<1> QED
  BY <1>3, <1>4, <1>5, <1>6 DEF FInv, KInv

LEMMA FInvNext ==
  ASSUME Careful, IInv, IInv', FInv, [Next]_vars
  PROVE  FInv'
<1>1. CASE UserCall
  <2>1. ASSUME NEW r \in Requests, AddListener(r) PROVE FInv'
    BY <2>1, AddListenerKeeps
  <2>2. ASSUME NEW tbl \in Tables, NEW key \in Keys, RemoveListener(tbl, key) PROVE FInv'
    BY <2>2, RemoveListenerKeeps
  <2>3. ASSUME NEW key \in Keys, RenewIdListener(key) PROVE FInv'
    BY <2>3, RenewIdListenerKeeps
  <2> QED
    BY <1>1, <2>1, <2>2, <2>3 DEF UserCall
<1>2. CASE \E m \in Messages : HandleReceivedMessage(m)
  BY <1>2, HandleReceivedMessageKeeps
<1>3. CASE Tick
  BY <1>3, TickKeeps
<1>4. CASE CallbackReturns
  <2>1. ASSUME NEW res \in Results, NEW release \in BOOLEAN, ListenerReturns(res, release)
        PROVE  FInv'
    BY <2>1, ListenerReturnsKeeps
  <2> QED
    BY <1>4, <2>1, TimeoutReturnsKeeps, CleanupReturnsKeeps DEF CallbackReturns
<1>5. CASE LibraryStep
  BY <1>5, CallListenerKeeps, SkipSlotKeeps, NextTableKeeps, TickSlotKeeps,
     TickReturnsKeeps DEF LibraryStep
<1>6. CASE UNCHANGED vars
  <2>1. listeners' = listeners /\ stack' = stack /\ log' = log
    BY <1>6 DEF vars
  <2>2. Shape
    BY DEF FInv, KInv
  <2>3. Shape'
    BY <2>1, <2>2 DEF Shape, Calling
  <2>4. Quiet
    BY <2>1, <2>3 DEF Quiet, Calling
  <2>5. \A j : Ahead(j)' = Ahead(j)
    BY <2>1 DEF Ahead
  <2> QED
    BY <2>1, <2>4, <2>5, AllQuiet
<1> QED
  BY <1>1, <1>2, <1>3, <1>4, <1>5, <1>6 DEF Next

LEMMA FInvAlways ==
  ASSUME Careful
  PROVE  Spec => [](IInv /\ FInv)
<1>1. Init => IInv /\ FInv
  BY InvInit, FInvInit
<1>2. IInv /\ FInv /\ [Next]_vars => (IInv /\ FInv)'
  <2> SUFFICES ASSUME IInv, FInv, [Next]_vars PROVE IInv' /\ FInv'
    OBVIOUS
  <2>1. IInv'
    BY InvNext
  <2> QED
    BY <2>1, FInvNext
<1> QED
  BY <1>1, <1>2, PTL DEF Spec

\* The slots of a registration, as the properties count them.
LEMMA HoldersAre ==
  ASSUME IInv, NEW t
  PROVE  /\ \A h \in Holders(t) :
              /\ h = <<h[1], h[2]>> /\ h[1] \in Tables /\ h[2] \in Slots(h[1])
              /\ listeners[h[1]][h[2]] # Free /\ listeners[h[1]][h[2]].reg = t
         /\ \A tbl \in Tables : \A i \in Slots(tbl) :
              listeners[tbl][i] # Free /\ listeners[tbl][i].reg = t =>
                <<tbl, i>> \in Holders(t)
BY DEF Holders

LEMMA OneHolder ==
  ASSUME IInv, KInv, NEW t, NEW tbl \in Tables, NEW i \in Slots(tbl),
         listeners[tbl][i] # Free, listeners[tbl][i].reg = t
  PROVE  Holders(t) = {<<tbl, i>>}
<1>1. <<tbl, i>> \in Holders(t)
  BY HoldersAre
<1>2. ASSUME NEW h \in Holders(t)
      PROVE  h = <<tbl, i>>
  <2>1. /\ h = <<h[1], h[2]>> /\ h[1] \in Tables /\ h[2] \in Slots(h[1])
        /\ listeners[h[1]][h[2]] # Free /\ listeners[h[1]][h[2]].reg = t
    BY HoldersAre
  <2>2. h[1] = tbl /\ h[2] = i
    BY <2>1 DEF KInv, OneSlot
  <2> QED
    BY <2>1, <2>2
<1> QED
  BY <1>1, <1>2

(* When users remove no listener inside a callback made through it and no    *)
(* tick interrupts a callback, what TF_Tick, TF_HandleReceivedMessage and    *)
(* the add, remove and renew functions do to one listener never costs        *)
(* another its slot, whatever callbacks are nested in between.               *)
THEOREM Kept ==
  ASSUME Careful
  PROVE  Spec => []RegistrationsKept
<1>1. IInv /\ FInv => RegistrationsKept
  <2> SUFFICES ASSUME IInv, FInv, NEW t \in Regs
               PROVE  /\ log[t].fate = "live" => Cardinality(Holders(t)) = 1
                      /\ log[t].fate # "live" =>
                           \/ Holders(t) = {}
                           \/ \E k \in DOMAIN stack :
                                /\ stack[k].callback \in {"timeout", "cleanup"}
                                /\ stack[k].reg = t
                                /\ Holders(t) = {<<"id", stack[k].i>>}
    BY DEF RegistrationsKept
  <2>1. t \in 1 .. Len(log)
    BY LenProperties DEF IInv, LogOK, Regs
  <2>2. ASSUME log[t].fate = "live"
        PROVE  Cardinality(Holders(t)) = 1
    <3>1. PICK tbl \in Tables : \E i \in Slots(tbl) : Held(t, tbl, i)
      BY <2>1, <2>2 DEF FInv, KInv, LiveHeld
    <3>2. PICK i \in Slots(tbl) : Held(t, tbl, i)
      BY <3>1
    <3>3. Holders(t) = {<<tbl, i>>}
      BY <3>2, OneHolder DEF Held, FInv
    <3> QED
      BY <3>3, FS_Singleton
  <2>3. ASSUME log[t].fate # "live", Holders(t) # {}
        PROVE  \E k \in DOMAIN stack :
                 /\ stack[k].callback \in {"timeout", "cleanup"} /\ stack[k].reg = t
                 /\ Holders(t) = {<<"id", stack[k].i>>}
    <3>1. PICK h : h \in Holders(t)
      BY <2>3
    <3>2. /\ h[1] \in Tables /\ h[2] \in Slots(h[1])
          /\ listeners[h[1]][h[2]] # Free /\ listeners[h[1]][h[2]].reg = t
      BY <3>1, HoldersAre
    <3>3. PICK k \in 1 .. Len(stack) :
            /\ stack[k].callback \in {"timeout", "cleanup"}
            /\ CallingAt(stack[k], h[1], h[2])
      BY <2>3, <3>2 DEF FInv, KInv, Leaving
    <3>4. /\ Calling(stack[k]) /\ stack[k].table = h[1] /\ stack[k].i = h[2]
          /\ k \in DOMAIN stack
      BY <3>3, StackIs DEF CallingAt
    <3>5. stack[k].table = "id" /\ Held(stack[k].reg, stack[k].table, stack[k].i)
      BY <3>3, <3>4 DEF FInv, KInv, Attached
    <3>6. stack[k].reg = t
      BY <3>2, <3>4, <3>5 DEF Held
    <3>7. Holders(t) = {<<h[1], h[2]>>}
      BY <3>2, OneHolder DEF FInv
    <3> QED
      BY <3>3, <3>4, <3>5, <3>6, <3>7
  <2> QED
    BY <2>2, <2>3
<1> QED
  BY <1>1, FInvAlways, PTL

(* Under the same conditions the callbacks that are given userdata to        *)
(* release (a listener that returns TF_CLOSE, and the call with NULL data    *)
(* from cleanup_id_listener) release it once and are not given it again, and *)
(* userdata that is not released is still in its listener's slot.            *)
THEOREM ReleasedOnce ==
  ASSUME Careful
  PROVE  Spec => []UserdataReleasedOnce
<1>1. IInv /\ FInv => UserdataReleasedOnce
  <2> SUFFICES ASSUME IInv, FInv, NEW t \in Regs
               PROVE  /\ log[t].released <= 1
                      /\ log[t].released = 1 =>
                           \A k \in DOMAIN stack :
                             stack[k].callback # "none" => stack[k].userdata # t
                      /\ log[t].request.userdata /\ log[t].released = 0 =>
                           \E h \in Holders(t) : listeners[h[1]][h[2]].userdata = t
    BY DEF UserdataReleasedOnce
  <2>1. t \in 1 .. Len(log) /\ t # 0
    BY LenProperties DEF IInv, LogOK, Regs
  <2>2. log[t].released <= 1
    <3>1. log[t].released \in {0, 1}
      BY <2>1 DEF FInv, UInv, UserdataInLog
    <3> QED
      BY <3>1
  <2>3. ASSUME log[t].released = 1, NEW k \in DOMAIN stack, stack[k].callback # "none",
               stack[k].userdata = t
        PROVE  FALSE
    <3>1. k \in 1 .. Len(stack) /\ Calling(stack[k])
      BY <2>3, StackIs DEF Calling
    <3> DEFINE lst == listeners[stack[k].table][stack[k].i]
    <3>2. /\ stack[k].table \in Tables /\ stack[k].i \in Slots(stack[k].table)
          /\ lst # Free
      BY <3>1 DEF FInv, KInv, Attached, Held
    <3>3. lst.userdata = t
      BY <2>1, <2>3, <3>1 DEF FInv, UInv, UserdataInCall
    <3>4. lst.reg = t /\ log[lst.reg].released = 0
      BY <2>1, <3>2, <3>3 DEF FInv, UInv, UserdataInSlot
    <3> QED
      BY <2>3, <3>4
  <2>4. ASSUME log[t].request.userdata, log[t].released = 0
        PROVE  \E h \in Holders(t) : listeners[h[1]][h[2]].userdata = t
    <3>1. PICK i \in Slots("id") : Held(t, "id", i) /\ listeners["id"][i].userdata = t
      BY <2>1, <2>4 DEF FInv, UInv, UserdataInLog
    <3>2. <<"id", i>> \in Holders(t)
      BY <3>1, HoldersAre DEF Held
    <3> QED
      BY <3>1, <3>2
  <2> QED
    BY <2>2, <2>3, <2>4
<1> QED
  BY <1>1, FInvAlways, PTL

(* Under the same conditions TF_Tick ends a listener in the tick that        *)
(* completes its timeout, counted from when it was added or last renewed,    *)
(* and leaves none overdue, whichever listeners the callbacks it makes add,  *)
(* remove and renew.                                                         *)
THEOREM Expires ==
  ASSUME Careful
  PROVE  Spec => []ExpiresOnTime
<1>1. IInv /\ FInv => ExpiresOnTime
  <2> SUFFICES ASSUME IInv, FInv, NEW t \in Regs
               PROVE  LET timeout == log[t].request.timeout
                      IN  /\ log[t].fate = "expired" =>
                               \/ log[t].age = timeout
                               \/ log[t].early /\ log[t].age = timeout - 1
                          /\ log[t].fate = "live" /\ timeout > 0 =>
                               log[t].age < timeout \/ InTick
    BY DEF ExpiresOnTime
  <2>1. t \in 1 .. Len(log)
    BY LenProperties DEF IInv, LogOK, Regs
  <2>2. log[t].fate = "expired" =>
          \/ log[t].age = log[t].request.timeout
          \/ log[t].early /\ log[t].age = log[t].request.timeout - 1
    BY <2>1, Zenon DEF FInv, TInv, TimeOut
  <2>3. ASSUME log[t].fate = "live", log[t].request.timeout > 0, ~InTick
        PROVE  log[t].age < log[t].request.timeout
    <3>1. PICK tbl \in Tables : \E i \in Slots(tbl) : Held(t, tbl, i)
      BY <2>1, <2>3 DEF FInv, KInv, LiveHeld
    <3>2. PICK i \in Slots(tbl) : Held(t, tbl, i)
      BY <3>1
    <3> DEFINE lst == listeners[tbl][i]
    <3>3. /\ lst # Free /\ lst.reg = t /\ lst.timeout \in Nat /\ lst.timeout_max \in Nat
          /\ log[t].request.table = tbl /\ log[t].request.timeout = lst.timeout_max
          /\ log[t] \in Entry
      BY <3>2, SlotIs DEF Held, FInv
    <3>4. log[t].age \in Nat
      BY <3>3 DEF Entry
    <3>5. log[t].request \in Requests
      BY <2>1 DEF FInv, KInv, Requested
    <3>6. tbl = "id"
      <4>1. log[t].request.table # "id" => log[t].request.timeout = 0
        BY <3>5, ListenerAssumption
      <4> QED
        BY <2>3, <3>3, <4>1
    <3>7. ~Ahead(i)
      BY <2>3, AheadInTick
    <3>8. OnTime(lst, log[t], Ahead(i))
      BY <2>3, <3>2, <3>3, <3>6 DEF FInv, TInv, TimeLeft
    <3>9. OnTime(lst, log[t], FALSE)
      BY <3>7, <3>8 DEF OnTime
    <3>10. lst.timeout_max > 0
      BY <2>3, <3>3
    <3>11. /\ lst.timeout > 0
           /\ \/ lst.timeout + log[t].age = lst.timeout_max + 0
              \/ lst.timeout + log[t].age = lst.timeout_max + 0 - 1
      BY <3>9, <3>10 DEF OnTime
    <3> HIDE DEF lst
    <3> QED
      BY <3>3, <3>4, <3>11
  <2> QED
    BY <2>2, <2>3
<1> QED
  BY <1>1, FInvAlways, PTL
=============================================================================
