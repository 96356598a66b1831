----------------------------- MODULE TFListeners -----------------------------
(****************************************************************************)
(* The listener tables, the dispatch of a received message to them, their   *)
(* timeouts, and the user's callbacks, which may call the library again.    *)
(*                                                                          *)
(* A callback leaves the library function that made it suspended, with its  *)
(* loop index and its pointer into the table, while the user's code adds,   *)
(* removes and renews listeners in that table.  `stack` holds the suspended *)
(* activations; when it is empty the user's main program runs.  Library     *)
(* code between two callbacks, and one round of a loop over a table, is one *)
(* step.  What happened to each registration is recorded in `log`.          *)
(****************************************************************************)
EXTENDS Integers, Sequences, FiniteSets

CONSTANTS
  TF_MAX_ID_LST, TF_MAX_TYPE_LST, TF_MAX_GEN_LST,  \* sizes of the tables
  Requests,      \* the registrations the user asks for
  Messages,      \* the frames that are received
  Free,          \* "the slot is empty" (fn is NULL)
  SelfRemoval,   \* users remove a listener inside a callback made through it
  TickPreempts,  \* TF_Tick may interrupt a callback
  MaxRegs,       \* bound on the number of registrations
  MaxDepth       \* bound on the nesting of callbacks

Tables == {"id", "type", "generic"}
Size == [id |-> TF_MAX_ID_LST, type |-> TF_MAX_TYPE_LST, generic |-> TF_MAX_GEN_LST]
Slots(tbl) == 0 .. Size[tbl] - 1
Results == {"NEXT", "STAY", "RENEW", "CLOSE"}

\* The key a listener is looked up by: its frame ID, its type or its function.
\* Only ID listeners have a timeout (0: none), a timeout function and userdata.
Request ==
  [table : Tables, key : Nat, timeout : Nat, fn_timeout : BOOLEAN, userdata : BOOLEAN]

ASSUME ListenerAssumption ==
  /\ \A tbl \in Tables : Size[tbl] \in Nat
  /\ Requests \subseteq Request
  /\ \A r \in Requests :
       r.table # "id" => r.timeout = 0 /\ ~r.fn_timeout /\ ~r.userdata
  /\ Messages \subseteq [id : Nat, type : Nat]
  /\ {SelfRemoval, TickPreempts} \subseteq BOOLEAN
  /\ MaxRegs \in Nat /\ MaxDepth \in Nat \ {0}
  /\ Free \notin [reg : Nat, key : Nat, timeout : Nat, timeout_max : Nat,
                  fn_timeout : BOOLEAN, userdata : Nat]

VARIABLES
  listeners,  \* the three tables: a slot is Free or a listener
  count,      \* count_id_lst, count_type_lst and count_generic_lst
  stack,      \* activations of the library suspended in a callback, and the running one
  log         \* history: what became of each registration

vars == <<listeners, count, stack, log>>

Init ==
  /\ listeners = [tbl \in Tables |-> [i \in Slots(tbl) |-> Free]]
  /\ count = [tbl \in Tables |-> 0]
  /\ stack = << >>
  /\ log = << >>

\* The running activation.  The user's code runs in its callback, if it is in one.
Top == stack[Len(stack)]
Below == SubSeq(stack, 1, Len(stack) - 1)
UserRuns == stack # << >> => Top.callback # "none"

\* Top goes on as f, or returns; it goes on with the next round of its loop.
Become(f) == stack' = Append(Below, f)
Return == stack' = Below
NextRound == [Top EXCEPT !.callback = "none", !.i = @ + 1, !.reg = 0, !.userdata = 0]

\* The slots of a table that hold a listener, as far as a loop over it looks.
Listening(tbl) == {i \in Slots(tbl) : i < count[tbl] /\ listeners[tbl][i] # Free}

\* The first of a set of slots.
First(S, i) == i \in S /\ \A j \in S : i <= j

\* Userdata is named by the registration it was given with; 0 is NULL.
Released(history, d) == IF d = 0 THEN history ELSE [history EXCEPT ![d].released = @ + 1]

\* A registration that has not ended ends this way.
Ended(history, reg, fate) ==
  [history EXCEPT ![reg].fate = IF @ = "live" THEN fate ELSE @]

\* The ticks a registration is owed are counted from here; `early` when a tick is
\* under way, which may or may not count for it.
InTick == \E k \in DOMAIN stack : stack[k].op = "tick"
Renewed(history, reg) ==
  IF history[reg].fate # "live" THEN history
    ELSE [history EXCEPT ![reg].age = 0, ![reg].early = InTick]

-----------------------------------------------------------------------------
\* Broken variant of AddListener: the count grows with every addition.
AddListener_AlwaysGrows(r) ==
  /\ UserRuns
  /\ Len(log) < MaxRegs
  /\ \E i \in Slots(r.table) :
       /\ First({j \in Slots(r.table) : listeners[r.table][j] = Free}, i)
       /\ listeners' = [listeners EXCEPT ![r.table][i] =
            [reg |-> Len(log) + 1, key |-> r.key, timeout |-> r.timeout,
             timeout_max |-> r.timeout, fn_timeout |-> r.fn_timeout,
             userdata |-> IF r.userdata THEN Len(log) + 1 ELSE 0]]
       /\ count' = [count EXCEPT ![r.table] = @ + 1]
  /\ log' = Append(log, [request |-> r, fate |-> "live", age |-> 0,
                        early |-> InTick, released |-> 0])
  /\ UNCHANGED stack

\* TF_AddIdListener, TF_AddTypeListener, TF_AddGenericListener: the first empty
\* slot.  When there is none they change nothing.
AddListener(r) ==
  /\ UserRuns
  /\ Len(log) < MaxRegs
  /\ \E i \in Slots(r.table) :
       /\ First({j \in Slots(r.table) : listeners[r.table][j] = Free}, i)
       /\ listeners' = [listeners EXCEPT ![r.table][i] =
            [reg |-> Len(log) + 1, key |-> r.key, timeout |-> r.timeout,
             timeout_max |-> r.timeout, fn_timeout |-> r.fn_timeout,
             userdata |-> IF r.userdata THEN Len(log) + 1 ELSE 0]]
       /\ count' = [count EXCEPT ![r.table] = IF i >= @ THEN i + 1 ELSE @]
  /\ log' = Append(log, [request |-> r, fate |-> "live", age |-> 0,
                        early |-> InTick, released |-> 0])
  /\ UNCHANGED stack

\* Broken variants of Discard: the count always shrinks; the listener is not cleared.
Discard_AlwaysShrinks(tbl, i) ==
  /\ listeners' = [listeners EXCEPT ![tbl][i] = Free]
  /\ count' = [count EXCEPT ![tbl] = @ - 1]
Discard_NotCleared(tbl, i) ==
  /\ count' = [count EXCEPT ![tbl] = IF i = @ - 1 THEN @ - 1 ELSE @]
  /\ UNCHANGED listeners

\* The end of cleanup_id_listener, and all of cleanup_type_listener and
\* cleanup_generic_listener: they do not ask whose slot it is by now.
Discard(tbl, i) ==
  /\ listeners' = [listeners EXCEPT ![tbl][i] = Free]
  /\ count' = [count EXCEPT ![tbl] = IF i = @ - 1 THEN @ - 1 ELSE @]

\* The slots that a suspended activation will come back to.
InCall(tbl, i) ==
  \E k \in DOMAIN stack : stack[k].table = tbl /\ stack[k].i = i /\ stack[k].callback # "none"

\* TF_RemoveIdListener, TF_RemoveTypeListener, TF_RemoveGenericListener.  An ID
\* listener is called to release its userdata before it is discarded.
RemoveListener(tbl, key) ==
  /\ UserRuns
  /\ \E i \in Listening(tbl) :
       LET lst == listeners[tbl][i]
       IN  /\ First({j \in Listening(tbl) : listeners[tbl][j].key = key}, i)
           /\ ~SelfRemoval => ~InCall(tbl, i)
           /\ log' = Ended(log, lst.reg, "removed")
           /\ \/ /\ lst.userdata = 0
                 /\ Discard(tbl, i)
                 /\ UNCHANGED stack
              \/ /\ lst.userdata # 0
                 /\ Len(stack) < MaxDepth
                 /\ stack' = Append(stack, [op |-> "remove", table |-> tbl, i |-> i,
                                            callback |-> "cleanup", reg |-> lst.reg,
                                            userdata |-> lst.userdata])
                 /\ UNCHANGED <<listeners, count>>

\* TF_RenewIdListener.
RenewIdListener(key) ==
  /\ UserRuns
  /\ \E i \in Listening("id") :
       /\ First({j \in Listening("id") : listeners["id"][j].key = key}, i)
       /\ listeners' = [listeners EXCEPT !["id"][i].timeout = listeners["id"][i].timeout_max]
       /\ log' = Renewed(log, listeners["id"][i].reg)
  /\ UNCHANGED <<count, stack>>

-----------------------------------------------------------------------------
\* TF_HandleReceivedMessage.  The parser is not re-entered from a callback.
HandleReceivedMessage(m) ==
  /\ stack = << >>
  /\ stack' = <<[op |-> "dispatch", table |-> "id", i |-> 0, callback |-> "none",
                 reg |-> 0, userdata |-> 0, msg |-> m, before |-> Len(log),
                 offered |-> {}]>>
  /\ UNCHANGED <<listeners, count, log>>

Dispatching == stack # << >> /\ Top.op = "dispatch" /\ Top.callback = "none"

Matches(tbl, lst, m) == tbl # "generic" => lst.key = m[tbl]

\* One round of a loop: the listener in slot i is called if it matches.
CallListener ==
  /\ Dispatching
  /\ Top.i \in Listening(Top.table)
  /\ LET lst == listeners[Top.table][Top.i]
     IN  /\ Matches(Top.table, lst, Top.msg)
         /\ Become([Top EXCEPT !.callback = "listener", !.reg = lst.reg,
                               !.userdata = lst.userdata,
                               !.offered = @ \cup {lst.reg}])
  /\ UNCHANGED <<listeners, count, log>>

SkipSlot ==
  /\ Dispatching
  /\ Top.i < count[Top.table]
  /\ Top.i \in Listening(Top.table) =>
       ~Matches(Top.table, listeners[Top.table][Top.i], Top.msg)
  /\ Become(NextRound)
  /\ UNCHANGED <<listeners, count, log>>

\* Broken variant of NextTable: the last slot is left out.
NextTable_OneShort ==
  /\ Dispatching
  /\ Top.i + 1 >= count[Top.table]
  /\ \/ Top.table = "id" /\ Become([Top EXCEPT !.table = "type", !.i = 0])
     \/ Top.table = "type" /\ Become([Top EXCEPT !.table = "generic", !.i = 0])
     \/ Top.table = "generic" /\ Return
  /\ UNCHANGED <<listeners, count, log>>

\* The end of a table; nobody handled the message if it was the last one.
NextTable ==
  /\ Dispatching
  /\ Top.i >= count[Top.table]
  /\ \/ Top.table = "id" /\ Become([Top EXCEPT !.table = "type", !.i = 0])
     \/ Top.table = "type" /\ Become([Top EXCEPT !.table = "generic", !.i = 0])
     \/ Top.table = "generic" /\ Return
  /\ UNCHANGED <<listeners, count, log>>

\* Broken variants of PutBack: the userdata is not put back; nothing is renewed.
PutBack_Forgotten(d, res) ==
  IF Top.table = "id" /\ listeners["id"][Top.i] # Free /\ res = "RENEW"
    THEN [listeners EXCEPT
            !["id"][Top.i].timeout = listeners["id"][Top.i].timeout_max]
    ELSE listeners
PutBack_NotRenewed(d, res) ==
  IF Top.table = "id" /\ listeners["id"][Top.i] # Free
    THEN [listeners EXCEPT !["id"][Top.i].userdata = d]
    ELSE listeners

\* What the slot of an ID listener holds once its callback returned, the userdata
\* put back (NULL for one that closes) and the timeout renewed on request: the
\* slot the index denotes, whatever it holds by then.
PutBack(d, res) ==
  IF Top.table # "id" \/ listeners["id"][Top.i] = Free
    THEN listeners
    ELSE [listeners EXCEPT
            !["id"][Top.i].userdata = d,
            !["id"][Top.i].timeout =
               IF res = "RENEW" THEN listeners["id"][Top.i].timeout_max ELSE @]

\* A listener returns.  It may have released its userdata and set it to NULL; one
\* that closes has released it.
ListenerReturns(res, release) ==
  /\ stack # << >> /\ Top.callback = "listener"
  /\ release => Top.userdata # 0
  /\ res = "CLOSE" /\ Top.userdata # 0 => release
  /\ LET history == IF release THEN Released(log, Top.userdata) ELSE log
         d == IF release THEN 0 ELSE Top.userdata
     IN  \/ /\ res = "CLOSE"
            /\ IF Top.table = "id" /\ listeners["id"][Top.i] = Free
                 THEN UNCHANGED <<listeners, count>>
                 ELSE Discard(Top.table, Top.i)
            /\ log' = Ended(history, Top.reg, "closed")
            /\ Return
         \/ /\ res # "CLOSE"
            /\ listeners' = PutBack(d, res)
            /\ log' = IF res = "RENEW" /\ Top.table = "id"
                        THEN Renewed(history, Top.reg) ELSE history
            /\ IF res = "NEXT"
                 THEN Become(NextRound)
                 ELSE Return
            /\ UNCHANGED count

-----------------------------------------------------------------------------
\* TF_Tick, its loop over the ID listeners; the parser's share is in TFParser.
\* The age of a registration is followed to one tick beyond its timeout.
Tick ==
  /\ \/ stack = << >>
     \/ /\ TickPreempts /\ UserRuns
        /\ ~InTick
        /\ Len(stack) < MaxDepth
  /\ stack' = Append(stack, [op |-> "tick", table |-> "id", i |-> 0,
                             callback |-> "none", reg |-> 0, userdata |-> 0])
  /\ log' = [t \in DOMAIN log |->
               IF log[t].fate = "live" /\ log[t].request.timeout > 0
                    /\ log[t].age <= log[t].request.timeout
                 THEN [log[t] EXCEPT !.age = @ + 1] ELSE log[t]]
  /\ UNCHANGED <<listeners, count>>

Ticking == stack # << >> /\ Top.op = "tick" /\ Top.callback = "none"

\* cleanup_id_listener, called by TF_Tick for slot i, up to the callback that
\* releases the userdata if there is any; `table` is the ID table to start from.
ExpireSlot(table, i) ==
  IF table[i] # Free /\ table[i].userdata # 0
    THEN /\ Become([Top EXCEPT !.callback = "cleanup", !.reg = table[i].reg,
                               !.userdata = table[i].userdata])
         /\ listeners' = [listeners EXCEPT !["id"] = table]
         /\ UNCHANGED count
    ELSE /\ Become(NextRound)
         /\ IF table[i] = Free THEN UNCHANGED <<listeners, count>>
                               ELSE Discard("id", i)

TickSlot ==
  /\ Ticking
  /\ Top.i < count["id"]
  /\ LET lst == listeners["id"][Top.i]
         table == [listeners["id"] EXCEPT ![Top.i].timeout = lst.timeout - 1]
     IN  \/ /\ lst = Free
            /\ Become(NextRound)
            /\ UNCHANGED <<listeners, count, log>>
         \/ /\ lst # Free
            /\ lst.timeout = 0
            /\ Become(NextRound)
            /\ UNCHANGED <<listeners, count, log>>
         \/ /\ lst # Free
            /\ lst.timeout > 1
            /\ listeners' = [listeners EXCEPT !["id"] = table]
            /\ Become(NextRound)
            /\ UNCHANGED <<count, log>>
         \/ /\ lst # Free
            /\ lst.timeout = 1
            /\ log' = Ended(log, lst.reg, "expired")
            /\ IF lst.fn_timeout
                 THEN /\ listeners' = [listeners EXCEPT !["id"] = table]
                      /\ Become([Top EXCEPT !.callback = "timeout", !.reg = lst.reg])
                      /\ UNCHANGED count
                 ELSE ExpireSlot(table, Top.i)

\* fn_timeout returns.
TimeoutReturns ==
  /\ stack # << >> /\ Top.callback = "timeout"
  /\ ExpireSlot(listeners["id"], Top.i)
  /\ UNCHANGED log

\* The callback that was to release its userdata returns; the slot is discarded,
\* and TF_Tick goes on with the next one or TF_RemoveIdListener returns.
CleanupReturns ==
  /\ stack # << >> /\ Top.callback = "cleanup"
  /\ log' = Released(log, Top.userdata)
  /\ Discard("id", Top.i)
  /\ IF Top.op = "tick"
       THEN Become(NextRound)
       ELSE Return

\* Broken variant of TickReturns: the last slot is left out.
TickReturns_OneShort ==
  /\ Ticking
  /\ Top.i + 1 >= count["id"]
  /\ Return
  /\ UNCHANGED <<listeners, count, log>>

TickReturns ==
  /\ Ticking
  /\ Top.i >= count["id"]
  /\ Return
  /\ UNCHANGED <<listeners, count, log>>

-----------------------------------------------------------------------------
Keys == {r.key : r \in Requests}

UserCall ==
  \/ \E r \in Requests : AddListener(r)
  \/ \E tbl \in Tables, key \in Keys : RemoveListener(tbl, key)
  \/ \E key \in Keys : RenewIdListener(key)

CallbackReturns ==
  \/ \E res \in Results, release \in BOOLEAN : ListenerReturns(res, release)
  \/ TimeoutReturns
  \/ CleanupReturns

LibraryStep == CallListener \/ SkipSlot \/ NextTable \/ TickSlot \/ TickReturns

Next ==
  \/ UserCall
  \/ \E m \in Messages : HandleReceivedMessage(m)
  \/ Tick
  \/ CallbackReturns
  \/ LibraryStep

Spec == Init /\ [][Next]_vars

\* The library runs on, callbacks return, and the time base keeps ticking.
FairSpec ==
  Spec /\ WF_vars(LibraryStep) /\ WF_vars(CallbackReturns) /\ SF_vars(Tick)

-----------------------------------------------------------------------------
Listener ==
  [reg : 1 .. MaxRegs, key : Nat, timeout : Nat, timeout_max : Nat,
   fn_timeout : BOOLEAN, userdata : 0 .. MaxRegs]

Entry ==
  [request : Request, age : Nat, early : BOOLEAN, released : Nat,
   fate : {"live", "closed", "removed", "expired"}]

TypeOK ==
  /\ DOMAIN listeners = Tables
  /\ \A tbl \in Tables : listeners[tbl] \in [Slots(tbl) -> Listener \cup {Free}]
  /\ count \in [Tables -> Nat]
  /\ \A tbl \in Tables : count[tbl] <= Size[tbl]
  /\ Len(stack) <= MaxDepth
  /\ log \in Seq(Entry) /\ Len(log) <= MaxRegs

Regs == DOMAIN log
Holders(t) ==
  {h \in UNION {{tbl} \X Slots(tbl) : tbl \in Tables} :
     listeners[h[1]][h[2]] # Free /\ listeners[h[1]][h[2]].reg = t}

(* The loops over a table stop at its count: no listener is ever beyond it,  *)
(* whatever the order of additions and removals.                             *)
CountsCoverListeners ==
  \A tbl \in Tables : \A i \in Slots(tbl) : listeners[tbl][i] # Free => i < count[tbl]

(* A registration keeps its slot until its own callback closed it, its key   *)
(* was removed or its own timeout passed, never because of what happened to  *)
(* another listener; then it leaves it as soon as its callbacks returned.    *)
RegistrationsKept ==
  \A t \in Regs :
    /\ log[t].fate = "live" => Cardinality(Holders(t)) = 1
    /\ log[t].fate # "live" =>
         \/ Holders(t) = {}
         \/ \E k \in DOMAIN stack :
              /\ stack[k].callback \in {"timeout", "cleanup"} /\ stack[k].reg = t
              /\ Holders(t) = {<<"id", stack[k].i>>}

(* The userdata of an ID listener is released once: not again by a callback, *)
(* not while a callback that was given it is running, and it is not lost     *)
(* with the listener.                                                        *)
UserdataReleasedOnce ==
  \A t \in Regs :
    /\ log[t].released <= 1
    /\ log[t].released = 1 =>
         \A k \in DOMAIN stack : stack[k].callback # "none" => stack[k].userdata # t
    /\ log[t].request.userdata /\ log[t].released = 0 =>
         \E h \in Holders(t) : listeners[h[1]][h[2]].userdata = t

(* A listener's timeout counts the ticks since it was added or renewed: it   *)
(* expires in the tick that completes them, or one early if a tick was under *)
(* way when it was added or renewed, and no tick leaves it overdue.          *)
ExpiresOnTime ==
  \A t \in Regs :
    LET timeout == log[t].request.timeout
    IN  /\ log[t].fate = "expired" =>
             \/ log[t].age = timeout
             \/ log[t].early /\ log[t].age = timeout - 1
        /\ log[t].fate = "live" /\ timeout > 0 => log[t].age < timeout \/ InTick

(* Every listener that was there when a message came in, matches it and is   *)
(* still there was called, or the message went to one before it.             *)
NoneSkipped ==
  \A k \in DOMAIN stack :
    stack[k].op = "dispatch" =>
      \A tbl \in Tables : \A i \in Slots(tbl) :
        LET lst == listeners[tbl][i]
            passed ==
              \/ tbl = stack[k].table /\ i < stack[k].i
              \/ tbl = "id" /\ stack[k].table # "id"
              \/ tbl = "type" /\ stack[k].table = "generic"
        IN  /\ lst # Free /\ lst.reg <= stack[k].before
            /\ Matches(tbl, lst, stack[k].msg) /\ passed
            => lst.reg \in stack[k].offered

(* A listener with a timeout is not waited for forever: it ends or is        *)
(* renewed again and again.                                                  *)
ListenerEnds ==
  \A t \in 1 .. MaxRegs :
    []<>(t \in Regs => log[t].fate # "live" \/ log[t].age = 0)
=============================================================================
