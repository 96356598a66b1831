------------------------------- MODULE TFPeers -------------------------------
(****************************************************************************)
(* Two TinyFrame instances over a line: queries with ID listeners, the      *)
(* other peer's responses, lost frames, timeouts and resets.  A frame is    *)
(* the line's unit here (TFParser and TFTransmit show that what is          *)
(* delivered is what was sent); of a frame there is what dispatch looks at, *)
(* its ID and its type, and, not on the wire, the query it belongs to.      *)
(*                                                                          *)
(* Each peer asks with a type of its own, named by the peer, and has a type *)
(* listener for the other's, which responds with the message it was given:  *)
(* same ID, same type, as the README shows.  The users' ID listeners return *)
(* TF_CLOSE.  Frames in flight are a set: the line may even reorder them.   *)
(*                                                                          *)
(* IDs are few, so which query a response reaches is a matter of time: an   *)
(* exchange is over, answered or lost, within Lifetime ticks, and a peer    *)
(* makes at most Rate queries between two ticks.  A reset takes no time at  *)
(* all: the peer may ask again while its earlier exchanges are under way.   *)
(****************************************************************************)
EXTENDS Integers, Sequences, FiniteSets

CONSTANTS
  Peers,          \* the two ends of the line
  TF_PeerBit,     \* 0 or 1 for each of them: TF_SLAVE or TF_MASTER
  IdCount,        \* frame IDs of a peer, 2^(w-1) for an ID field of w bits
  TF_MAX_ID_LST,  \* size of the ID listener table
  OthersSlots,    \* how many of its slots listeners that are not queries' may hold
  Timeouts,       \* listener timeouts in use, in ticks; 0 keeps the listener
  Lifetime,       \* ticks an exchange can take
  Rate,           \* queries a peer makes between two ticks
  MaxQueries,     \* bound on the queries a peer makes, by peer
  MaxRestarts     \* bound on the restarts of both

ASSUME PeersAssumption ==
  /\ \A p \in Peers : \E o \in Peers \ {p} : Peers = {p, o}
  /\ TF_PeerBit \in [Peers -> {0, 1}]
  /\ \A p, o \in Peers : p # o => TF_PeerBit[p] # TF_PeerBit[o]
  /\ {IdCount, TF_MAX_ID_LST, Rate} \subseteq Nat \ {0}
  /\ {Lifetime, MaxRestarts} \cup OthersSlots \cup Timeouts \subseteq Nat
  /\ MaxQueries \in [Peers -> Nat]

\* What the users owe for IDs to be enough: no query waits longer than its
\* exchange can take, and the IDs last for that long.
Timely == Timeouts \subseteq 1 .. Lifetime + 1 /\ Rate * (Lifetime + 1) <= IdCount

VARIABLES
  next_id,       \* counter that frame IDs are made from
  id_listeners,  \* ID listeners of each peer
  line,          \* frames in flight
  made,          \* queries each peer made since the last tick or its reset
  restarts,      \* restarts so far
  before,        \* history: how many of its queries each peer made before its last reset
  result,        \* history: what became of each peer's queries
  served         \* history: the queries that were handled

vars == <<next_id, id_listeners, line, made, restarts, before, result, served>>

Other(p) == CHOOSE o \in Peers : o # p

Frame ==
  [to : Peers, frame_id : 0 .. 2 * IdCount - 1, type : Peers, query : Nat, age : 0 .. Lifetime]
Outcome == {"open", "refused", "answered", "expired", "forgotten", "misled", "wrong"}
TimeLeft == {t \in Nat : (t > 0 \/ 0 \in Timeouts) /\ \E u \in Timeouts : t <= u}
IdListener == [id : 0 .. 2 * IdCount - 1, timeout : TimeLeft, query : Nat]

Init ==
  /\ next_id = [p \in Peers |-> 0]
  /\ id_listeners = [p \in Peers |-> {}]
  /\ line = {}
  /\ made = [p \in Peers |-> 0]
  /\ restarts = 0
  /\ before = [p \in Peers |-> 0]
  /\ result = [p \in Peers |-> << >>]
  /\ served = {}

-----------------------------------------------------------------------------
\* Broken variant of NewId: both peers draw from the same numbers.
NewId_NoPeerBit(p) == next_id[p] % IdCount

\* Broken variant of NewId: the mask is a bit too narrow.
NewId_Narrow(p) == (next_id[p] % (IdCount \div 2)) + TF_PeerBit[p] * IdCount

\* The ID of a new frame: the low bits of the counter, and the peer bit.
NewId(p) == (next_id[p] % IdCount) + TF_PeerBit[p] * IdCount

\* TF_Query.  The ID is drawn before the table is looked at, so a query refused
\* for want of a slot uses one up too.
Query(p) ==
  /\ made[p] < Rate /\ Len(result[p]) < MaxQueries[p]
  /\ next_id' = [next_id EXCEPT ![p] = (@ + 1) % (2 * IdCount)]
  /\ made' = [made EXCEPT ![p] = @ + 1]
  /\ LET q == Len(result[p]) + 1
     IN  \/ /\ \E k \in OthersSlots : Cardinality(id_listeners[p]) + k < TF_MAX_ID_LST
            /\ \E t \in Timeouts :
                 id_listeners' = [id_listeners EXCEPT ![p] =
                                    @ \cup {[id |-> NewId(p), timeout |-> t, query |-> q]}]
            /\ line' = line \cup {[to |-> Other(p), frame_id |-> NewId(p), type |-> p,
                                   query |-> q, age |-> 0]}
            /\ result' = [result EXCEPT ![p] = Append(@, "open")]
         \/ /\ \E k \in OthersSlots : Cardinality(id_listeners[p]) + k >= TF_MAX_ID_LST
            /\ result' = [result EXCEPT ![p] = Append(@, "refused")]
            /\ UNCHANGED <<id_listeners, line>>
  /\ UNCHANGED <<restarts, before, served>>

\* What an ID listener for query q of peer p was called with.
Called(p, q, m) ==
  IF m.type = p /\ m.query = q THEN "answered"
  ELSE IF m.type = p /\ m.query <= before[p] THEN "misled"
  ELSE "wrong"

\* An ID listener has the frame's ID: it takes the frame for its answer, whatever
\* its type, and closes.
IdListenerCalled(m) ==
  \E l \in id_listeners[m.to] :
    /\ l.id = m.frame_id
    /\ id_listeners' = [id_listeners EXCEPT ![m.to] = @ \ {l}]
    /\ result' = [result EXCEPT ![m.to][l.query] = Called(m.to, l.query, m)]
    /\ line' = line \ {m}
    /\ UNCHANGED served

\* The type listener for the other peer's requests calls TF_Respond.
TypeListenerResponds(m) ==
  /\ m.type # m.to
  /\ line' = (line \ {m}) \cup {[m EXCEPT !.to = Other(m.to)]}
  /\ served' = served \cup {<<m.type, m.query>>}
  /\ UNCHANGED <<id_listeners, result>>

\* A late response: nobody waits for it.
Unhandled(m) ==
  /\ m.type = m.to
  /\ line' = line \ {m}
  /\ UNCHANGED <<id_listeners, result, served>>

\* TF_HandleReceivedMessage: ID listeners come first.
HandleReceivedMessage(m) ==
  /\ IF \E l \in id_listeners[m.to] : l.id = m.frame_id
       THEN IdListenerCalled(m)
       ELSE TypeListenerResponds(m) \/ Unhandled(m)
  /\ UNCHANGED <<next_id, made, restarts, before>>

\* Broken variant of Expired: looks for listeners that had no time left before.
Expired_Late(p) == {l \in id_listeners[p] : l.timeout = 0}

\* The listeners that run out of time with this tick; those with none stay.
Expired(p) == {l \in id_listeners[p] : l.timeout = 1}

\* TF_Tick on both sides, and time on the line: a frame that has not arrived by
\* now never will.
Tick ==
  /\ line' = {[m EXCEPT !.age = @ + 1] : m \in {f \in line : f.age < Lifetime}}
  /\ result' = [p \in Peers |-> [q \in DOMAIN result[p] |->
                  IF \E l \in Expired(p) : l.query = q THEN "expired" ELSE result[p][q]]]
  /\ id_listeners' = [p \in Peers |->
       {[l EXCEPT !.timeout = IF @ = 0 THEN 0 ELSE @ - 1] : l \in id_listeners[p] \ Expired(p)}]
  /\ made' = [p \in Peers |-> 0]
  /\ UNCHANGED <<next_id, restarts, before, served>>

\* Broken variant of Restart: the counter is reset, the listeners stay.
Restart_KeepsListeners(p) ==
  /\ restarts < MaxRestarts
  /\ restarts' = restarts + 1
  /\ next_id' = [next_id EXCEPT ![p] = 0]
  /\ made' = [made EXCEPT ![p] = 0]
  /\ before' = [before EXCEPT ![p] = Len(result[p])]
  /\ UNCHANGED <<id_listeners, line, result, served>>

\* TF_InitStatic, in a peer that starts again or on a running instance to reset it:
\* IDs start at 0, listeners are gone without a call, and nothing is waited for.
\* The user adds its type listener again at once.
Restart(p) ==
  /\ restarts < MaxRestarts
  /\ restarts' = restarts + 1
  /\ next_id' = [next_id EXCEPT ![p] = 0]
  /\ id_listeners' = [id_listeners EXCEPT ![p] = {}]
  /\ made' = [made EXCEPT ![p] = 0]
  /\ before' = [before EXCEPT ![p] = Len(result[p])]
  /\ result' = [result EXCEPT ![p] = [q \in DOMAIN @ |-> IF @[q] = "open" THEN "forgotten" ELSE @[q]]]
  /\ UNCHANGED <<line, served>>

-----------------------------------------------------------------------------
Next ==
  \/ \E p \in Peers : Query(p) \/ Restart(p)
  \/ \E m \in line : HandleReceivedMessage(m)
  \/ Tick

Spec == Init /\ [][Next]_vars

\* Time passes; nothing has to arrive.
FairSpec == Spec /\ WF_vars(Tick)

-----------------------------------------------------------------------------
TypeOK ==
  /\ next_id \in [Peers -> 0 .. 2 * IdCount - 1]
  /\ id_listeners \in [Peers -> SUBSET IdListener]
  /\ line \in SUBSET Frame
  /\ made \in [Peers -> 0 .. Rate]
  /\ restarts \in 0 .. MaxRestarts
  /\ before \in [Peers -> Nat]
  /\ result \in [Peers -> Seq(Outcome)]
  /\ served \subseteq Peers \X Nat

(* Whatever an ID listener is called with is the answer to its own query: no *)
(* frame of the other peer, no late answer to a query whose ID has come     *)
(* round again, no answer to a query made before a reset.                   *)
AnswersMatch ==
  \A p \in Peers : \A q \in DOMAIN result[p] : result[p][q] \notin {"misled", "wrong"}

(* Nothing but a reset can break that: a listener that is called with        *)
(* anything else is called with the answer to a query its own peer made     *)
(* before its last reset, which gave the ID out again.  Neither the other   *)
(* peer's frames nor IDs that come round, with queries refused, answered    *)
(* late or lost in between, ever mislead it.                                *)
OnlyResetsMislead == \A p \in Peers : \A q \in DOMAIN result[p] : result[p][q] # "wrong"

(* Two queries a peer waits for never have the same ID, so it does not      *)
(* matter that the first listener found takes the frame.                    *)
AwaitedIdsDistinct ==
  \A p \in Peers : \A k, l \in id_listeners[p] : k.id = l.id => k = l

(* Seen as queries and answers the two instances, the line and the users do *)
(* what TFExchange promises, and every query ends.                          *)
Exchange == INSTANCE TFExchange
IsExchange == Exchange!Spec
-----------------------------------------------------------------------------
(* Why OnlyResetsMislead holds: what was made of a query, a listener or a    *)
(* frame, is gone before the peer has drawn all its IDs once more, or is     *)
(* from before the reset.                                                    *)
Number(p, id) == id - TF_PeerBit[p] * IdCount

\* Queries peer p made, from query q on.
Since(p, q) == Len(result[p]) - q + 1

\* Query q of peer p got that ID, and if it was made since the last reset, it was
\* at most that many ticks ago.
InWindow(p, id, q, ticks) ==
  /\ q \in 1 .. Len(result[p])
  /\ Number(p, id) \in 0 .. IdCount - 1
  /\ q > before[p] =>
       /\ Since(p, q) <= Rate * ticks + made[p]
       /\ next_id[p] % IdCount \in {Number(p, id) + Since(p, q), Number(p, id) + Since(p, q) - IdCount}

FramesInv ==
  /\ \A m \in line :
       /\ InWindow(m.type, m.frame_id, m.query, m.age)
       /\ result[m.type][m.query] # "refused"
       /\ m.to = m.type <=> <<m.type, m.query>> \in served
  /\ \A m, n \in line : m.type = n.type /\ m.query = n.query => m = n

ListenersInv ==
  \A p \in Peers :
    /\ \A l \in id_listeners[p] :
         /\ InWindow(p, l.id, l.query, Lifetime + 1 - l.timeout)
         /\ l.query > before[p]
         /\ result[p][l.query] = "open"
    /\ \A k, l \in id_listeners[p] : k.query = l.query => k = l

HistoryInv ==
  /\ \A s \in served : s[2] \in 1 .. Len(result[s[1]])
  /\ \A p \in Peers : before[p] <= Len(result[p])

PeersInv == FramesInv /\ ListenersInv /\ HistoryInv /\ OnlyResetsMislead
=============================================================================
