------------------------------ MODULE RFDevices ------------------------------
(****************************************************************************)
(* The radio simulation of examples/main.cpp and tf_thread.cpp: processes   *)
(* of two boards that exchange frames through two POSIX message queues,     *)
(* found by their names.                                                    *)
(*                                                                          *)
(* A node is a process in normal mode: its thread makes both queues anew    *)
(* and feeds what arrives to TF_Accept, until a signal makes its main       *)
(* thread close the device while the other thread still runs.  A sender is  *)
(* a process in test mode: it opens the queues there are, sends a message   *)
(* some times, and ends.  A message is one frame; every system call is a    *)
(* step, as each process goes at its own pace.  Creating a queue never      *)
(* fails, and signals arrive once the thread runs.                          *)
(*                                                                          *)
(* A queue lives on without its name while it is open.  Queues are numbered *)
(* and a number is used again when its queue is gone; 0 stands for          *)
(* (mqd_t) -1 and for no queue.                                             *)
(****************************************************************************)
EXTENDS Integers, Sequences, FiniteSets

CONSTANTS
  Nodes,          \* processes in normal mode
  Senders,        \* processes in test mode
  Board,          \* "server" or "client" for each of them: BOARD_ID
  MAX_MSG_COUNT,  \* messages a queue can hold
  Repeat,         \* times a sender sends its message: --repeat
  MaxStarts       \* bound on how often each process is started

Processes == Nodes \cup Senders

ASSUME RFAssumption ==
  /\ Nodes \cap Senders = {} /\ IsFiniteSet(Processes)
  /\ Board \in [Processes -> {"server", "client"}]
  /\ {MAX_MSG_COUNT, Repeat} \subseteq Nat \ {0}
  /\ MaxStarts \in [Processes -> Nat]

VARIABLES
  queues,       \* the messages in each queue, by number
  names,        \* the queue each name stands for
  mode,         \* what each process is doing
  todo,         \* the system calls it has before it in that
  mq_tx,        \* its open queues
  mq_rx,
  starts,       \* how often it was started
  count,        \* messages a sender sent since it was started
  sent,         \* history: how many messages each sender ever sent
  got,          \* history: messages a node gave to TF_Accept since it was started
  overrun,      \* history: TF_Accept was told of bytes that never arrived
  before,       \* history: messages sent before the node was started
  undisturbed,  \* history: no node touched the names since this one, not stopped yet, was started
  partners      \* history: undisturbed nodes of the other board when the sender was started

vars == <<queues, names, mode, todo, mq_tx, mq_rx, starts, count, sent, got, overrun,
          before, undisturbed, partners>>
history == <<sent, got, overrun, before, undisturbed, partners>>

Names == {"server_to_client", "client_to_server"}
Numbers == 1 .. 2 + 2 * Cardinality(Processes)

\* The queues that have a name or are open; the others are gone, with their messages.
InUse == {names[name] : name \in Names} \cup {mq_tx[p] : p \in Processes} \cup {mq_rx[p] : p \in Processes}
Reaped == queues' = [i \in Numbers |-> IF i \in InUse' THEN queues[i] ELSE << >>]
TxName(p) == IF Board[p] = "server" THEN "server_to_client" ELSE "client_to_server"
RxName(p) == IF Board[p] = "server" THEN "client_to_server" ELSE "server_to_client"

Message == [from : Senders, number : Nat \ {0}]
SentBy(q) == {[from |-> q, number |-> n] : n \in 1 .. sent[q]}

-----------------------------------------------------------------------------
(* The system calls of each part of a process.                               *)

\* Broken variant of Create: the queues of an earlier run are used again.
Create_NoUnlink == <<"create_tx", "create_rx">>

\* create_server, create_client: whatever was there is discarded first.
Create == <<"unlink_s2c", "unlink_c2s", "create_tx", "create_rx">>

\* connect_server, connect_client.
Connect == <<"open_tx", "open_rx">>

\* Broken variant of Cleanup: not only the server in normal mode removes the names.
Cleanup_Always(p) == <<"close_tx", "close_rx", "unlink_s2c", "unlink_c2s">>

\* cleanup: the server in normal mode removes the names, the client's too.
Cleanup(p) ==
  <<"close_tx", "close_rx">>
    \o (IF p \in Nodes /\ Board[p] = "server" THEN <<"unlink_s2c", "unlink_c2s">> ELSE << >>)

Init ==
  /\ queues = [i \in Numbers |-> << >>]
  /\ names = [name \in Names |-> 0]
  /\ mode = [p \in Processes |-> "off"]
  /\ todo = [p \in Processes |-> << >>]
  /\ mq_tx = [p \in Processes |-> 0]
  /\ mq_rx = [p \in Processes |-> 0]
  /\ starts = [p \in Processes |-> 0]
  /\ count = [q \in Senders |-> 0]
  /\ sent = [q \in Senders |-> 0]
  /\ got = [p \in Nodes |-> << >>]
  /\ overrun = [p \in Nodes |-> FALSE]
  /\ before = [p \in Nodes |-> {}]
  /\ undisturbed = [p \in Nodes |-> FALSE]
  /\ partners = [q \in Senders |-> {}]

\* main, rf_dev_init: a process starts and sets about opening its queues.
Begin(p, calls) ==
  /\ mode[p] = "off" /\ starts[p] < MaxStarts[p]
  /\ starts' = [starts EXCEPT ![p] = @ + 1]
  /\ mode' = [mode EXCEPT ![p] = "starting"]
  /\ todo' = [todo EXCEPT ![p] = calls]
  /\ UNCHANGED <<queues, names, mq_tx, mq_rx, sent>>

\* tf_thread_start
StartNode(p) ==
  /\ Begin(p, Create)
  /\ got' = [got EXCEPT ![p] = << >>]
  /\ overrun' = [overrun EXCEPT ![p] = FALSE]
  /\ before' = [before EXCEPT ![p] = UNION {SentBy(q) : q \in Senders}]
  /\ undisturbed' = [o \in Nodes |->
       o = p /\ \A x \in Nodes \ {p} : mode[x] \notin {"starting", "stopping"}]
  /\ partners' = [q \in Senders |-> {}]
  /\ UNCHANGED count

StartSender(q) ==
  /\ Begin(q, Connect)
  /\ count' = [count EXCEPT ![q] = 0]
  /\ partners' = [partners EXCEPT ![q] =
       {p \in Nodes : Board[p] # Board[q] /\ mode[p] = "running" /\ undisturbed[p]}]
  /\ UNCHANGED <<got, overrun, before, undisturbed>>

-----------------------------------------------------------------------------
(* The system calls.                                                         *)

\* Process p is at that call, and goes on after it.
Call(p, call) ==
  /\ todo[p] # << >> /\ Head(todo[p]) = call
  /\ todo' = [todo EXCEPT ![p] = Tail(@)]
  /\ mode' = [mode EXCEPT ![p] =
                CASE Len(todo[p]) > 1 -> @
                  [] Len(todo[p]) = 1 /\ @ = "starting" -> "running"
                  [] OTHER -> "off"]
  /\ UNCHANGED <<starts, count, history>>

Unlink(p) ==
  /\ \/ Call(p, "unlink_s2c") /\ names' = [names EXCEPT !["server_to_client"] = 0]
     \/ Call(p, "unlink_c2s") /\ names' = [names EXCEPT !["client_to_server"] = 0]
  /\ UNCHANGED <<mq_tx, mq_rx>>
  /\ Reaped

\* mq_open with O_CREAT: the queue of that name, if there is one, else a new one.
Opened(name) ==
  /\ names' = [names EXCEPT ![name] =
       IF @ # 0 THEN @ ELSE CHOOSE i \in Numbers \ InUse : TRUE]
  /\ UNCHANGED queues

\* Broken variant of CreateQueue: the second queue goes where the first one is.
CreateQueue_BothTx(p) ==
  \/ /\ Call(p, "create_tx") /\ Opened(TxName(p))
     /\ mq_tx' = [mq_tx EXCEPT ![p] = names'[TxName(p)]]
     /\ UNCHANGED mq_rx
  \/ /\ Call(p, "create_rx") /\ Opened(RxName(p))
     /\ mq_tx' = [mq_tx EXCEPT ![p] = names'[RxName(p)]]
     /\ UNCHANGED mq_rx

CreateQueue(p) ==
  \/ /\ Call(p, "create_tx") /\ Opened(TxName(p))
     /\ mq_tx' = [mq_tx EXCEPT ![p] = names'[TxName(p)]]
     /\ UNCHANGED mq_rx
  \/ /\ Call(p, "create_rx") /\ Opened(RxName(p))
     /\ mq_rx' = [mq_rx EXCEPT ![p] = names'[RxName(p)]]
     /\ UNCHANGED mq_tx

\* mq_open without: the queue must be there.
OpenQueue(p) ==
  /\ \/ /\ names[TxName(p)] # 0 /\ Call(p, "open_tx")
        /\ mq_tx' = [mq_tx EXCEPT ![p] = names[TxName(p)]]
        /\ UNCHANGED mq_rx
     \/ /\ names[RxName(p)] # 0 /\ Call(p, "open_rx")
        /\ mq_rx' = [mq_rx EXCEPT ![p] = names[RxName(p)]]
        /\ UNCHANGED mq_tx
  /\ UNCHANGED <<queues, names>>

\* If it is not, what is open is closed and the process ends.
OpenFails(p) ==
  /\ todo[p] # << >>
  /\ \/ Head(todo[p]) = "open_tx" /\ names[TxName(p)] = 0
     \/ Head(todo[p]) = "open_rx" /\ names[RxName(p)] = 0
  /\ mode' = [mode EXCEPT ![p] = "stopping"]
  /\ todo' = [todo EXCEPT ![p] = Cleanup(p)]
  /\ UNCHANGED <<queues, names, mq_tx, mq_rx, starts, count, history>>

CloseQueue(p) ==
  /\ \/ Call(p, "close_tx") /\ mq_tx' = [mq_tx EXCEPT ![p] = 0] /\ UNCHANGED mq_rx
     \/ Call(p, "close_rx") /\ mq_rx' = [mq_rx EXCEPT ![p] = 0] /\ UNCHANGED mq_tx
  /\ UNCHANGED names
  /\ Reaped

-----------------------------------------------------------------------------
\* Broken variant of Send: the queue is made without its limit.
Send_NoLimit(q) ==
  /\ mode[q] = "running" /\ count[q] < Repeat
  /\ count' = [count EXCEPT ![q] = @ + 1]
  /\ sent' = [sent EXCEPT ![q] = @ + 1]
  /\ queues' = [queues EXCEPT ![mq_tx[q]] = Append(@, [from |-> q, number |-> sent[q] + 1])]
  /\ UNCHANGED <<names, mode, todo, mq_tx, mq_rx, starts, got, overrun, before, undisturbed, partners>>

\* A sender's TF_Send, TF_WriteImpl, rf_dev_transmit and mq_send: a message that finds
\* the queue full is dropped, and counts as sent all the same.
Send(q) ==
  /\ mode[q] = "running" /\ count[q] < Repeat
  /\ count' = [count EXCEPT ![q] = @ + 1]
  /\ sent' = [sent EXCEPT ![q] = @ + 1]
  /\ LET m == [from |-> q, number |-> sent[q] + 1]
     IN  queues' = IF Len(queues[mq_tx[q]]) < MAX_MSG_COUNT
                     THEN [queues EXCEPT ![mq_tx[q]] = Append(@, m)] ELSE queues
  /\ UNCHANGED <<names, mode, todo, mq_tx, mq_rx, starts, got, overrun, before, undisturbed, partners>>

\* rf_dev_deinit, by a sender that has sent all and by a node's main thread on a signal.
Deinit(p) ==
  /\ mode[p] = "running"
  /\ p \in Senders => count[p] = Repeat
  /\ mode' = [mode EXCEPT ![p] = "stopping"]
  /\ todo' = [todo EXCEPT ![p] = Cleanup(p)]
  /\ undisturbed' = [o \in Nodes |->
       undisturbed[o] /\ o # p /\ ~(p \in Nodes /\ Board[p] = "server")]
  /\ UNCHANGED <<queues, names, mq_tx, mq_rx, starts, count, sent, got, overrun, before, partners>>

\* Broken variant of Receive: the thread ends with the first message.
Receive_Once(p) ==
  /\ mode[p] \in {"running", "stopping"}
  /\ mq_rx[p] # 0
  /\ queues[mq_rx[p]] # << >> /\ got[p] = << >>
  /\ got' = [got EXCEPT ![p] = Append(@, Head(queues[mq_rx[p]]))]
  /\ queues' = [queues EXCEPT ![mq_rx[p]] = Tail(@)]
  /\ UNCHANGED <<names, mode, todo, mq_tx, mq_rx, starts, count, sent, overrun, before, undisturbed, partners>>

\* The loop of tf_thread.  The thread runs on while the main thread closes the device.
Receive(p) ==
  /\ mode[p] \in {"running", "stopping"}
  /\ mq_rx[p] # 0
  /\ queues[mq_rx[p]] # << >>
  /\ got' = [got EXCEPT ![p] = Append(@, Head(queues[mq_rx[p]]))]
  /\ queues' = [queues EXCEPT ![mq_rx[p]] = Tail(@)]
  /\ UNCHANGED <<names, mode, todo, mq_tx, mq_rx, starts, count, sent, overrun, before, undisturbed, partners>>

\* When the queue is closed receive returns -1, a size_t of more bytes than there are:
\* TF_Accept runs over the end of the buffer.  If that kills the process its queues are
\* closed, and what was left of the clean-up is not done.
ReceiveClosed(p) ==
  /\ mode[p] \in {"running", "stopping"}
  /\ mq_rx[p] = 0
  /\ overrun' = [overrun EXCEPT ![p] = TRUE]
  /\ \/ /\ mode' = [mode EXCEPT ![p] = "off"]
        /\ todo' = [todo EXCEPT ![p] = << >>]
        /\ mq_tx' = [mq_tx EXCEPT ![p] = 0]
     \/ UNCHANGED <<mode, todo, mq_tx>>
  /\ UNCHANGED <<names, mq_rx, starts, count, sent, got, before, undisturbed, partners>>
  /\ Reaped

-----------------------------------------------------------------------------
SystemCall(p) == Unlink(p) \/ CreateQueue(p) \/ OpenQueue(p) \/ OpenFails(p) \/ CloseQueue(p)

Next ==
  \/ \E p \in Processes : SystemCall(p) \/ Deinit(p)
  \/ \E p \in Nodes : StartNode(p) \/ Receive(p) \/ ReceiveClosed(p)
  \/ \E q \in Senders : StartSender(q) \/ Send(q)

Spec == Init /\ [][Next]_vars

\* The thread's loop goes on as long as the process does.
FairSpec == Spec /\ \A p \in Nodes : WF_vars(Receive(p))

-----------------------------------------------------------------------------
TypeOK ==
  /\ queues \in [Numbers -> Seq(Message)]
  /\ \A i \in Numbers : Len(queues[i]) <= MAX_MSG_COUNT
  /\ names \in [Names -> Numbers \cup {0}]
  /\ mode \in [Processes -> {"off", "starting", "running", "stopping"}]
  /\ todo \in [Processes -> Seq({"unlink_s2c", "unlink_c2s", "create_tx", "create_rx",
                                  "open_tx", "open_rx", "close_tx", "close_rx"})]
  /\ {mq_tx, mq_rx} \subseteq [Processes -> Numbers \cup {0}]
  /\ \A p \in Processes : mode[p] = "off" => mq_tx[p] = 0 /\ mq_rx[p] = 0

(* A node is given messages of the other board only, sent since it was       *)
(* started, each once and a sender's in the order they were sent: nothing    *)
(* that an earlier run left in a queue reaches it, although others make      *)
(* their queues under the same names meanwhile.                              *)
AcceptsFresh ==
  \A p \in Nodes : \A i \in DOMAIN got[p] :
    /\ got[p][i] \notin before[p]
    /\ Board[got[p][i].from] # Board[p]
    /\ \A j \in 1 .. i - 1 : got[p][j].from = got[p][i].from => got[p][j].number < got[p][i].number

(* TF_Accept is told of bytes that never arrived only once the main thread   *)
(* closes the device.                                                        *)
OverrunAtTheEnd == \A p \in Nodes : overrun[p] => mode[p] \in {"stopping", "off"}

(* A sender started while a node of the other board runs finds both queues,  *)
(* and sends to the one that node reads, if no other node was started, and   *)
(* no other server was stopped, since the node was: other senders that come  *)
(* and go never cut the two off.                                             *)
ReachesTheNode ==
  \A q \in Senders : \A p \in partners[q] :
    undisturbed[p] /\ mode[p] = "running" =>
      /\ mode[q] = "running" => mq_tx[q] = mq_rx[p]
      /\ mode[q] = "stopping" => count[q] = Repeat

\* A message is in the queue that node p reads.
Waiting(p, m) ==
  /\ mode[p] = "running" /\ mq_rx[p] # 0
  /\ \E i \in DOMAIN queues[mq_rx[p]] : queues[mq_rx[p]][i] = m

(* A message in the queue of a node that runs gets to TF_Accept, unless the  *)
(* node is stopped.                                                          *)
Arrives ==
  \A p \in Nodes : \A q \in Senders : \A n \in 1 .. Repeat * MaxStarts[q] :
    LET m == [from |-> q, number |-> n]
    IN  Waiting(p, m) ~> \/ \E i \in DOMAIN got[p] : got[p][i] = m
                         \/ mode[p] # "running"
=============================================================================
