# A TLA+ verification of TinyFrame

TinyFrame is a C library that puts messages into frames, sends them over a serial line, finds
them again in the received byte stream and hands them to listeners. This directory holds a model
of it in TLA+, the configurations that check the model with TLC, and proofs checked by TLAPS.
Paths below are relative to the repository's root.

## The system

| component | state | operations | what is hard |
|---|---|---|---|
| wire format, checksums | none | compose and collect multi-byte fields, checksum start/add/end | field widths, what each checksum covers, frames without payload |
| parser (`TinyFrame.c:551-718`) | `state`, `parser_timeout_ticks`, `id`, `len`, `type`, `data`, `rxi`, `cksum`, `ref_cksum`, `discard_data` | `TF_Accept`, `TF_AcceptChar`, `TF_ResetParser`, `TF_Tick` | garbage, pauses, resets midway, fields left over from earlier frames, oversized payloads, resynchronisation |
| transmitter (`:24-44`, `:729-1055`) | `next_id`, `sendbuf`, `tx_pos`, `tx_len`, `tx_cksum`, `soft_lock` | `TF_Send`, `TF_Query`, `TF_Respond`, their simple and multi-part variants, `TF_Multipart_Payload`, `TF_Multipart_Close` | several users, frames open across calls, flush boundaries, failure after the lock was taken |
| listeners and ticks (`:258-543`, `:1061-1085`) | three slot tables with counts, timeouts, userdata | add, remove, renew, dispatch, expire | callbacks that call the library, slots used again under a suspended loop, userdata released once, ticks from interrupts |
| life cycle (`:213-252`) | the whole structure | `TF_InitStatic`, `TF_Init`, `TF_DeInit` | a restart forgets IDs and listeners |
| two peers (`README.md:48-53`, `:150`) | two instances, frames under way | query, respond, time out, reset | late and lost answers, IDs that come round, resets while an exchange is under way |
| payload utilities (`utilities/`) | a cursor and an `ok` flag | `pb_*`, `pp_*` | the end of the buffer, handlers that flush and refill it, reads after a failure |
| RF example (`examples/`) | processes of two boards, two named message queues, a device thread | create, connect, send, receive, clean up | start order, names unlinked under others, full queues, errors read as lengths |
| demos (`demo/`) | none of their own | send and receive over a loop-back or socket | - |

The parser calls the listeners' dispatch with each verified message. `TF_Query` composes a frame
and adds an ID listener under the Tx lock. `TF_Tick` serves both the parser and the ID listeners.
Listeners call any of it back. The user supplies `TF_WriteImpl`, the mutex and the time base.

What makes each component correct:

- parser: what it delivers is what was sent, entire and checked; it never leaves its buffer;
  nothing that was on the line before a silence costs a later frame.
- transmitter: the line carries whole frames of accepted calls only; the buffer is not overrun; the
  lock always comes back.
- listeners: a registration ends for its own reasons only, on time, with its userdata released once;
  dispatch and expiry overlook nobody.
- sender, line and receiver: a message that fits is delivered once, in order, as it was sent.
- two peers: a listener is called with the answer to its own query, as long as nobody resets; every query ends.
- payload utilities: what the builder wrote is what the parser reads, and a failure loses no part of a field.
- RF example: a node gets what the other board sent it since it was started, and nothing else.

## Modules

| module | models | state and actions |
|---|---|---|
| `TFFrame` | the wire format | operators only: registers (the tuple of a field's bytes), `Value`, `BigEndian`, `CksumFrom`, `FrameHead`, `Encode` |
| `TFChecksum` | the XOR checksum and `TF_CKSUM_NONE` | values for the checksum parameters of `TFFrame` |
| `TFParser` | `TF_AcceptChar`, `TF_ResetParser`, the parser's part of `TF_Tick` | one variable per structure field (and `handled`, the message passed to the listeners); one operator per case of the switch |
| `TFParserHistory` | the parser seen from the line | adds `received`, `idle`, `sync`, `burst`, which only observe; the parser's properties |
| `TFTransmit` | lock, composition, flushes, multi-part calls | one variable per structure field, `job[u]` for where user `u` is, `wire` for what `TF_WriteImpl` got |
| `TFListeners` | tables, dispatch, expiry, callbacks | tables and counts, `stack` of suspended activations, `log` of what became of each registration |
| `TFChannel` | what sender and receiver promise | messages `sent` and `delivered` |
| `TFLink` | `TFTransmit` and `TFParser` over a line | both modules' variables, `taken` (bytes accepted), `booting`; crash and restart of the sender |
| `TFExchange` | what two peers promise | the `result` of each query, the set of queries `served` |
| `TFPeers` | `TF_Query`, dispatch and response, `TF_Tick`, `TF_InitStatic`, on two instances | `next_id`, `id_listeners`, the frames on the `line`; `before` observes the resets |
| `PayloadBuilder` | `utilities/payload_builder` | `built`, `pb_ok`, the buffers `flushed` by the full handler |
| `PayloadParser` | `utilities/payload_parser`, on what was built | `loaded`, `position`, `pp_ok`; `trusting` and `got` for the reader |
| `RFDevices` | `examples/main.cpp`, `tf_thread.cpp` | `queues`, `names`, each process's `mode` and the system calls it has `todo` |
| `MCParser`, `MCTransmit`, `MCListeners`, `MCLink`, `MCPeers`, `MCPayload`, `MCRFDevices` | instances for TLC | |
| `TFFrame_proofs`, `TFParser_proofs`, `TFTransmit_proofs`, `TFListeners_proofs`, `TFListenersKept_proofs`, `TFPeers_proofs`, `PayloadParser_proofs`, `RFDevices_proofs` | theorems | |

**Parser.** A byte is below `ByteBase`, 256 in the program. A multi-byte field is its tuple of
bytes, so shifting a byte into a number is dropping the first byte and appending. `rxi` wraps like the
type it has in the code. The receive buffer is the sequence of the bytes stored; a
store past its end would show as a longer sequence. The checksum is a parameter:
any start value, step and final function.

**Transmitter.** `sendbuf` is the first `tx_pos` bytes of the buffer. A call is a sequence of
steps: claiming the lock and composing the header (`Call`), one per piece copied or flushed
(`SendFrame_Chunk`), one for the end of the frame. Between any two of them other users run, and
between the calls of a multi-part frame too. With `TF_USE_MUTEX` a user waits for the lock, without
it the call fails. Whether a listener slot is free is a free choice here. `promised` records the
frames of accepted calls.

**Listeners.** The three tables have one shape: a slot has the registration's number, the key
it is looked up by (ID, type or function), and for ID listeners timeout and userdata (the two
userdata pointers are one, named by the registration it came with). A callback suspends the library
function that made it, which keeps its loop index on `stack` while the user's code adds, removes and
renews. The code between callbacks, and one round of a loop over a table, is a step. What an empty
slot holds is never read, so it is not kept. A callback that is given userdata may release it and
set it to NULL, and must when it returns `TF_CLOSE` or is called to clean up, as the README asks.

**Link.** The receiver takes the bytes of `wire` one at a time and at any time after they were written.
A crash of the sender loses what it had not written; it is back when a frame it cut off has been followed by
the receiver's timeout.

**Peers.** A frame is the unit here, which the parser's and the transmitter's properties justify: an ID, a type and,
not on the wire, the query it belongs to. Each peer asks with a type of its own and has a type listener for the
other's that responds with the message it was given (`README.md:150-151`); ID listeners return
`TF_CLOSE`. Frames in flight are a set with ages: a frame is lost by not arriving within `Lifetime` ticks.
A reset (`Restart`) is possible at any moment and takes no time, as `TF_InitStatic` does; a peer that crashed and starts
again does the same. A query whose listener is called with anything but its own answer gets an outcome that says so: `misled` if what it got
is the answer to a query made before the last reset (`before` counts them), `wrong` if it is anything else.

**Payload.** The handlers are the user's: either there are none, or the full handler sends the buffer off and starts it
again, and the empty handler loads the next buffer, each if that makes enough room. A reader may call anything in
any order; `trusting` follows whether it can tell that it is at the right place: `ok` is set, it asks for the
kind that was written, a buffer came in full, a string left a place free in its target.

**RF.** A process is the list of system calls it has yet to make in what it is doing, one a step. Queues
live on without their names while they are open. A node's thread runs on while its main thread closes
the device.

## Runs

| run | expects | shows |
|---|---|---|
| `parser` | pass | on an arbitrary stream of bytes, ticks and resets, with SOF: type correctness, delivered as sent, buffer bounds, every clean frame delivered |
| `parser_nosof` | pass | the same without SOF, where only silence resynchronises |
| `parser_none` | violation | without checksums a frame with no payload is not delivered when it ends |
| `transmit` | pass | two users with a mutex: the line is whole frames, the buffer is not overrun, the lock is exclusive and comes back |
| `link` | pass | sender (built-in lock, two users), line and receiver implement `TFChannel`, across crashes of the sender |
| `listeners` | pass | dispatch, expiry and nested callbacks keep registrations, userdata and timeouts right |
| `listeners_reuse` | violation | removing oneself in one's callback, adding a listener and returning `TF_CLOSE` removes the new one |
| `listeners_tick` | violation | a tick during a callback releases the userdata the callback holds |
| `peers` | pass | without a reset answers reach their own queries, and a reset never does worse than to let an earlier answer through; the two peers implement `TFExchange`, and every query ends |
| `peers_reset` | violation | after a reset, the listener of a new query is called with the answer to an earlier one |
| `payload` | pass | payloads hold whole fields up to the first failure; what a reader trusts is what was written |
| `rf` | pass | a node gets only fresh messages of the other board, in order; what is in its queue arrives, behind other messages too; senders reach a node that no other disturbs |

`CleanFrameDelivered` is about a line that is between frames, at the start, after a whole frame or
after a silence of the timeout's length; then a frame is delivered by its last byte, one that
is too long or has a damaged payload is dropped, and the next one is received again. A frame with a
damaged header is not in it: the rest of such a frame is noise to the parser, and costs
whatever follows until the next silence.

### Bounds

- Parser: bits for bytes, a two-byte length, so that payloads of 0 to 3 bytes exist against a buffer of
  2: empty, fitting, full and oversized. A timeout of 2 ticks distinguishes a pause from silence. The
  state space is finite without a bound on the number of bytes: streams of any length are covered.
- Transmitter: two users, four calls of every kind with payloads of 0 to 3 bytes, a header of 8
  bytes and a buffer of 10: room for neither byte of a checksum, exactly full, and a flush inside a
  payload all occur. Four calls wrap the two-bit ID counter. The users stop after `MaxCalls`, which is why
  these runs do not check deadlock.
- Listeners: two ID slots, one type slot, one generic slot, three registrations (`MaxRegs`), callbacks
  nested up to three deep (`MaxDepth`): full tables, holes below the count, slots used again, retries
  from a timeout callback. Ticks and messages are unbounded.

- Link: three calls by two users, payloads of 0 to 3 bytes against a receive buffer of 2 and a transmit
  buffer of 10, a timeout of 2 ticks, and one crash anywhere: frames cut off in every field.
- Peers: two IDs each, a master that asks four times, so each ID comes round twice, a slave that asks once,
  tables of two slots of which other listeners may hold one,
  one reset of either peer, at any moment. Exchanges last one tick, listeners wait one tick or two. A query after a reset can draw an ID that a frame under way still has.
- Payload: bytes of four values, fields of all widths, signed and unsigned, strings and buffers, an empty buffer
  among them, three fields in buffers of five bytes, four reads with targets of 0 to 4 bytes.
- RF: a server node, a client node, whose starts and ends meet in every order, and a client's sender that runs twice and sends two
  messages each time, into queues of two: messages wait behind others, and find the queue full. That a node of an earlier run is the same process
  started again is beyond this run, which has another node instead, but not beyond the theorems.

### Fairness

`transmit`: weak fairness of a user's next step once it has begun a frame: a running call returns, and
a user who opened a multi-part frame closes it, as the README of the library demands.
`listeners`: library code runs on and callbacks return (weak fairness), and ticks keep coming though
other calls are made in between (strong fairness of `Tick`): the time base is periodic.
Nothing is assumed of messages arriving or users calling.
`link`: weak fairness of users that have begun a frame, of the receiver's reading, of its ticks, and of the sender's
restart once it has crashed. `peers`: weak fairness of `Tick` only: queries end by their timeouts, no frame has to
arrive. `rf`: weak fairness of each node's `Receive`: the thread's loop goes on as long as its process.

### Assumptions on the users

- The Tx lock is claimed atomically (a mutex, or users that give way only in `TF_WriteImpl` and between
  calls). `TinyFrame.c:25-27` says the built-in lock is not thread safe.
- A multi-part frame is announced with a length above zero and gets exactly that many bytes before it
  is closed; announced with zero it is sent at once and once more when closed. The transmit
  buffer holds a header.
- In the run `listeners` a callback does not remove the listener it is called through, which it can do
  by returning `TF_CLOSE`, and ticks come between callbacks. `SelfRemoval` and `TickPreempts` lift
  these two; the runs `listeners_reuse` and `listeners_tick` show what happens then.
- `TF_Accept` is not called from a callback of the same instance.
- Link: within a frame the line is silent for less than the receiver's timeout, and what is on it between frames
  is no SOF byte; the sender takes longer to restart than the receiver to give up a frame.
- Peers (`Timely`, a hypothesis of the theorems, true of the constants of the runs): the IDs suffice, `Rate * (Lifetime + 1) <= IdCount`: the
  queries made while an exchange can last, refused ones included, since they use up IDs too. Timeouts are 1 to `Lifetime + 1`: a listener
  without a timeout (0, which the model has) whose answer is lost would stay until its ID comes round and take another's answer.
  Nothing is assumed of resets, except that the user adds its type listener again at once. The two peers serve different
  types: if both served one, a late response would be taken for a request and answered again.
- Payload: a handler returns true only if it made room (the code believes it). Targets of `pp_string` have room for
  something: with a size of 0 the code's `maxlen-1` wraps round. `pp_skip` stays in the buffer, because it does not look.
- RF: creating a queue does not fail, and signals arrive once the thread runs.

### What the code does all the same

These are modelled as they are, and the properties are stated so that they can be seen:

- `TF_InitStatic` on a running instance, to reset it as `TinyFrame.h:170` says, or in one that starts again, begins with the first ID at
  once. A response to a query from before it then answers a query from after it, unless the user keeps quiet for
  as long as an exchange can take. `AnswersMatch` fails in `peers_reset`; `OnlyResetsMislead` says that nothing else makes it fail, and
  `TFExchange` promises no more. The header says it of `TF_Init`, which allocates a new instance; it is `TF_InitStatic` that resets one.
- `TF_Respond_Multipart` has no result. With the built-in lock, while another user's multi-part frame is open, it is refused without its caller
  being told, who goes on to pass the payload and close: `TF_Multipart_Payload` and `TF_Multipart_Close` do not ask who holds
  the lock, and both go into the open frame. Any other call that begins a frame tells its user. `README.md:161-162` leaves it to the users
  not to begin a frame before the open one is closed; `Locked` has the behaviour, and `LineIsFrames` is claimed with a mutex, where
  the call waits (`transmit`), or of users that do not make it (`link`).
- `pp_string` and `pp_buf` read on after a failure, although `payload_parser.h:38-39` says that following reads
  fail or return 0; `pp_buf` never asks the empty handler. A string of exactly one byte less than its target
  leaves its terminator unread. `trusting` is what a reader must keep in mind for it.
- `cleanup` of a server node unlinks both names, its own and those a later node has made, and a second node that starts
  unlinks those of the first: senders then reach nobody while `TF_Send` reports success. `ReachesTheNode`
  is about nodes that no such start or stop disturbed.
- A full queue drops a message that was reported as sent: `TF_WriteImpl` has no result.
- Once the main thread has closed the device, `receive` returns -1, which `tf_thread.cpp:205` keeps in a `size_t`: `TF_Accept`
  is told of more bytes than there are. `OverrunAtTheEnd` shows that this happens while the process shuts down and at no other time.

## Proofs

All for every width, byte size, checksum algorithm, buffer size, timeout, set of users and of calls.

- `TFFrame_proofs`: lemmas about registers, numbers and sequences, and about the checksum: it is defined by
  a recursive function, so its existence and its step are shown by the least counterexample.
- `TFParser_proofs`: `TypeCorrect`, `DeliverySound`, `BufferSafe`, `CleanDelivered`. `DeliveredAsSent` is not
  inductive: it speaks of the last step only. `TypeCorrect` says of the message handed on that it is one, which takes an invariant of its
  own: as many payload bytes are stored by then as the length says (`Stored`). The inductive invariant `ParserInv` adds `FrameInv`: in every state, what was
  received is the frame up to the field being collected, the accumulator is the checksum of the part
  that is complete, and a payload that is stored fits. `CleanFrameDelivered` is the other direction, and `FrameInv`
  says too little for it: of a payload that is discarded it knows nothing. `SyncInv` adds where in the frame the
  parser is then too (`Located`), and that what it takes for the frame is the frame on the line, as long as the line carried
  frames (`Synced`). That no frame ends early or late rests on lemmas about the format: the header has a fixed length,
  header and payload can be told apart (`CarriedUnique`), no frame is the beginning of another (`ShortNotWhole`,
  `PartNotWhole`), and no two messages have one frame (`EncodeInjective`). All but `TypeCorrect` assume checksums: without
  them the code does not look at the length before it stores, and `parser_none` shows what else goes wrong.
- `TFTransmit_proofs`: `LineCorrect`, `LockExclusive`, `BufferBounded`, `TransmitTypes`, with a mutex, or
  with the built-in lock and nobody calling `TF_Respond_Multipart`, the call that cannot report
  that the lock was taken (`FailuresReported`). `LineIsFrames` says nothing of
  the buffer, so it is not inductive: `LineInv` adds that wire, buffer and what the one sending user has
  yet to copy make up the promised frames, and that the checksum so far is that of the payload copied so far.
- `TFPeers_proofs`: `PeersTypes`, whatever the users do; with `Timely` users `MisledAfterResetsOnly` (`OnlyResetsMislead`), `IdsDistinct` and
  `Implements` (each step of the two peers is a step of `TFExchange` or changes nothing of it), for all ID widths, rates,
  lifetimes, timeouts, table sizes and resets at any time; and `AnswersRight` (`AnswersMatch`) if nobody resets.
  `OnlyResetsMislead` needs to know where IDs come from: `PeersInv` adds that whatever was made of a query since the last reset,
  its listener or a frame, has the ID that the counter had, seen from the counter's value now (`InWindow`), and that
  too few queries have been made since for the counter to have come round. Two windows of one ID are then
  one query. What is left is from before the reset: frames only, since the reset removed the listeners.
- `TFListeners_proofs`: `CountsCover`, `AllOffered`, `ListenerTypes`, for every table size, any nesting,
  users that remove listeners in their own callbacks and ticks that interrupt callbacks. `NoneSkipped` is inductive
  together with `CountsCoverListeners` once the slot a dispatch is suspended in counts as passed: what is
  in a passed slot was called, or was registered after the message came in.
- `TFListenersKept_proofs`: `Kept`, `ReleasedOnce`, `Expires`, for every table size, set of requests and nesting, if
  users remove no listener in its own callback and no tick interrupts a callback (`Careful`, as in the run `listeners`; the runs
  `listeners_reuse` and `listeners_tick` show that neither condition can be dropped). `KInv` adds
  what makes a loop index safe across a callback: each suspended activation comes back to the slot and
  the registration it left (`Attached`), no two are in the same slot (`Apart`), a slot has one registration, and a
  listener that has ended is in its last callback (`Leaving`). `UInv` says that slot, callback and
  log agree on who owns the userdata, `TInv` that what is left of a timeout and the age of the registration
  add up, less one for the slots that the tick under way has still to visit (`Ahead`). Most steps
  concern one slot, so the three are shown once for any step at a slot (`AllAtSlot`) and once for steps that
  touch none (`AllQuiet`); each action is then shown to be one or the other.

- `PayloadParser_proofs`: `TypeCorrect`, `FieldsStayWhole`, `PayloadIsPrefix`, `WhatIsReadWasWritten`, `ReaderInPlace`, for
  any byte size, buffer size, byte order, set of fields, targets and handlers. That a reader gets what was written has
  two parts. One is arithmetic: a number written and read with the same width and byte order is the number, negative ones
  by two's complement (`RoundTrip`, digit by digit). The other is position: `BuilderInv` says that each buffer
  is exactly the fields between two `marks`, the counts of fields written when a buffer was begun; `ParserOK` says that a
  trusting reader is at the end of a field of the buffer that is loaded. `FieldsBytes` is a recursive function, so that
  it exists is shown first.
- `RFDevices_proofs`: `TypeCorrect`, `NothingStale`, `OverrunLate`, `NodeReached`, for any finite set of processes, any
  device numbers, starts and queue size. `AcceptsFresh` speaks of messages; why it holds lies in names: a node unlinks
  what an earlier run left before it creates or opens anything. `Inv` says which system calls each process has left in
  what it is doing and which queues are open between them (`InOrder`), that a queue has one direction, that messages of each
  sender are in order in the queues and what was got (`Sequenced`), that what a node reads, or will find under a name
  after its unlinks, is younger than its start (`Fresh`), that the names of an undisturbed node are its own queues
  (`Quiet`), and that a sender that connected to an undisturbed node has that node's queue (`Paired`). A step either releases a
  queue or acquires one, and the invariant is shown once for each. That there is always a number for a new queue is counting
  (`SpareNumber`).

The constants are those of the modules' `ASSUME`s: widths of 1, 2 or 4 bytes, a length type that can
count the bytes of a field, checksum functions of the right type, a header that fits the transmit buffer,
callbacks nested at least once, payload fields whose values fit their widths, finitely many processes.

Only model-checked: the refinement of `TFChannel` by `TFLink` (the channel speaks of `SelectSeq`, whose operator
argument the provers cannot expand), `LineIsFrames` across crashes (`LineCorrect` is about a sender that does not crash), and the
liveness properties (fairness is out of the prover's reach). Every other invariant of the passing runs is a theorem.

## Not modelled

The CRC algorithms (tables and bit arithmetic; a checksum is any function in the models that need one), `malloc` and
`free` of the instance, error messages, the demos (printing, sockets and processes around the modelled
functions). Of the RF example the asynchronous receive mode (`RF_RX_MODE_ASYNC`, for which the example
has no device), the command line, the payloads, the listeners, which only print, and the thread's use of the deleted
context beyond the closed queue. The built-in lock's two-step test, interrupts inside library code between
callbacks, and the re-entry of the parser are assumed away above.

## Plan

1. Done: wire format, parser, transmitter, listeners, the link and the two peers with the channel and the exchange they
   implement, payload utilities, RF example.
2. Done: every safety invariant of the parser, transmitter, listeners, peers, payload utilities and RF example as a
   theorem; the step simulation of `TFPeers`.
3. Left: `LineIsFrames` across crashes and the step simulation of `TFLink` as theorems, and a damaged line in
   `TFLink` (what a damaged frame costs is `CleanFrameDelivered`).
