# TLA+ specifications of the ns-3 TCP socket with Google Swift

This directory holds a TLA+ model of the TCP code of this repository: the
congestion control `TcpSwift`, the socket `TcpSocketBase` that drives it (loss
recovery, pacing, flow control, round-trip times, ECN), and the life of a
connection between two such sockets. The modules are checked with TLC on small
instances, and what matters most of the congestion control, the sender and its
peer's receiver, flow control, round-trip times, ECN and the listener's
negotiation is proved with TLAPS for every value of the parameters.
Sources are named relative to `src/internet-modifications/`; `PROJECT.json`
gives the lines each definition stands for.

## 1. The system

The repository replaces ten files of ns-3's internet stack and adds scripts that
run them. The simulator is single-threaded: the code runs in *events* (a packet
arrives, a timer expires, an application calls), each of which runs to its end.
Concurrency is that of the network and the timers: packets are lost, overtaken
and repeated, and timers race with the ACKs on their way.

| Part | State | Operations | Interacts with |
| --- | --- | --- | --- |
| **TcpSwift** (`tcp-swift.cc`) | base and last delay, count of the cycle, whether Swift runs, right edge of the cycle; window, threshold and pacing rate in the TCB | `PktsAcked`, `CongestionStateSet`, `EnableSwift`, `DisableSwift`, `IncreaseWindow` (AIMD, target delay, pacing rate), `GetSsThresh` | called by the socket; calls `TcpNewReno` |
| **Sender** (`tcp-socket-base.cc`) | sequence numbers, congestion state, duplicate count, recovery point, retry count, timers | `Send`, `ReceivedAck`, `ProcessAck`, `DupAck`, `EnterRecovery`, `NewAck`, `DoRetransmit`, `SendPendingData`, `SendDataPacket`, `ReTxTimeout`, `NotifyPacingPerformed` | scoreboard (`TcpTxBuffer`), congestion control, recovery algorithm, network |
| **Receiver** (same file) | reassembly buffer, delayed-ACK counter and timer | `ReceivedData`, `DelAckTimeout` | application, network |
| **Connection state machine** | the eleven TCP states, SYN and FIN retries, close flags, LAST_ACK and TIME_WAIT timers | `Connect`, `Close`, `ShutdownSend`, `DoForwardUp`, the `Process*` handlers, `PeerClose`, `DoPeerClose`, `SendEmptyPacket` | both applications, all of the above |
| **Listener** | the listening socket and the forks it schedules | `Listen`, `ProcessListen`, `CompleteFork`, `ConnectionSucceeded` | connection state machine |
| **Flow control** | advertised window, peer's window, persist timer | `AdvertisedWindowSize`, `UpdateWindowSize`, `Recv`, `PersistTimeout` | sender, receiver, application |
| **RTT history** | deque of sent ranges, smoothed delay, RTO | `UpdateRttHistory`, `EstimateRtt` | sender, congestion control |
| **ECN** | one `m_ecnState`, three sequence numbers | parts of `DoForwardUp`, `ReceivedAck`, `SendDataPacket`, `EnterCwr` | sender, receiver |
| State classes, factory, endpoints, ICMP, IPv6 twins, tags, attributes, traces, scripts | – | plumbing without protocol logic | – |

What is hard, and what makes each part correct:

- **TcpSwift.** Its cycle is spread over three callbacks that the socket must make
  in a certain order. The cycle must not divide by a delay that was never
  measured; the window must stay above zero through unsigned arithmetic that
  wraps around; it must fall only for delay and grow only as far as the cap.
- **Sender.** Five events end in `SendPendingData`; six places change the
  congestion state, six reset the duplicate count, four start or stop the
  retransmission timer. The counters must fit the states, the timer must
  run while anything is outstanding, the scoreboard must be truthful, and
  whatever is written must in the end be acknowledged or given up.
- **Receiver.** Delivered data is a gapless prefix; every segment is acknowledged
  at once or by the timer.
- **Flow control.** Windows travel in ACKs that are lost and overtaken, are shifted
  and so rounded down, and open while nothing is on its way. The sender must not
  believe in room that is not there, nor wait without a timer; a probe is one byte
  that is sent and yet counts as unsent.
- **RTT history.** Segments that are sent again, in any order, merge segments and
  move the ends of their entries in the history, and one `m_rto` serves handshake, ACKs and timeouts. What is measured
  must have been sent once, after the last timeout.
- **ECN.** One state for two roles: a mark must be echoed until it is answered, and
  answered once per window, over lost echoes and lost answers.
- **Connection.** One timer event repeats SYN, FIN and data in turn; a FIN may
  travel with data, behind it or past it, and is told from data by one sequence
  number. Who is connected must have been heard, an end of file must come after
  the data, a FIN must not be taken for acknowledged, what may be lost must have
  a timer, and connecting and closing must come to an end.
- **Listener.** The SYN branch of `DoForwardUp` writes into the listening socket,
  and the fork that copies it is scheduled for later.

## 2. Modules

```
ReliableStream      what one direction of a connection promises
      ^ (refined by)
SwiftSender ------> SwiftFlow      order of the calls to the congestion control
   ^  \ (extends)      / (extends)        ^
   |   TcpSwift  <----'             SwiftFlowProofs
SwiftSenderProofs                         ^
      '-----------------------------------'  (of the sender's congestion control)

Connection          two sockets from Connect and Listen to CLOSED <-- ConnectionProofs
FlowControl         receive window, slow application, probes    <--  FlowControlProofs
RttHistory          what is measured, retransmission timeout    <--  RttHistoryProofs
Ecn                 marks, echoes and answers                   <--  EcnProofs
Listener            a listening socket, its forks, negotiation  <--  ListenerProofs
```

The last five model other sides of the same sockets, each with only the state its
questions need: a product of them has too many states for TLC, and a module that
models what another one does (how much the window lets a handler send, when a
segment is sent again) leaves it free, so that whatever the other one does is
among the behaviours it checks.

| Module | What it models |
| --- | --- |
| `TcpSwift` | The methods of the class as operators from a record to a record. The record has the fields of `TcpSwift` and the three of `TcpSocketState` it writes. No variables. |
| `SwiftFlow` | The congestion control under the calls a socket may make: what one ACK, one timeout or one repeated SYN+ACK does to it, in each congestion state. The sequence numbers, delays, TTLs and segment counts are free. |
| `SwiftSender` | An established sender with its scoreboard, timers and retries, the peer's receiving half, and a network that loses, reorders and (by retransmission) duplicates. |
| `ReliableStream` | The abstract promise: written, delivered, freed, aborted. |
| `Connection` | Two sockets, their applications and the network, from `Connect` and `Listen` to `CLOSED`. How data is sent in the middle is `SwiftSender`'s; here an application writes one segment at most. |
| `FlowControl` | One direction of an established connection in bytes: a receiver with a bounded buffer and an application that reads when it likes, the window it advertises, and the sender with its persist timer. |
| `RttHistory` | `m_history` and `m_rto` of a client, from its SYN on. Which segments are sent again, in which order and how often, and which ACKs arrive, is free. |
| `Ecn` | `m_ecnState` and its three sequence numbers in two sockets that both send, and the paths between them. |
| `Listener` | A listening socket, several clients that connect to it, the copies it makes of itself, and the options, windows and ECN that SYN and SYN+ACK settle. |
| `SwiftFlowProofs`, `SwiftSenderProofs`, `FlowControlProofs`, `RttHistoryProofs`, `EcnProofs`, `ListenerProofs`, `ConnectionProofs` | Theorems about the modules of those names. |
| `Arithmetic` | What those proofs need of minima, quotients, remainders and powers of two. |
| `MCSwiftFlow`, `MCSwiftSender`, `MCEcn`, `MCListener` | The small sets that TLC uses for delays, TTLs, numbers and settings. |

### State and actions of `SwiftSender`

`snd` is a record of the fields of `TcpSocketBase`, `TcpSocketState` and the
transmission buffer that the handlers of an established socket read and write;
each field's comment names the member it is. `rcv` is the peer's receiving
half. `data` and `acks` are bags of packets, `synAcks` counts repetitions of the
SYN+ACK, `peerData` the data segments the peer has sent.

| Action | Code |
| --- | --- |
| `Send` | `Send`: stores the data, schedules `m_sendPendingDataEvent` if the window allows |
| `SendPendingDataEvent` | that event: `SendPendingData` |
| `PacingTimerExpires` | `NotifyPacingPerformed` |
| `ReceiveAck` | `DoForwardUp` (window, highest ACK), `ProcessEstablished`, `ReceivedAck`, `ProcessAck` with `DupAck`, `EnterRecovery`, `DoRetransmit`, `NewAck`, at last `SendPendingData` |
| `ReceiveSynAck` | the SYN branch of `DoForwardUp`, then nothing in `ProcessEstablished` |
| `ReTxTimeout` | `ReTxTimeout`: nothing to send, retries used up, or the return to the head |
| `ReceiveData`, `DelAckTimeout` | `ReceivedData` and the delayed ACK at the peer |
| `PeerSendsData` | an ACK that comes with data and has no SACK block |
| `Lose` | the network |

A handler is a chain of operators on `snd`, in the order of the calls; the
segments it sends gather in `snd.out` and enter the network when the action
ends. So an action is one event of the simulator, with every call it makes.

### State and actions of `Connection`

`sock` is a function from the two peers to records of the fields that decide
about opening and closing; `net` holds the segments on their way to each peer, a
set, so that they arrive in any order and a lost one is one that never does. A
segment is its flags, sequence number, ACK number and length (none or one).

| Action | Code |
| --- | --- |
| `Connect`, `Listen` | `Connect` with `DoConnect`; `Listen` |
| `Send`, `Recv`, `Close`, `ShutdownSend` | the calls of that name, `Close` with `DoClose` |
| `SendPendingDataEvent` | the event that `Send` schedules |
| `Receive` | `ForwardUp`: range check, the switch of `DoForwardUp`, then `ProcessListen` (with `CompleteFork`), `ProcessSynSent`, `ProcessSynRcvd`, `ProcessEstablished`, `ProcessWait`, `ProcessClosing` or `ProcessLastAck`, and what they call: `ReceivedAck`, `ReceivedData`, `PeerClose`, `DoPeerClose`, `TimeWait`, `SendRST`, `CloseAndNotify`. Without an endpoint, `TcpL4Protocol` answers. |
| `RetxEvent` | what `m_retxEvent` was scheduled with: `SendEmptyPacket` with its flags, or `ReTxTimeout` |
| `LastAckTimeout`, `TimeWaitEvent` | `LastAckTimeout`; the `CloseAndNotify` after TIME_WAIT |
| `Lose` | the network |

### State and actions of `FlowControl`

Sequence numbers count bytes, because windows and probes cut segments. SACK is
off, and fast recovery is out of reach of the few duplicate ACKs; the scoreboard
is then a few marks: `head`, `resent` (what of the losses is sent again), `lost`
(what the last timeout marked), `sent`, and the bytes that duplicate ACKs guess to
be SACKed. The congestion window is any of a set, chosen at each ACK.

| Action | Code |
| --- | --- |
| `Send`, `SendPendingDataEvent` | `Send` and the event it schedules |
| `ReceiveAck` | `DoForwardUp`: `UpdateWindowSize`, entering the persist state, `ProcessEstablished` with `NewAck` or a duplicate and `SendPendingData`, leaving the persist state |
| `ReTxTimeout` | `ReTxTimeout`, with the window of one segment and `SendPendingData` |
| `PersistTimeout` | the probe: `CopyFromSequence`, one byte without the ACK flag, `ResetLastSegmentSent` |
| `ReceiveData` | `ReceivedData` with the callback, in which the application may read |
| `Recv` | `Recv`, which sends nothing, however much room it makes |
| `DelAckTimeout`, `SetRcvBufSize` | the delayed ACK; a larger buffer, which is announced |
| `Lose` | the network |

### State and actions of `RttHistory`

| Action | Code |
| --- | --- |
| `Connect`, `SynTimeout` | `DoConnect` and the repeated `SendEmptyPacket (SYN)`: the backoff of the handshake, the entry with a count of zero |
| `ReceiveSynAck` | `DoForwardUp` with `EstimateRtt`, then the ACK of `ProcessSynSent`, which computes `m_rto` anew |
| `SendNew` | `SendDataPacket` with `UpdateRttHistory` and the timer, for new data |
| `SendAgain` | the same for a retransmission: by `SendPendingData`, on a partial ACK, or as the fallback of `DoRetransmit` |
| `ReceiveAck` | `EstimateRtt`, and `NewAck` with `resetRTO` or without |
| `ReTxTimeout` | the doubled `m_rto`, the cleared history, the head that is sent again (or, if all that was sent is acknowledged, new data) |
| `SendAck` | an ACK of the peer's data: `SendEmptyPacket` computes `m_rto` |

`sends` counts how often each sequence number was sent and `sample` names the
last one of the segment that was measured in the step: history variables, which
no action reads. `cuts` is where the items of `m_txBuffer` end. `highRxt` is used
below `recover` alone: after a timeout `NextSeg` finds what is lost from the head
upwards, and neither fast recovery nor `DoRetransmit` runs before an ACK reaches
`m_recover`. At or above `recover` any item is sent again at any time, also one
below those that were sent again before, as when a partial ACK resends the head
after `SendPendingData` has resent later segments.

### State and actions of `Ecn`

| Action | Code |
| --- | --- |
| `Send` | the event that `Send` schedules |
| `Receive` | `ForwardUp` (the mark), `IsValidTcpSegment`, `DoForwardUp` (CWR), `ReceivedAck` (ECE), `ProcessAck` as far as it calls `DoRetransmit`, `ReceivedData`, `SendPendingData` |
| `ReTxTimeout`, `DelAckTimeout`, `SetRcvBufSize` | the functions of that name |
| `Lose` | the network |

`DoRetransmit` and `SendPendingData` each send any unacknowledged segment again, or
none; after a timeout it is the head. A router marks any data segment or none:
`Receive` chooses. Paths keep the order
and lose anything.

### State and actions of `Listener`

`listener` is the listening socket, `forks` its copies by client, `forking` the
calls of `CompleteFork` that are scheduled; each socket is a record of the fields
that the handshake negotiates. A segment carries its options instead of sequence
numbers, which cannot be mistaken before there is data.

| Action | Code |
| --- | --- |
| `Connect`, `SynTimeout` | `DoConnect`, and the repeated `SendEmptyPacket (SYN)` |
| `ReceiveSynAck` | the SYN branch of `DoForwardUp`, then `ProcessSynSent`, or nothing in an established socket |
| `Refuse` | a SYN+ACK for a client that has given up: `TcpL4Protocol` answers with a reset |
| `ReceiveSynListening` | the same branch on the *listening* socket, `NotifyConnectionRequest`, `Fork` and its copy constructor |
| `CompleteFork` | the scheduled call: SYN_RCVD and the SYN+ACK |
| `ReceiveSynForked`, `SynAckTimeout` | a SYN once more (`ProcessSynRcvd`), and the timer |
| `ReceiveAckForked`, `ReceiveAckListening` | `UpdateWindowSize`, `ProcessSynRcvd`; `ProcessListen` ignores the ACK that `DoForwardUp` did not |
| `ClientSends`, `ReceiveRst`, `Lose` | any later segment of a client; a reset; the network |

`round`, which numbers the forks, is a history field: it tells with which of
them a client is connected.

### What is abstracted

- In `SwiftSender` sequence numbers count full segments; the congestion window is
  in bytes, because Swift lets it fall below a segment. Data that is no multiple
  of a segment is in `FlowControl` and `RttHistory`; `m_bytesAckedNotProcessed` is
  not modelled.
- Time is in ticks; the code's doubles are computed exactly and floored where
  the code casts to `uint32_t`. A timer may expire whenever it runs: every order
  of timers and packets is explored, also those a real RTO would not produce.
- `m_lastRtt` of the TCB is chosen from a set at every ACK; which segments are
  measured is `RttHistory`'s. The pacing rate is only "configured", "computed" or "zero".
- `SendPendingData` sends as many segments as the loop would; the loop's steps
  cannot be observed, since nothing else runs meanwhile.
- In `SwiftSender` the peer's window never is the smaller one (`FlowControl`), ECN
  is off (`Ecn`), the FIN is not sent (`Connection`).
- In `RttHistory` times are multiples of the timeout that the smoothed delay gives,
  which stays the same: one and the same estimate shows best what the backoff does.
  The peer's window does not close, so that no probe is sent. A retransmission sends
  its item whole, alone or with what follows: it asks for a full segment (3190, 3776),
  and if the window has less room than that, for all that is left to send (3176).
- In `Listener` an endpoint is the entry of the client in `forks`. Two SYNs of one
  client never are in one instant, so that a client has one `CompleteFork`
  scheduled. Buffers are empty: what a socket advertises depends on its size and
  shift alone. Between the fork and its `CompleteFork` anything may happen, which
  is more than the same instant allows.
- In `Ecn` a data segment is one sequence number, and both sockets have negotiated
  ECN; `ReduceCwnd` is counted, not computed.
- `TcpTxBuffer`, `TcpRxBuffer`, `TcpNewReno` and `TcpRecoveryOps` are ns-3
  classes outside the repository. They are modelled from the calls the socket
  makes and the comments and assertions around them, and marked external.
  The recovery algorithm sets the window to the threshold on entry, as classic
  recovery does; another one (PRR) would choose other windows in fast recovery.
- In `Connection` data is one segment, which number 1 stands for; SACK is on and
  every segment is acknowledged at once; the window never closes. The listening
  socket is replaced by its fork, which `ProcessListen` completes at once, and
  what then reaches the listener is dropped by `NoEndPoint`. Applications do not
  call a socket from within its callbacks, make no call after `Close` or after
  the socket has told them of an error, and get a fork when it is connected. A
  full queue (`MaxInNet`) drops what a handler sends as a whole. Sequence numbers
  are unbounded: they do not wrap, as 32 bits do after 2^32 bytes.

## 3. What the runs check

Bounds: segments are two bytes, so that a window can be less than one. `UintMod`
stands for 2^32; in `SwiftFlow.cfg` it is 128, so that the unsigned subtraction
wraps within reach and `BoundAssumption` still holds. In `SwiftSender` `MaxCwnd` has
the same meaning as in `SwiftFlow`, a flow with a larger window gets no more ACKs;
the windows reached in its instances are far below.

| Run | Question | Instance |
| --- | --- | --- |
| `SwiftFlow` | Is the cycle consistent, does the window stay open, is it cut and grown only as intended, under every order of calls? | delays 0, 1, 10 and 70 (below and above each target, a ratio above the cap of five, above the second of `TargetDelay`), TTLs of one and four hops, Beta 1.6 to reach the floor of a cut, windows up to `MaxCwnd` = 8 bytes get ACKs |
| `Sender` | With SACK and without, with delayed ACKs: do the counters fit the states, is the scoreboard truthful, the recovery point valid, the timer running, and is `ReliableStream` implemented? | `SackModes`: both; five segments, threshold of two duplicates, one retry, ssThresh of three segments, an ACK for every second segment |
| `SenderPaced` | With pacing, two-way data and a repeated SYN+ACK: one segment per timer expiry, never more in flight than the window, are the calls to Swift those of `SwiftFlow`, is everything written acknowledged or given up, and does every recovery end? | three segments, one data segment and one SYN+ACK of the peer, fairness of the socket's events |
| `ConnectionOpen` | Has the other end been heard when a socket is connected, and do connecting and the last ACK come to an end? | both connect, three SYN retries each, no data, one segment at a time in each direction, fairness of the timers |
| `ConnectionClose` | Does the end of file come after the data, is a FIN or data taken for received only when it is, and is there a timer for all that may be lost? | one connects and one listens, one of the two writes, one retry, two segments in each direction |
| `FlowControl` | Does the sender ever believe in, or fill, room that is not there; does a probe put the ends out of step; is there a timer for what is outstanding? | eight bytes written as 8 or 4 + 4, segments of three, a buffer of four that may grow to six, a window field up to three (so a shift of one, which rounds), congestion windows of one byte, one segment and all, two data segments and two ACKs in the network, one retry |
| `RttHistory` | What is measured, and how long is a wait? | six bytes in segments of up to three, two SYNs with an initial wait of three, three retries, a ceiling of four |
| `Ecn` | Is a mark echoed until it is answered, and answered once per window? | one end sends four segments, the other one, so that echoes go both ways; one segment fits on each path, the rest is lost |
| `Listener` | Do the two ends of a connection agree on options, shifts and ECN, whatever other clients did to the listener? | two clients out of three settings (everything on, scaling only, all but scaling; shifts of two, one and none; ECN on, off or accepted) and a server with two, two SYNs each and two SYN+ACKs, two segments in the network for each client; the names of the clients are symmetric |

Five segments with a threshold of two duplicates are the smallest instance in
which fast recovery has two partial ACKs, of which only the first restarts the
timer, and in which the ACK that ends it can itself be a duplicate (which needs
a threshold of three segments, too); three are enough for fast recovery to start
and to be broken off by a timeout. `MaxCopies` 1 bounds copies of the same segment in the network
(a retransmission beside the original is lost, as in a full queue), the network
itself may hold all of the segments and ACKs in any order. Distinct ACKs are not
bounded. `DataRetries` 1 makes giving up reachable; every ACK restores it, so
timeouts are not bounded in number.

The type invariants bind the ranges of all fields; that of `RttHistory` is proved and
not run. The others:

- `DoingIffOpen`, `FlowSpec`: Swift runs in exactly the state Open, and the
  socket makes its calls in an order `SwiftFlow` allows. By `FlowSpec` what is
  proved of `SwiftFlow` holds of the sender's instance.
- `MeasuredBeforeUse`: no division by the sentinel or zero.
- `WindowAlive`, `CutOnlyOnDelay`, `GrowthCapped`, `LossNeverRaisesThreshold`:
  the window stays open, is cut only after more than two delays of which the
  last is not below its target and never by more than nine tenths, grows within
  the safety cap (windows below a segment excepted: there the parent class adds
  up to SegSize^2 bytes), and a loss never raises the threshold.
- `CountersFit`, `RecoveryPoint`, `RenoGuessEnds`: the assertions and unwritten
  assumptions of `DupAck` and `ProcessAck`.
- `SackedReceived`, `StreamSpec`: nothing is taken for received that is not.
- `TimerRunning`, `Progress`: nothing is waited for in vain.
- `FlightWithinWindow`, `PacedSending`: what is sent when, also after a timeout.

- `HandshakeAgreed`, `ConnectEnds`: a socket is connected only if its SYN has
  arrived, over repeated and crossing SYNs, and connecting ends (in a
  connection, in a reset, or when the retries are used up).
- `EofAfterData`, `FinArrived`, `FreedWhenReceived`: nothing is taken for
  received, by either end, that is not.
- `WaitingTimed`, `LastAckEnds`: what may be lost has a timer, and the last FIN
  is not repeated without end.

- `EdgeHonest`, `NoOverrun`: the right edge of the window, as the sender sees it,
  is never beyond the room the receiver has, and nothing but a probe is sent
  beyond it.
- `OutstandingTimed`: what is sent and not acknowledged has the retransmission or
  the persist timer, while Nagle's algorithm is off. It is stated with the two
  exceptions the code makes (section 4): a window without room for a full segment that
  is not zero, and the ACK of a probe's byte.
- `AheadByProbe`: the two ends agree, but for the one byte of a probe.
- `SamplesUnambiguous`, `SamplesFresh`: no data is measured that was sent twice
  (Karn), or before the last timeout.
- `DataWaitBounded`: the backoff of the handshake is not that of the data.
- `OptionsAgreed`, `EcnAgreed`: what the two ends of a connection switch on or off is
  the same, each shifts by what the other one announced, and takes no window for
  larger than the other one's buffer. They are stated of a
  client and the fork that answered it, because a client whose first fork gave up
  may find itself with a second one that agreed to something else.
- `MarkEchoed`, `OncePerWindow`: a mark is echoed until it is answered, at a socket
  that receives no echoes of its own; the window is not reduced again before the
  segment that told of the last reduction is acknowledged.

`ConnectionOpen` has room for one segment in each direction: the SYNs that cross
need one each, and more retries, not a longer queue, make repeated SYNs meet
answers to earlier ones. `ConnectionClose` has room for two, for a FIN to
overtake data or an ACK to come late, and a retry each to repeat what was lost.
An application that writes is enough to have the FIN with, behind and before
data in one direction while the other direction closes without.

In `FlowControl` the buffer is no multiple of the segment and the data none of
either, so that windows cut segments; two ACKs are enough for one with an old
window to arrive late, and two data segments for a probe beside a retransmission.
In `RttHistory` six bytes in pieces of one to three allow entries to be
extended and overlapped by segments that are sent again in any order, and three retries
let the doubled timeout run into its ceiling. What the order is worth can be seen
by weakening the model: if a retransmission could send less than its item, or go
backwards below `recover`, TLC would find a sample of data that was sent twice. In `Ecn` four segments allow a second
reduction after the first one is acknowledged, and a lost CWR between them; what
finds no room on the path leaves gaps, which are filled later and in any order. In
`Listener` two clients are enough for one to leave something behind and the other
to find it, in every order of their SYNs and the scheduled forks, and two tries
for a fork to give up with its SYN+ACK on the way and a late SYN to make another.
A window field of three makes shifts of one and two differ.

Each property has a mutant in `PROJECT.json`: an operator in the modules that
changes one definition as a bug would and makes the property fail.

## 4. Where code and comments disagree

Three runs find a state or step that a comment of the code excludes. Each quotes
the line in its definition.

| Run | What it shows |
| --- | --- |
| `StallSubPacket` | Once a cut leaves a window below a segment with nothing in flight, the silly-window check of `SendPendingData` holds the next segment back, no timer is left, and the flow never continues, on a network that loses nothing. It takes a delay above the target, three ACKs in a cycle, and data written afterwards. |
| `ShutdownInFlight` | "Otherwise fin will go when buffer empties": when `ShutdownSend` finds all of the data in flight, its ACK empties the buffer and no FIN goes, then or later. |
| `AnyAckCloses` | "This ACK corresponds to the FIN sent": any ACK with the expected sequence number closes a socket in LAST_ACK and CLOSING, also one that was sent before the FIN arrived. |

Not runs, but seen while modelling, and worth knowing:

- `src/README.md:20` gives the increase as alpha * (1 - delay / target); the code
  adds Alpha * min (5, lastRtt / baseRtt), which grows with the delay.
- The pacing timer uses `m_currentPacingRate`, while Swift writes
  `m_maxPacingRate`; only constructors copy one to the other. And a cycle that
  ends before a delay was measured computes its rate from `Time::Max ()`.
- `m_begSndNxt`, the "right edge" of the cycle, is set from `m_nextTxSequence`,
  which a retransmission has moved back: such a cycle ends early.
- "IsLost (HighACK + 1)" (tcp-socket-base.cc:1715) is asked about the segment
  above the head, so three SACK blocks in one ACK do not start fast recovery.
- ssThresh is to fall once per segment the timer resends (3634); the flag that
  tells is cleared just before it is read.
- Without limited transmit the assertion that nothing is sent in Disorder (3257)
  fails.
- "This prevents data from being added to the buffer" (762): `Send` after
  `ShutdownSend` stores the data and only then refuses it.
- `PeerClose` drops data and FIN that come once more, without an ACK, and
  CLOSE_WAIT does not acknowledge a repeated FIN unless something else is sent.
- `Close` in SYN_RCVD sends a FIN with the sequence number of the SYN, and takes
  the ACK of the SYN for that of the FIN.
- When SYNs cross and both sockets are in SYN_RCVD, the SYN+ACKs are answered
  with resets: simultaneous open ends in a connection only when a SYN is lost or
  late.
- "Prevent endless FINs" (2534) holds where `DoPeerClose` closes at once; `Close`
  in CLOSE_WAIT starts no `LastAckTimeout`, and FIN_WAIT_1 has none: without an
  answer both repeat their FIN for ever.
- A socket that has used up its retries loses its endpoint and keeps its state.
- "No action for received SYN+ACK, it is probably a duplicated packet" (1512):
  before that, 1347 has reset window, threshold and highest ACK of the
  established socket.
- CLOSE_WAIT is "waiting for us to finish" (tcp-socket.h:72): a socket that has
  sent its FIN comes there, too, when the peer's FIN overtakes its data, because
  `ReceivedData` calls `DoPeerClose` in every state (3381).
- "m_rto should be already doubled" (3036): an ACK that `SendEmptyPacket` sent since
  the timeout has computed it anew (2616), and the backoff is lost.
- A retransmitted SYN is logged with a count of zero, which 3097 never finds: the
  SYN+ACK is measured from the first SYN, whichever it answers.
- With a peer's window or a congestion window of less than a segment, a timeout
  marks the losses and resends nothing (3176), the timer is not started again, and
  the probes are for a window of exactly zero (1383): when the ACK that would help
  is lost, the connection waits for ever, contrary to 3529.
- The same happens with a congestion window of exactly one segment when a probe has
  resent a byte that the timeout marked: it is in flight once more, and what is left
  is less than a segment.
- The ACK of a probe's byte is ignored but for its window. If that is zero, the
  persist timer replaces the retransmission timer; an ACK that opens the window again
  stops the probes and sends nothing if what is lost is not marked yet.
- With Nagle's algorithm on, the last segment of less than a full one is not sent
  again while it is unacknowledged (3180), against tcp-socket-base.h:190-192.
- The ACK of a probe's byte is above `m_highTxMark`: its window is taken, and the
  byte stays unacknowledged until it is sent again (1496).
- `PersistTimeout` with nothing unsent sends an empty segment without ACK and takes
  the last segment for unsent.
- Rounding by the window scale can close the window on bytes that are in flight.
  `SetRcvBufSize` to less than is buffered breaks the assertion at 3317.
- A client without SACK, timestamps or scaling switches them off in the listening
  socket (1323, 1332, 1343), and so for all later clients.
- `UpdateWindowSize` shifts by `m_sndWindShift` also when scaling is off (4181), and a
  SYN without the option leaves the shift of an earlier client in the listening
  socket. The fork copies it and believes in a multiple of the window its client
  has, against "value of receiver's offered window" (tcp-socket-base.h:1190).
  `OptionsAgreed` bounds windows only where scaling was agreed on.
- A client whose scaling the server refuses keeps its `m_rcvWindShift`: it goes on
  shifting the windows it advertises, and so understates them.
- ECN: data segments carry no ECE; the ACK of `IsValidTcpSegment` (1269) does not
  either; a retransmitted segment has lost its CWR; an ACK without ECE clears an
  echo that was not answered yet (1776); a socket that receives an echo forgets the
  mark it has to echo, and the reverse; a mark counts with ECN disabled, too (1158).

## 5. Fairness

`FairSpec` assumes weak fairness of `SocketEvent`: while the socket has an event
scheduled (the send event, the pacing timer, the retransmission timer), some
event of the socket happens in the end. ns-3's scheduler justifies it: it runs
the events of its queue in the order of their times, until the queue is empty.
Nothing is assumed of the network: it may lose every packet, and then the
retries are used up. Nothing is assumed of the applications.

`Progress` holds in the instance of `SenderPaced`, where the delay stays at its
base and the window never falls below a segment, and fails in
`StallSubPacket`, where it does. `Connection`'s `FairSpec` assumes weak fairness
of `RetxEvent` and `LastAckTimeout` of each peer, justified in the same way: each
is one event in the scheduler's queue. Nothing else is assumed: segments need not
arrive and applications need not close. The run `StallSubPacket` needs no fairness of the network
either: the trace ends in a state without events (hence no deadlock check). The
runs of `Connection` check no deadlock either, since a connection ends. Nor do
`FlowControl` (all is read, or the connection given up, and no event is left),
`RttHistory` (a connection fails), `Ecn` (all is sent) and `Listener` (all are
connected or have given up); they check safety only.
That `FlowControl` has no liveness property is no accident: the wait described in
section 4 is one that no fairness of the code's events ends.

## 6. What is proved

`SwiftFlowProofs` proves, for every segment size, Alpha, Beta, set of delays and
TTLs, and every sequence of calls:

| Theorem | Statement |
| --- | --- |
| `Invariance` | `Spec => []IInv` |
| `TypeCorrect` | `Spec => []TypeOK` |
| `SwiftRunsInOpen` | `Spec => []DoingIffOpen` |
| `DelayMeasured` | `Spec => []MeasuredBeforeUse` |
| `WindowStaysOpen` | `Spec => []WindowAlive` |
| `ThresholdFallsOnLoss` | `Spec => LossNeverRaisesThreshold` |
| `CutsAreEntitled` | `Spec => CutOnlyOnDelay` |
| `GrowthIsCapped` | `Spec => GrowthCapped` |

`TypeOK` is not inductive: the AIMD step is typed only because the delay it
divides by was measured, which depends on the count of the cycle, which the
return to Open resets together with the delay. `IInv` therefore joins the types
with three facts: the window is at least one, the base delay is at least one,
and a positive count comes with a measured delay not below the base; and with
`DoingIffOpen`. Each method of `TcpSwift` has a lemma that it keeps the record
sound; each action of `SwiftFlow` cites them in the order of its calls.
`MeasuredBeforeUse` is what lets `AimdSound` divide, `ReducedBound` (a cut does
not raise the window) needs that the delay is not below the target, and
`GetSsThreshBound` holds whichever way the subtraction wraps.

`SwiftSenderProofs` proves, for every amount of data, threshold of duplicates, number
of retries and delayed ACKs, with SACK and without, paced or not, on a network that
loses and reorders:

| Theorem | Statement |
| --- | --- |
| `Invariance` | `Spec => []IInv` |
| `TypeCorrect` | `Spec => []TypeOK` |
| `CountersAlwaysFit` | `Spec => []CountersFit` |
| `SackedHeld` | `Spec => []SackedReceived` |
| `RecoveryPointFits` | `Spec => []RecoveryPoint` |
| `GuessesEnd` | `Spec => []RenoGuessEnds` |
| `AlwaysTimed` | `Spec => []TimerRunning` |
| `ImplementsFlow` | `Spec => FlowSpec` |
| `ImplementsStream` | `Spec => StreamSpec` |

Each method that a handler calls has a lemma that says what it does to a sender in
order (`Board`: flags within what was sent, the head not SACKed), and the handlers
cite them call by call. The properties are not inductive without four facts.
A segment that an ACK asks for is in no SACK block on its way, nor SACKed (`NoHole`):
the head that `DiscardUpTo` leaves behind is a hole of the receiver. Blocks lie above
the number of their ACK, which the receiver has passed (`AckFits`). No duplicate is
counted in Loss either, or leaving Loss would bring a count to Open (`Counters`).
And a timeout leaves a window of one segment, all marked lost and the pacing timer
stopped, so that it always sends again and starts the timer (`TimeoutSends`). That
an ACK does nothing to the congestion control but what `SwiftFlow` allows is
`AckCalls`, in three parts (`DupCalls`, `FullCalls`); it gives `ImplementsFlow`, and
from there the type of the window that `SendPendingData` divides, by the invariant
of `SwiftFlowProofs`.

`RttHistoryProofs` proves, for every length of the stream, size of segments, number
of retries, initial wait and ceiling:

| Theorem | Statement |
| --- | --- |
| `TypeCorrect` | `Spec => []TypeOK` |
| `SampledOnce` | `Spec => []SamplesUnambiguous` |
| `SampledFresh` | `Spec => []SamplesFresh` |
| `DataWait` | `Spec => []DataWaitBounded` |

`DataWait` needs only that `m_rto` is computed anew with the ACK of the SYN+ACK.
For the others, `IInv` has two halves. `Opening` holds before the SYN+ACK: the
history is the SYN's entries, and nothing else was sent. `Transfer` holds after
it: what is logged was sent since the last timeout (`Logged`), nothing new is sent
before what the timeout marked was sent again (`Late`), entries are in order and
overlap only where one was extended (`Ordered`), and nothing above `m_highTxMark` was
sent (`Unsent`). `Guarded` says of an entry that is not marked that it was sent once,
or stands behind a marked one that ends at the same place or later: `EstimateRtt`
then measures nothing, as the marked entry is the one it looks at, and drops both.

If a marked entry shrank again, when the head or a segment that it had swallowed is
sent once more, it would uncover the entries behind it (3100 sets its end to that of
the segment). That this does not happen rests on `Matched`: the first entry that has
a byte ends where the item of that byte ends, or before. The
retransmission of an item, or of more, therefore never moves the end of the entry it
marks to the left (`MarkedGrows`), whichever item it is and whatever was sent again
before. So the proof needs no order of the retransmissions above `recover`. Below
`recover`, where the history was cleared and bytes may be in no entry, it needs that
they go upwards (`BelowRecover`): none of them marks an entry at all.

`FlowControlProofs` proves, for every amount and sizes of writes and reads, sizes of
segments and buffers, width of the window field, window scale, congestion windows
and number of retries:

| Theorem | Statement |
| --- | --- |
| `TypeCorrect` | `Spec => []TypeOK` |
| `EdgeIsHonest` | `Spec => []EdgeHonest` |
| `BufferNotOverrun` | `Spec => []NoOverrun` |
| `ProbeIsOneAhead` | `Spec => []AheadByProbe` |
| `OutstandingIsTimed` | `Spec => []OutstandingTimed` |

The window travels: what the sender believes was in some ACK before. The invariant
therefore says of every ACK on its way, as of the sender, that its number plus its
window is within the room of the receiver. That room never moves left, though the
buffer fills: what fills it moves the next byte expected. Rounding by the scale
only loses room. `OutstandingTimed` needs to know of every handler whether it leaves
a timer, of the retransmission timer that a closed window gives way to the probes,
and of a probe that what it has sent ahead is one byte.

`EcnProofs` proves, for every amount of data, delayed ACKs or not, and length of
the paths:

| Theorem | Statement |
| --- | --- |
| `TypeCorrect` | `Spec => []TypeOK` |
| `MarksEchoed` | `Spec => []MarkEchoed` |
| `ReducedOnce` | `Spec => OncePerWindow` |

Both rest on where an answer (CWR) may be on an ordered path: behind data below its
number, above the mark that the receiver has seen, and not above the last answer of
its sender (`PathFits`). So an answer that arrives cannot end an echo of a mark that
came after it. A new answer is given only when the head has passed the last one,
because the number in the echo that asks for it is at most the head.

`ListenerProofs` proves, for any number of clients, retries and segments on their way,
and any settings:

| Theorem | Statement |
| --- | --- |
| `TypeCorrect` | `Spec => []TypeOK` |
| `SameOptions` | `Spec => []OptionsAgreed` |
| `SameEcn` | `Spec => []EcnAgreed` |

SYN, SYN+ACK and ACK of one client may belong to different copies of the listener.
What the listener has switched on only shrinks: a later copy agrees to no more than
an earlier one. The invariant remembers what each copy offered and says
of every segment, client, copy and scheduled call what it may agree to at most; a
client that hears of two copies ends with the options of the one that lives.

`ConnectionProofs` proves, whichever ends connect or listen (both at once
included), for any number of retries and of segments on their way, on a network
that loses, reorders and repeats:

| Theorem | Statement |
| --- | --- |
| `Inductive` | `Spec => []IInv` |
| `TypeCorrect` | `Spec => []TypeOK` |
| `Agreed` | `Spec => []HandshakeAgreed` |
| `DataBeforeEof` | `Spec => []EofAfterData` |
| `FinTaken` | `Spec => []FinArrived` |
| `AlwaysTimed` | `Spec => []WaitingTimed` |
| `FreedOnceReceived` | `Spec => FreedWhenReceived` |

A handler is a chain of calls (`ProcessWait` calls `ReceivedAck`, that
`SendPendingData`, that `SendDataPacket` and `SendEmptyPacket`), and what each of
them relies on must hold between two calls, when part of the socket is written. So
the invariant of the two ends is split in two: `Link(s, r)` is what holds of a socket
and the one it talks to at any point of a handler, with what the handler has already
sent; `End(s)` (timers, and what the application has asked for) holds when it
returns. Every operator of `Connection` has one lemma, that it takes `Link` to `Link`
and that the socket after it is later than before (`Later`): what was sent to it or
by it, and what the other end knows of it, is still true. Steps compose
(`StepTrans`), so each handler cites the lemmas of its calls in their order.

Why the properties are not inductive alone:

- A segment arrives long after it was sent. `Sent` says what remains true: its ACK
  number is not above what its sender has received, its data was written, and a FIN
  either ends the stream or repeats one that was received.
- That last case is real. When the ACK of the FIN arrives with the peer's own FIN
  and that one is out of order, the socket stays in FIN_WAIT_1 with a timer, and
  every further timeout sends a FIN with the number after the one acknowledged. The
  numbers grow, and the peer ignores them as it is past its end of file. (`Seqs` is
  therefore all of `Nat`.)
- Nothing may be written after the FIN: `Final` says so of the sender, for the end
  of file of the receiver (`Heard`) to mean all of the data.
- A socket whose application closes it in SYN_RCVD sends a FIN that stands for the
  SYN, and may be in any closing state without having been connected (`Aborted`). It
  has written nothing, so that what it and its peer say of numbers does not matter;
  the properties speak of connected sockets.
- That a close in ESTABLISHED leaves a timer needs that no timer but that of data
  ran before (`Timed`).

TLC checked `IInv` before the proof, with both ends connecting and both writing, two
SYN retries and one for data, and one segment in each direction (3.4 million states).

Assumptions: those named in the modules, all evaluated by TLC.
`BoundAssumption` says that the windows of flows that get ACKs are so far below
2^32 that one ACK does not overflow them; the code has no such check. `SwiftSender`
has it for the same reason, and stops at `MaxCwnd` as `SwiftFlow` does.

## 7. What is only checked, and what is not modelled

Only model-checked: of `SwiftSender` `FlightWithinWindow`, which counts the segments of
the scoreboard, and `PacedSending`, which counts those of the network (the size of a
bag is defined by recursion, and what holds of it needs induction over data); and
liveness (`Progress`, `ConnectEnds`, `LastAckEnds` and the others). TLAPS reaches
neither liveness nor induction here.
`RttHistory`'s `TypeOK` says nothing of the backoff of the SYNs; `DataWaitBounded`
does not depend on it.

Not modelled: ECN's mode for DCTCP and the codepoints of the IP tags; times in
timestamps, which replace those of the history (`Listener` has the option only);
of the listener, its closing and data that completes a handshake; of the connection,
`ShutdownRecv`, calls from within callbacks (with them the branch of `PeerClose` for
FIN_WAIT_1), and `Connect` on a socket that is in use; flow control together with
SACK. Not to be modelled: attributes, trace sources, tags, endpoints, routing, ICMP, the IPv6
twins, the factory, and the simulation scripts.

## 8. Plan

`FlightWithinWindow` of `SwiftSender`: it needs how many segments are in flight after
each call, which the scoreboard lemmas (`Board`) do not count.
