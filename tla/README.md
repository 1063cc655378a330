# Formal models of LoRaMAC for RPL

The program extends RPL networks with LoRa. Each RPL network (a DAG) has a root
with an RN2483 modem, which runs Contiki-NG and the C stack of
`src/code/prototype/rpl_root/loramacv2`; it is called the *node* here. One *LoRa
root* talks to all nodes with the Python stack of
`src/code/prototype/lora_root/py_lora_mac`. The nodes poll: the root speaks only
in answer to a frame.

## 1. Inventory

| Part | State | Operations | Talks to |
|---|---|---|---|
| Node MAC, `loramac.c` | `state`, sequence numbers, last frame, `pending`, `pending_query`, `is_retransmission`, two ctimers | `loramac_process` (protothread), `phy_callback`/`loramac_input` (UART interrupt), `on_query_timeout`, `on_retransmit_timeout` (main loop), `loramac_send` | driver by `loraphy_send` and a callback, bridge by calls, itself by process events |
| Node driver, `loraphy.c` | `ready`, the line being received | `loraphy_prepare_data`, `loraphy_send`, `uart_rx`/`loraphy_input` | modem by UART |
| Node buffer, `lorabuf.c` | one frame, the expected responses, one character buffer `lorabuf_c` | getters, setters, `lorabuf_clear` | shared by everything above and below, without locks |
| Node bridge, `lorabridge.c` | none (`uip_buf`) | `output` (main loop), `bridge_input`, `lora_network_joined` (interrupt) | uIP, RPL |
| Node addresses and framer, `loraaddr.c`, `framer.c` | `lora_node_addr` | comparison, conversions to and from IPv6, hexadecimal frames | buffer, bridge |
| Root MAC, `lora_mac.py` | `childs`, `not_joined_childs`, `next_prefix`; per child: numbers, last frame, `tx_buf`, `transmit_count` | thread `_rx_process` with `_on_join`, `_on_query`, `_on_data`; `mac_send` from other threads | PHY by calls and queues, application by callback |
| Root PHY, `lora_phy.py` | TX and RX queues, `_can_send`, `_last_sended`, `_is_listen`, `_tx_lock` | threads `_uart_tx`, `_uart_rx`; `phy_send`, `phy_rx`, `phy_timeout`, `getFrame`; `toHex`, `build` | modem by UART, MAC |
| Root IP, `lora_ip.py` | its listener | conversions, in the thread of the caller | MAC, application |
| Applications, `lora-root.py`, `rpl-node.c` | packet counts | PINGPONG, RECEIVER, SENDER | IP layers |

What is hard to test in it:

- *Node*: an interrupt that runs all of reception between any two instructions of
  the process and the timers; one frame buffer, one character buffer and one set
  of expected responses shared by all; events that are lost while the process waits
  for the modem; commands dropped while the driver is not ready; a retransmission
  timer and a modem watchdog of the same 12 s.
- *Root*: application threads that put frames while the receiving thread looks at
  the same queue three times; a receiving thread that blocks on its own queue or
  on its own lock; two dictionaries with different keys; two UART threads that
  meet in a flag outside the lock.
- *Between them*: frames lost, repeated or overheard; sequence numbers that wrap; a
  node that restarts under a root that remembers it; two codecs, in C and in Python,
  that agree by convention.

What makes each part correct: the driver gives no command to a busy modem and takes no
answer for another command's (on the node this fails when the expected responses are
replaced while the modem works, and the properties say that it fails then only); what one
codec writes the other reads; the node sends only JOINs until it has a prefix, never forgets a frame handed to its
process, leaves WAIT_RESPONSE unless its driver is deaf, and polls again after a query; the root gives a prefix
once, keeps its dictionaries in agreement, keeps the frames it announced, accepts no
repetition, and its threads come back to their loops; end to end, a packet is
delivered at most once and in order. `PROJECT.json` lists the hazards line by line
with the properties about them.

## 2. Modules

| Module | Models |
|---|---|
| `LoraFrame` | addresses and frames, as both ends hold them |
| `LoraNode` | `loramac.c`, `loraphy.c`, `lorabuf.c`, `lorabridge.c` of one node, with the modem |
| `LoraRoot` | `lora_mac.py` and its application, over an abstract PHY |
| `RootPhy` | the threads of `lora_phy.py`, with the modem, under an abstract MAC |
| `Delivery` | abstract: what one direction of a link promises |
| `LoraLink` | `LoraNode` and `LoraRoot` composed over the air; implements `Delivery` twice |
| `LoraFramer` | the codecs of both ends: `framer.c`, `toHex`/`build`, the packet and address conversions |
| `LoraUart` | the node's driver character by character, with the codecs at both ends |
| `LoraNodeProofs`, `LoraRootProofs`, `RootPhyProofs`, `LoraFramerProofs`, `LoraUartProofs` | the theorems of one component each |
| `LoraTrafficProofs` | what the frames of the root and their numbers keep, in lemmas |
| `LoraLinkProofs` | the theorems of node and root together |
| `MCLoraNode`, `MCLoraRoot`, `MCLoraLink`, `MCLoraUart` | the small instances for TLC (`RootPhy` needs none) |

`LoraNode` and `LoraRoot` extend `LoraFrame`; `LoraLink` instantiates both and
`Delivery`; `LoraUart` extends `LoraFramer`. A module of proofs extends its component;
`LoraTrafficProofs` extends `LoraRootProofs`, `LoraUartProofs` extends
`LoraFramerProofs`, and `LoraLinkProofs` instantiates `LoraNodeProofs` and
`LoraTrafficProofs`, so that what is proved of each end is cited for both together
(`NodeAssumed` and `RootAssumed` derive the assumptions of the ends from those of the link).

Operators whose names have a second part after `_` and a comment "Mutant" are
plausible bugs; each breaks the property that names it in `PROJECT.json`, which
shows that the property depends on the code. They take no part in the models.

### LoraNode

A variable stands for the C variable of the same name (`lorabuf` for attributes,
addresses and data of the buffer; `exp_resp` for its two UART attributes).
`events` is Contiki's queue for the process, `pc` the point where the protothread
waits (`off` before `process_start`; `wdt0`, `tx`, `wdt`, `rx` the four `WAIT_PHY`s;
`idle` the wait for an output event; `top` between the event and the test of
`pending`). `cpu` is the handler of the main loop that an interrupt may preempt, or
`fault` after `bridge_input` has copied a negative length.

The modem (external) is `radio`, what it executes, with `on_air`, the frame of a `radio tx`,
and `reply`, the answer to the last command until it is read. It answers a command at once:
"ok", also when it starts a `radio tx` or `radio rx`, or "busy" when it executes one already;
what it executes ends with a line of its own. `sys sleep` has no answer but the "ok" of
its end. Answers are read one at a time, before the end of the command, and before the timer
of the retransmission that was set with a reception expires (12 s later). The order in `PhySend`
is that of the code: the expected responses are stored (`loraphy.c:156`) before the driver finds that
it is not ready and drops the command (`loraphy.c:122`). So after a `phy_done` that belongs to
no wait the process prepares a `radio set` while the modem starts `radio tx`, and the
driver takes the starting "ok" for its answer: such states are in the model.

The interrupt is atomic, as on the processor: one action per outcome of
`loraphy_input` (`UartIgnored`, `SetConf...`) and of `loramac_input`
(`OnJoinResponse`, `OnDataNext`, `OnDataLast`, `OnAck`, `InputDropped`), each with all the
calls it makes. The main loop is not: the process stops at each wait and at `top`,
`on_query_timeout` is split after its test of the state (`QueryTimeout`, then `QueryNow` or
`QueryLater`), `on_retransmit_timeout` before `lorabuf_clear`, `output` before
`loramac_send`. Between two such points the code touches nothing that the interrupt
also touches in an order that matters, with these exceptions, left out: an interrupt in
the middle of one `memcpy`; one inside `send_query` or `loramac_send` after its test; and one
between the test of `pending` and the copy of the frame (where a reception can only end after
a stale `phy_done` has let the process run ahead). The bytes of `lorabuf_c` are
`LoraUart`'s subject.

A timer is untimed: an armed timer may expire whenever the main loop is free, whatever has
been posted before or behind its event (`MainLoopFree`). That covers both orders of the two
12 s clocks, on which the worst behaviours depend.

`Downlink` is what the radio may pick up: any member, at any reception, any number
of times. This stands for loss (a reception may end in `radio_err`),
repetition, reordering and frames meant for others.

### LoraRoot

`child[p]` is the Python object of the child given prefix `p`; `childs` and
`not_joined_childs` the dictionaries; `rx` the thread of `_rx_process`: `get` in
`getFrame`, `deliver` in `upper_layer`, `put` blocked in `tx_buf.put` from the callback,
`answer` and `send` between the looks of `_on_query` at the queue, `blocked` in the
acquire of `_tx_lock`, `dead` after the `return` or after what `build_ip_packet` raises when
a frame brings no packet (`BuildsPacket`), `deaf` in `getFrame` when a command without handler
has come and nobody has called `_listen` (`UnknownCommand`; another reception may
still be on its way, then it is `get`). `senders` are the application threads
that exist (one starts with the first packet of a child), `sender` those between the
look-up of the child and the put of `mac_send`. A handler that can neither block
nor race is one action. The PHY is a bounded queue that drops when it is full,
with the lock of `phy_send`. `mode` is the argument of `lora-root.py`.

### RootPhy

One action per step of `_uart_tx` (`Test`, `Wait`, `Get`, `Write`, `Reset`) and of
`_uart_rx` (`ReadLine`, `Unexpected`, `ProcessResponse`, `ListenAgain`, `Notify`), and
one per call of the MAC thread, which after a frame sends and listens, listens, does neither (a
command without handler) or ends. The modem prints "ok" when it starts a radio command
and a second line when it ends it; the values of the frames are left out. The driver is the one
that `__init__.py:23` builds, with `listen_on_error`: after a `radio_err` it listens again itself.

### Delivery and LoraLink

`Delivery` counts the packets handed over, the last one delivered and the
deliveries; a delivery takes a packet later than the last one. `LoraLink` has every
variable of `LoraNode` and `LoraRoot`, and its actions are theirs, joined where they
meet: `ModemAnswers` ends a transmission and puts the frame into the root's receive
buffer, or loses it; `RootTransmits` sends the oldest frame of the root's queue, which
the node's modem receives only while it listens, and may lose even then. So a frame
is lost, but neither repeated nor reordered by the air: what repeats and reorders is the
program. `Restart` puts the node back to its first state at any moment, without a word to
the root, while the modem goes on with what it executes. `up` and `down` are the variables
of the two instances of `Delivery`, under the refinement mappings `Up` and `Down`; they are history, and no guard of the
program reads them (only the packets still to be handed over are chosen with them).
The packets are numbered, the payload being the number.

### LoraFramer and LoraUart

`LoraFramer` is pure: a character is its hexadecimal digit. `Create`/`Parse` are the
node's codec, `ToHex`/`Build` the root's; `Output`/`BridgeInput` and
`SerializeIpPacket`/`BuildIpPacket` take the addresses out of an IPv6 packet and put them
back. `parse` gives `strtol` arrays without a terminator (`framer.c:39-51`), so the digits
that happen to follow in memory are a parameter, `after`; `NothingAfter` is the case
in which the code works. `build` raises on a command that `MacCommand` does not have (`IsFrame`);
the frames of the model have one of the five.

`LoraUart` puts characters under them. `UartRx` is the interrupt for one character, `RxEnd` the
end of a line with `loraphy_input` and `parse`. The process of the MAC is there as far as it
gives commands: `pc` where it waits, `done` the `phy_done` events posted to it, stale ones included;
`timer` lets the retransmission timer prepare a `sys sleep` (`GiveUp`) or clear the expected
responses (`RetransmitCopy`) between any two characters. `PhySend` copies the command into
`lorabuf_c`, stores its responses, and only then drops it if the driver is not ready. The modem
is that of `LoraNode` with its answers in a queue (`replies`) and, in `line`, the characters of the one
it prints; a sleeping modem hears nothing, and a command written while the modem prints may
be mixed with the line (the buffer is one) and is then answered with `invalid_param`, or
understood all the same. The module begins when `set_conf` has set the radio parameters. `exp`,
`start`, `cr`, `index`, `lorabuf_c`, `datalen_c` are the variables of the code; `up`, `on_air`, `down`,
`heard`, `disturbed` are history: `disturbed` says that the buffer or the responses have been
replaced since the last command was given to a silent modem that executes nothing.

## 3. Runs

Runs with `expect: pass` are complete; a `violation` run finds a state that a comment
of the source denies.

| Run | Question and result | States |
|---|---|---|
| `node_safety` | types and eight invariants of the node over all interleavings, with confirmed DATA and a frame for another node: hold | 1,035,091 |
| `node_liveness` | `ExchangeEnds`, `KeepsJoining` under fairness: hold, unless the driver is deaf or the processor has faulted | 209,231 |
| `root_join` | three nodes with colliding provisional prefixes for two places: dictionaries agree, prefixes are given once | 561,583 |
| `root_traffic` | one child, one DATA without a packet, and both kinds of application: announced frames are kept, no repetition is accepted, and a handler comes to its end but for a lost lock, a raised exception and a PINGPONG application whose buffer is full | 154,296 |
| `phy_safety` | one command at a time, answers end commands, and the reception behind `_is_listen` is lost to a full buffer only | 225,071 |
| `link_up` | two confirmed packets through losses, retransmissions and queries, a packet coming down meanwhile: delivered at most once and in order (`UpDelivery`) | 1,561,759 |
| `link_down` | two packets of the root's application fetched by queries and packets: delivered at most once and in order (`DownDelivery`) | 1,738,657 |
| `link_restart` | the node is reset at any moment after its first join, with a packet in either direction, and joins again under a second prefix: it never expects a number ahead of the root's (`NodeNotAhead`) | 1,371,631 |
| `uart` | frames and packets survive both codecs and the shared character buffer, and the driver takes the modem for free and sees the end of its commands unless something was stored while it worked | 1,332,179 |
| `root_lock` | `phy_send(None)` keeps the lock (`LockReleased` fails) | |
| `link_ack` | the ACK of a query is taken for that of a lost packet (`AckIsTrue` fails, some 50 steps) | |
| `link_echo` | a received frame is sent back and ends the root's receiving thread (`RootListens` fails, some 36 steps) | |

The three failures are in `PROJECT.json` under `findings`, with the lines and the
comments they contradict.

Deadlock is not checked: the node stops when the driver is deaf (in `LoraNode` and in `LoraUart`), the
root when its thread has ended or is blocked, its PHY when an answer came before
`_can_send = False` (`lora_phy.py:442`). Those are states of the program.

What the properties say where the code does not keep the simple promise:

- `FreeOnlyByOk` and `FreeIsIdle`: "a free driver has a free modem" is false. The starting
  "ok" of a command is taken for its answer when the responses of a dropped `radio set`, or those
  that `lorabuf_clear` leaves, have replaced its own; the properties say that there is no other way.
- `FreeWakes`: the other side of it. A command that was dropped has a process that waits for it, and
  no `phy_done` of its own; whenever the driver becomes free that process is woken up.
- `AnswerSeen`: a driver may miss the end of a command (and is deaf then), but only if
  something was stored while the modem worked: a command that was dropped, a `JOIN` for a sleeping
  radio among them, or cleared responses.
- `RetransmissionPending`: the flag is never set with nothing to send. That the frame which goes out
  under it is the one copied is false: `link_ack`.
- `QueryTimerKept` is about a QUERY in `last_sent_frame`. After a JOIN it is false (section 5).
- `ReturnsToGet` names the three ways in which a handler of the root is held for good.
- `LostOnlyWhenFull`: "a driver that believes it listens has a reception" is false with a full
  buffer, and true otherwise.

### Bounds

| Constant | Model | Code | Why it is enough |
|---|---|---|---|
| `SeqMod` | 3 or 2 (node), 3 or 4 (root), 6 (link) | 256 | old, expected and newer numbers, and the wrap, all occur; the link stays below the wrap on purpose (section 5) |
| `MaxRetransmit` | 1 | 3 | an attempt allowed and one refused |
| `NumRadioParam`, `NumConf` | 2 (1 in the link) | 6, 7 | first, next and last parameter; in the link the start-up is only a prefix |
| `MaxQueue` | 2 (1 in the link) | 32 events | the modem prints and timers expire only below it; two pending outputs are already redundant |
| `MaxDone` (`uart`) | 2 | 32 events | a stale `phy_done` and the one waited for |
| `PrefixMod` | 8 | 256 | low bytes that collide with each other and with given prefixes |
| `MinPrefix..MaxPrefix` | 2..3 or 2..2 | 2..252 | exhausted after two children; a restarted node gets a second prefix |
| `TxBufSize`, `PhyBufSize` (root) | 2, 2 or 1 | 5, 10 | empty, one, full |
| `TxBufSize`, `RxBufSize` (`RootPhy`) | 5, 2 | 10, 10 | the commands of `init` fit, later ones may not |
| `MaxUp`, `MaxDown`, `MaxFrames` (link) | `link_up` 2, 1, 4; `link_down` 2, 2, 4; `link_restart` 1, 1, 4; the violations 1, 0, 3 | none | the frames that the node numbers are its join and three packets or queries: two packets up and a query, or two frames that fetch the two packets down; in all, two are delivered in some behaviours |
| `MaxRestarts` (link) | 1 | none | two lives of the node, frames of both in the buffers, `expected_seq` and `next_sn` up to 2 in each |
| `BufSize` (`uart`) | 37 | 525 | the longest line of the instance; `TypeOK` shows that it is enough for them |
| `Downlink`, `Uplink` | sets in the MC modules | | every command, every number, for this node and others; in `uart` a DATA each way with the high and low bits of each field, the one up addressed as `rpl-node.c:126` does, and a JOIN_RESPONSE |

`MaxQueue`, `MaxDone`, `MaxUp`, `MaxDown`, `MaxRestarts`, `MaxFrames` are the only guards that the
code does not have.

`link_up`, `link_down` and `link_restart` run `CalmSpec` (`MCLoraLink`): the first join of the node
meets no trouble (its JOIN and the JOIN_RESPONSE arrive, before the timer and before a reset), and
from then on everything may happen. A troubled join is in `node_safety`, `root_join`, `link_ack` and
`link_echo`, and in every theorem of `LoraLinkProofs`, whose specification is `Spec`. The
second join of `link_restart` may go wrong in every way. The packet up is unconfirmed in `link_down` and
`link_restart`, confirmed in the others.

In `uart` the frames up are DATA only, so that `output` and its shortened packet are always there;
the other commands are in the theorems.

### Fairness

`LoraNode`: the modem ends each command (`WF(UartInput)`), a reception by the watchdog
set before it at the latest; Contiki's queue is first-in first-out, so
the process gets its event and an expired timer its call whatever else is posted
(`SF(Process)`, `SF` of the retransmission timer: both are disabled for the
moment when another handler runs; `WF` of the query timer is enough); a
preempted handler is resumed (`WF`). Nothing is assumed of the root or of the radio.
`LoraRoot`: the receiving thread and the transmission thread are scheduled;
application threads need not be. The other modules state safety only: over a
channel that may lose everything nothing more is promised.

## 4. Proofs

All proofs hold for every value of the constants that the named `ASSUME`s allow: 256
numbers, any number of nodes, prefixes, parameters and retransmissions, any set of frames
on the air, any size of the buffers. The assumptions are of types and of the shape of the
inputs: the node id is an address, packets come from hosts of the DAG, DATA frames
on the air carry a packet, a node joins from the address {low byte of its id, id}. Each
invariant was model-checked before it was proved, the strengthenings too.

**`LoraNodeProofs`**: `TypeCorrect`, `FreeOnlyByOkHolds`, `FreeWakesHolds`,
`NoDataBeforeJoinHolds`, `WaitingIsGuardedHolds`, `RetransmissionPendingHolds`,
`PendingSeenHolds`, `QueryTimerKeptHolds`, `OnlyQueryFaultsHolds`. The inductive invariant is
`IInv == TypeOK /\ CopyAllowed /\ Control /\ AirJoin /\ PendingSeen /\ FreeWakes`. `CopyAllowed` (a copy in progress
still has an attempt left) bounds `retransmit_attempt` across the interrupted handler.
`Control` adds three facts to the properties. `Started`: the process does not run before the
last parameter is set, so that the JOIN starts it once. `Answers`: an expected "ok" is expected
alone, which is what lets a starting "ok" be taken for the end of a `radio set` and of nothing else.
`JoinOnly`: what `NoDataBeforeJoin` needs to be inductive, namely that in ALONE a pending frame is the
JOIN, that nothing can be received while it is pending (so `parse` cannot overwrite it), that
no query can be waiting, and that the retransmission timer runs only in the waits where
the frame has been sent. `AirJoin` (what is on the air is a JOIN then) is apart because a reset, which
leaves the modem alone, does not keep it.
`PendingSeen` and `FreeWakes` are about the contents of the queue; their lemmas say what posting and
delivering do to it. `OnlyQueryFaults` is inductive with the types. The end of the module says the same
of a node in a network, which receives any frame and may be reset (`Own`, `Handled`): what it sends
under a prefix of its own carries one of its packets or none.

**`LoraRootProofs`**: `TypeCorrect`, `DictsAgreeHolds`, `PrefixesGivenHolds`,
`NextKeptHolds`, and the action property `NotAcceptedTwiceHolds`. The inductive invariant
is `IInv == TypeOK /\ SendersPlaced /\ AnswersSource /\ PrefixesGiven /\ DictsAgree /\ NextKept`.
`SendersPlaced`: an application thread calls with the address of a child.
`AnswersSource`: between two looks at the queue the thread still answers for the child
that sent the frame; without it the step that takes the announced frame could take it
from another child, and `NextKept` would not be inductive. `DictsAgree` needs
`PrefixesGiven` for the step that adds a child: its object must be that of no child yet.
`NotAcceptedTwice` follows from `IInv` and the lemma `CompareFresh`, which proves for every
modulus that `compare_update_expected_sn` never accepts the number before the expected one.

**`RootPhyProofs`**: `TypeCorrect`, `OneCommandHolds`, `AnswersEndCommandsHolds`, and the action property
`LostOnlyWhenFullHolds`. The two threads share no lock, so the invariant says where the one
command in execution may be: `SendsWhenIdle` (`_can_send` may be believed except between
the write and its clearing, and then nothing is left of the last command), `LastWritten`
(`_last_sended` is the command in execution) and `LinesOfLast` (the lines not yet
processed are a beginning of what that command prints). `LostOnlyWhenFull` follows from it action by
action: a step that takes the reception from its place (the buffer, the hands of the thread
that asks for it, the modem, the line not yet read) puts it into the next one, or clears `_is_listen`,
or finds the buffer full.

**`LoraFramerProofs`**: `FrameRoundTrip` (`parse` reads back what `create` wrote, for every
frame and payload, under `NothingAfter`), `WriteAgree` (`toHex` and `create` write the
same characters), `RootReadsNode` and `NodeReadsRoot` (each end reads the other, for the
commands of `MacCommand`),
`AddressesAgree` (`lora2ipv6` and `ipv62lora` are inverse, and `lora_to_ipv6` of the root
gives the same address), `PacketRoundTrip` (`bridge_input` restores the packet that
`output` shortened). The lemmas are about digits: a byte or a word is made again of its
digits, the two flags survive the byte they share with the command.

**`LoraUartProofs`**: `TypeOKHolds`, `FreeIsIdleHolds`, `AnswerSeenHolds`, `UpIntactHolds`,
`DownIntactHolds`, for every length of `lorabuf_c` and every set of frames and packets.
The inductive invariant is `UartInv == Values /\ ExpKept /\ Turns /\ LineRead /\ AnswerSeen`.
`Turns`: commands and their answers alternate unless the driver is disturbed. `ExpKept`: the expected
responses are those of the command in execution until others are stored. `LineRead` is the heart: the
rest of the line is the end of a word that the modem prints or of the frame of the root, `index`
characters of which have been read, and they are in `lorabuf_c` unless a command was copied over the first
of them; if nothing was replaced the line is the "ok" that begins a radio command, or one that
`loraphy_input` accepts as the end (`Understood`). `UpIntact` and `DownIntact` follow from
it with the codecs of `LoraFramerProofs`. The hypotheses are what the code relies on
without a check: `LinesFit` (no command and no line is longer than the buffer) and
`LoraPackets` (the sender of a packet that goes up has an address of the LoRa network, as the packets of
the DAG have; sender and receiver of one that comes down), both true of the instance
of the run (`HypothesesHold`), and for `DownIntact` that nothing follows the
arrays given to `strtol`. `UpIntact` allows any receiver: the packet arrives with the root's
address in its place, which is what `build_ip_packet` puts there (`AtRoot`).

**`LoraTrafficProofs`** is about the root alone. A frame is in the buffer of a child, without a
number, or *held*: in the queue of the PHY, in `last_send_frame`, or in the hands of the
thread. `Traffic(n)`, with `n` packets handed over, says that held DATA frames have numbers their
child has used and are in the order of their packets (`Proper`, `Numbered`, `InOrder`), that the
buffers are in order after them, and that the numbers used and the frames waiting are
not more than the packets and the response to the JOIN (`Buffered`): so no number is used twice. `Ahead(p, e, g)`: what is left
for the child `p` in frames numbered `e` or more comes after the packet `g`. Each operation
of the root keeps both.

**`LoraLinkProofs`**: `TypeOKHolds`; `NodeNotAheadHolds`, if `MaxDown + 2 <= SeqMod`;
`DownDeliveryHolds`, the refinement of `Delivery`, if moreover `MaxRestarts = 0`. The types
need the invariant `Carried`: the frames in the root's receive buffer are such as a
node sends, those of the root are such as the root may send (`Load`), so that what one end
receives is what its proof assumes. `NodeNotAhead` adds `Sending` (`Traffic`) and `Knows`: a
node that has joined has a prefix that was given, and expects a number which its child
has reached. `DownDelivery` adds `Follows`: what the root still has for the node, in frames that
the node would accept, comes after the packet delivered last. The bound on the numbers is
needed: when they wrap, a repetition is taken for a newer frame (section 5), so the theorem
is about the first 254 packets of a root. Resets are excluded by the proof only: a node that
starts again expects the first number again, and that no JOIN_RESPONSE for an old prefix
follows the DATA already delivered under it is a fact about the order of the queue that
`Follows` does not contain.

Only model-checked: liveness (`ExchangeEnds`, `KeepsJoining`, `ReturnsToGet`: fairness and
ENABLED are beyond the prover), `UpDelivery`, and of course the violations.

## 5. Seen in the code, without a run

On the node:

- `on_retransmit_timeout` calls `lorabuf_clear` while the modem listens: the expected
  responses are gone, the answer is ignored, and the driver is deaf for good
  (`loramac.c:125`). `Deaf` in `LoraNode` and `disturbed` in `LoraUart` are these states.
- `loraphy_send` drops a command while the driver is not ready (`loraphy.c:122`), but
  its expected responses stay. When the sleep timer fires in the 60 s of `sys sleep`, the JOIN replaces
  the "ok" that the sleep ends with, and the driver is deaf. After a `phy_done` that belongs to no
  wait the process goes through `radio tx` without waiting, prepares `radio set` behind it, and the
  starting "ok" of the transmission makes the driver ready: the next command reaches a busy modem.
- `on_query_timeout` tests the state and acts on it later (`loramac.c:110-113`): an ACK in between leaves
  `pending_query` set in READY. If that ended a DATA exchange, nothing restarts the query timer, and the
  node polls again only after its next exchange.
- A QUERY that is written over the late copy of a JOIN (`loramac.c:111` after `128`) goes out under
  `is_retransmission`: `last_sent_frame` stays the JOIN, no sequence number is consumed, and the answer
  does not restart the query timer (`loramac.c:237`).
- `set_state`, called before `bridge_input`, sends the query that waited and so empties
  the buffer: `bridge_input` copies `0 - 8` bytes (`loramac.c:212`, `lorabridge.c:77`).
  This is `cpu = "fault"`; `OnlyQueryFaults` says that nothing else leads there.
- When `expected_seq` wraps, the number before it counts as newer (`loramac.c:203`): with
  `SeqMod = 3`, `link_down` finds `DownDelivery` violated, a repetition of number 2 being
  accepted by a node that expects 0. In the code this takes 256 frames.
- `output` writes a packet over a query that waits in the buffer (`lorabridge.c:43`): the
  query and the restart of its timer are lost.
- The reverse: after a give-up the modem still listens in READY, and a frame that arrives between
  the copy of a packet by `output` and the test of `loramac_send` replaces it: a DATA with `next` by a
  query without data, any other frame by its own content, and `loramac_send` makes DATA of it
  (`loramac.c:98`). The packet is lost; if the frame is empty, `build_ip_packet` makes 32 bytes of it, and
  what `IPv6` raises ends the root's receiving thread (`lora_mac.py:222`). `link_up` and `link_down` go
  through these states; `UpDelivery` holds there, since nothing is delivered.
- `strtol` on arrays without terminator (`framer.c:39-51`).

At the root:

- A JOIN whose low id byte is a given prefix is ignored for ever (`lora_mac.py:243-249`).
- A late JOIN removes a child that has just joined (`lora_mac.py:261-267`).
- After a lost DATA the next frame is consumed and dropped: the difference is taken after
  the update (`lora_mac.py:62`). The node repeats the packet or loses it.
- In PINGPONG, `mac_send` in the receiving thread blocks for ever on a full buffer
  (`lora_mac.py:112`).
- An answer before `_can_send = False` stops all sending (`lora_phy.py:442`), and
  `_uart_tx` may wait with `_can_send` set (`lora_phy.py:434-436`).
- With `listen_on_error`, which `__init__.py:23` sets, receptions are asked for twice (`lora_phy.py:401`);
  when the buffer is full of them one is dropped after `_is_listen` was set, and the root is deaf
  (`lora_phy.py:379`).
- A frame with a command that has no handler ends its reception, and `_rx_process` waits for the next
  one without `_listen` (`lora_mac.py:323-327`); one with a command that `MacCommand` does not have makes
  `build` raise in `_uart_rx`, which ends that thread (`lora_phy.py:214`). No node sends either.
- `build_ip_packet` puts the root's address in the place of the destination.
- The picture of a frame in `lora_phy.py:136` has the addresses in the other order
  than `toHex` and `build`.

## 6. Not modelled

- `rpl-node.c`: a UDP sender whose only state is the number of its next packet; what it
  sends reaches `LoraNode` as `OutputBegin`.
- What uIP, the application and RPL do inside `bridge_input` and `lora_network_joined`
  (Contiki-NG, outside this repository), so an answer sent from within the interrupt.
- The time between the start of the root's receiving thread and the registration of the
  listener (`lora_ip.py:42`).
- Real time, and the radio channel shared by several nodes: `LoraLink` has one node
  (`LoraRoot` has several, and `LoraNode` hears frames of others).
- A restart of the root; serial errors, `exit()` when the port is missing, the statistics
  `not_send_count`, logging and printing; build files and documents.
- Lines that are no answer of an RN2483, and frames with digits missing.

## 7. What is left

Every module of the first plan exists. What would extend it:

1. `UpDelivery` as a theorem. Every packet goes on the air under one number, the receive
   buffer of the root is first-in first-out, and `expected_sn` only grows while the numbers
   do not wrap (`MaxFrames + 2 <= SeqMod`) and the node is not reset.
2. Two nodes in `LoraLink`, for frames overheard.
3. The answer of an application inside `bridge_input`, and `Transmit` of `LoraNode` split
   after `pending = false`.
