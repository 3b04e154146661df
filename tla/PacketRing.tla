----------------------------- MODULE PacketRing -----------------------------
(***************************************************************************)
(* The capture path of crates/rustnmap-packet: the ring of frames shared   *)
(* with the kernel (mmap.rs), the packets that point into it               *)
(* (zero_copy.rs), and the engine on top (async_engine.rs), whose          *)
(* background task moves packets from the ring to a bounded channel, from  *)
(* which the scanner takes them, copies them and drops them.               *)
(*                                                                         *)
(* A frame belongs to the kernel or to the program.  The kernel fills the  *)
(* frame at head if it owns it and loses the packet otherwise; the program *)
(* reads the frame at rx if it owns it and gives it back when the packet   *)
(* is dropped, not when it is read.  Nothing in the frame tells a packet   *)
(* not read yet from one that was read and is still alive.                 *)
(*                                                                         *)
(* The kernel and AsyncFd are modelled from how the code uses them.  The   *)
(* readiness of AsyncFd is one of three: no, seen (by the guard that the   *)
(* task holds), new (an event came after it); a guard clears only what it  *)
(* has seen.  A mutex serialises the readers of the ring, so that each     *)
(* read is one step.                                                       *)
(***************************************************************************)
EXTENDS Integers, Sequences, FiniteSets

CONSTANTS
  FrameCount,   \* frame_count
  ChannelSize,  \* CHANNEL_SIZE
  MaxPackets    \* bound on the packets that arrive

ASSUME RingAssumption ==
  /\ FrameCount \in Nat \ {0}
  /\ ChannelSize \in Nat \ {0}
  /\ MaxPackets \in Nat

Frames == 0..(FrameCount - 1)
Captures == 1..MaxPackets

VARIABLES
  owner,      \* tp_status of each frame: kernel or user
  content,    \* the packet in each frame, 0 for none yet
  head,       \* the kernel's next frame
  arrived,    \* packets that arrived so far
  rx,         \* rx_frame_idx
  running,    \* running, of the engine and of the inner engine
  alive,      \* the engine has not been dropped
  mode,       \* how it was started: off, channel or direct
  task,       \* where the background task is
  hand,       \* what the background task is about to send
  any,        \* received_any
  ready,      \* the readiness of AsyncFd
  channel,    \* packet_tx to packet_rx
  held,       \* the packet the scanner has received and not dropped
  delivered,  \* history: what the scanner copied out
  filled      \* history: live packets have once held every frame

vars == <<owner, content, head, arrived, rx, running, alive, mode, task, hand,
          any, ready, channel, held, delivered, filled>>

kernelVars == <<content, head, arrived>>
readerVars == <<rx, filled>>
engineVars == <<running, alive, mode>>
taskVars == <<task, hand, any>>

\* A ZeroCopyPacket: its frame, what was in it when it was read, and whether
\* its bytes were copied then (a VLAN packet) or are still read in the frame.
Packet == [frame : Frames, pkt : Captures, owned : BOOLEAN]
Nothing == [frame |-> -1, pkt |-> 0, owned |-> FALSE]
Error == [frame |-> -1, pkt |-> -1, owned |-> FALSE]

TypeOK ==
  /\ owner \in [Frames -> {"kernel", "user"}]
  /\ content \in [Frames -> 0..MaxPackets]
  /\ head \in Frames
  /\ arrived \in 0..MaxPackets
  /\ rx \in Frames
  /\ running \in BOOLEAN
  /\ alive \in BOOLEAN
  /\ mode \in {"off", "channel", "direct"}
  /\ task \in {"none", "top", "waiting", "reading", "sending", "clearing",
              "failing"}
  /\ hand \in Packet \cup {Nothing, Error}
  /\ any \in BOOLEAN
  /\ ready \in {"no", "seen", "new"}
  /\ channel \in Seq(Packet \cup {Error}) /\ Len(channel) <= ChannelSize
  /\ held \in Packet \cup {Nothing}
  /\ delivered \in Seq(0..MaxPackets)
  /\ filled \in BOOLEAN

Init ==
  /\ owner = [f \in Frames |-> "kernel"]
  /\ content = [f \in Frames |-> 0]
  /\ head = 0
  /\ arrived = 0
  /\ rx = 0
  /\ running = FALSE
  /\ alive = TRUE
  /\ mode = "off"
  /\ task = "none"
  /\ hand = Nothing
  /\ any = FALSE
  /\ ready = "no"
  /\ channel = <<>>
  /\ held = Nothing
  /\ delivered = <<>>
  /\ filled = FALSE
-----------------------------------------------------------------------------
NextFrame(f) == (f + 1) % FrameCount

\* A packet arrives: it is written to the frame at head, or lost.
KernelWrite ==
  /\ arrived < MaxPackets
  /\ owner[head] = "kernel"
  /\ arrived' = arrived + 1
  /\ content' = [content EXCEPT ![head] = arrived + 1]
  /\ owner' = [owner EXCEPT ![head] = "user"]
  /\ head' = NextFrame(head)
  /\ ready' = "new"
  /\ UNCHANGED <<readerVars, engineVars, taskVars, channel, held, delivered>>

KernelDrop ==
  /\ arrived < MaxPackets
  /\ owner[head] = "user"
  /\ arrived' = arrived + 1
  /\ ready' = "new"
  /\ UNCHANGED <<owner, content, head, readerVars, engineVars, taskVars,
                 channel, held, delivered>>

\* The packets that are alive: with the scanner, in the channel, with the task.
Alive ==
  ({held, hand} \cup {channel[i] : i \in DOMAIN channel}) \ {Nothing, Error}

HeldFrames == {packet.frame : packet \in Alive}

FrameIsAvailable == owner[rx] = "user"

\* The packet in the frame at rx; a VLAN packet is rebuilt in a buffer of its
\* own, the bytes of the others stay in the frame.
Readable ==
  {[frame |-> rx, pkt |-> content[rx], owned |-> vlan] : vlan \in BOOLEAN}

\* Slip: the reader does not move on.
TakeInPlace(packet) ==
  /\ FrameIsAvailable
  /\ packet \in Readable
  /\ UNCHANGED <<readerVars, owner>>

\* try_recv_zero_copy finds a packet: the reader moves on, and the frame stays
\* the program's.
Take(packet) ==
  /\ FrameIsAvailable
  /\ packet \in Readable
  /\ rx' = NextFrame(rx)
  /\ filled' = (filled \/ Frames \subseteq HeldFrames \union {packet.frame})
  /\ UNCHANGED owner

\* Slip: the frame of a dropped packet stays with the program.
ReleaseNone(packets) == UNCHANGED owner

\* Drop for ZeroCopyPacket, for each of some packets (or Error, or Nothing).
Release(packets) ==
  owner' = [f \in Frames |->
              IF \E p \in packets : p.frame = f THEN "kernel" ELSE owner[f]]
-----------------------------------------------------------------------------
\* AsyncPacketEngine::start; the background task begins at its loop's head.
\* An engine is started once here: the scanners call start again before each
\* receive and ignore that it is AlreadyStarted, and none stops an engine to
\* start it again.
Start ==
  /\ alive /\ mode = "off"
  /\ running' = TRUE
  /\ mode' = "channel"
  /\ task' = "top"
  /\ UNCHANGED <<owner, kernelVars, readerVars, alive, hand, any, ready,
                 channel, held, delivered>>

\* start_no_background, for a caller that reads the ring directly.
StartNoBackground ==
  /\ alive /\ mode = "off"
  /\ running' = TRUE
  /\ mode' = "direct"
  /\ UNCHANGED <<owner, kernelVars, readerVars, alive, taskVars, ready, channel,
                 held, delivered>>

\* stop takes the engine exclusively, so no packet is being received.
Stop ==
  /\ alive /\ running
  /\ held = Nothing
  /\ running' = FALSE
  /\ UNCHANGED <<owner, kernelVars, readerVars, alive, mode, taskVars, ready,
                 channel, held, delivered>>

\* The engine is dropped, and with it the channel and the packets in it.
DropEngine ==
  /\ alive
  /\ held = Nothing
  /\ alive' = FALSE
  /\ channel' = <<>>
  /\ Release({channel[i] : i \in DOMAIN channel})
  /\ UNCHANGED <<kernelVars, readerVars, running, mode, taskVars, ready, held,
                 delivered>>
-----------------------------------------------------------------------------
\* The head of the loop: while running.
TaskLoop ==
  /\ task = "top"
  /\ task' = IF running THEN "waiting" ELSE "none"
  /\ UNCHANGED <<owner, kernelVars, readerVars, engineVars, hand, any, ready,
                 channel, held, delivered>>

\* readable() returns a guard.
TaskWake ==
  /\ task = "waiting"
  /\ ready # "no"
  /\ ready' = "seen"
  /\ any' = FALSE
  /\ task' = "reading"
  /\ UNCHANGED <<owner, kernelVars, readerVars, engineVars, hand, channel, held,
                 delivered>>

\* readable() fails: the error is sent, whether or not somebody receives it,
\* and the task ends.
TaskFdFails ==
  /\ task = "waiting"
  /\ hand' = Error
  /\ task' = "failing"
  /\ UNCHANGED <<owner, kernelVars, readerVars, engineVars, any, ready, channel,
                 held, delivered>>

TaskFailed ==
  /\ task = "failing"
  /\ alive => Len(channel) < ChannelSize
  /\ channel' = IF alive THEN Append(channel, hand) ELSE channel
  /\ hand' = Nothing
  /\ running' = FALSE
  /\ task' = "none"
  /\ UNCHANGED <<owner, kernelVars, readerVars, alive, mode, any, ready, held,
                 delivered>>

TaskRead ==
  /\ task = "reading"
  /\ running
  /\ \E packet \in Readable : Take(packet) /\ hand' = packet
  /\ any' = TRUE
  /\ task' = "sending"
  /\ UNCHANGED <<kernelVars, engineVars, ready, channel, held, delivered>>

TaskFindsNone ==
  /\ task = "reading"
  /\ running
  /\ ~FrameIsAvailable
  /\ task' = "clearing"
  /\ UNCHANGED <<owner, kernelVars, readerVars, engineVars, hand, any, ready,
                 channel, held, delivered>>

\* The inner engine was stopped: try_recv_zero_copy returns NotStarted.
TaskFindsStopped ==
  /\ task = "reading"
  /\ ~running
  /\ hand' = Error
  /\ task' = "sending"
  /\ UNCHANGED <<owner, kernelVars, readerVars, engineVars, any, ready, channel,
                 held, delivered>>

\* packet_tx.send waits for room; after an error the inner loop ends.
TaskSend ==
  /\ task = "sending"
  /\ alive
  /\ Len(channel) < ChannelSize
  /\ channel' = Append(channel, hand)
  /\ hand' = Nothing
  /\ task' = IF hand = Error THEN "clearing" ELSE "reading"
  /\ UNCHANGED <<owner, kernelVars, readerVars, engineVars, any, ready, held,
                 delivered>>

\* The receiver is gone: what was to be sent is dropped and the task ends.
TaskSendFails ==
  /\ task = "sending"
  /\ ~alive
  /\ Release({hand})
  /\ hand' = Nothing
  /\ running' = FALSE
  /\ task' = "none"
  /\ UNCHANGED <<kernelVars, readerVars, alive, mode, any, ready, channel, held,
                 delivered>>

\* Slip: the readiness is cleared although an event came since.
ClearAlways(r) == "no"

\* clear_ready_matching
Clear(r) == IF r = "seen" THEN "no" ELSE r

\* The readiness is cleared if something was received.
TaskClear ==
  /\ task = "clearing"
  /\ ready' = IF any THEN Clear(ready) ELSE ready
  /\ task' = "top"
  /\ UNCHANGED <<owner, kernelVars, readerVars, engineVars, hand, any, channel,
                 held, delivered>>
-----------------------------------------------------------------------------
\* Slip: the packet is dropped before its bytes are copied.
ReceiveAndDrop ==
  /\ alive /\ running
  /\ held = Nothing
  /\ channel # <<>>
  /\ held' = IF Head(channel) = Error THEN Nothing ELSE Head(channel)
  /\ channel' = Tail(channel)
  /\ Release({Head(channel)})
  /\ UNCHANGED <<kernelVars, readerVars, engineVars, taskVars, ready,
                 delivered>>

\* recv_timeout takes an item from the channel; an error ends the call.
Receive ==
  /\ alive /\ running
  /\ held = Nothing
  /\ channel # <<>>
  /\ held' = IF Head(channel) = Error THEN Nothing ELSE Head(channel)
  /\ channel' = Tail(channel)
  /\ UNCHANGED <<owner, kernelVars, readerVars, engineVars, taskVars, ready,
                 delivered>>

\* try_recv_direct.  The doc of start_no_background asks that no background
\* task be running then.
ReceiveDirect ==
  /\ alive /\ running
  /\ mode = "direct"
  /\ held = Nothing
  /\ \E packet \in Readable : Take(packet) /\ held' = packet
  /\ UNCHANGED <<kernelVars, engineVars, taskVars, ready, channel, delivered>>

\* The scanner's adapter copies the bytes and drops the packet.
CopyAndDrop ==
  /\ held # Nothing
  /\ delivered' = Append(delivered, IF held.owned THEN held.pkt
                                    ELSE content[held.frame])
  /\ Release({held})
  /\ held' = Nothing
  /\ UNCHANGED <<kernelVars, readerVars, engineVars, taskVars, ready, channel>>
-----------------------------------------------------------------------------
Kernel == KernelWrite \/ KernelDrop

Owner == Start \/ StartNoBackground \/ Stop \/ DropEngine

Task ==
  \/ TaskLoop \/ TaskWake \/ TaskFailed
  \/ TaskRead \/ TaskFindsNone \/ TaskFindsStopped
  \/ TaskSend \/ TaskSendFails
  \/ TaskClear

Scanner == Receive \/ ReceiveDirect \/ CopyAndDrop

Next == Kernel \/ Owner \/ Task \/ TaskFdFails \/ Scanner

Spec == Init /\ [][Next]_vars

\* The runtime schedules the background task, and the scanner keeps receiving
\* as long as the engine runs.  Nothing is assumed of the kernel or of who
\* owns the engine, and readable() need not fail.
Fairness == WF_vars(Task) /\ WF_vars(Scanner)

FairSpec == Spec /\ Fairness
-----------------------------------------------------------------------------
Unread == {f \in Frames : owner[f] = "user"} \ HeldFrames

\* Until live packets hold every frame of the ring: as long as a packet is
\* alive its frame is the program's and holds what was read, the kernel never
\* writes into bytes that someone will still look at (the safety contract of
\* ZeroCopyPacket::new).
HeldFramesKept ==
  ~filled => \A packet \in Alive :
    owner[packet.frame] = "user" /\ content[packet.frame] = packet.pkt

\* The same of the packet that the scanner is about to copy, without condition.
ReceivedIntact ==
  held # Nothing => owner[held.frame] = "user" /\ content[held.frame] = held.pkt

\* Under the same condition, what the scanner copies out comes in the order of
\* arrival, and no packet comes twice: a probe's answer is not matched a second
\* time.
DeliveredInOrder ==
  ~filled => \A i, j \in DOMAIN delivered : i < j => delivered[i] < delivered[j]

\* Under the same condition, the frames that wait to be read are those from rx
\* up to head, without a hole: a frame of the kernel in between would stop the
\* reader for ever while packets wait behind it, and make the kernel lose
\* packets although the ring has room.
NoHoles ==
  ~filled =>
    LET n == Cardinality(Unread)
    IN  /\ Unread = {(rx + i) % FrameCount : i \in 0..(n - 1)}
        /\ head = (rx + n) % FrameCount

\* A captured packet reaches the scanner, unless the engine is stopped or
\* dropped or live packets come to hold every frame: no wakeup is lost between
\* the last look at the ring and the clearing of the readiness.
EveryPacketDelivered ==
  \A c \in Captures :
    (running /\ alive /\ \E f \in Unread : content[f] = c)
      ~> \/ ~running \/ ~alive \/ filled
         \/ \E i \in DOMAIN delivered : delivered[i] = c
=============================================================================
