----------------------------- MODULE DataLoader -----------------------------
(***************************************************************************)
(* AsyncDataLoader (src/train/trainer.rs) and the loop of train_epoch that *)
(* reads from it.  Every call of train_epoch spawns one loader thread with *)
(* a bounded channel of its own; a loader may outlive the call, when the   *)
(* call leaves before the channel is drained.                              *)
(*                                                                         *)
(* A micro-batch is the number of its chunk of the shuffled indices.  Of   *)
(* augmentation (AugmentCache in src/augment.rs) only the choice of the    *)
(* grids that are augmented is visible, of padding nothing.  The builds    *)
(* modelled are those that unwind; with the release profile's panic =      *)
(* "abort" a panic ends both threads, and with them the behaviour.         *)
(***************************************************************************)
EXTENDS Integers, Sequences, FiniteSets

CONSTANTS
  Examples,        \* train_data.len()
  MicroBatchSize,  \* config.micro_batch_size
  Puzzle,          \* puzzle_id of every example, the key of AugmentCache; the
                   \* example itself with no_augment and for Sudoku
  Capacity,        \* bounded(2)
  Orders,          \* results indices.shuffle can have
  MaxCalls         \* bound: calls of train_epoch

Indices == 1 .. Examples

ASSUME LoaderAssumption ==
  /\ Examples \in Nat \ {0}
  /\ MicroBatchSize \in Nat \ {0}
  /\ Capacity \in Nat \ {0}
  /\ Puzzle \in [Indices -> Nat]
  /\ Orders \subseteq [Indices -> Indices]
  /\ \A o \in Orders : \A i, j \in Indices : o[i] = o[j] => i = j
  /\ MaxCalls \in Nat

VARIABLES
  calls,     \* calls of train_epoch so far; the last one is the current call
  trainer,   \* "idle", "recv" (blocked in rx.recv()) or "busy" (process_batch)
  loader,    \* loader thread per call
  order,     \* the shuffled indices per call
  next,      \* the chunk the loader of a call is at
  channel,   \* chunks sent and not received, per call
  rx,        \* is the receiver of a call still there?
  got,       \* history: chunks received, per call
  drained    \* history: did the call see the end of the stream?

vars == <<calls, trainer, loader, order, next, channel, rx, got, drained>>

Calls == 1 .. MaxCalls

(* indices.chunks(micro_batch): how many there are, and the k-th.           *)
WholeChunks == Examples \div MicroBatchSize     \* mutant of MicroBatches
MicroBatches == (Examples + MicroBatchSize - 1) \div MicroBatchSize
ChunkEnd(k) ==
  IF k * MicroBatchSize < Examples THEN k * MicroBatchSize ELSE Examples
Chunk(k) == (k - 1) * MicroBatchSize + 1 .. ChunkEnd(k)

(* get_or_generate: the example whose grids the p-th example of a call is   *)
(* made from.  The cache of a thread keeps what the first example of the    *)
(* puzzle has generated.                                                    *)
Pairs(x) == {y \in Indices : Puzzle[y] = Puzzle[x]}
GridsOf(c, p) ==
  LET earlier == {q \in 1 .. p : order[c][q] \in Pairs(order[c][p])}
  IN order[c][CHOOSE q \in earlier : \A r \in earlier : q <= r]

-----------------------------------------------------------------------------
Init ==
  /\ calls = 0
  /\ trainer = "idle"
  /\ loader = [c \in Calls |-> "none"]
  /\ order \in [Calls -> Orders]
  /\ next = [c \in Calls |-> 1]
  /\ channel = [c \in Calls |-> << >>]
  /\ rx = [c \in Calls |-> FALSE]
  /\ got = [c \in Calls |-> << >>]
  /\ drained = [c \in Calls |-> FALSE]

(* train_epoch calls AsyncDataLoader::start: the channel, the thread.       *)
CallTrainEpoch ==
  /\ trainer = "idle" /\ calls < MaxCalls
  /\ calls' = calls + 1
  /\ trainer' = "recv"
  /\ loader' = [loader EXCEPT ![calls + 1] = "working"]
  /\ rx' = [rx EXCEPT ![calls + 1] = TRUE]
  /\ UNCHANGED <<order, next, channel, got, drained>>

PrepareOneMore(c) ==                            \* mutant of Prepare
  /\ loader[c] = "working" /\ next[c] <= MicroBatches + 1
  /\ loader' = [loader EXCEPT ![c] = "sending"]
  /\ UNCHANGED <<calls, trainer, order, next, channel, rx, got, drained>>

(* The loader augments, pads and masks the examples of the next chunk ...   *)
Prepare(c) ==
  /\ loader[c] = "working" /\ next[c] <= MicroBatches
  /\ loader' = [loader EXCEPT ![c] = "sending"]
  /\ UNCHANGED <<calls, trainer, order, next, channel, rx, got, drained>>

(* Room in the bounded channel.                                             *)
HasRoom(c) == Len(channel[c]) < Capacity

SendInFront(c) ==                               \* mutant of Send
  /\ loader[c] = "sending" /\ rx[c] /\ HasRoom(c)
  /\ channel' = [channel EXCEPT ![c] = <<next[c]>> \o @]
  /\ next' = [next EXCEPT ![c] = @ + 1]
  /\ loader' = [loader EXCEPT ![c] = "working"]
  /\ UNCHANGED <<calls, trainer, order, rx, got, drained>>

(* ... and sends them, blocking while the channel is full.                  *)
Send(c) ==
  /\ loader[c] = "sending" /\ rx[c] /\ HasRoom(c)
  /\ channel' = [channel EXCEPT ![c] = Append(@, next[c])]
  /\ next' = [next EXCEPT ![c] = @ + 1]
  /\ loader' = [loader EXCEPT ![c] = "working"]
  /\ UNCHANGED <<calls, trainer, order, rx, got, drained>>

(* Mutants of SendFails: the message is sent again, or skipped.             *)
SendIgnored(c) ==
  /\ loader[c] = "sending" /\ ~ rx[c]
  /\ loader' = [loader EXCEPT ![c] = "working"]
  /\ UNCHANGED <<calls, trainer, order, next, channel, rx, got, drained>>

SendSkipped(c) ==
  /\ loader[c] = "sending" /\ ~ rx[c]
  /\ loader' = [loader EXCEPT ![c] = "working"]
  /\ next' = [next EXCEPT ![c] = @ + 1]
  /\ UNCHANGED <<calls, trainer, order, channel, rx, got, drained>>

(* tx.send(..).is_err(): the receiver is gone, break.                       *)
SendFails(c) ==
  /\ loader[c] = "sending" /\ ~ rx[c]
  /\ loader' = [loader EXCEPT ![c] = "exited"]
  /\ UNCHANGED <<calls, trainer, order, next, channel, rx, got, drained>>

(* An unwrap fails: there is no augmentation to choose from, or a tensor    *)
(* does not fit on the device.  Unwinding drops tx as well.                 *)
Panics(c) ==
  /\ loader[c] = "working" /\ next[c] <= MicroBatches
  /\ loader' = [loader EXCEPT ![c] = "panicked"]
  /\ UNCHANGED <<calls, trainer, order, next, channel, rx, got, drained>>

(* The chunks are exhausted: the closure returns and drops tx.              *)
Finish(c) ==
  /\ loader[c] = "working" /\ next[c] > MicroBatches
  /\ loader' = [loader EXCEPT ![c] = "exited"]
  /\ UNCHANGED <<calls, trainer, order, next, channel, rx, got, drained>>

(* rx.recv() = Ok(msg)                                                      *)
Recv ==
  /\ trainer = "recv" /\ channel[calls] # << >>
  /\ trainer' = "busy"
  /\ got' = [got EXCEPT ![calls] = Append(@, Head(channel[calls]))]
  /\ channel' = [channel EXCEPT ![calls] = Tail(@)]
  /\ UNCHANGED <<calls, loader, order, next, rx, drained>>

(* The micro-batch is processed and the loop goes on.                       *)
Processed ==
  /\ trainer = "busy"
  /\ trainer' = "recv"
  /\ UNCHANGED <<calls, loader, order, next, channel, rx, got, drained>>

(* train_epoch returns and drops rx, with what is in the channel.           *)
DropReceiver ==
  /\ trainer' = "idle"
  /\ rx' = [rx EXCEPT ![calls] = FALSE]
  /\ channel' = [channel EXCEPT ![calls] = << >>]

(* The step limit is hit, or process_batch returns an error.                *)
Leave ==
  /\ trainer = "busy"
  /\ DropReceiver
  /\ UNCHANGED <<calls, loader, order, next, got, drained>>

ChannelEmpty ==                                 \* mutant of Disconnected
  /\ trainer = "recv" /\ channel[calls] = << >>
  /\ DropReceiver
  /\ drained' = [drained EXCEPT ![calls] = TRUE]
  /\ UNCHANGED <<calls, loader, order, next, got>>

(* rx.recv() = Err: nothing buffered and no sender left.                    *)
Disconnected ==
  /\ trainer = "recv" /\ channel[calls] = << >>
  /\ loader[calls] \in {"exited", "panicked"}
  /\ DropReceiver
  /\ drained' = [drained EXCEPT ![calls] = TRUE]
  /\ UNCHANGED <<calls, loader, order, next, got>>

LoaderStep(c) == Prepare(c) \/ Send(c) \/ SendFails(c) \/ Finish(c) \/ Panics(c)
TrainerStep   == Recv \/ Processed \/ Leave \/ Disconnected

Next == CallTrainEpoch \/ TrainerStep \/ \E c \in Calls : LoaderStep(c)

Spec == Init /\ [][Next]_vars

(* Both threads keep being scheduled.                                       *)
FairSpec ==
  /\ Spec
  /\ WF_vars(TrainerStep)
  /\ \A c \in Calls : WF_vars(LoaderStep(c))
-----------------------------------------------------------------------------
TypeOK ==
  /\ calls \in 0 .. MaxCalls
  /\ trainer \in {"idle", "recv", "busy"}
  /\ loader \in [Calls -> {"none", "working", "sending", "exited", "panicked"}]
  /\ order \in [Calls -> Orders]
  /\ next \in [Calls -> 1 .. MicroBatches + 1]
  /\ channel \in [Calls -> Seq(1 .. MicroBatches)]
  /\ rx \in [Calls -> BOOLEAN]
  /\ got \in [Calls -> Seq(1 .. MicroBatches)]
  /\ drained \in [Calls -> BOOLEAN]

(* While train_epoch reads, what it received followed by what is buffered   *)
(* is the sequence of the chunks the loader has sent: none is lost,         *)
(* duplicated or overtaken.                                                 *)
InOrder ==
  \A c \in Calls : rx[c] =>
    got[c] \o channel[c] = [i \in 1 .. next[c] - 1 |-> i]

(* train_epoch sees the end of the stream only after it has received every  *)
(* training example exactly once, or because the loader panicked, which it  *)
(* cannot tell; of a puzzle with several pairs, as many augmentations as it *)
(* has pairs, all of the pair that was cached first.                        *)
DrainedEpochIsComplete ==
  \A c \in Calls : drained[c] /\ loader[c] # "panicked" =>
    LET received == {p \in (1 .. Len(got[c])) \X Indices : p[2] \in Chunk(got[c][p[1]])}
        count(y) == Cardinality({p \in received : GridsOf(c, p[2]) = y})
    IN \A x \in Indices : \E y \in Pairs(x) : count(y) = Cardinality(Pairs(x))

(* Over its whole life a loader prepares no more micro-batches than         *)
(* train_epoch takes from it, one channel full, and the one it is blocked   *)
(* with in send(): also a loader that train_epoch walked away from stops    *)
(* preparing, and does not augment the rest of the epoch for nobody.        *)
Prepared(c) ==
  IF loader[c] \in {"sending", "exited"} /\ next[c] <= MicroBatches THEN next[c]
                                                                   ELSE next[c] - 1
BoundedPrefetch == \A c \in Calls : Prepared(c) <= Len(got[c]) + Capacity + 1

(* Every loader thread ends, also the one that train_epoch walked away from.*)
LoaderEnds ==
  \A c \in Calls : loader[c] = "working" ~> loader[c] \in {"exited", "panicked"}

(* train_epoch reads the stream EpochStream promises: the reader never sees  *)
(* the threads, the channel or a loader left behind by an earlier call.      *)
Stream == INSTANCE EpochStream WITH
  active    <- trainer # "idle",
  delivered <- IF calls = 0 THEN 0 ELSE Len(got[calls]),
  broken    <- calls # 0 /\ loader[calls] = "panicked"

StreamSpec     == Stream!Spec
StreamFairSpec == Stream!FairSpec
=============================================================================
