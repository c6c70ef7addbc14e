# TLA+ models of trm_omega

Models of the Rust crate `trm_omega` (a Tiny Recursive Model: training,
ternary quantization, CUDA inference), the TLC configurations that check them
and the theorems TLAPS proves about them. Paths below are relative to
`src/trm_omega/`.

## The system

| component | state | operations | works with | what is hard |
|---|---|---|---|---|
| trainer (`src/train/trainer.rs`, `src/bin/train.rs`) | `meta`, `current_batch_size`, model weights, counters of the epoch | `new`, `resume`, `train`, `train_epoch`, `process_batch`, `evaluate` | data loader (channel), optimizer, EMA, checkpoints | ends by limits, errors or a crash at any step; leftovers of an epoch; resuming |
| data loader (`AsyncDataLoader` in `trainer.rs`) | shuffled indices, bounded channel | a thread per epoch: prepare, send | trainer, which receives and may leave early | order, last short chunk, blocked thread left behind |
| optimizer (`src/train/optimizer.rs`) | pending gradients, moments, learning rates | `accumulate`, `clip_scale`, `step`, `zero_grad` | trainer | accumulation over epochs |
| EMA (`src/train/ema.rs`) | `shadows`, `step` | `update`, `swap_in`, `swap_out` | VarMap, trainer, checkpoints | tensors that share storage; failure half-way |
| checkpoints (`src/train/checkpoint.rs`) | three files per tag | `save_checkpoint`, `load_checkpoint` | trainer, disk | crash between files, overwritten tags, stale fields |
| device pack cache (`KernelBank` in `src/custom_kernels.rs`) | address -> weights on the device | `cached_pack`, `device_pack`, `linear_device` | dispatcher, any number of threads | races, address reuse, a bias kept with the weights |
| CUDA reductions (`src/kernels/attention.cu`, `activations.cu`) | a shared array per block | tree reduction with barriers | launched by KernelBank | missing barriers, block sizes |
| kernel bank, dispatcher (`src/custom_kernels.rs`, `src/kernel_dispatch.rs`) | which kernels the process found, once; packed weights beside live ones | device call, CPU fallback | network | fallbacks half-way, stale packs, partly packed layers |
| recursion (`src/recursion.rs`) | y, z, halting | `forward_trace`, `h_cycle_step` | network, DEQ | when to halt, which step gets gradients |
| DEQ (`src/deq.rs`) | iterates | Anderson, Neumann | recursion | limits and non-convergence |
| network (`src/network.rs`) | layers, their tensors and shapes | validate, forward, pack, apply packs | dispatcher, bundle | two attention implementations with different head mappings; device stack restarted block by block |
| quantizer, TRMQ10 (`src/quantize.rs`, `src/trmq10.rs`) | packed bytes, bundle file | pack, unpack, save, load | network, forge, server, eval | partial header, interrupted write, reader beside a writer |
| augmentation (`src/augment.rs`) | `AugmentCache` | transforms, inverse, vote | data loader, evaluation | cache key, transforms that must cancel |
| agents (`src/memory.rs`) | `halted`, `confidence`, tensors | reset, halt, fork | called by nothing | sticky flags, lengths |
| task evaluation (`src/task_eval.rs`), presets, `forge`, `server`, `eval` | counts; a process with one model | load, pack, run, score | all of the above | options that must agree with the training and are recorded nowhere |
| data sets, loss, setup, build | none to speak of | sequential | | |

The trainer and its surroundings and the device cache are where processes,
threads, failures and persistent state meet; the way of a model from the
checkpoint into a bundle, into a serving process and through a pass is where
the most code and the most options meet. Both are modelled.

## Modules

| module | models | abstraction |
|---|---|---|
| `Trainer` | `Trainer::train`/`train_epoch`, pending gradients, `save_checkpoint`/`load_checkpoint`, over several processes on one directory | weights = what was trained into them: optimizer steps, and per epoch how many micro-batches were visited and applied; a file is absent, torn or whole with the number of the save that wrote it |
| `EpochStream` | what `train_epoch` expects of a loader: the micro-batches of one order, front to back | abstract specification |
| `DataLoader` | `AsyncDataLoader::start`, the channel, the receiving loop; one loader thread per call, the old ones may still run | a micro-batch is a chunk of shuffled example indices; `AugmentCache` is the choice of the example whose grids are used |
| `PackCache` | `cached_pack`, `device_pack`, `linear_device`, the fallback; `packed_linear_host`, the FFN and the transformer stack are the calls with one, three and more layers | a result is the weights and the bias that went into it; CUDA calls succeed or the whole call is repeated on the CPU |
| `BlockReduce` | `attn_reduce_sum` in `fused_attention` and the two reductions of `layer_norm_impl`, at the granularity of accesses to the shared array | a partial sum is the bag of the contributions added up in it; a launch fixes kernel, block size, rows and tiles |
| `Ema` | `update`, `swap_in`, `swap_out`, `evaluate` around the forward passes, loading of averages | a storage holds the set of (variable, step) averaged in it; every optimizer step sets every variable |
| `Recursion` | `forward_trace` unrolled and in DEQ mode, `solve_fixed_point`, `AndersonState`, `neumann_solve`, the backward pass of `process_batch` and `deq_backward` | a tensor is the set of supervision steps its autograd graph reaches; confidences and convergence are free choices; an iterate is the start, an image of f or a mixture of images |
| `AttnMask` | the padding mask of a batch and `expand_attn_mask` | a mask is the set of flat indices that hold minus infinity |
| `Ternary` | `quantize_rowwise_ternary`, `unpack_ternary`, the kernels' decoder, `ternary_ste` | a matrix is one of its rows, of rational numbers; a byte is four codes |
| `TrmModel` | `NetworkConfig`, its validation, the tensors with their shapes, `MaybeTernaryLinear`'s packs beside live weights, packing | the tensors of a layer with one role are one |
| `KernelBank` | `KernelBank::try_new` | the set of kernels that packed layers launch |
| `Forward` | `SharedNetwork::forward`, the blocks, the dispatcher, the halt head | an activation is the list of sublayers that made it, with their weights and the K/V head every query head read |
| `Bundle` | training's saves, `forge`, `save_trmq10`, `load_trmq10`, `apply_named`, `load_model`, `server --kernels` | the file is a sequence of items (magic, header, counts, tensors), each with the version of the save that wrote it |
| `Augment` | `DihedralOp`, `AugTransform`, `majority_vote` | grids over a few colours |
| `TaskEval` | `evaluate_arc_tasks` | the model answers one of a set per test, mapped by the transform; grids are rectangular and not empty, an expected one has colours only, an answer has the shape of the input (`IsTest`) |
| `Deployment` | the composition: Bundle, Forward and TaskEval in the life of a server or eval process | one process at a time |
| `*MC` | constants for TLC | |
| `TrainerProofs`, `DataLoaderProofs`, `PackCacheProofs`, `BlockReduceProofs`, `EmaProofs`, `RecursionProofs`, `BundleProofs`, `DeploymentProofs` | theorems | |

How state and actions correspond to the code is in `PROJECT.json` under `map`,
definition by definition. Points that are not obvious:

- **Trainer.** `pc` is the place in `train()`: `load_data`, `loop` (the head of
  the `for`), `recv` (inside `train_epoch`), `eval`, `periodic`, `check` (the
  `hit_max_steps` at the end of the body), `save` (inside `save_checkpoint`,
  which remembers in `saving.ret` where to return). `OpenFile` truncates a
  file, `CloseFile` completes it, and a `Crash` or `SaveFails` may come before,
  between and after. `args` is chosen anew by every process, as the command
  line is; `MaxEpochs` and the micro-batch size are constants.
  Whether `evaluate()` succeeds is left open here, although module `Ema` shows
  that it fails in the code as it is: what `Trainer` says about the `best` tag
  holds for a repaired `evaluate()` too. The scheduler, clipping and the
  moments do not influence control and are left out.
- **DataLoader.** The micro-batches come from a channel of capacity 2
  (`bounded(2)`): a `send` waits while it is full and fails once the receiver
  is dropped, which ends the thread. Leaving `train_epoch` early drops the receiver with what is
  buffered. `Panics` is an `unwrap` of the loader that fails: in a build that unwinds
  the sender is dropped as at the normal end, and `train_epoch` cannot tell the two
  apart (`DrainedEpochIsComplete` therefore excepts it, `broken` in `EpochStream`
  names it). The release profile has `panic = "abort"`, where the process dies
  with the thread; that is the `Crash` of `Trainer`, which models release builds. The shuffled order is one of `Orders`. The pairs of an ARC task share
  a puzzle id, and the cache of a loader thread is keyed by it alone: within an
  epoch every pair of a puzzle is trained as an augmentation of the pair that
  came first (`GridsOf`; `DrainedEpochIsComplete` counts them). With
  `no_augment`, or with Sudoku, `Puzzle` gives every example its own key.
- **PackCache.** `Quantize` puts a pack at any free address and `Drop` frees
  one that no call borrows, which is all that Rust's lifetimes ask. The lock is
  held in `CachedPack` and, while the Arc is cloned, in `DevicePack`; the
  multiplication runs without it. `Arc::get_mut` succeeds when no thread holds
  the entry.
- **BlockReduce.** `__syncthreads` is `Barrier`: it fires when every thread of
  the block waits at it. Threads of one warp may be scheduled independently,
  as on the sm_75 target.
- **Recursion.** One `Supervise` is the body of the loop up to `halt_probs.push`
  (one `h_cycle_step`, decoding, confidence); `Halt` and `Continue` are the two
  ways on. The configuration belongs to the process, every call starts with
  fresh locals, so a call can be followed by any other; deadlock is checked.
  The errors of tensor operations and of a mask of a third width (no caller
  has one) end a call and are left out.
- **Bundle.** `forge` writes under the name that processes read. `Create`
  empties the file, `Write` adds an item, `ForgeExits` is its end, an error or
  a kill; `ReadItem` reads on in the file as it is at that moment. Which items
  a save has depends on the configuration, so all saves of one product agree
  about the places. `proc.replaced` remembers that a second `forge` emptied the
  file under a reader: what that reader gets may be of two saves, and
  `LoadedIsOneSave` says nothing of it. The header keeps dim, heads, max_seq,
  layers, cycles and halt head; everything else a load takes from the
  defaults, and `apply_named` compares shapes. A checkpoint is read at one
  instant (its interrupted write is in `Trainer`).
- **Deployment.** A `product` fixes what was trained, what `forge` was told and
  the command lines of the processes. `Quit` may come at any time; it is also
  the only way on from a sequence that the model cannot take, which the code
  answers with an error. A pass of `Forward` stands for one of the network
  passes that `Recursion` counts. `StackFails` and the fallback inside a block
  may happen at every launch. Of a bundle, a server ignores `--variant`,
  `--adaptive` and the cycle options, since the header's configuration
  replaces theirs; `forge` in turn takes its cycle counts from
  `TrmConfig::default`, not from the training.
- **Ema.** `Tensor::detach` shares storage with its variable, and `Var::set`
  copies into the variable's storage and refuses a source that shares it
  (candle 0.8; the comment at `src/train/optimizer.rs:213` relies on the same
  rule). A loaded average has a storage of its own.

## Runs

| run | question | result and bounds |
|---|---|---|
| `trainer` | do gradients, counters and checkpoints stay consistent over fresh, resumed, failed and crashed processes, and does a scheduled process end? | pass, 1 million states. 3 processes (a save, a resume that overwrites it, and a resume from the result), 2 epochs, 3 micro-batches per epoch with accumulation over 2 (a leftover in each epoch) without a limit and evaluated every epoch, or over 1 with a limit of 2 steps and evaluated every second one; two accuracies |
| `trainer_max_steps` | does a process stop after `--max-steps`? | violated: resumed at the limit it takes one step more |
| `data_loader` | are all examples delivered once and in order; how far ahead does the thread get, and does it end; is it an `EpochStream`? | pass. 9 examples in chunks of 2 (a short last one), capacity 2 as in the code, 5 chunks so that the channel fills and an abandoned thread still has chunks it must not prepare, two epochs so that it runs beside the next; a loader may panic at any chunk |
| `pack_cache` | what may a call return when threads share the cache and packs come and go? | pass, 450 thousand states. 2 threads, 2 packs, 2 addresses, calls of 1 or 2 layers, 2 calls; threads and addresses are symmetric |
| `pack_cache_reuse` | is it enough that packs outlive the call? | violated: address reuse, and a bias that stays |
| `block_reduce` | do the trees add up every thread once, is any barrier missed, who can read a wrong sum? | pass. fused_attention with 3 threads, 2 rows, 2 tiles; 2 threads, 3 rows; 4 threads, 2 rows; 5 threads; layer_norm with 1, 2 and 4 threads |
| `block_reduce_reference` | does every thread work with the sum of its row? | violated: missing barrier |
| `recursion` | when does a forward pass stop, which answer does it return, what does padding hide, which network passes does a loss train? | pass. All combinations of adaptive halting, halt head, detach, intermediates and loss weights, 0 to 3 supervision steps, no or some L-cycles; DEQ with histories of 0 to 3 and 5 iterations, so that each history fills and slides; batches of 2 with questions of 1 to 3 tokens, which a wrong stride confuses |
| `recursion_gradients` | do only the last `n_gradient_sup` steps carry gradients? | violated: all steps do |
| `deployment` | whatever was forged and interrupted: what may a process load, which weights does it serve, what does a pass compute on whatever kernels it finds, and what does eval count as solved? | pass, 98 thousand states. 14 products: tiny models in two versions with and without `--kernels` and adaptive halting; widths that fill bytes, that leave some linears unpacked (12 with 3 heads, 6 with 3 heads); `max_seq` one token to either side of what a sequence needs; a mixer, grouped K/V heads, another FFN width, three layers, no halt head; rows with weights at exactly half of the scale, without weights, below the smallest scale, above the largest. Grids up to two cells, 3 colours, 4 transforms, 3 augmentations, 2 tries |
| `ema` | what do averages average, and what does an evaluation see and leave behind? | pass. 2 variables (a loop half-way), warm-up of 0 to 2 of 4 steps, one resume |
| `ema_set` | does every `Var::set` get a buffer of its own? | violated: `evaluate()` fails in `swap_out`, in the warm-up in `swap_in` |

**Bounds of `deployment`.** `EpsDen` 1000 and `MaxAlpha` 100 are the limits of the
scale (1e-8 and 1e4 in the code) in the reach of small rows: one row is below
the smaller one and one above the larger, where `ternary_ste` clamps and packing
does not, so that `ServesTernaryWeights` compares with it only below (`InRange`). `Vocab` 11 and `ZTokens` 81 are the program's. Four transforms have
every kind of inverse: none, a rotation, its opposite, a transposing flip, and
colour permutations of order 1, 2 and 3. The constraint `FileAtRest` cuts what
`forge` does to the file while a model is in memory, which no process looks at
until it loads again, and the further life of models read from two saves; the
invariants are checked in those states too.

Deadlock is not checked where the system stops: all processes and calls used
up, the block or the loader threads done. Every property has a mutant of a mapped
definition, kept next to the original and marked, that TLC refutes.

**Fairness.** `Trainer!FairSpec`: a running process keeps being scheduled
(weak fairness of its steps together; crashing is not fair, and which outcome a
step has is not either). `DataLoader!FairSpec`: the operating system runs the
loader threads and the trainer. `BlockReduce!FairSpec`: the multiprocessor runs
every thread of a resident block and releases a barrier all have reached.
Nothing else is assumed to happen.

**Findings.** The five violated runs are described in `PROJECT.json`.
In short: one optimizer step too many after a resume at the limit; a missing
barrier between consecutive reductions in both kernels (threads other than the
one that wrote element 0 can read the next row's partial sum — `SumOrNextPartial`
says that nothing worse happens, and never to thread 0 or in the last row of
a tile); a cache keyed by the address of memory that may be
reused, whose entries also keep the bias of the first call that passed one; a
`n_gradient_sup` that is counted and limits no gradient; and
`swap_out`, which sets variables to tensors that share their storage, so that
evaluation always fails after the forward passes.

What the models also show, and no document denies: with augmentation an ARC
epoch trains one pair of every puzzle (`AugmentCache` is keyed by puzzle id);
a bundle or checkpoint loaded with another number of heads than it was trained
with is another model, silently, because heads change no shape; `forge` with
its default `max_seq` of 900 makes bundles whose rotary cache ends an
evaluation at grids of more than 409 cells; a model with fewer K/V heads than
heads would compute another function packed than unpacked (`CandleKv` and
`KernelKv`), but no command line makes one and the shapes in a bundle refuse
it (`LoadKeepsModel`); the product `(i + 1) * constant` in the
seeds of augmentation (`src/augment.rs:167`) overflows from the second
augmentation on, which a build with overflow checks answers with a panic.

## Proofs

`TrainerProofs` (for every value of the constants that satisfies
`TrainerAssumption`):

- `TypeCorrect`: `Spec => [](TypeOK /\ ControlInv)`. `TypeOK` is inductive
  together with `ControlInv`: a process inside an epoch has a loop variable
  below `MaxEpochs`, and a save has a file to write; without it a step could
  index outside the epochs or the files.
- `GradientsConserved`: `Spec => []GradientConservation`. Every micro-batch
  visited on the way to the weights was applied, is pending, or was dropped by
  an earlier process. Given the types the equation itself is inductive: one
  micro-batch adds one to `visited` and to `pending`, a step moves `pending` to
  `seen`, and a resume books what the loaded weights miss in `origin.dropped`.
- `StepBudgetHolds`: `Spec => []StepBudget`. `global_step` exceeds neither the
  limit nor the one step after a resume at the limit. The strengthening
  `LimitInv` says that wherever another step may follow (`load_data`, `loop`,
  `recv`) the limit has not been reached or this process has not stepped yet:
  the code compares only after a step.

The second part of the module proves every other safety invariant of
`Trainer`, across saves cut short, crashes and resumes.

- `FilesStayInOrder`: `Spec => []FilesInOrder`. `FileInv` dates the files: none
  is newer than the last save nor than a file written before it, and while a
  save is under way no meta file is as new and the files before the current one
  are of this save. An interrupted save does leave a mixture under a tag, which
  loads; what the order gives is that a tag whose meta is of the save of its
  weights is no mixture.
- `StepsAreCounted`, `ResumeSkipsNoEpoch`, `BatchSizeIsRecorded`,
  `ProcessStopsAtALimit`. `TrainerInv` adds `MemoryInv`, which relates the epoch,
  the batch and the step in memory to the weights, and `DiskInv`, which says
  the same of a checkpoint whose files are of one save. A resume carries the
  second over to the first, a finished save the first over to the second.
  `BatchInv` follows the batch size that `best` and `final` are saved without:
  where it is stale, it is the default, the process started fresh, and its
  first periodic save lies ahead.
- `FinalCheckpointIsComplete` and `BestCheckpointIsBest` are inductive given
  `FileInv`, which follows a save file by file.

`DataLoaderProofs` (from `LoaderAssumption`, `EpochStream`'s assumptions and
the sequence theorems of the library):

- `LoaderInvariant`: the inductive invariant `LoaderInv`. It says of a call
  what is buffered and received element by element, that a loader that has
  exited with its receiver alive has sent every chunk, and that only the last
  call can have a receiver.
- `LoaderInOrder`: `Spec => []InOrder`. What was received, followed by what is
  in the channel, is the prefix of the chunks the loader has sent.
- `LoaderIsAStream`: `Spec => StreamSpec`, the refinement of `EpochStream`,
  step by step: receiving delivers the next chunk, an end of the channel with
  nothing left ends the epoch, leaving abandons it, everything else stutters.
- `PrefetchIsBounded`: `Spec => []BoundedPrefetch`: over its whole life a loader
  prepares at most what `train_epoch` took, a channel full and the micro-batch it
  is blocked with. `PrefetchInv` says it of what was sent: while the receiver
  is there the channel bounds it, and without one no further send succeeds.
- `DrainedIsEverything`: `Spec => []DrainedEpochIsComplete`. `DrainInv`: a stream
  that ended without a panic has delivered every chunk. The rest is arithmetic and counting:
  every position of the shuffled order is in one chunk, so what was received is
  in bijection with the positions, and those of one puzzle with its pairs; the
  cache gives all of them the pair that came first.
- `DataLoaderType`: `Spec => []TypeOK`.

`PackCacheProofs` (for every set of packs, biases, addresses and threads and
every length of a call):

- `LookupsFindTheirPack` and `WeightsUploadedOnce` from `PackInv`: the packs a
  call has borrowed are alive, what a looking call has been at is cached, and an
  address without an entry has no upload.
- `CallsReturnWhatWasPassed`: `Spec => ReturnsWhatWasPassed`. `UseInv` adds that
  what a call passes is recorded as a use of its address, and that the weights
  and the bias of an entry, and of every result so far, come from uses of the
  address. Where addresses are used again, or with several biases, the result
  may be of an older use; where they are not, it is the caller's own.
- `PackCacheType`: `Spec => []TypeOK`.

`BlockReduceProofs` (for every launch: attention with any number of threads,
rows and tiles, layer_norm with any power of two of threads). The values are
bags of contributions, so that a sum is right when nothing is in it twice and
nothing is missing, without induction over numbers.

- `BlockInvariant`: `Spec => []BlockInv`. Between two barriers the block is in one
  of five phases: loading, writing, a step of the tree, reading, done. The
  threads that have arrived at the barrier are one step ahead of the others.
  In the tree a leader holds what its group contributes (`Holds`): in attention
  a run of `s` threads, in layer_norm a residue class, and a step joins two
  groups into one (`Leader` and `Group` say which). The phase of writing is the
  racy one: threads that have not read yet meet thread 0 writing.
- `TreeAddsUp`: `Spec => []SumOrNextPartial`, `BlockReduceType`:
  `Spec => []TypeOK`.
- `BarriersAreMet`: in every state the block is done, or all threads are at
  the barrier, or one of them can go on. It states what TLC's deadlock check
  shows of the small blocks, without `ENABLED`.

`EmaProofs` (for every set of variables, warm-up and number of steps and
resumes):

- `ShadowsAverageSinceWarmup`: `Spec => []AverageSinceWarmup`. `ShadowInv` says
  which storage a shadow is a handle of: the variable's own up to the end of
  the warm-up, one of its own afterwards. That is what an in-place update of
  the optimizer does or does not reach.
- `ForwardSeesAverages`: `Spec => []EvaluatesAverages`. `SwappedIn` follows the
  variables that `swap_in` has been at one at a time.
- `EmaType`: `Spec => []TypeOK`.

`RecursionProofs` (for every list of configurations, batch size, lengths of the
parts of a sequence and limits of the solver; `RecursionInv` has a part per
loop, with the age of the values each variable was computed from):

- `PaddingIsHidden`: `Spec => []MaskHidesPadding`. The mask is written through flat
  indices; `AtIsInjective` and `DiagonalIsAt` (both from `OneQuotient`, that a
  number has one quotient and one remainder) say that no two positions share
  one, so a write for one example reaches no other.
- `AnswerIsFirstAgreed`: `Spec => []HaltsAtFirstAgreement`. `HaltInv`: before
  the cycle that halted no cycle had all examples sure.
- `BackpropIsTruncated`: `Spec => []TruncatedBackprop`. `LoopInv` says which
  cycles a value still has a gradient path to.
- `FixedPointIsAnImage`: `Spec => []DeqReturnsAnImage`. `SolverInv`: the deques
  hold the last iterates without a gap, and the state that leaves the solver is
  the image of its last iterate, never a mix of several.
- `RecursionType`: `Spec => []TypeOK`.

`BundleProofs` and `DeploymentProofs` (for every set of products, command
lines, rows, kernels, tests and failing launches). The first has the
invariants of the bundle's steps, the second the theorems about
`Deployment!Spec`. From `BundleAssumption`: what is forged is a valid
configuration with positive heads and width, the checkpoint has its tensors,
options name a known preset, there is at least one trained version and its rows
fill bytes (`IsRow`). From `DeploymentAssumption`: tests are `IsTest`.

- `PackIsLossless`: what the kernels and `unpack_ternary` decode from a packed row
  of any length that fills bytes is the rounded signs times the scale: `ReadBack`
  finds every code at its place in its byte (`ByteOfCodes`).
- `BundlesAreOneSave`: `Spec => []LoadedIsOneSave`. `ForgeInv` says that the file
  is at every time the beginning of the items of one save, `ReadInv` that what a
  process has read are the items at their places, all of the version being
  saved unless a forge emptied the file under the reader. When a reader has
  passed the header, the names it read are therefore all the tensors of that
  configuration, of the right kinds (`LayoutIs`, `NamesRead`), and `LoadedIs`
  concludes what `apply_named` leaves in every tensor.
- `LinearsServeTrainedWeights`: `Spec => []ServesTernaryWeights`. `LoadInv`: a
  linear of a model in memory has the weights of a trained version, quantized
  once or not at all (`OnceQuantized`). `--kernels` packs only a
  model in which nothing is packed yet, whose linears are therefore not quantized;
  there a second quantization could have come in.
- `BundleType`: `Spec => []TypeOK`.
- `PassesAreReference`: `Spec => []ForwardIsReference`. Every pass that ends
  has computed Candle's graph with the packed weights unpacked. `PassInv` says
  that a pass between two sublayers is a prefix of the reference, `ProcessInv`
  that a model in memory has two layers and no grouped heads; it holds because
  every configuration comes from the defaults and is validated, and without it
  the two paths would read other K/V heads. The two decoders agree
  (`DecodersAgree`), so do the head mappings (`MappingsAgree`), hence one
  sublayer is the reference's on either path (`SublayerIsReference`); a device
  error starts a new, empty prefix.
- `LoadsKeepTheModel`: `Spec => []LoadKeepsModel`. `ProcessInv` also says that a
  model from a bundle has the header's configuration, and that every tensor of
  the forged model was known to it (`apply_named`). `KnownIsSame` concludes that
  it is the same model: a mixer has tensors a transformer does not know, and
  equal shapes of the K/V weights with equal heads leave only equal K/V heads.

- `TestsAreScored`: `Spec => TwoTryScore`. An operation of the dihedral group is
  undone by its inverse at every cell of every grid (`SourceBack`), a colour
  permutation by its inverse (`PaintedBack`), so `UndoesApply`. A strict
  majority of equal votes wins every cell (`MajorityCell`), hence the whole
  vote (`VoteIs`). `ScoreInv` says that the predictions gathered so far are
  transformed answers to the current test.

Every invariant and action property of a passing run is the subject of one of
these theorems. Induction over the natural numbers, where a loop or a layout
needs it, is written with a set and its least counterexample (`WFMin`; LEMMA
`Induction` of `BundleProofs`), since the theorems of the library with an
operator parameter cannot be instantiated.

Model-checked only: the liveness properties `EveryProcessEnds`, `LoaderEnds` and
`BlockFinishes`, and the fairness of the refinement `StreamFairSpec` (its safety
part is `LoaderIsAStream`). They need `ENABLED`, which the prover cannot
reason about.

What the theorems rest on besides the assumptions of the modules is the
abstraction: rational instead of floating-point weights, bags instead of
floating-point sums, items instead of bytes.

## Not modelled

Floating-point values throughout (losses, learning rates, clipping, moments,
convergence of the DEQ solver, activations); parsing of data sets and command
lines; calls of external programs (setup, nvidia-smi, nvcc) and of the CUDA
driver except for their success or failure; the elementwise kernels, whose
threads do not interact; the search for PTX files and the launch geometry.

`AgentBatchState` (`src/memory.rs`) is called by nothing in the crate, so there
is no protocol to check it against. `sudoku_permute_pair` draws one permutation
from a fixed seed; the translation in `AugTransform` is inverted but never
applied. A server without `--model` serves random weights and is left out, and
so are two `forge` processes that write one file at the same time.
`embed_question`, the tables of puzzles and positions and the values of the
rotary cache are data.

## Left to do

1. `AgentBatchState` (`src/memory.rs`), if a caller appears that says what its
   `halted` flags mean.
2. Lemmas that would state the progress of `BlockReduce` and `DataLoader`
   without `ENABLED`: a measure that every step of a thread decreases.
3. Models read from two saves: `ReadInv` says that every item is of some
   version; a property would say where the file changes from one to the other.
