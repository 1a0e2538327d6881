# Penumbra-FHE in TLA+

Penumbra compiles a quantized network into an integer graph (the IR), checks that every
value fits the radix it will be encrypted in, and evaluates the graph on ciphertexts. What it
promises is one sentence, the *golden invariant* (`src/README.md:75`): the encrypted result equals
the result of the integer reference, bit for bit on the TFHE backend and within a tolerance on the
CKKS backend. These modules model the way from an ONNX file or a tree ensemble to a decrypted
result, and check it with TLC; the theorems are proved with TLAPS for every value of the constants.

## 1. The system

| Component | State it keeps | Operations | What makes it correct |
|---|---|---|---|
| **ONNX loader** `python/penumbra/onnx_loader.py`, `op_registry.py` | while loading: the layers so far, `produced` (what stands for a tensor), the effective output | opset, attribute and reachability checks; one lowering, fold or drop per node | what loads computes what the ONNX graph computes; the rest is refused |
| **Tree adapters** `adapters/trees.py` | none | `_build_tree_graph` | oblivious evaluation selects the leaf each tree would |
| **Quantization service** `quantization/ptq.py`, `spec.py`, `lut.py`, `calibration.py` | an observer's range | specs, effective bias, multiplier search, affine tables | every rounding is bounded; no scale or zero point is lost |
| **Model facade** `model.py`, `layers.py` | during `quantize`: scale, zero point, length and integer tensor of every float tensor | calibration, scale classes, the lowering loop, probe and sized compilation | every integer layer computes what the float layer does, up to its own roundings |
| **Requant insertion** `compile.py` | the node list being rebuilt, `running_widths`, `rewire` | `insert_requants` | every lookup gets a narrow operand; idempotent |
| **Bit-plan search** `quantization/minimize.py` | the plan, its score, its trace | coordinate descent | no accepted plan misses the target; ends; ends at a local minimum |
| **Topological sort** `penumbra-core/src/ir.rs`, copy in `python/penumbra/ir.py` | during a call: `in_deps`, the ready set, the order | two validation loops, Kahn's loop, cycle report | every node once and after its producers; stable; the error names the right nodes; it returns |
| **IR validation and widths** `ir.rs`, `bitwidth.rs` (copy: `python/penumbra/bitwidth.py`) | none | `validate`, `output_bits`, `internal_bits`, `propagate_bit_widths`, budget checks, `minimal_num_blocks` | a derived width never under-counts; an admitted graph does not overflow |
| **Integer reference** `python/penumbra/reference.py` | an environment of integer tensors | `evaluate_graph_int` | it is the oracle |
| **Fusion** `penumbra-core/src/optimize.rs` | the node list being rewritten | `step_fuse` to a fixed point | no value changes, no reader left behind, it terminates |
| **Graph evaluation** `penumbra-core/src/eval.rs`, `penumbra-py/src/session.rs` | environments of ciphertexts and widths, remaining order | budget check, fuse, sort, walk, collect, decrypt | golden invariant; errors are loud |
| **TFHE ops** `penumbra-tfhe/src/ops`, `width.rs` | radix ciphertexts, each with its own number of blocks | ten ops, trimming and sign extension | same value as the oracle at the blocks the widths give |
| **CKKS backend** `penumbra-ckks` | packed ciphertexts with the levels they have left | budget check, packed linear maps, fitted polynomials | within tolerance; an admitted model does not run out of levels; every rotation has its key |
| **Key persistence and client/server split** `client.py`, `penumbra-py/src/lib.rs`, `penumbra-tfhe/src/keys.rs` | key directories (two files each), handles in client processes | `generate`, `save`, `load`, `run_encrypted` | both halves of one key pair; mismatches are loud |
| **Command line** `runtime/src/bin` | key files, `in.cts`, `out.cts` | `keygen`, `encrypt`, `serve`, `decrypt`, `predict`, a process each | what `decrypt` prints answers what `encrypt` was asked |
| Profiling, benchmarks, test helpers | counters, files, tables | measurement, I/O, reports | |

How they interact. `load_onnx` or a tree adapter yields float layers; `Model.quantize` calibrates them,
lowers them to integer layers and calls `insert_requants` twice, on a roomy radix and on the radix
sized from that result (the bit-plan search calls all of it again per candidate). `run_predict` (the bridge)
checks the widths of a loaded graph, encrypts the row and calls `evaluate_graph`, which calls
`optimize_graph`, which calls `topological_order` and `propagate_bit_widths`; the walk calls one op of the
backend per node. `run_encrypted` in Python does the same with keys read from a directory that any number
of processes may use; the commands of `runtime/src/bin` spread the same call over three processes that share
nothing but files. Nothing in the Rust core is concurrent by itself; the bridge releases the
GIL, so two evaluations may overlap, but they share only a counter of bootstraps. The concurrency and
the crashes that matter are those of the files: key directories and batches of ciphertexts.

Hard behaviours, each listed with its line in `PROJECT.json`: order of emission and cycles in the
sort; one-bit errors in growth rules, sign handling and trims; transients of a rescale; chains of
rewrites that enable one another; scales and zero points decided far from where they are used; folds
into a layer that something else may read; padding of packed slots and levels that run out; a search
that must survive candidates that fail; key files of two pairs in one directory, after a crash or
when two processes overlap; handles older than the files they name; batches of ciphertexts tied to their question by
a file name alone.

## 2. Modules

| Module | Models | State and actions |
|---|---|---|
| `OnnxGraph` | external: what the ONNX operators compute, on small tensors | operators |
| `OnnxLoader` | `load_onnx` | `layers`, `produced` and `effective` are `layer_nodes`, `produced` and `effective_output`, `todo` the rest of the sorted nodes; `CheckOpset`, `CheckNodes`, `CheckEnds`, then one action per kind of node: `DropTail`, `FoldShape`, `FoldBias`, `FoldBatchNorm`, `MergeAdd`, `MergeConcat`, `LowerSplit`, `LowerConv`, `LowerLinear`, `LowerActivation`, `LowerPool`; `Return` |
| `Quant` | the quantization service on exact fractions: scales, codes, effective bias, `choose_requant_params`, affine tables | operators |
| `FloatModel` | `layers.py` on floats, calibration, merge scale classes | operators |
| `ModelQuantize` | `Model.quantize`: a fold of `Emit` over the layers, whose result is a case of `RequantInsertion` | operators; the behaviours are those of `RequantInsertion` |
| `QuantizationError` | the number behind each code and the error a layer may add; `TracksFloat`, `LabelsAgree` | properties |
| `RequantInsertion` | `insert_requants` as `model.py` drives it: on a roomy radix (`probe`), on the radix sized from that result (`sized`), and on its own result (`again`) | `source`, `built`, `widths`, `rewire` are `graph`, `new_nodes`, `running_widths`, `rewire`, `todo` the rest of the sorted nodes; `Begin`, a turn of the loop (`Keep`, `Insert` or `Refuse`), `Return` (the closing budget check), `NextCall` |
| `Descent` | abstract: a search that takes one bit at a time, never loses more than the tolerance in all, never grows the radix (`Descends`), and ends (`Spec`) | `base`, `best`, `over` |
| `Minimize` | `minimize_bit_widths` | the locals of the function; `Baseline`, `Propose` (build, score, take or turn down), `SkipCoordinate` (at its floor), `NextRound`, `RefuseKnob` |
| `Trees`, `TreeEval` | `_build_tree_graph`; its models evaluated by `GraphEval` | operators; `EnsembleVotes` |
| `Dataflow` | abstract: a node fires once, after the nodes it depends on | `fired`; `Fire(i)` |
| `TopoOrder` | `topological_order`, Rust and Python | `phase`, `inDeps`, `ready`, `order`, `blame` are the function's locals and its return; `CheckInputs`, `CheckOutputs`, `BuildDeps`, `Emit(i)` (one turn of the `while`), `Return` |
| `Shapes` | where a kernel or a pooling window reaches: the runtime's flat output index, the oracle's nested loops | operators |
| `BitWidth` | growth rules, transient of a rescale, blocks per tensor, `validate` | operators |
| `Ops` | the ten ops: `RefEval` on integers, `TfheEval` on ciphertexts `[blocks, v]` | operators; every intermediate is wrapped to the blocks the code runs it at |
| `OpTraits` | the TFHE ops' own declarations (`Op::output_bits`, `internal_bits_n`, `cost`, `mac_count`), in loops of their own beside those they evaluate with, and the primitives an evaluation invokes (`mac.rs`: a shifted copy per set bit of a weight, no multiplication); `DeclaredAsEvaluated` | operators |
| `Fusion` | `optimize.rs`: `Adjacent`, rules R1-R3, choice of the first pair | operators |
| `GraphWalk` | what a whole graph means: the stable order, the derived widths, both budget checks, the oracle's environment | operators |
| `GraphEval` | one row of `run_predict` on TFHE | `Admit` (checks and encryption), `FuseStep` (one rewriting turn), `StartWalk` (last turn, width propagation, sort), `EvalNode` (one node of the walk, or the error it ends with), `Finish` (collect and decrypt) |
| `SlotMatrix`, `PolyFit` | the packed linear maps and the fitted polynomials of the CKKS ops | operators |
| `CkksEval` | one row of `run_predict` on CKKS | `Admit` (depth budget, encryption), `Optimize`, `EvalNode` (a fit of any depth and error, or no level left), `Finish` |
| `KeyStore` | key directories and `KeySet` / `run_encrypted` of several processes | `Generate`, `Save`, `Open`, `Fill`, `Load`, `Run`, `Return`, `Crash`: one action per file operation |
| `Commands` | the commands `keygen`, `encrypt`, `serve`, `decrypt`, `predict`, run by shells over the directories of `KeyStore`, beside its Python clients | `wire` is `in.cts` and `out.cts`, `cmd` what a shell runs, `printed` what `decrypt` or `predict` printed; `Keygen` (as `Generate`), `Encrypt`, `Serve` and `Decrypt` (each up to its read of a key), `Evaluate` (the read of `in.cts` and the walk), `OpenWire`, `FillWire`, `Report`, `Predict`, `Kill` |
| `MCModels`, `MC...` | small models and values of the constants for TLC | |
| `ListLemmas` | the least element of a set of naturals, induction over a finite set, powers of two, sums over finite sets, typing of a concatenation | lemmas |
| `WalkProofs` | the stable order of a node list, what one fusion does to it and to its tables, and op by op that a derived width holds what the op computes | lemmas |
| `TopoOrderProofs`, `GraphEvalProofs`, `RequantInsertionProofs`, `MinimizeProofs`, `KeyStoreProofs`, `CkksProofs` | the theorems about the module each is named for | theorems |

What composes what: `ModelQuantize` extends `FloatModel` and `RequantInsertion`, so that one behaviour
calibrates, lowers and compiles twice; `TreeEval` and `GraphEval` share the walk; `CkksEval` runs the
same graphs, fusion and order as `GraphEval` over other ops; `GraphWalk`, `BitWidth` and `Ops` are the
integer semantics all of them are compared with.

Definitions carry the names of the code. Definitions marked *seeded fault* are not part of a
specification: each is a plausible wrong version of the definition it precedes, and shows that the
property it is paired with in `PROJECT.json` notices the fault.

Abstractions, and why they lose nothing the properties tell apart:

- A tensor name is a model value or a short string; a graph lists what each node reads and writes.
- A layer is named by the tensor it writes: calibration, keyed by layer name in the code, is keyed
  by tensor here. `Rq(t)` is the tensor called `t` followed by `__rq`; a graph may already use it.
- `Linear` carries its weight rows; `Conv2d` and `Pool` carry their geometry, and the runtime's index
  arithmetic and the oracle's loops are translated separately, so that they are compared.
- A TFHE ciphertext is the signed value its blocks hold. Carries, noise and the bootstrap itself are
  tfhe-rs; `Lookup` keeps what the code relies on, that it reads and fills the low block only.
- Floats are fractions in lowest terms. Ties and logarithms are thus decided exactly, where the code
  rounds float64 results; the models' numbers are small enough for float64 to agree.
- The float functions are a ReLU, a leaky ReLU and a clipped one: one per way `quantize` treats an
  activation (fused, with a floor below zero, with an affine table that saturates).
- A CKKS slot is a fixed-point number in units of `1/Unit`, or `Unknown`. A minimax fit is *any*
  function within `FitError` of its target inside its interval and `Unknown` outside and in the
  padding; noise of the scheme is below the grain. Levels count multiplications by a plaintext mask
  or matrix and the depth of a fit, as the crate charges them.
- Integers are unbounded where Rust uses `i64`/`u64`; the hazard that needs 64 bits is listed
  as not covered.
- `RefEval` applies the table of a `Requant`, `reference.py` the clamp alone. They agree on every model
  that comes from the compiler, whose tables are the identity; a fused table exists inside the
  evaluator only, and the comparison `FusionExact` makes needs its meaning.
- In `Minimize` building and scoring a plan is the caller's function: any outcome, the same for the
  same plan, failures included.
- An ONNX tensor is its dimensions and its values; shape inference is what evaluating the operators on
  one row gives, with the batch symbolic. Attributes the registry pins to one value (dilations,
  `transA`, `ceil_mode`, `auto_pad`, ...) are left at it, except for `group`, `alpha`, pads, strides and
  axes, which are the ones the lowering reads.
- In `KeyStore` a file that was opened for writing and not filled is `Torn`: no reader can decode
  its header. The fill of one file is one step. A process holds one handle. Key profiles are left out.

## 3. What TLC checks

| Run | Question | Bounds, and why they are enough |
|---|---|---|
| `TopoOrder_graphs` | Are the validation loops exact, and is the sort sound, exact about cycles, stable, an implementation of `Dataflow`, and does it return? | every dependency relation on up to 3 nodes, self-dependencies included, and every one without them on 4: every cycle shape (self, two, three, a tail behind a cycle) and every way a release can overtake a waiting node needs at most 4. For the validation loops: 3 nodes with every mixture of undefined reads, overwritten inputs, and duplicates between nodes and inside one node |
| `GraphEval` | Do derived widths bound values, do per-tensor blocks lose nothing, is one spare bit per tensor (and one for a zero point) enough for the golden invariant, does fusing preserve every value and keep the graph walkable, does an op have the widths it declares, and does it count the primitives, weights and taps it evaluates, does an ensemble return the leaf each tree reaches? | every op of the IR after every op at 2 and 3 blocks, every 2-bit row of 2 values; chains of three whose second op widens what a narrowing op then reads; chains of three lookups behind a weighted sum in four orders of the node list (three is the least number where one rewrite enables another), forks that make one pair not fusable, nodes reading themselves; ensembles of two trees out of five shapes (a stump, one whose threshold has to be clipped, one feature asked twice, leaves of three depths, a lone leaf) of both libraries |
| `GraphEval_boundary` | Does the golden invariant hold when a width fills the radix? | **violated**: finding 1 |
| `RequantInsertion` | Does every reader that needs a narrow value get one, is nothing but the inserted nodes changed, do running widths agree with the propagated ones, does a fallback shift never clip, is a second pass the identity, is the sized radix the least that works, does each lane take its own channel's entry, and (`TracksFloat`) does every layer `quantize` emits compute what the float layer does? | every wiring of three ops (`Linear` of either sign, `Requant`, `Add`, `Argmax`, `Activation`), in two list orders, with two sets of outputs, at 3 and at 64 blocks: the least graphs with a reader before, at and after an inserted node; two layers and a table under every mixture of calibration entries, the invalid ones included; a convolution of two channels with and without padding and stride; a name collision, an undefined read, a cycle; and float models: two layers around each kind of activation at two widths of weights, activations and multipliers, per tensor and per channel; convolutions before pools and convolutions, skips, halves of a split merged again |
| `ModelQuantize_labels` | Is the largest decrypted logit the float layer's label? | **violated**: finding 4 |
| `Minimize` | Is the search a `Descent`, and is it at a local minimum when it stops by itself? | all knobs over two rounds, two layers over three, reordered and repeated knobs, an unknown one, no round at all; every answer of two radix sizes and three accuracies, or a failure, to every build. A second round and a refusal that a later acceptance makes stale need no more |
| `CkksEval` | Are results within what the operands' errors and the fits add up to, do they decrypt to the reference's, do levels suffice, has each rotation its key? | every op after every op and chains of three, packed into 4 slots with giant steps of 2, 8 levels, fits of the least and of the largest degree, each slot a grain above or below; a table of two entries that fusion replaces by one of four; maps that exceed the slots, values off the fitted interval, unsupported ops. 4 slots leave padding behind every shorter tensor and wrap every diagonal |
| `CkksEval_budget` | Is a fit's depth at most what the budget check charged? | **violated**: finding 5 |
| `OnnxLoader` | Does every model that loads compute what its ONNX graph computes, and does no name stand for a layer that is not there? | a convolution or a dense layer and every sequence of up to three more nodes, each reading any earlier tensor, which is the least that lets a fold, another reader and a merge meet; splits by attribute, by constant and equally, on either axis spelling, pools with and without padding, transposes that move something and that do not, tails at and before the output, and every reason to refuse |
| `OnnxLoader_forks` | Is a fold into an accumulator that has another reader refused? | **violated**: finding 6 |
| `KeyStore` | One client: is every result right and every directory a pair? Two processes, Python clients or shells running commands, and one killed: when exactly is a result right, and when a printed answer? | 2 directories, 2 pairs, both backends, one box of wire files, 2 batches of rows; two directories are enough to copy and copy back, two pairs to mix, two batches to answer the wrong one, and one process killed leaves every partial state there is |
| `KeyStore_width` | Is a width mismatch always loud? | **violated**: finding 3 |

The multipliers, biases and tables of the small models are chosen at an edge each: a table entry equal
to the largest, a rounding term, a floor below zero with an offset, a channel list, a bias wider than
the weighted sum, a scale that is not a power of two.

`TracksFloat` compares layer by layer: the numbers behind the codes a layer reads go through the *float*
layer, and the numbers behind the codes it writes must be within the roundings of that one layer (its
weights, half a step of its bias, what multiplier and shift are off their ratio, half a step of the
result), inside the range the rescale saturates at. An end-to-end bound would be so wide on two-bit
values that a lost zero point fits into it. It speaks of the layers whose scales mean what `quantize`
takes them for (`Supported`); the layers left out are listed below.

**Fairness.** `TopoOrder!Spec` and `Minimize!Spec` have `WF_vars(Next)`: each is one straight-line call on one
thread, and nothing else can stop it, given that a caller's build returns or raises. The other
specifications state no fairness. `GraphEval`, `RequantInsertion`, `CkksEval` and `OnnxLoader` are checked for deadlock instead: the only
state allowed to repeat is a returned call, and each loop consumes a counter or a list, so a call
that neither returns nor has a next step would be reported. In `Commands` and `KeyStore`, where a process may be killed and the
numbers of pairs and batches are bounded, and in `TopoOrder`, a returned call has no successor, so deadlock is not
checked there.

### Findings

1. *A width equal to the capacity is admitted, and wraps* (`GraphEval_boundary`).
   `check_graph_bit_width_budget` compares widths, which bound magnitudes, with the radix capacity, which
   includes the sign. Two chained `Add`s of 2-bit values at two blocks have width 4 = capacity; 12
   decrypts to -4. The size is not exotic: `minimal_num_blocks` (`src/python/penumbra/bitwidth.py:268`)
   returns the least radix the check admits, which for that graph is these two blocks.
   `GoldenWithSpareBit` shows what is enough (`SignedBudgetOK`): every width at least one less than the capacity, so an
   `Add` of width 3 at two blocks is exact, with a rescale given its operand's width and sign. A rescale that
   adds a zero point takes one bit more: behind that `Add`, a floor of -2 with zero point 2 turns the sum 6 into 8,
   which wraps at two blocks.
   Both it and `Lossless` speak of `Calibrated` rescales: see below.
2. *The two budget checks differ.* The compiler's refuses an `Activation` on a tensor wider than one block
   (`bitwidth.py:252`); the runtime's, of which it calls itself a mirror, does not. `LookupsInDomain` rests
   on the compiler's, and a mutant that drops the test breaks it.
3. *A width mismatch can be silent* (`KeyStore_width`). `run_encrypted` compares the model with the
   handle, and `evaluate` with the server key; the width in the client key actually read is discarded.
4. *Labels of a per-channel head* (`ModelQuantize_labels`). With `per_channel=True` each row of the last layer has
   a scale of its own, no `Requant` follows, and `_decode` takes the largest raw integer.
5. *Argmax is charged too little* (`CkksEval_budget`). The budget charges a polynomial of degree 7, the
   op is fitted with up to `max_poly_degree`. `LevelsSuffice` says in which other two ways an admitted model runs out of levels;
   `LevelsAreEnough` proves that there is no fourth.
6. *A fold through an alias* (`OnnxLoader_forks`). `_fold_into_producer` counts the readers of the tensor's own
   name. Behind a `Reshape`, `Flatten`, `Transpose` or `Cast` the accumulator has two names, and a reader of the
   other one has the constant added to its operand without an error.

Also met while modelling; the models contain the behaviour, no run is devoted to it, and the
property says where it does not speak:

- fusion comes after the depth check and can make a graph deeper, although `optimize_graph` says that it
  "reduces polynomial evaluations (and therefore depth) under CKKS" (`optimize.rs:23`). The table of a fused `Requant` has an entry per
  value of a block; an `Activation` with a shorter one, behind a `Requant` whose clamp is the identity and was charged nothing, was charged
  a level less. In the model `ShortTable` four ops that fill the eight levels need nine once fused, and the call ends half way. The compiler never
  makes such a table (`lut.py:57`), the core accepts it. With `max_poly_degree = 1` two rescales with identity clamps do
  the same. `LevelsSuffice` names both;

- some counters are no "primitive invocations", as `docs/BACKENDS.md:152` and `:153` call `scalar_mul` and `scalar_add`.
  `Linear` and `Conv2d` declare one of each per distinct weight and per output, and `evaluate_weighted_mac` invokes neither: it copies a
  group's sum by block shifts, once per set bit of the weight, and adds the copies (`mac.rs:78`), with a trivial radix for a nonzero bias.
  What the figures do say is in `DeclaredAsEvaluated`: they count the weights and the taps of the evaluation, and are
  lower bounds of its shifted copies and its additions. The `scalar_add` a `Requant` declares counts its rounding terms and not the
  additions of its zero point (`requant.rs:283`, `:219`), which the property adds;

- `decrypt` prints whatever `out.cts` holds, if it decodes: after a `serve` that failed it is the answer to an earlier batch,
  with exit status 0. `RightAnswer` therefore needs a `serve` that was started on the complete `in.cts`
  and filled `out.cts`;

- a fold into the very last node leaves the graph's output name to no layer, and the model fails
  later with a `KeyError` (`onnx_loader.py:771`; `FoldedOutput`); a vector added along the width of a map
  with as many columns as channels is folded as a bias per channel (`:755`; `WidthwiseFold`); a product of two
  activations raises a raw `KeyError` (`:633`);
- the blocks a rescale runs at (`requant.rs:181`) have room for the product and for its shifted value, not for the
  zero point added last: floor -31, zero point 31 and a product of 31 reach 62 at blocks that hold 31, and wrap. The budget
  check leaves the zero point out as well. Calibration never chooses such a pair: a zero point other than 0 lifts the image of the
  floor to 0 (`model.py:630`), so the sum stays within what the shifted value needs. `Calibrated` says so of the graph, and
  a hand-written graph need not have it;
- a merge takes a `Split` as operand without asking which scale is behind it (`model.py:366`); a layer read by
  another with no activation between gets a fallback shift its reader's scale knows nothing of
  (`compile.py:272`); a padded convolution behind a zero point that is not 0 is off at its border
  (`ptq.py:152`); channels of different units behind a signed rescale share one floor (`model.py:606`).

## 4. What is proved

Every theorem is about the specification TLC checks, for every value of its constants. The assumptions
on constants are the named `ASSUME`s; TLC evaluates each on the constants of the runs.

| Module | Theorem | States | Assumes of the constants |
|---|---|---|---|
| `TopoOrderProofs` | `TypeCorrect`, `OrderIsSound`, `LoopIsConsistent`, `CycleVerdictExact`, `SortIsStable`, `NamesAreResolved`, `SortImplementsDataflow` | each invariant of `TopoOrder`, and the refinement of `Dataflow` | a node reads a set of names and writes a list of names |
| `GraphEvalProofs` | `FusionIsSound`, `WidthsAreSound`, `FusingIsExact`, `BlocksAreEnough`, `SpareBitMakesGolden`, `CiphertextsAreWhole` | `FusionKeepsSound`: the fusion loop ends below its cap, and what it leaves can be sorted and its widths propagated, and the walk finds every operand; `WidthSound`: a derived width holds the value the oracle has for that tensor; `FusionExact`: a rewrite changes no value still in the graph; `Lossless`: the blocks a tensor's own width calls for lose nothing a uniform radix would have held; `GoldenWithSpareBit`: where each tensor leaves one bit for its sign, and a rescale one for a zero point, no wrong result is returned; `TypeOK` | a node list is a list of nodes with an op, inputs and outputs, and every op keeps to what it declares (`Declared`) |
| `RequantInsertionProofs` | `ReturnsNarrowed`, `SecondRunChangesNothing`, `RunningWidthsAgree`, `TypeCorrect`, `TablesAreSafe`, `FallbackIsExact`, `OnlySplices`, `ChannelsHaveTheirLanes`, `SizesExactly`, `FitsWithRequants` | `Narrowed`; `Idempotent`; `WidthsAgree`; `TypeOK`; `LookupsInDomain`: no `Activation` of a returned graph reads a value its table lacks; `FallbackNeverClips`: an inserted `Requant` nobody calibrated cuts nothing off; `SplicedOnly`: a returned graph is its argument with `Requant`s among the nodes; `LanesOfChannels`: each value is rescaled with its own channel's entry; `SizedExactly`: the radix sized on the probe's result is admitted, and the least; `FitsStill`: a graph that fits does so with its `Requant`s in it | the same, of each compiled graph; of the calibration only that its entries are of the kinds `RequantSpec` can hold |
| `MinimizeProofs` | `TypeCorrect`, `StopsAtLocalMinimum`, `SearchDescends` | `TypeOK`; `LocalMinimum`; `Spec => Search!Descends`, the safety part of `ImplementsDescent` | knobs, floors and answers have their types |
| `KeyStoreProofs` | `TypeCorrect`, `UndisturbedIsRight`, `LoneClientIsRight`, `LoneDirectoriesArePairs`, `CommandsAreClients`, `CommandTypesCorrect`, `AnswerIsRight` | each invariant of `KeyStore` but the refuted one; `CmdSpec => Spec`, so that those hold beside a command line; `CmdTypeOK`; `RightAnswer`: an undisturbed round trip of commands prints the answer to its own rows | the constants' kinds are disjoint |
| `CkksProofs` | `KeysSuffice`, `LevelsAreEnough`, `SpentWithinBudget` | `RotationsHaveKeys`; `LevelsSuffice`: an admitted model does not run out of levels, the three exceptions apart; outside of them `RealizedWithinBudgeted` holds | the giant step divides the number of slots; every op keeps to what it declares |

**The sort.** `OrderSound` is not inductive: that the emitted node has all its producers out is
known only because it is in `ready`, so it is proved together with `LoopInv` (`Core` ==
`TypeOK /\ OrderSound /\ LoopInv`); `EmittedClosed`, that the emitted set is closed under `Deps`,
carries the step. `NoneOfACycle` (no emitted node belongs to a set whose members wait for each other)
is a second invariant: the first member to be emitted would have needed another one. `Returned`
records what `Return` saw, and `Pigeonhole` turns "as many emitted as nodes" into "all emitted".
`Least` says that the emitted prefix is no later, in dictionary order, than any topological order;
the step uses that the first node outside the prefix of a competitor is ready, so its index is at
least the one chosen. The refinement maps `fired` to `Emitted`; every action but `Emit` stutters.
`NamesResolved` needs that a list of all written names is free of repetitions exactly when no node
repeats one and no two share one; it is proved by induction over the set of nodes.

**The walk of a list.** `GraphWalk!StableOrder` is a recursive function of the number of turns.
`OrderUnfolds` derives its equations, and `OrderIsSound` that it lists ready nodes without
repetition (`Ready` at each turn), so that it is a permutation when it is as long as the list; `ListedOrder`
says that a list in which every node reads inputs and earlier outputs is ordered as it stands.

**Fusion.** The strengthening (`FuseInv`, `WalkInv`) counts nodes: each turn takes one away, so the
number of turns plus the number of nodes stays that of the model. The step is `FuseKeepsSortable`: a fused list
is again sortable. Its proof gives an order of the new list (the old order without the consumer, with the
producer in the consumer's place: nobody reads the producer's output but the consumer, so it may wait) and
`FullWhenInjective` that a list which can be ordered at all is ordered fully by the stable sort.

**Widths.** `WidthSound` compares the walk's `bits` with the forward pass of the *loaded* graph, while the
walk is over the *fused* one. `WidthInv` bridges the two: the oracle's environment `Ref` is, for every node
now in the list, what that node's op computes from its operands (`Holds`), every op keeps to `Declared`,
and each width derived so far holds the oracle's value (`Wide`). Three lemmas carry it. `RefHolds`: the
environment the oracle builds node by node satisfies `Holds` when the list is sortable, because a name is
bound once, after the names it is computed from (`RefUnfolds` gives the recursion's equations, and
`HeldMore` that a later binding disturbs none before). `FuseHolds`: rewriting a pair keeps `Holds`, since the fused
table is the composition of the two (`FusedEval`) and the tensor that disappears has no other reader.
`OpFits`: for each op, operands below `2^b[k]` give outputs below `2^OutputBits(op, b)`; it is one lemma per op
(`LinearFits`, `ConvFits`, `PoolFits`, `TableFits`, `AddFits`, `CompareFits`, `ConcatFits`, `SplitFits`) over
`SumBound` (a sum of at most `n` terms within `p` is within `n * p`), `CeilLog2Holds` and `BiasedSumFits`. `Declared`
is what the compiler's graphs keep to: the fields have the types of `OpSpec`, `QuantSpec.quantize` clips weights to
`bits` bits, and a table's entries fit its `output_bits`. It does not hold of every graph that loads: `Op::output_bits`
asserts the range of a table, but neither the budget check nor the evaluation calls it, both taking a table's declared
width as it stands (`bitwidth.rs:83`). Nothing is assumed of biases (their
magnitude is part of the rule), of shapes beyond `validate`, or of the row beyond the declared input width.

**Exactness of fusion.** `FusionExact` compares the forward pass of the loaded graph with that of the fused list,
both with partial tables in them, so a node may have no value. The forward pass of a list is the only environment over
its inputs that satisfies `Holds` and leaves out nothing a node could compute (`Full`): `SameValues`, by
induction along an order in which every operand comes first. `RefHolds` and `RefFull` say that the
oracle builds such an environment. `FuseHolds` and `FuseFull` say that the old one is also one of the new list:
the fused table is defined exactly where both lookups were (`FusedDefined`), with the value of the
two in turn (`FusedEval`). So the two agree on every tensor the new list writes, and the returned outputs are among
them (`FuseWrites`).

**Blocks.** A ciphertext is a residue modulo four to the number of its blocks. `Carries(cts, x, b, nb)` says
that the ciphertexts `cts` hold the integers `x`, each in its blocks, and that they have at least the blocks the width
`b` calls for, sign included. One lemma per op (`LinearCarries`, `ConvCarries`, `PoolCarries`, `RequantCarries`,
`ActivationCarries`, `AddCarries`, `ArgmaxCarries`, `CompareCarries`, `ConcatCarries`, `SplitCarries`) says
that the TFHE kernel takes carried operands to carried results when the results fit the radix, whatever the kernel does with
them on the way. What the kernels compute on the way need not fit: a sum of inputs of one weight is taken modulo the
accumulator's blocks, an addend is trimmed before it is extended again. `Congruent` is what the intermediates keep,
and only the end has to be in range (`CtsCarry`, `WrapExact`). `GroupsAre` is the regrouping of an
accumulator: the sum over the lists of inputs of equal weight, plus the bias, is the dot product. `Requant`
does need its intermediates: `RescaleFits` bounds them by the blocks `RescaleBlocks` takes and `LaneIsRamp` is the equality
with the oracle's ramp. `CarryInv` says that every tensor walked carries the oracle's value of its name; the step
is `EvalCarries`. The calibration of the graph at hand and the range of the forward pass survive a fusion (`FuseRescales`,
`RangeSame`), as hypotheses of `Lossless` must. `SpareBitIsEnough` gives those hypotheses from the
budget check when it counts signs: `SignedBudgetOK` bounds widths and transients, `OpFits` values.

`TypeInv` needs none of this: whatever wraps on the way, each op cuts its results to the blocks their width calls for
(`OpMade`), so an encrypted value never exceeds its blocks even where it is the wrong one. It also counts the
nodes a fusion takes away, which bounds `fused`.

**Requant insertion.** `Narrowed` speaks of the returned list and `Idempotent` of the next call on it; neither
is inductive. `LoopInv` relates the list being built to the source at every turn: every node had its
turn is in it with its operands rewired (`Copied`), every operand is an input or an earlier output
(`ReadsBack`, so the result is in stable order already), what is rewired is a narrow-read, unreturned accumulator
output with its `Requant` in the list (`RewireInv`), an accumulator not rewired did not need it
(`AccumulatorsSeen`), and a reader of a rewired tensor in the list is wide or came before (`ReadsKnown`,
`WideReadersEarly`). `Settled` is what the second call needs of its argument: in order, admitted
and with no accumulator left to narrow, so the loop copies it node by node.
`WidthsAgree` compares a map that is extended turn by turn with one computed afresh. `Consistent` says what makes
the two equal: every node reads inputs and outputs of earlier nodes, nobody writes a name twice, and every
output has the width its op computes from its operands' (`Sized`). `ConsistentMore` is the step for one node more and
`ConsistentWidths` that only the recursion's result has this property. A turn appends one node or two
(`Widening`), under names nobody has (`CurrentIsNew`): that needs the stable order of the source, in which no node comes twice, and that
no narrowed tensor takes the name of an input or an output, which is the precondition `FreshNames` of the property.

`Typing` gives every op of the list its types (`RequantDeclared` for the inserted ones: a default for each entry the
calibration lacks, a clamp table of at most two bits) and every tensor at hand a width. For the two theorems about values, the
invariants of the loop are carried past `Return`, whose closing check is what a returned graph has in addition: the check admits an
`Activation` on at most two bits (`bitwidth.py:252`), `ReturnedHolds` puts the oracle's values of the returned list within its widths,
and a value of at most two bits is never negative (`Unsigned` of `WalkProofs`, op by op): only accumulators have signed outputs, and
their rule gives two bits to nothing but a sum of zeros. `Fallbacks` says of every inserted `Requant` without a calibration that it shifts by
what its operand's width exceeds `outBits` by, for the width at hand *now*: `WidenedKeeps` is that a width once given stays. It
needs that no tensor takes an inserted name, which a returned list grants (`ReturnedFresh`).

`SplicedOnly` and `LanesOfChannels` come from one invariant. `LayoutInv` says that there is a place in the list for
every turn so far, the places rising with the turns and between them inserted nodes alone: at a turn's place stands its node,
rewired, and every other node narrows a tensor that was rewired. So a place's `Rank` among the kept nodes is its turn,
and a `Requant` with lanes is either one of the argument's or was made for the layer before it (`OnlySplices`,
`ChannelsHaveTheirLanes`). Lanes are carried from call to call: the second starts from the layers, the third from a list whose lanes fit.

`SizedExactly` compares two calls. Each turn is a function of the layers and of what is built, known and rewired so far (`After`);
the radix enters only through `Overflows`. `History` is the list of states such turns make: as long as both calls proceed, they are
in the same (`HistoryMore`). What the first call returned is therefore what the second is about to build (`Sizing`), and
the radix was sized on it: a width at a turn is a width of the result (`TurnPeaks`), so none overflows, a calibration found
valid is found valid again, and the closing check compares the widths and transients that were counted (`SizedFits`). `Fitting` is what
`MinimalBlocks` guarantees and one block less does not.

`FitsStill` compares the running widths with those of the argument, tensor by tensor (`Shrunk`). Every growth rule and every
rescale's transient is monotone in its operands' widths (`OutputBitsMonotone`, `InternalMonotone`), and a rewired operand reads
`outBits` bits, no more than what a table takes, where the argument's list had an accumulator; so each node takes no more
than it did before (`CurrentFits`). An inserted `Requant` with shifts at most multiplies by one and so takes no more than its input
(`DefaultRequant`). That is the first call (`FitInv`); the second has the radix sized on the first's result (`Sizing`), and
the third starts from a list that fits and inserts nothing.

**The search.** `SearchInv` says that no width of the kept plan is below its least unless it began there (`BestInv`), that
the kept plan is the last entry of the trace that was taken (`TraceInv`), and that, as long as the current round takes
nothing, every coordinate it has passed was turned down for the plan still kept (`RoundInv`); from the last, a round
without improvement is a local minimum, and from the second, the baseline is the trace's first entry.

**Keys.** The history variable `steady` marks a directory a writer filled undisturbed. `KeyInv` says that a steady
directory holds one pair and has no writer (`SteadyInv`), and the like of what a writer has written so far (`WriterInv`), and of the halves a
reader has read (`ReaderInv`); `LoneInv` adds what a single client knows. The steps are split by
operation: a write elsewhere, the middle and the last file of a pair, a read.

**Commands.** `CommandsAreClients` is a refinement by omission: every command step is a step of `KeyStore`, or leaves its variables alone.
`RightAnswer` speaks of one moment, the print, and four files written before it. The history variable `trip` follows a request from
`encrypt` on: which directory and box it goes by, and whether its `in.cts` is complete and its `out.cts` filled. A key written to that
directory, and a wire file written to that box except for this request, ends the trip. `TripInv` says what a trip still on vouches for: its directory is
steady, so it holds one pair; `in.cts`, once sent, is the batch under that pair; a `serve` that began on it carries that pair's server
key to its end; `out.cts`, once served, is that batch under that key; and the shell that is to print has read that pair's client
key, since a change of the directory between its two reads would have ended the trip. The reader's first read comes from `SteadyInv`.

**Levels.** What the walk of CKKS spends on a tensor is compared with `Depths`, which the budget check computes over the *loaded* graph,
though the walk is over the *fused* one. `Paid(n, d)` says that the outputs of a node are deeper than its operands by its charge, and
`Affordable` that a whole list has paid, in a form a fusion keeps: `FusePays` shows that a fused node costs no more than the
two it replaces, rule by rule, under the depths of the loaded graph, which need not be computed again. That is where the exceptions come
from: the table rule R1 fuses has an entry per value of a block, so a shorter one in front of it was charged less, and at degree one
two identities were charged as much as the one rescale behind them. `OpSpends` bounds what each op spends by its charge, for every degree
and every depth a fit may have, and `EvalSpends` carries the bound along the walk (`AllSpent`, `Rest`: a node's operands are
at hand when its turn comes). So a walk that stops for want of levels would have a tensor deeper than `Refused` lets pass.

**Only model-checked.** Liveness (`Terminates`, and `<>over` of `Descent`). What a fold computes for every list is
induction over data: `EnsembleVotes`, the quantizer's `TracksFloat`, the loader's `Faithful`. The CKKS tolerances are
arithmetic on fractions of the fixed point, with products of variables. The type invariant of
`OnnxLoader`. That ops declare what they do (`DeclaredAsEvaluated`): counts of nested folds.

## 5. Not modelled

Left aside for good, with the reason:

- tfhe-rs, poulpy, NumPy, ONNX, scikit-learn and XGBoost: external; what the code relies on is modelled.
- The times the profiled walk sums and its process-global counter of bootstraps: no result or decision depends on it.
- Percentile and MSE observers, quantization-aware training, accuracy reports: numeric fitting, no
  discrete state. The min-max observer, the default, is modelled.
- The bytes of envelopes (JSON, bincode, base64), saving of models, the command `inspect`, benchmarks and reports, fixture
  replay: I/O. `KeyStore` and `Commands` keep what the scheme tag of a key or a batch decides.
- 64-bit wrap-around in `Composed` and in a cast of `validate`: TLC's integers are of 32 bits.
- The single-ciphertext operations of the CKKS backend, which no graph evaluation calls, and the
  alignment of scales inside poulpy.
- In the loader, tensors shape inference cannot resolve, and the activation functions beyond those above.
- In the run of `OnnxLoader`, other broadcasts than those of its graphs: a rank-2 constant added widthwise, a reshape to rank 3
  followed by an addition of a vector, a residual addition of different shapes. `Faithful` says nothing of them.
