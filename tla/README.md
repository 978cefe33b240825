# pqc-embedded, specified in TLA+

TLA+ modules, TLC model-checking runs and TLAPS proofs for `pqc-embedded`: hash-based
firmware signatures (LMS and HSS, RFC 8554) verified on small devices, with or without
a SHA-256 accelerator. The modules are translated from the source under `src/`; file
names below are relative to it. `PROJECT.json` ties every definition to its lines,
lists the runs, the hazards and the theorems.

    tlc -workers 2 -config MCHwSha256.cfg MCHwSha256     # one run
    tlapm HwSha256_proofs.tla                            # one module of proofs

## The system

Four crates, a firmware that measures them on an ESP32-S3, and tools around both.
Everything is single threaded; the only thing that moves by itself is the SHA
peripheral. Nothing is persisted, so nothing has to survive a crash.

| component | state | operations | status |
|---|---|---|---|
| `Sha256Backend`, `SoftSha256` (`crates/lms-verify/src/hasher.rs`) | the digest in progress; checkpoints the caller owns | `init` `update` `finish` `save` `restore` | modelled |
| `HwSha256` (`esp-probe/src/hw_sha.rs`) | where the driver is, a coalescing buffer, the engine's context | the same five, each a loop that polls the peripheral | modelled |
| LMS verifier (`crates/lms-verify/src/lib.rs`) | one walk: the checksummed digest, chain, link, node; one checkpoint (`Kc`) | `verify_with`, `lmots_public_key_candidate`, `checksum`, `coef`, `declared_signature_len` | modelled |
| HSS verifier (`hss.rs`) | two offsets into the signature's buffer, the level | `hss::verify_with`, `levels` | modelled |
| parameter sets (`params.rs`) | tables | lookups, lengths | modelled |
| cost model (`cost.rs`) | none | `verification_cost_with`, `bounds`, `compressions` | modelled |
| test signer (`test_signer.rs`) | a key pair | `generate`, `public_key`, `sign` | modelled |
| `boot-budget` | tables of measurements | `fits`, `LmsBootVerifier` | modelled |
| `ct-probe` | timing samples, two running moments per class | `Welch::push` `variance` `t`, `run`, `max_abs_t`, `verdict` | modelled |
| `masked` | two shares of a secret | `new`, `refresh`, `xor`, `xor_public`, `not`, `and`, `or`, `boolean_to_arithmetic` | modelled |
| `esp-probe` main (`esp-probe/src/main.rs`) | a painted stack, one `HwSha256` used three times, the cycle counter | paint, verify, read, print, round after round | partly: the stack probe and the reuse of the backend; not `decode`, the cycle counter and the printed ratios |
| `size-probe/stackgraph.py` | a coloured call graph | the walk, the heaviest path of `-v` | modelled |
| `size-probe` bins and `measure.sh` | none | link-size probes | not modelled: they call one verifier once |
| `tools/gen-*` and the vectors | none | files out of third-party signers | not modelled: pure I/O |
| examples, `tests/kat.rs` | none | | not modelled: read as evidence of what is promised |

### How they interact

- `hss::verify_with` calls `crate::verify_with` once per level, on slices whose offsets
  it reads out of the buffer being verified.
- `verify_with` drives a `Sha256Backend` through calls only. `Kc` is one digest that stays
  open over the whole walk: parked in a checkpoint while a chain is hashed, resumed to
  absorb the chain's end, parked again. Both digests share the one backend.
- `HwSha256` fulfils the same trait over one peripheral it either holds (`Idle`),
  is inside a digest with (`Hashing`), or is moving from one to the other (`Moving`).
- `cost.rs` repeats the verifier's arithmetic without hashing; `boot-budget` trusts it.
- `LmsBootVerifier` runs `lms_verify::verify` behind the trait of a boot stage. It is made
  for two parameter sets, tells the boot stage their lengths, and hands `verify` neither.
- The firmware runs each verification three times: for the caches, for the clock, and
  over a painted stack. The hardware backend is the same one in all three; the stack is
  the same one in every round.
- `boot-budget` quotes what the firmware read off the stack as a scheme's RAM and what
  `stackgraph.py` computed as a bound from below, and compares the first with a part.

### What is hard in it, and what would make it right

- **One backend, two digests.** A `save` or `restore` missing, early or late mixes the
  digest of `Kc` with a chain's, on every signature. Right when the parked digest has
  absorbed the chain ends and nothing else (`KcIsParked`), and the verdict is that of
  an independent definition of a genuine signature (`VerdictIsRight`).
- **A buffer between caller and engine.** `HwSha256` has bytes in a buffer the engine
  has not been told about. Right when no caller can tell (`KeepsContract`,
  `EachCallKeepsItsPromise`).
- **A driver that moves.** `panic!` and `unreachable!` arms sit on states the type system
  allows. Right when no order of calls reaches them (`NoPanic`).
- **Polling.** A peripheral accepts part of a slice and then blocks. Right when every
  call returns (`EveryCallReturns`, `Terminates`).
- **Offsets read out of the data.** Right when every slice is inside its buffer
  (`SlicesInBounds`, for LMS and for HSS), and each signature has one encoding
  (`OkIffGenuine`).
- **A key is used before or without its verdict.** Right when nothing is verified under a
  key the root does not vouch for (`OnlyTheRootIsTrusted`).
- **A checksum in 16 bits.** Right when no bit of it is lost to the shift, and raising
  message chains always lowers a checksum chain (`ChecksumIsLossless`,
  `SomeChainGoesBack`).
- **Randomness folded in, in the right order.** A masking gadget that combines its terms
  before its mask is in passes every functional test. Right when the shares stand for
  what the plain operations compute (`ComputesOnSecrets`), and no single value on the way
  depends on a secret (`OneProbeSeesNothing`).
- **Two implementations of one arithmetic.** Right when the cost is the work done
  (`CostIsExact`) and the bounds bound it (`CostIsBounded`, `MaxIsTheWorstCase`), and when
  what the table calls typical is no more than the mean (`TypicalIsAtMostTheMean`).
- **A verifier that ignores what it was made for.** Right when the lengths it states give
  every other parameter set away (`AcceptsItsOwnSetsOnly`).
- **A measurement of itself.** The stack still holds what earlier runs wrote, a frame need
  not write its last word, the window may not reach as deep as the run. Right when an
  answer is never more than was used (`WatermarkNeverOverstates`), no answer means the
  window was (`SilenceMeansTheWindow`), and the budget is wrong by no more than what lies
  above the window (`BudgetIsRightToTheMargin`).
- **A graph seen in part.** Right when the walk is right about what it sees, in whatever
  order (`WalkIsRight`, `PrintedPathAddsUp`), what it does not see only lowers the answer
  (`MissingOnlyLowers`), and nothing is missed but what is hidden (`CompleteGraphBounds`).
- **A statistic on the fly.** Right when it is the one of two passes (`WelchIsTwoPass`),
  over the part it says (`CropsKeepTheirPart`, `PanicsOnlyWithoutSamples`), and the
  report follows from it (`BlindOnlyWhenConstant`, `ReportIsRight`).

The hazards in `PROJECT.json` give each of these at its line.

## The modules

| module | models | how |
|---|---|---|
| `Sha256Backend` | the trait, as `SoftSha256` keeps it | abstract specification: a digest in progress *is* the bytes absorbed (`cur`), a checkpoint such a sequence, every call one step |
| `HwSha256` | `hw_sha.rs` | a call is several steps; `pc` is the place in its body, `call` the method. `state` is the enum, `buf` the first `len` bytes of the buffer, `ctx` what the engine has absorbed, `rest` and `remaining` the slices of the two loops, `busy` that the peripheral would block |
| `Sums` | the running totals of the loops | a recursive function |
| `LmsParams` | `params.rs` | tables and lengths as constants and operators |
| `LmsParse` | the checks of `verify_with`, `declared_signature_len`, `verification_cost_with` | the first error, or `"none"`, in the order of the code |
| `LmsTerms` | the hash function | SHA-256 as a term of its preimage, hence collision free |
| `Winternitz` | `coef`, `checksum`, `cost.rs` | on bytes, with the widths (16 bits after the shift) kept |
| `LmsVerify` | `verify_with`, `lmots_public_key_candidate` | one action per loop turn; the backend's calls are queued in `todo`, and the verifier waits for them |
| `LmsOnContract` | `verify` over `SoftSha256` | `LmsVerify` with `Sha256Backend` serving its calls |
| `LmsOnHw` | the firmware's verification | `LmsVerify` with `HwSha256` serving them |
| `LmsSigner` | `test_signer.rs` | keys and signatures as terms; `chain`, the path and the tree are recursive functions |
| `LmsVerdict` | what `verify` promises | which signatures are genuine, in the signer's terms, and what the parked digest must hold |
| `ChainOfTrust` | what HSS promises | abstract specification: a growing chain of keys, each signed by the last in one of the signatures presented |
| `Hss` | `hss::verify_with` | offsets in bytes; each half turn of the loop a step; one LMS verification is one step |
| `HssVerdict` | what `hss::verify` promises | the genuine buffers, declared on the whole of them at once |
| `Checksum` | the loops of `checksum` and `verification_cost_with` on the published sets | a digest met one coefficient at a time |
| `BootBudget` | `budget.rs`, `measurements.rs` | the tables as sets of records, `fits` as an operator |
| `BootVerifier` | `verifier.rs` | any of the verifiers a table allows, over `LmsOnContract` |
| `StackGraph` | `stackgraph.py` | a binary is its real frames and calls and what the script sees of them; the recursion of `walk` is `stack`, with the callees left (`todo`) and the maximum so far (`deepest`) of each function on it |
| `StackPaths` | what `stackgraph.py` promises | the paths of the graph, which the walk never lists, and what they weigh |
| `StackProbe` | `esp-probe/src/main.rs` | a stack of words; `painted` is the set of those that hold the pattern; the verification is any run of the binary's calls, which write any of their frames' words |
| `Fractions` | | exact fractions, in lowest terms |
| `CtProbe` | `crates/ct-probe/src/lib.rs` | one trial, one sample of one crop a step |
| `MaskedGadgets` | `crates/masked/src/lib.rs` | the trait `Word` as constants with the laws it is used by; a gadget as the sequence of every value it computes |
| `PlainWords` | what the gadgets compute | abstract specification: registers of words |
| `MaskedWords` | the gadgets called in any order | registers of shares; randomness is any word |
| `Probing` | the values on the way | each value of a routine in turn, over all outcomes of the random generator at once |
| `MC*` | | the instances TLC runs and the reference definitions that need them |
| `*_proofs` | | theorems and proofs |

Four refinements hold the modules together:

    HwSha256       implements   Sha256Backend     cur   <- ctx \o Pending \o rest
    LmsOnHw        implements   LmsOnContract     todo  <- Unserved, cur <- Hw!Absorbed
    Hss            implements   ChainOfTrust      trusted <- Trusted, outcome <- Outcome
    MaskedWords    implements   PlainWords        value <- Value, last, sum <- Sum

In the first, `Absorbed` is what the caller would say it has handed over: the engine's
share, then what is on its way there, then what `update` has still to copy. A call to
`finish` or `save` takes effect when it reads the engine out, the others when they
start; all other steps stutter. In the second, `Unserved` puts a `finish` or `save`
that has started and not yet read the engine out back on the queue. In the third, the
keys of the turns completed are the chain, and the signatures presented those in the
buffer. In the fourth, a register holds the exclusive or of its shares, and `last`
names the call just made.

A refinement says that every step is *some* step of the abstract specification, or none.
That alone would let a masked `refresh` that changes a value pass for a new one being
loaded, and an `init` that forgets to reset pass for a stutter. So the plain words carry
the name of the call, and `HwSha256` has `EachCallKeepsItsPromise`: the step that
takes effect is the abstract step *of the call being made*, and it is taken.

### What the models abstract

- SHA-256 is without collisions and opaque, except that the digest `Q` is taken apart
  into coefficients. Which bytes it has is part of the case being verified (`oracle`):
  the digest of the message the signer signed, and a different one for any other preimage.
- A preimage is a sequence of fields with their widths (`U32`, `U16`, `U8`, opaque
  values), one field per `update`; the offsets of fields inside a signature are their
  positions. `SignatureLen` and the checks on it are in bytes.
- In `Hss` the buffer is its length and what a parse finds at the offsets the walk
  reaches. The bytes at an offset are any, so any buffer is such a record; the length
  is independent of the parts, so a buffer can end anywhere.
- `nspk + 1` is modulo `USIZE`: the code adds one to a `u32` read from the buffer in
  `usize`, which wraps on the 32-bit targets the crate is for, in a release build.
- In `HwSha256` the contents of the engine after a digest is cancelled are gone, and
  its own block buffer is part of `ctx`: the driver's `save` takes both. A `finish` on
  an idle driver starts, feeds and closes a digest on a borrowed driver: `state`
  stays `Idle` throughout.
- In `MaskedGadgets` `black_box` is the identity. What a compiler does to a gadget, which
  the crate's documentation calls the adversary, is not modelled: `Probing` is about the
  values the source computes.
- `restore` takes its argument by mutable reference; the driver reads from it only.
- A backend handed to `verify_with` is in the middle of anything (`Leftover`): the trait
  does not ask for a fresh one, and the firmware hands over a used one.
- In `StackGraph` the formats of `nm`, `.stack_sizes` and `objdump` are what can be read
  from them: which sizes are listed under a function's name, which functions are
  disassembled, and which calls name their target. A set of callees is taken in any order.
- In `StackProbe` a call that is made takes its whole frame at once, the stack does not
  overflow (the run below `_stack_end` is not the program's), and interrupts, which the
  firmware does not enable, take no frame. What is printed between rounds uses stack too
  and is not there; it would only add to what earlier runs leave behind.
- In `CtProbe` the arithmetic is exact where the code's is in `f64`, and `t` is its sign
  and its square. Sums of squares over a few small integers are the same in both.
  The published parts are the fractions written in `CROPS`, not the nearest doubles; where the
  product rounds down (70% of 90 trials is 62.99...) the code cuts off one sample earlier. What
  `CropsKeepTheirPart` says of the part allows for that.

## The runs

| run | question | bounds | result |
|---|---|---|---|
| `hw_keeps_contract` | does `HwSha256` keep the contract, each call its own part of it, without panicking, and return? | buffer of 3, digests up to 5 bytes, inputs of 0, 1, 2 and 4 bytes, one checkpoint | holds; 297,984 states |
| `lms_on_contract` | does `verify` accept exactly the signer's signatures, in bounds, at the predicted cost, and `LmsBootVerifier` its own sets only? | see below | holds; 123,528 states |
| `lms_on_hw` | is a verification on the peripheral one in software, and does it end? | buffer of 4 fields, the chains' preimages have 5 and `Kc`'s 7; a backend fresh or used | holds; 26,984 states |
| `hss_chain_of_trust` | does the walk stay in the buffer, trust only the root's chain, accept one encoding? | one to three levels, two tree types, every cut-off, every single change | holds; 8,414 states |
| `checksum_published` | do the checksum, the worst case and the typical case hold on the published parameter sets? | N = 32; coefficients 0, 1 and the two highest | holds; 110,779 states |
| `masked_gadgets` | do gadgets, in any order and with any randomness, compute what they say, and does any value computed on the way depend on a secret? | words of two bits; two registers; seven routines, all secrets and all randomness | holds; 8,895 states |
| `stack_probe` | is the call-graph walk right, and what do the painted stack and the budget made of it say? | see below | holds; 35,066 states |
| `ct_probe` | are the streaming statistics, the crops and the report what they say? | 0 to 3 and 5 trials, times 1, 2 and 4, the published crops | holds; 463,071 states |
| `cost_parse_errors` | "the same parse errors `verify` would" | one parameter set, all typecodes | violated |
| `hss_invalid` | "the image is intact" | as `hss_chain_of_trust` | violated |
| `peak_margin` | "the verification's own frames" | as `stack_probe` | violated |
| `zero_variance` | "`None` if either class is too small or has zero variance" | four trials, two times | violated |

What each property says is in the comment above it. Why the bounds are enough:

- **`HwSha256`**: the code compares the length only with `COALESCE` and zero. With a
  buffer of 3 and inputs of 0, 1, 2 and 4 bytes an input ends before the end of the
  buffer, at it, past it, and covers more than all of it; digests up to 5 reach a second
  push after the first and not a third, which would be the same step again. The proof
  is for every buffer size.
- **LMS**: the toy hash of one byte has three parameter sets of the RFC's shape
  (`w` 1, 2, 4 with their checksum chains, shifts by the same rule); the run takes
  `w` = 2 and 4, trees of height 1 and 2, every leaf, and digests of all zeros and two
  mixed ones. Every field of the key and the signature is changed in turn, every
  typecode replaced by every other and by unknown ones, every leaf index tried
  including the first past the end, and lengths one off.
- **HSS**: three levels are the fewest with a middle one. Hashes of one byte keep the
  lengths short so that *every* cut-off of every whole signature can be tried; usize
  has sixteen values, so that the largest `nspk` wraps.
- **Checksum**: the sum depends only on how many coefficients of each value there are;
  the two lowest and the two highest values reach every sum that carries. The sets are
  the published ones, so nothing is scaled down but the digests. `SomeChainGoesBack`
  compares sums up to `Apart` = 40 apart, which crosses a carry of every digit width
  but `w` = 8; the proof is for every gap, and every digest.

- **Masking**: the bitwise gadgets act on each bit alone; two bits are the fewest with a
  carry and a borrow, which is what the conversion is about. Two registers let a gadget's
  operands and result be one and the same, or not. The proof is for words of any width.
  Calls and probes share no variable, so `MCMasked` has a behaviour do one or the other.
- **Backends used before.** Three leftovers: nothing, a short digest that was still in the
  buffer, and one longer than the buffer, which had moved the driver.
- **Call graphs.** Every graph of calls between three functions and every one of four
  without a cycle: the fewest with a cycle below the root, with two ways to one function,
  and with a heavier callee below a lighter. Then three functions with each call made by
  name, through a register, as a tail call or not at all, under four listings of the sizes
  (right, one missing, one double, all missing) and three extents of the disassembly.
- **The painted stack.** Eight words of stack, of which one is the frame of `paint_window`
  and one the margin; windows of two and of five words, painted in two rounds, the second
  over what the first left; stacks that end at word 1, 4 or 6, so that the wide window
  fits, is cut short, or does not exist. Frames of one and two words end above the
  window, inside it, at its bottom and below. The proofs are for every size.
- **Trials.** Five trials are the fewest for which a crop of 20% and one of 40% keep
  different samples; with three possible times most runs have ties, at the cut-off and
  elsewhere. A threshold of 3/2 can be met by so few samples.

Deadlock is checked in `hw_keeps_contract`; a probe ends with its routine. The verifications' specifications describe one
verification, which is over once it has returned; the firmware ends in an empty loop, the
script and the time trials end.

### Fairness

The safety runs and all proofs assume none. `EveryCallReturns` assumes `WF(BackendStep)`,
that a thread inside a call goes on, and `WF(Ready)`, that the peripheral does not stay
busy for ever: `nb::block!` has no timeout, so without the second the code really does
poll for ever. The caller need not call. `Terminates` adds that the verifier goes on
too, being the one thread of the firmware. None is strong: a single thread takes the
next step whenever there is one, and a busy peripheral is busy until `Ready`. `ScriptEnds`
assumes `WF(Script)`, that an interpreter goes on with its program, and nothing of the board.

### What the violated runs show

- **`CostParsesAsVerify`** (`cost.rs:86`). `verification_cost_with` reports every error
  `verify` does except a typecode of the signature that differs from the key's.
- **`InvalidMeansIntact`** (`lib.rs:95`, `lib.rs:81`). True of LMS (`VerdictIsRight` shows it);
  HSS authenticates a level before it has measured the next.
- **`MeasuredIsThePeak`** (`esp-probe/src/main.rs:302`, `measurements.rs:170`). The window
  starts 512 bytes below `paint_window`'s stack pointer and the answer is counted from
  there, so the frames that fit in between are in no figure: a verification of 1040 bytes
  by the watermark reaches about 1552 and `paint_window`'s frame below `main`'s. The table
  quotes the 1040. `BudgetIsRightToTheMargin` says that this is all that is missing, if the
  deepest frame wrote its last word.
- **`NoneForZeroVariance`** (`ct-probe/src/lib.rs:135`). The code gives no `t` only if the
  denominator is zero, hence if *both* variances are. A class that is constant next to one that
  is not has a `t`, as it should in a test for leaks; `BlindOnlyWhenConstant` says when there is
  none. Two classes that are constant and different give none either, and no leak is reported.

### Observations no run is spent on

Comments the models are at odds with, where a run would show no more than the reading does:

- `hw_sha.rs:97`: the buffer is said to keep every digest but the message's on the path that
  does not move the driver. Parking `Kc` moves it whatever the buffer's size (line 217).
  The `# Checkpointing` section of the same file says so.
- `cost.rs:182`: a zero checksum has zero coefficients, whose chains are walked in full. The
  minimum of `bounds` is a lower bound no digest attains, and still one (`CostIsBounded`).
- `cost.rs:191`: half of every chain is less than the mean, because the first digit of a
  checksum is small: by at most the checksum's chains (`TypicalIsAtMostTheMean`).
- `main.rs:152`: "running past the bottom of the window is detected". It is when the
  lowest word of the window was written; a frame that spans it and leaves it alone is not
  seen, and `used` is then a mark inside the window. `WatermarkNeverOverstates` still holds.
- `measurements.rs:19` calls the static stack figure "an upper bound"; `stackgraph.py:18`
  and the field's own comment (line 93) call it a lower one. `MissingOnlyLowers` and
  `CompleteGraphBounds` say when it is which.
- `measurements.rs:76` says that every row but LMS is still estimated; most are measured.
- `ct-probe/src/lib.rs:153`: `keep` is called the fraction retained. More is: the cut-off (line
  285) is the first sample *after* the whole part, so one sample beyond it is kept even without
  ties, and all that tie with that one (`CropsKeepTheirPart`).
- `main.rs:400` and 461 multiply cycles by ten in 32 bits, which wraps from 1.8 seconds on.

## The proofs

| theorem | for |
|---|---|
| `HwSha256_proofs!InvHolds`, `PanicFree`, `HardwareKeepsContract`, `CallsKeepTheirPromises` | every buffer size, input, checkpoint and split of what the peripheral accepts |
| `LmsOnContract_proofs!InvHolds`, `VerifyInBounds`, `PathIsClimbed` | every parameter table, every pair of arguments, a backend fresh or used |
| `LmsOnContract_proofs!VerdictRight`, `KcParked` | besides, every key pair of the table, message, nonce and digest |
| `LmsOnContract_proofs!CostPredicted`, `CostInBounds` | the same |
| `LmsOnContract_proofs!OwnSetsOnly` | every parameter table whose lengths are pairwise different |
| `LmsOnHw_proofs!PanicFree`, `HardwareIsSoftware` | every parameter table, argument, buffer size, leftover and split |
| `LmsOnContract_proofs!ChecksumKeepsSum`, `SomeChainAlwaysGoesBack`, `WorstCaseIsMax` | every parameter set the RFC's rules make, every digest |
| `Hss_proofs!WalkKeepsInv`, `WalkInBounds`, `WalkIsAChainOfTrust`, `VerdictRight` | every parameter table, level bound, width of usize and buffer |
| `StackProbe_proofs!WalkHolds`, `WalkRight`, `PrintedRight`, `TotalIsReached`, `TotalBounds` | every finite set of functions and every binary, recursive or not, in every order of the callees |
| `StackProbe_proofs!NeverOverstates`, `SilenceIsDepth`, `BudgetIsRight` | besides, every stack, window, margin and number of rounds |
| `Masked_proofs!GadgetsComputeOnSecrets` | every kind of word, any number of registers, any randomness |
| `Masked_proofs!ProbeSeesNothing` | every finite kind of word, every routine, every place, all secrets |
| `CtProbe_proofs!PushIsTwoPass`, `CutoffKeepsPart`, `TSeesWhatVaries`, `ReportSaysWhatTheCropsShow`, `OnlyNoSamplesPanic` | any number of trials, any times, any threshold, any decreasing parts |

`Winternitz_proofs` holds no theorem of a specification but what the others share:
induction over the numbers, that a recursive function is what it says, the arithmetic of
powers of two and of division, totals, and the coefficients of a checksummed digest.

### Assumptions

Each is a named `ASSUME` in the module that declares the constants it is about; TLC
evaluates it on every instance it runs.

| assumption | says | because |
|---|---|---|
| `ConstantsAssumption` (`HwSha256`), `DriverAssumption` (`LmsOnHw`) | the buffer is not empty; inputs and leftovers are sequences | `COALESCE` is 128; inputs are slices |
| `TableAssumption` (`LmsParams`) | a set has a chain, and a tree's height is at most 31 | `params.rs`; `1u32 << h` is computed |
| `ChecksumAssumption` (`Winternitz`) | `w` is 1, 2, 4 or 8; the checksum's chains and the shift make up 16 bits; the sum of the digest of zeros fits the chains | RFC 8554's rules, met by each row of `params.rs`; MC runs evaluate it on those rows and on the small ones |
| `OneBlockAssumption` (`Winternitz`) | a chain link is hashed in one block | 55 bytes; `cost.rs` counts one compression for it |
| `CoefsAssumption` (`Checksum`) | coefficients are what `w` bits hold | `coef` masks them |
| `LayoutAssumption` (`LmsVerify`) | a signature whose length is right has room for its chain values and its path; a digest has `N` bytes | what slicing it means |
| `KeysAssumption` (`LmsVerdict`) | a key pair is of sets in the tables, and its leaf in its tree | `generate` makes no other |
| `CasesAssumption` (`LmsVerdict`) | a public key that parses is that of a key pair, or its root is no digest taken under its identifier; a signature has the fields of one | see below |
| `SizesAssumption`, `PartsAssumption`, `CaseAssumption` (`Hss`) | lengths are naturals, `MAX_LEVELS` fits usize, arguments are slices and `u32`s, a key is cut out at its length | types of `hss.rs` |
| `BinaryAssumption`, `BoardAssumption` | frames are naturals, a listed size is at most the frame, addresses are where they can be | what a binary and a stack are |
| `TimeAssumption` (`CtProbe`) | times are naturals, none above `Unbounded` | they are `u64`, and it is `u64::MAX` |
| `CropsAssumption` (`CtProbe`) | at least two parts are tried: all samples, then proper parts of them, none larger than the last | `CROPS` is 1.0, 0.95 and on down to 0.2 |
| `ThresholdAssumption` (`CtProbe`) | the threshold is not negative | it is compared with an absolute value, and is 4.5 by default |
| `RoutineAssumption` (`Probing`) | the routines are the seven that are modelled; words are finitely many | `Word` is implemented for unsigned integers |
| the laws of words (`MaskedGadgets`) | exclusive or is a group in which each word is its own inverse, `And` distributes over it, addition is commutative and subtraction undoes it, and Goubin's lemma, that `((x ^ g) - g) ^ x` is linear in `g` | bitwise operations, wrapping arithmetic; the lemma takes an induction over bits, and is checked on small words |

`CasesAssumption` is the one with substance: it is about public keys, the trust anchor,
and not about signatures, which are any. A root that someone *hashed* under its
identifier without being a key pair's is the root of a key generated elsewhere, a whole
other tree the signer does not have, and no promise is made of it. With it and a hash
that is a term of its preimage, `VerdictRight` is unforgeability in the symbolic model:
nothing but what the signer makes climbs to the root. `OwnSetsOnly` assumes that no two
pairs of sets have signatures of one length, which `MCChecksum` checks of the published
tables.

### The arguments

**`HwSha256`.** `NoPanic` and the refinement are not inductive by themselves. `Inv` adds
`ControlOK`, which method is running where, and `NothingLeftBehind`: an idle driver's
engine is empty between calls, `rest` and `remaining` are empty where the refinement
would count them twice or the next step would drop them, and the buffer is never full
where `update` computes the space left. One step per action preserves it; the
refinement then takes one lemma per call: the step in which the call takes effect moves
`Absorbed` as the contract says, every other leaves it alone because what is taken
from the front of one piece is appended to the piece before it. `StepIsPromised` puts
them together; both temporal theorems follow from it.

**`LmsVerify`, the climb.** Its bound is the loop invariant the code does not state: after
`k` nodes the node is between `2^(h-k)` and `2^(h-k+1)`. It gives both results: as long
as the node is above 1, `k < h`, so a path entry is left; when it is not, it is 1 and
`k = h`. `HashLeaf` starts it from `q < 2^h`, which is what the check on the leaf index is
for. The step lemmas are about `LmsVerify` and say nothing of the backend.

**The digest of `Kc`.** `DigestInv` says what the backend holds at every moment of
`lmots_public_key_candidate`: the calls still queued, applied to what the digest has
absorbed and the checkpoint, come out as the prefix of `Kc` and the ends of the chains
walked (`Parking`, `Folding`, `Closing`), or as the preimage being hashed (`Hashing`);
`qc` is the checksummed digest and `tmp` the chain's value at its link. Each call served
shortens the queue and keeps what it comes out as. `KcIsParked` is the case of an empty
queue.

**The cost.** `WorkOK` is the cost so far, term by term: the message's digest, the chains
completed, the links of the current one, the climb's nodes. That the chains add up to
`ChainCost` is that the loop of the verifier and the loop of the model add the same
links. The bounds come from `Checksum`'s arithmetic.

**The checksum.** With `s` the sum before the shift, its digits to the base `B = 2^w` are
what the verifier reads back (`Lossless`): the shift puts them at the high end of
sixteen bits, and the sum of the digest of zeros fits. A smaller sum has a smaller digit
somewhere, since a number all of whose digits are no less is no less. The worst case is
the digest of zeros because `s` minus the sum of its digits is `(B - 1)` times the sum of
`s \div B^m` over `m > 0`, which grows with `s`: what one more link in the message adds is
never less than what the checksum's chains then save.

**The verdict of LMS.** `ClimbRight` has both directions in it: what the climb hashes comes
out as the node of a key's tree it has got to *exactly when* everything used so far, chain
values and siblings, is that key's own. It starts with the leaf (`LeafIsRight`): each chain
is continued from where the signature enters it, and two chains that end alike agree at
every link before, so the leaf's key comes out only if every value was the signer's
(`ChainBack`). It goes up a level because a digest has one preimage (`GoesOnRight`). With
the whole path used, everything was the key's own exactly when the signature is what the
signer makes (`GoodIsGenuine`); what is well formed is what parses (`OkParsed`).

**The verdict of HSS.** `SoFar` says that the turns completed were of parts with types that
exist, vouched for by the key before them, and that the walk is where those parts end.
A genuine buffer has room for the part the walk meets (`GenuineHasRoom`), so each way to
fail refutes genuineness, and the last part, which must end the buffer, makes the length
the one encoding. The level count's wrap-around in usize is harmless because
`MAX_LEVELS < USIZE`.

**The chain of trust.** `Inv` adds that the turns left are what the header said (`WalkOK`),
that a part that was measured has typecodes that exist, so that the length used to cut is
the one checked, and whose key the signer is (`SignerOK`). The refinement maps
`Authenticate` to `Trust` or `Reject`, `AuthenticateLast` to `Accept` or `Reject`, an error
to `Reject`, the rest to stuttering.

**`LmsOnHw`.** What `HwSha256_proofs` proves of each call is used again, for the calls the
verifier makes: its invariant is stated over whatever bytes have come by so far
(`InvOver`), so that it does not matter that a verification's inputs are not a set fixed
in advance. A step of the verifier queues calls in both systems, a call that takes effect
is served in both, and the rest stutters.

**`BootVerifier`.** What is accepted has parsed (`OkParsed`), so its length is that of the
sets its key names; if it is also that of the verifier's sets, they are the same.

**`StackGraph`.** `WalkInv` is what makes the walk right and appears nowhere in the script:
the grey functions are those on the stack (`GreyOK`); a black one has only black callees,
and weighs its frame and the heaviest of them at least (`BlackOK`); a grey one has accounted
for every callee but those left and the one being walked (`MetOK`). A callee met grey would
break `BlackOK` when its caller turns black, which is why the walk must stop there.

**`StackPaths`.** `PathInv` adds what makes those weights exact. The stack is itself a path
(`StackOK`); what a black function weighs beyond its frame is the weight of one of its
callees (`AttainedOK`, from `DeepestOK` of the grey ones). `AcyclicOK` says that there is no
cycle of black functions in a form that no step has to count anything for: in every set of
them, one calls none of the others. A function that turns black joins such a set without
being called from it, because the callees of black functions were black before. From these
follow, without the walk: a path from the root meets no function twice (the functions
between the two times would be a set without such a one), it weighs no more than `best`
(adding its frames up from the root), and one path weighs just that (a counterexample would
have one whose heaviest callee is none, and that callee's path can be prolonged). A path
that meets no function twice has no more functions than there are (pigeonholes), so the
length of the paths in `ScriptPaths`, one more, cuts off nothing. `CycleOK` and `PrintedOK`
carry it to what is reported: the stack and the callee met grey are a path with a cycle;
what is printed and the weight below the last function add up to the total.

**`StackProbe`.** `BoardInv` adds to it what holds while the window is painted: a word of the
window that lost the pattern is one the painted run reached, and the lowest word of that run
has lost it if frames write their last words (`PaintOK`). What earlier rounds left does not
appear in it, because painting covers the whole window. `TotalOK` bounds the stack by the
script's total: what lies above a frame, and what its function weighs, add up to no more. A
tail call keeps the bound because the frame given up is part of its caller's weight; with
`Complete` there is none, and the proof needs only that each call is an edge.

**`MaskedWords`.** One lemma per gadget, of the form "the result is shares, of the right
word", from the laws of words alone; one step per action then refines. The conversion is
the one with an idea in it: by linearity, what is computed under the mask `gamma ^ r` differs
from what is computed under `gamma` by what would be computed under `r`, and that is `x - r`.

**`Probing`.** Nothing is counted. Two values are *matched* if the words drawn can be exchanged
one for one so that the one becomes the other; then they are seen equally often
(`MatchedCounts`). It remains to find an exchange for each place of each routine, from a run on
the secrets to one on zeros, and there are three kinds. A share, or a product of two shares of
different words, is matched by adding the secret to its mask (`Shifted`); so is one of a word
and the same refreshed, which is why a refresh is needed (`MaskedAgain`). What has the fresh
word of an `and` folded in is matched by changing that word alone, *provided that nothing else
in it depends on it* (`Fresh`): a mask folded in after the cross terms leaves values that
neither kind matches, and there the proof fails where the mutated model does. The last values
of the conversion are differences of the secret and a mask, and subtracting from a word is its
own inverse (`SubBack`).

**`CtProbe`.** A fraction in lowest terms is the only one of its value (`FractionIs`, `Same`), so
that every operation of `Fractions` is a product of integers, whatever terms it is given
(`PlusIs`, `TimesIs` and so on), and equality of fractions is equality of records. With that the
running moments of a class are three sums over a *set* of samples (`MomentsIn`): how many, their
times, their squares. `OneMore` is Welford's update read backwards: with one sample more, `mean`
and `m2` are those of the larger set. The two passes come to the same sums (`Distances`), and
the spread among them is zero only among equal times (`NoSpread`), which is what makes a missing
`t` mean what it should. Sorting is shown from the rank of each sample: ranks are below the
number of samples and no two samples share one, so each place has a sample (`EveryRank`), and
what `run` needs of it is how many times lie below a place and up to it (`InOrder`).

None of the properties is inductive. `Inv` is: it says that all the walk leaves behind is a
function of the samples, of the sorted times and of how many crops are done (`Results`), that
the crop under way has got as far as `next` (`Running`), and that a part is only tried where
there is a sample to cut at (`Stages`). From it, `CropsKeepTheirPart` is arithmetic on the floor
of a part (`PartEnds`, `SmallerParts`); `t` above a threshold is its denominator multiplied out
(`LessDivide`, `TIsT`), for a square above a square; and the maximum of the report exceeds the
threshold exactly when one of the crops does (`MaxIsLargest`), because it starts at zero and the
threshold is not below it.

**Induction.** The library's induction theorems take an operator as a parameter, which the
installed provers cannot instantiate. `Winternitz_proofs!Induction` takes a *set* of
numbers instead, and follows from the well-foundedness of `<`; the recursive functions of
the models (`Total`, `Pow2`, `chain`, the tree) are shown to exist, and to be what they
say, from it.

### Only model-checked

- Liveness under fairness (`EveryCallReturns`, `Terminates`, `ScriptEnds`) is out of the
  prover's reach.
- `TypicalIsAtMostTheMean` is about the one published table: it is evaluated.

## Not modelled

- The cycle counter and the ratios `main` prints: two readings and a subtraction in 32 bits.
- `decode` and the hex constants of the firmware, the vector files and the tools that make
  them, `Display`, the table and the examples: they convert and print.
- `size-probe`'s binaries and `measure.sh`: each binary calls one verifier once, to be linked.
- `arithmetic_to_boolean_todo` only panics.
- Rounding in `f64`, and Python's recursion limit, which ends `stackgraph.py` in an exception
  on a path of about a thousand functions.
- The compiler. What it does to the masking gadgets is a measurement, not a model.

## What is left

The components the repository names are modelled, and every safety property a passing run
checks is proved but the one about the published table. Two things are not attempted: the
rounding of `f64` in `CtProbe`, for which there would have to be a model of floating point
first, and Goubin's lemma, which is assumed of `Word` and takes an induction over bits.
