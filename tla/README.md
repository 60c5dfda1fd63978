# Verification models for darshan-parser and the DXT trace buffers

This directory holds TLA+ models of three parts of Darshan:

- the aggregation engine, module loop and command line of `darshan-parser`
  (`src/darshan-util/darshan-parser.c`);
- the DXT trace buffer manager of the runtime
  (`src/darshan-runtime/lib/darshan-dxt.c`), with an abstract specification
  it is proved to implement;
- the script `darshan-summary-per-file.sh` (`src/unnamed/part_000`), composed
  with the parser's command line, with an abstract specification of the order
  of its summaries that it is proved to implement.

It also holds the TLC configurations that check the models, and TLAPS proofs
of their main safety properties. `PROJECT.json` lists the following, with
source line ranges:

- the components;
- the runs;
- the mutants that show each checked property can fail;
- the model-to-source map;
- the findings;
- the hazards;
- the theorems.

## The system and its parts

| Part | Source | What it does | Model |
|---|---|---|---|
| parser module loop | `main`, darshan-parser.c:399-727 | walks the module table of one log; skips, aborts on or reads each module; folds its records; prints totals, file tally and performance; resets | `DarshanParser` |
| aggregation engine | `*_accum_file`, `*_accum_perf`, `*_calc_file`, `calc_perf` | per-file hash entries, a module-wide "total" entry, per-rank time vectors, the file tally and the slowest-rank bandwidth | `DarshanParser` |
| parser CLI and preamble | `parse_args`, `usage`, main:209-398 | builds the option mask; reads and prints job, exe, mounts and regions | `DarshanCli` for `parse_args` and `usage`; the preamble is I/O and printing and is not modelled |
| log reader, decoders | outside `src/` | `log_get_record`, `log_agg_records` | a record or -1 chosen nondeterministically; `AggRecords` is modelled from the spec |
| DXT buffer manager | darshan-dxt.c (all) | two managers (POSIX, MPI-IO) trace every read and write into per-file segment buffers, drawing on one 4 MiB budget under `dxt_runtime_mutex`; shutdown serializes the buffers | `DxtBuffers` |
| `darshan-summary-per-file.sh` | `src/unnamed/part_000` | runs the parser, convert and summary tools per file | `SummaryPerFile`, composed with `DarshanCli` in `MCSummaryPerFile` |

The parts do not call each other at run time. The runtime (DXT among its
modules) writes a log, and darshan-parser reads it. The parser skips DXT
modules (`i == DXT_POSIX_MOD || i == DXT_MPIIO_MOD`), so the two models share
no state and are checked separately. Inside the runtime, the POSIX and MPI-IO
managers interact only through `dxt_mem_remaining` and
`instrumentation_disabled`.

The script is the one place where parts interact. It runs
`darshan-parser --file-list` and feeds the listing into its loop. Its model
takes the parser's exit status and output as constants, and
`MCSummaryPerFile` computes them with `DarshanCli!ParseArgs`.

## DarshanParser: state and actions

State:

- `mi`: the loop index `i`.
- `phase`: where `main` is: at a module header, in the record loop, returned, or crashed.
- `nrec`: records read from the current module.
- `file_hash_table`: a partial function from record id to `hash_entry_t`.
- `total`.
- `pdata`: `perf_data_t`, whose per-rank vectors are functions on `0..NProcs-1`.
- `corrupt`: a write has gone past those vectors.
- `folded`: a history variable, the records folded per id since the last reset. The code has no such variable; it lets the properties relate the accumulators to their inputs.

Data is abstracted. A record carries:

- its id and rank;
- its metadata time and read+write time;
- its slowest-rank time;
- its read and write counts and its bytes.

Times are small naturals. The three module copies of each helper (POSIX,
MPI-IO, STDIO) are identical up to counter names, which we checked with
`diff`, so each helper is modelled once: `AccumFile`, `AccumPerf`,
`CalcFile`, `CalcPerf`.

| Action | Code |
|---|---|
| `SkipModule` | the `continue` chain on the module header (empty, unknown, no logutils, DXT, non-aggregated without `--base`) and the empty partial module shown with `--show-incomplete` |
| `AbortIncomplete` | a partial module without `--show-incomplete`: `return(-1)` |
| `EnterModule` | start of the record loop |
| `ReadRecord` | `log_get_record` returns 1; for POSIX, MPI-IO and STDIO, `Fold` does the hash lookup or insert and both `*_accum_file` calls and `*_accum_perf` |
| `HashAllocFail` | the hash entry malloc fails: `goto cleanup`, return -1 |
| `DecodeError` | `log_get_record` returns -1: `break`, then `continue` |
| `EndOfRecords` | ret 0: a print-only module moves on; an aggregated one prints the totals (which dereference `total.rec_dat`), the file tally and the performance, then runs `Reset` |
| `Finish`, `Terminated` | end of the loop; `main` has returned |

An out-of-range rank is a write past the malloc'd vectors (undefined
behaviour). The model records it in `corrupt` and leaves the vectors
unchanged.

## DxtBuffers: state and actions

State:

- `dxt_mem_remaining` (an int), `instrumentation_disabled`, and `runtime` (which runtime pointers are non-NULL);
- per manager:
  - `recs`: id → segment counts and buffer sizes per direction, i.e. `dxt_file_record_ref` and `dxt_file_record`;
  - `pc`: whether the manager is between its two critical sections;
  - `arg`: the id and direction of the call in flight;
  - `calls`: the number of trace calls so far;
  - `buf_sz` and `buf`: the serialized shutdown output;
- `crashed`: a NULL or undefined pointer was written through;
- `freed`: the bytes released at shutdown.

A trace call has two critical sections: one in `*_track_new_file_record` and
one in `check_{wr,rd}_trace_buf`. Each instrumentation module serialises its
own calls into DXT, so the steps between the two sections touch only that
manager's own state. Each action therefore runs up to and including one
critical section (a standard reduction). The actions:

- **`TraceCall(m, id, d)`** (`dxt_*_{write,read}`): the disabled check, runtime initialisation (which may fail), then the lookup hit or `TrackNewFileRecord`. `TrackNewFileRecord` can refuse when the budget is short, fail a malloc (in the MPI-IO copy the bare `return;` yields an undefined pointer), or succeed and debit a record.
- **`TraceAppend(m)`** (`check_*_trace_buf` plus the store): a full buffer grows by `GrowBy`, the first size or a doubling, clamped to what the budget holds. The clamp converts the int budget to `size_t` (`ToSizeT`, which wraps by `SizeWrap`), and a `realloc` may fail. The segment is then dropped or stored (`NextCount`).
- **`Shutdown(m)`**: serializes every record that has a segment (its malloc and realloc are unchecked), frees the runtime without crediting the budget, and disables instrumentation.

## DarshanCli

`ParseArgs(args)` is `parse_args` as a function of the argument vector:

- every token of `long_opts` ORs in its bits;
- `--help` (val 0), an unknown option (`'?'`) or a missing file name calls
  `usage`, which exits 1;
- a mask that is empty, or holds only `SHOW_INCOMPLETE`, gets `BASE`.

`getopt_long` permutes argv, so the file name is the first non-option word
wherever it is.

## SummaryPerFile: state and actions

State:

- `log`: the listing `darshan-parser --file-list` prints;
- `pc`: the line of the script;
- `argc` and `dirExists`: the arguments;
- `filecount`, `counter`, `hash`, `file` and `rc`: the script variables;
- `out`: the output directory, basename → the record id its `.gz` and
  `.pdf` hold (or `NONE`, or `PARTIAL` for a half-written extract);
- `status`: the exit status.

The listing pipeline is modelled by what each stage does:

- `Egrep` drops comment lines, and `EgrepExit` is 1 when it selects nothing;
- `Cut` keeps the hash and the path;
- `Uniq` drops adjacent repeats;
- `PipeStatus` is pipefail: the status of the last failing stage.

The actions are the script's commands in order:

- `CheckArgs`, `Count` and `Mkdir`;
- `Read`, the loop head and body up to darshan-convert;
- `Convert` and `Summary`, each with its rc check;
- `Exited`.

The loop is a pipeline stage, so bash runs it in a subshell. An `exit $rc` in
it ends the loop, and the script still runs its final echo and exits 0.
`[ -x $file.gz ]` and `$file = $file.$hash.gz` leave `$file` as the basename.

**Fairness.** `WF_vars(Next)`. Bash runs the commands one after another and
does not stop between two of them. The tools are assumed to terminate.

## SummaryOrder and the script's refinement

`SummaryOrder` states what the script promises, without its commands:

- `listing`: the (hash, path) pairs the log lists, fixed;
- `done`: how many of them have been summarised;
- `pdf`: basename → the record id of the summary under it;
- `Summarise` takes the next file and overwrites its basename's summary;
- `Finish` is a clean stop, allowed only once every file is done;
- `Abort` is a stop at any earlier point.

`SummaryPerFile` maps onto it through `Order`:

- `listing` is `Files`;
- `done` is `Summarised`: `counter`, less one between the read of a line and
  its render, and after a failure that stopped the loop on that line;
- `pdf` is the `pdf` slot of `out`;
- the script has stopped when `pc = "exited"`, cleanly when its status and
  the loop's `rc` are both 0.

Under this mapping the read of a line and `darshan-convert` are stutters,
`darshan-job-summary.pl` is `Summarise`, the end of the loop is `Finish`, and
every other exit (usage, the counting pipeline, `mkdir`, a failed tool) is
`Abort`. `script_loop` checks `ImplementsSummaryOrder`, the abstract `Spec`
with its fairness, as a property.

## DxtTraceLog and the refinement

`DxtTraceLog` states what the DXT managers promise without buffers:

- each manager keeps, per opened file, counts of write and read segments;
- a `Record` adds one segment to an opened file of a live manager while
  instrumentation is on;
- the budget only shrinks, and never below 0;
- `Shutdown` hands off every file with a segment, with its counts, and
  disables instrumentation.

`DxtBuffers` maps onto it through `TraceLog`:

- the budget is `dxt_mem_remaining`;
- the log is the `count` fields of `recs`;
- `live` is `runtime`;
- `disabled` is `instrumentation_disabled`;
- `out` is `buf`.

Under this mapping:

- a trace call is a stutter, a `Start` or an `Open`;
- an append that stores is a `Record`;
- an append that drops is a stutter: the clamped growth was then 0;
- shutdown is `Shutdown`.

The run `dxt_oom` checks `ImplementsTraceLog` (the abstract `Spec` as a
property) with allocation failures.

## Runs

Each run is listed in `PROJECT.json`. Every property of a passing run has a
mutant: a plausible bug in the mapped code that TLC shows breaks the property
under the same configuration.

| Run | Result | What it shows |
|---|---|---|
| `parser_fold` | pass, 309k states | One POSIX module, up to 4 records of 2 files from ranks -1, 0 and 1, in every order. `ClassificationFaithful`: the SHARED/UNIQUE/PARTSHARED bits and `procs` are exactly what the record order implies. `SlowestTimeFaithful`: the slowest time is that of the last shared record, raised by later per-rank records. `PerfConservation`: the hash, the total entry and the per-rank vectors agree with the history. `CalcPerfFindsSlowest`: `calc_perf` picks the maximum and the lowest tied rank, and never divides by zero. `FileTallyConsistent`: the file tally agrees with `pdata`. |
| `parser_modules` | pass, 1.28M states | Modules POSIX, MPI-IO, a print-only module and DXT; every option; partial flags; decode errors; hash malloc failures. Reset isolation through the properties above. |
| `dxt_budget` | pass, 214k states | Budget 16, record 3, segment 2, first buffer 2, 5 calls per manager, both managers interleaved, no allocation failure. `DropOnlyWhenExhausted`, an action property: a refusal or a drop happens only when the budget cannot pay. The state invariants are checked by `dxt_oom`, whose states include all of these. |
| `dxt_oom` | pass, 358k states | The same bounds with allocation failures. `MemAccounting`: the budget stays ≥ 0, and remaining + held + freed = max. `NoBufferOverrun`. `SerializedWithinBudget`. They hold on every path, crashing ones up to the crash. `ImplementsTraceLog`: every behaviour, failures included, is a behaviour of the abstract trace log. |
| `script_loop` | pass, 27k states | Every listing of a comment line and up to 4 of 5 record lines, including repeats, adjacent or not, and two paths with one basename. Arguments, an existing directory, and each tool failing or not. `NoStaleSummary`: when the loop reads a line, every PDF was rendered from the `.gz` beside it. `CleanRunKeepsLastOfEachName`: a run without failure leaves, under each basename, the summary of the last listed file with it. `EveryFileSummarisedUnlessFailed` (liveness): every listed path eventually has a PDF, unless a tool failed or the script exited with an error. `ImplementsSummaryOrder`: every behaviour is one of `SummaryOrder`. |
| `v_*` | violation | One per finding that no passing property already states (below). |

**Bounds.** The parser bounds give every order of shared and per-rank records
on two files, including malformed ranks in `v_rank_oob`. The shared time is 1
or 3, against per-rank times of 1 or 2, so a shared record can lower or raise
the slowest time.

In the DXT runs the budget of 16 holds 2 records (6 bytes) plus 5 segments.
Within 5 calls per manager, a buffer therefore reaches:

- the first growth;
- a doubling;
- a clamped growth (partial, e.g. 1 segment);
- a zero growth and drop;
- a refused record.

`SizeWrap = 64` exceeds the budget, as `SIZE_MAX` exceeds 4 MiB.

The script bounds: four record lines reach every case of the loop:

- a repeat that `uniq` removes and one it keeps;
- two files with one basename;
- a failure at either tool.

**Fairness.** The parser and DXT models have none. Their properties are
safety properties: the parser terminates by the bound on records and the
finite table, and DXT has no progress obligation beyond what each call does
atomically. The script model has weak fairness (see above).

## Findings

Four findings are shown by a passing run. The property checked there states
the code's real behaviour exactly, and its mutant shows that it discriminates:

- `parser_fold` / `ClassificationFaithful` (darshan-parser.c:834): a per-rank record followed by a shared record leaves a file both UNIQUE and SHARED. `*_calc_file` then counts it twice.
- `parser_fold` / `ClassificationFaithful` (:817): per-rank records after a shared one push `procs` past `nprocs`.
- `parser_fold` / `PerfConservation` (:980): a shared record adds meta+rw time per file, but the slowest-rank time to `pdata`. So the per-file and aggregate times do not balance.
- `script_loop` / `CleanRunKeepsLastOfEachName` (part_000:36-37): files with the same basename overwrite each other's outputs. A run that exits 0 keeps only the last one's summary.

The others have a violation run:

- `v_rank_oob` (:990): the rank is not checked before it indexes the per-rank vectors.
- `v_module_isolation` (:598): after a decode error, `continue` skips the reset, so the next module inherits the hash, total and `pdata`.
- `v_total_null` (:611): `--total` on an aggregated module with no records dereferences a NULL `rec_dat`. Empty regions are skipped at 405-409, so this takes a region that is not empty but yields no record: a truncated or corrupt log.
- `v_dxt_oom` (darshan-dxt.c:163, 512, 615): an unchecked `realloc` or `malloc`, or the MPI-IO bare `return;`, leads to a write through NULL or an undefined pointer.
- `v_script_cli` (part_000:17): the script calls `darshan-parser --file-list`, an option `parse_args` does not have. `usage()` exits 1, and with pipefail the script exits 1 on every log.
- `v_script_empty_log` (part_000:17): on a log with no file records, `egrep -v` selects nothing and exits 1, so the script fails.
- `v_script_masked_failure` (part_000:43): a failed tool exits only the loop's subshell, and the script exits 0.

Other notes:

- `calc_perf`'s brace-less `if` guards only the division.
- The shutdown layout comment mentions `ost_ids`, which the code never writes.
- The DXT budget is never credited back at shutdown.
- `NoStaleSummary` is stated where the loop reads its next line. After a failed `darshan-job-summary.pl` the loop exits instead, and the script exits 0 with an older PDF beside the new `.gz`: the masked failure of `v_script_masked_failure`.
- The refinement and liveness properties of the script speak of the subshell's `rc`, so the masked exit status maps to an abort there; only `v_script_masked_failure` shows it.

## What is proved (TLAPS)

The proofs are in six modules, each of which extends the module it is about and `TLAPS`: `DarshanParserProofs`, `DarshanEntryProofs` (which extends `DarshanParserProofs`), `DarshanTallyProofs` (which extends `DarshanEntryProofs` and `FiniteSetTheorems`), `DxtBuffersProofs`, `DxtRefinementProofs` and `SummaryPerFileProofs`. `tlapm` checks every step. The constants are constrained only by the `ASSUME`s of the modelled modules, which TLC also evaluates on every run.

- **`DarshanParserProofs.TypeCorrect`: `Spec => []TypeOK`.** It holds for every `NProcs`, module table, mask and record set, malformed ranks included. The inductive invariant is `TypeOK /\ RecordsInTable`: the record loop only runs for an index inside the table, which `EndOfRecords` and `DecodeError` need before they advance `mi`. The lemmas `AccumFileType`, `AccumPerfType` and `FoldType` state that the helpers preserve the entry and `pdata` types. `AccumPerfType` covers the out-of-bounds case.
- **`DxtBuffersProofs.NoOverrun`: `Spec => []NoBufferOverrun`**, and **`BudgetNeverNegative`: `Spec => [](dxt_mem_remaining \in 0..MemMax)`**. Both hold for every budget, record size, segment size and initial buffer size.
  - The inductive invariant combines:
    - a typing of the state;
    - the budget range;
    - `AppendTarget`: a manager between its critical sections appends to an existing record;
    - `NoBufferOverrun` itself.
  - The budget range is needed because the clamp converts the budget to `size_t`. It protects only while the budget is non-negative, and lemma `GrowByFits` shows that the increment's bytes are then payable, via the division identity.
  - Lemma `NextCountBound` covers the drop test.

- **`DxtRefinementProofs.Refinement`: `Spec => ImplementsTraceLog`**, for every budget, record size, segment size and first buffer size.
  - The invariant is `RInv`: the invariant above and `AppendLive`. A manager between its two critical sections has a runtime, and instrumentation is still on. It is needed because the abstract `Record` requires a live manager before shutdown.
  - `InitMaps`: the initial state maps to the empty log.
  - `TraceCallMaps`, `TraceAppendMaps`, `ShutdownMaps` and `StutterMaps`: each step maps to an abstract step or a stutter.
  - `GrowByFits` bounds the budget debit of a store.
  - A drop is a stutter because the clamped growth was then 0.
  - `ImageUnchanged` and `ImageIncrement` compute the image of `recs` under the mapping.

- **`DxtBuffersProofs.DropsOnlyWhenExhausted`: `~AllocCanFail => (Spec => DropOnlyWhenExhausted)`**, the action property of `dxt_budget`, which runs with `AllocCanFail = FALSE`. With allocation failures, a malloc failure in `*_track_new_file_record` also refuses a record, and `dxt_oom` does not check the property. The proof rests on the invariant of `NoOverrun`:
  - `DropStep`: a manager that leaves its append without storing has `count = available + inc` with `count <= available`. So the buffer was full and the clamped growth was 0.
  - `GrowByZero`: a zero growth means the budget is smaller than one segment (the division identity again).
  - `RefuseStep`: a call that returns idle with its runtime up took the refusal branch, since no malloc can fail.
- **`DarshanEntryProofs.ClassificationCorrect`: `Spec => []ClassificationFaithful`**, and **`SlowestTimeCorrect`: `Spec => []SlowestTimeFaithful`**. Both hold for every `NProcs` and record set.
  - Both properties use `SetMax`, a `CHOOSE` of a maximum. Proving that a maximum exists needs an induction over the history, which the provers cannot do (see below).
  - The inductive invariant `ClassInv` carries witnesses instead:
    - `HasLastShared`: each history has an index `ls` with the defining properties of its last shared record;
    - `SlowestOK`: the entry's `slowest_io_total_time` is an element and an upper bound of the times it is the maximum of.
  - `LastSharedUnique` and `SetMaxIs` show that the `CHOOSE` then picks the witness.
  - `AccumFileFirst`, `AccumFileShared`, `AccumFilePerRank`, `SlowestFirst`, `SlowestShared` and `SlowestPerRank` show that `*_accum_file` keeps an entry faithful when a record is appended to its history. The per-rank case needs `procs >= 1` for a non-empty history, which the invariant's `procs` equation gives. This is why `UNIQUE` is always cleared at the second record.
  - `FoldClass` lifts this to the hash table.
- **`SummaryPerFileProofs.StaleFree`: `Spec => []NoStaleSummary`**, for every log, basename set and tool outcome. The invariant `SummaryInv` allows the one stale PDF between `darshan-convert` and `darshan-job-summary.pl`.
- **`SummaryPerFileProofs.CleanRunCorrect`: `Spec /\ []FilesListed => []CleanRunKeepsLastOfEachName`.**
  - `FilesListed` says that the listing pipeline yields a sequence of (hash, path) pairs. It depends on what the `uniq` fold returns, which the provers cannot compute, so it is a hypothesis. TLC checks it, as a conjunct of `TypeOK`, on every listing of `script_loop`.
  - The invariant `LoopInv` states that after `counter` lines each basename's PDF holds `Upto(n, counter)`, the hash of the last of those lines with that basename.
  - `UptoHit` and `UptoMiss` show how `Upto` moves when one more line is read, and `UptoNone` gives its value before the first line. None of them needs induction.
- **`SummaryPerFileProofs.RefinesOrder`: `Spec /\ []FilesListed => Order!SafeSpec`**, the safety part of `ImplementsSummaryOrder`, under the same hypothesis.
  - `InitRefines`: the initial state maps to `SummaryOrder`'s; `FilesListed` is exactly its `listing \in Seq(...)`.
  - `NextRefines`: under `LoopInv`, one case per action. `LoopInv` supplies what the abstract guards need: `rc = 0` while the loop runs (so `Summarised` moves only at a render), `counter = Len(Files)` when `Read` ends the loop (so the clean stop is a `Finish`), and at `"summary"` that `$file` is the basename of line `counter` and its `.gz` holds that line's hash (so the render is `Summarise`).
- **`SummaryPerFileProofs.ScriptTypeCorrect`: `Spec /\ []FilesListed => []TypeOK`.** `STyped` is `TypeOK` without `FilesListed`. Its non-trivial part comes from `LoopInv`: at `"convert"` the hash is a listed record id, and at `"summary"` the `.gz` holds one, so no PDF is rendered from a `PARTIAL` extract. `CountStatusNat` shows that the pipefail status is a natural number: the `CHOOSE` of `PipeStatus` has a witness.
- **`DarshanTallyProofs.TallyCountsEveryFile`: `Spec => []EveryFileTallied`**, the count half of `FileTallyConsistent`: the unique and shared counts of `*_calc_file` add up to at least the total count, for every `NProcs` and record set.
  - `EntryTallied`: from `ClassInv`, every entry has `UNIQUE`, `SHARED` or `PARTSHARED`. Its history is not empty; either it has a shared record, or its only record is per-rank, or its second record is per-rank.
  - `TableFinite`: the hash is finite, as each fold adds one id (`FS_AddElement`).
  - `CoverCount`: two subsets covering a finite set have at least its cardinality (`FS_Union`).

Checked by TLC only, and why:

- `MemAccounting`, `SerializedWithinBudget`, `PerfConservation`, the byte half of `FileTallyConsistent` (its count half is `TallyCountsEveryFile`) and the DXT `TypeOK` are stated with `SumFunction`, or assign a `SumFunction` to `buf_sz`. What a fold computes over an arbitrary finite set can only be shown by an induction whose predicate is an operator parameter, which the installed provers cannot instantiate.
- `CalcPerfFindsSlowest`: the scan of `calc_perf` is a recursive function over the ranks, and the same limit applies.
- `FilesListed`, the hypothesis of the script theorems: it depends on the `Uniq` fold.
- The liveness properties `EveryFileSummarisedUnlessFailed` and `ScriptSucceeds`, and the fairness part of `ImplementsSummaryOrder`. The provers do not handle fairness and `ENABLED`.

## Not modelled

- Printing and formatting; name and mount resolution.
- The parser model takes its mask as any subset of the options. `parse_args` is modelled separately, in `DarshanCli`.
- The log opening and preamble reads.
- Double rounding, and counters of -1 ("not monitored").
- The record decoders.
- Concurrent calls into one DXT manager, which the instrumentation modules serialise.
- What darshan-convert and darshan-job-summary.pl compute. Only which record id an output holds, and whether the tool failed, is modelled.

## Plan for later work

1. Write an abstract specification of the per-module aggregation, a function of the record multiset, and show that `DarshanParser` refines it for clean modules.
2. The hash malloc failure at darshan-parser.c:561 has no property. `main` returns -1 and no output follows. The dropped-record property it would need fails already in `parser_modules`, through the decode-error leak.
