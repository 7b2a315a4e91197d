# A formal model of spdlite

spdlite is a header-only C++20 logger. These TLA+ modules model the parts of it
that keep state while threads, processes and the file system interleave. TLC
checks them on small instances; TLAPS proves the safety of the rotating file
sink, of the logger with its refinement of an atomic service, of shared sinks, of the
rendering of a line with its colors, and of the buffers of the bundled fmt library, and that
the stack buffer is a byte sequence, for every value of their constants. Paths below are relative to
`src/include/spdlite/` unless they start with `src/`.

## 1. Inventory

| part | state | operations | hard behaviour |
| --- | --- | --- | --- |
| `logger_impl` (`logger.h`) | `name_`, `level_`, `flush_level_`, `mutex_`, `formatter_`, `buf_`, `sinks_` | log (two paths), `set_name`, `set_format_options`, `flush`, levels, `get_name`, move | threads share one buffer and one cached header; time and level are read before the mutex; rendering and sinks throw |
| `formatter` (`formatter.h`) | `opts_`, `header_`, three offsets, `last_secs_` | `format_header`, `rebuild_header`, `rebuild_timestamp` | a header patched in place; a timestamp cached per second while the clock jumps |
| `rotating_file_sink` (`sinks/rotating_file_sink.h`) | `current_size_`, `next_index_`, `max_files_`, `file_`, and the directory | constructor with two directory passes, `write`, rotation, `flush`, destructor | any directory call fails, the process dies between any two of them, the next one starts from what is left |
| `shared_sink` (`sinks/shared_sink.h`) | a sink and a mutex shared by the copies | `write`, `flush` | loggers with different mutexes over one stream; lock order |
| `stdout_sink` (`sinks/stdout_sink.h`) | a `FILE*` | `write`, `flush` | `fwrite_unlocked` on a stream that another sink object may use |
| `console_sink` (`sinks/console_sink.h`) | color mode and table, a line buffer; on Windows a handle and its attributes | `write`, `set_color_mode`, `set_color` | the place of the level tag comes from another object; colors that the output cannot show |
| `stack_buf` (`common.h`, with `SPDLITE_USE_STD_FORMAT`) | stack bytes, heap string, which of them is live | `push_back`, `append`, `clear`, move | spill at exactly the capacity, reuse after `clear` |
| `file_sink`, `null_sink` | a `FILE*`; nothing | `write`, `flush` | none that the other sinks do not have |
| fmt, reading (`fmt/base.h`) | the parse context, one word of packed specifiers, the position in the string | the compile-time checker, `vformat_to` | the same string is read twice by different handlers; ids, counts and specifiers exclude each other |
| fmt, writing (`fmt/format.h`, `fmt/format-inl.h`) | a buffer and the specifiers | one function per type of argument | widths and signs at the ends of the integers; UTF-8; shortest and rounded digits |
| fmt, buffers (`fmt/base.h`, `fmt/format.h`) | bytes, capacity, what was passed on; the heap | `append`, `push_back`, `to_pointer`, `grow`, `flush`, move | a full array in the middle of a piece; failing allocations and iterators; reuse after a move |
| level macros | none | | compile time |

A log call goes top down: level test, clock, mutex, header from the formatter,
payload into `buf_` (raw, or rendered there by fmt's `vformat_to` from the format string and the
packed arguments; `buf_` is then a memory buffer of fmt), then `write(msg)` of each sink in order of the tuple, then
`flush()` of each when the level asks for it. All of it runs on the caller's
thread; there are no background threads and no queues. Threads meet at the mutex of
the logger, loggers meet at the mutex of a `shared_sink` or, without one, at a
stdio stream; processes meet only through the directory of a rotating file.

What makes each part correct:

* **rotating file**: the lines on disk are in the order written; a line is lost only
  where the design says so; a file stays within its cap; the archives are a window of
  `max_files`; no rotation overwrites an archive; the counter never falls back;
  every call ends.
* **logger and formatter**: a line is one header and one payload of the same call,
  and the header shows what `log_msg` says (name, level, time, place of the
  level); all sinks agree on the order; a flush covers one cut of the log;
  reconfigurations are atomic; every call returns and releases the mutex.
* **line, console and buffer**: the header patched in place is the one that would be
  rendered from scratch; the color goes around the level tag; a buffer holds what was
  put in, on the stack, on the heap and on the way there.
* **fmt**: a format string is read as its grammar says, what the checker accepts runs,
  what it refuses would fail; each argument's text denotes it, laid out as the
  specifiers say; a buffer hands on every byte once, in order, up to its limit, within its room.
* **shared and plain stdio sinks**: lines of different loggers neither overwrite nor
  tear each other, and nobody waits in a circle.

## 2. Modules

| module | what it is |
| --- | --- |
| `RotatingFileSink` | the sink, its directory, and processes that restart |
| `RotatingFileSinkInv` | the inductive invariant, in named parts |
| `RotatingFileSinkProofs` | TLAPS theorems |
| `LogService` | what a logger promises, with every call atomic |
| `Logger` | threads inside one `logger_impl<std::mutex, ...>`; implements `LogService` |
| `MCLogger` | symmetry for TLC |
| `LoggerProofs` | TLAPS theorems, the refinement among them |
| `StackBuf` | `stack_buf`, as operators on a buffer |
| `StackBufProofs` | TLAPS theorems: it implements a byte sequence |
| `Rendering` | the bytes of a line: `formatter`, the logger's `buf_`, and `console_sink`; uses `StackBuf` twice |
| `RenderingProofs` | TLAPS theorems: the patched header is the documented one |
| `SharedSink` | loggers over common stdio streams, with and without `shared_sink` |
| `SharedSinkProofs` | TLAPS theorems, for loggers with a `shared_sink` |
| `FmtSpecs` | types of arguments, specifiers packed into a word, packed arguments |
| `FmtWrite`, `FmtFloat` | how an argument is written: one operator per function of the code |
| `FmtBigint` | the big integers behind `format_dragon` |
| `FmtArg` | which writer an argument goes to, and which exception it may raise |
| `FmtParse` | the parser as a state machine, run by the checker and then by `vformat_to` |
| `FmtGrammar` | reference: the words of the grammar and what they stand for |
| `FmtShown` | reference: what a text must look like for its argument and specifiers |
| `MCFmt` | the format strings and arguments for TLC, and the properties of the texts |
| `FmtSpecsProofs` | lemmas: numbers, and the fields of the packed specifiers |
| `FmtParseProofs` | TLAPS theorems: the parser stays in range, checker and `vformat_to` agree |
| `FmtBuffer`, `MCFmtBuffer` | the buffers that fmt writes through, among them the logger's |
| `FmtBufferProofs` | TLAPS theorems |

`FmtParse` extends `FmtArg`, and that the writers, so that a behaviour leads from
a format string to bytes. `FmtBuffer` stands beside them, since writers put bytes into a
buffer in pieces and no writer looks at what kind it is.

Some definitions have a sibling right before them that a comment calls a
*mutation*: the same definition with a plausible bug. `PROJECT.json` names, for
every property of a passing run, a mutation under which TLC finds it violated.

### RotatingFileSink

`pc` is the next directory call of the constructor or of `write()`; each of them
(open, close, rename, remove, fwrite) is a step, because a crash or
another failure may fall between any two.

| code | model |
| --- | --- |
| constructor, first pass (171-190) | `ScanArchives`; `ScanFails` without the listing, or without the entries whose status cannot be read: the counter from the highest archive seen |
| second pass (192-203) | `Relist`, `RelistFails`; then `SweepRemove`, `SweepSkips`, `SweepFails`, `SweepDone`, in any directory order |
| size of the active file, `open_` (85-93) | `OpenActive`, `OpenUnmeasured`, `ConstructThrows` |
| `write` (95-108) | `Write` = `DropDegraded` or `BeginAppend` or `BeginRotate`, then `Append` or `AppendShort` |
| `try_rename_` (156-167) | `RenameSucceeds`, `RenameFails`, with the remove of the target |
| `rotate_` (134-151) | `Trim`, `Reopen`, `ReopenThrows` |
| `flush`, destructor, process death | `Flush`, `Destroy`, `Crash` |

A file is the set of its lines with their byte ranges. `synced` separates what the
kernel has from what is in the stdio buffer: a crash keeps any prefix from
`synced` on. An absent active file and an empty one are one state, since opening
makes them the same. Archive names are their index; the entry at an index is a regular
file, a symlink, an empty directory or a directory that cannot be removed.
`parse_archive_index_` appears as the range of indices it accepts. `size_t` is `0 .. SizeMax` and `++next_index_`
wraps. `Faults` turns the failures of the environment on: "crash", "close" (what close or flush
had to write is lost in part) and "short" (a write ends early), "rename", "remove", "open", "scan" (a
directory cannot be listed, in either pass) and "stat" (the status of an entry or the size of the
active file cannot be read). A line is the bytes of one `write()`;
`MsgSizes` holds a size within the cap and one above it.

History variables: `nmsg` numbers the lines, `used` is the highest index an
active file was renamed to. Three record what failures leave behind, for the properties: `listed`, that every
constructor so far saw the highest archive; `undeleted`, the archives that this process should have
removed and has left; `uncounted`, how many bytes of the open file `current_size_` misses. A line
keeps the `uncounted` of its write.

### Logger, LogService

A thread's call is a sequence of steps: `Stamp` (the clock, before the mutex), `Lock`,
`Header`, `Payload` or `PayloadThrows`, one `WriteSink` per sink or
`SinkThrows`, `FlushGate`, one `FlushSink` per sink, `Unlock`. The
reconfigurations are `AssignName` then `RebuildHeader`, and `Reformat`. Both log paths of
the code (`log_sv_`, `log_fmt_args_`) have this shape; they differ in the rendering. `FlushThrows`
ends the fold over the flushes of a log call; out of `flush()`, which is `noexcept`
and catches nothing, an exception ends the program. `buf` holds pieces, and a header
piece is what the text of the header shows: name, options, second, level. `name`
is `Torn` while it is being assigned. `last_secs = 0` stands for
`last_secs_ = {}`, as in the code, which is why the epoch's second 0 is special.
Sinks are external: they take a line or throw.

`LogService` has the same calls as single steps. The refinement maps the
configuration to the cached header and the delivered lines to the sinks' lines without the
one that a thread is still handing out: a log call takes effect when its last
write ends or a sink throws, with the name and options of that moment, to
a prefix of the sinks, and after everything its thread logged before.

`GetName` reads `name` in any state. Its result is in `seen` and nothing else depends on it.

### Rendering, StackBuf

`Logger` says what a header shows; `Rendering` says where. A byte is the field it belongs
to, its place in it and the value shown, so that a byte of another call, a placeholder or a patch
at a wrong offset differs from the right one. `formatter` is the record of the
C++ object with its three offsets, which count from 0 as in the code;
`rebuild_header`, `rebuild_timestamp` and `Stamped` (`format_header`) patch it with `Patched`, where a
patch that does not fit makes the header longer instead of being lost. A log call is
`FormatHeader`, then any number of `RenderPiece` and `RenderByte` (`log_sv_` appends the payload
at once; `vformat_to` hands it over in pieces, or byte by byte through a `back_inserter`), then
`RenderEnd` with the newline (two bytes on Windows, one here) or, at any byte, `RenderThrows`, then
`WritePlain`, `WriteColored` (escape codes, in a copy of the line) or `WriteAttributed` (a
Windows console, whose attributes are set between the pieces of the line). `output` says what the
sink has: a stream, a console, a Windows handle that is no console, or an invalid one; `Colored` holds
the tests of `write`. With `color_mode::always` a redirected Windows handle gets plain text, although
`sinks/console_sink.h:16` says "always emit colors, even when output is redirected to a file"; the
comment at line 122 of the same file says so. Reconfigurations and the move of a logger fall between
calls. What a line leaves in a buffer is abstracted to one Junk byte in the same
place (`spent`), which keeps the state space small and would show if it were
read. `gmtime_r` and `localtime_r` are external: a second, or the second plus `Zone`.

`LineFresh` compares the bytes handed to the sinks with `Line`, the layout of the
comment in `formatter.h:92`, written without offsets, placeholders or caches.

### SharedSink

`fwrite_unlocked` and `fflush` are modelled from how the sinks use them: each
finds the position of the stream, moves bytes, and sets the position, as three steps. With `Shared`
the stream belongs to copies of one `shared_sink`; without, each logger has a
`stdout_sink` of its own on it. `Reversed` loggers list the streams backwards,
so that lock order matters. One call at a time per logger: `Logger` shows that its own mutex gives that.

### FmtSpecs, FmtParse, FmtArg

A format string is a sequence of characters of a small alphabet, of which "C3", "A9" are the two
bytes of a longer code point. `mode` is "check" and then "run" for every string: first the
checker's handler, then the one of `vformat_to`, also for a string that the
checker refused, as `fmt::runtime` allows.

| code | model |
| --- | --- |
| `parse_format_string`, `parse_replacement_field` | `Text`, `CloseBrace`, `OpenBrace`, `FieldAutomatic`, `FieldIndexed`, `FieldNamed`, `FieldBroken`, `Finish` |
| `parse_format_specs`, one case of the switch each | `SpecAlign` ... `SpecFill`, `SpecEnd`, with `enter_state` for their order |
| checker without a known type, a user-defined `parse` | `SpecSkip` |
| dynamic width and precision, `check_char_specs`, the visit | `Write`, `WriteReady` |
| the case `"{}"` of `vformat_to` | `FastPath` |
| `basic_specs`, one word | a number; `get` and `set` a field at its shift |
| descriptor of up to 15 types, or an array beyond | `make_descriptor`, `get_arg`, with `MaxPacked` |

An exception is `pc = "error"` with its message in `err` (blanks as underscores, "none" for no error); the bytes
written before it stay. `checked` keeps what the checker said. `parse_nonnegative_int` keeps its wrap, in the width `IntBits`. Recursion
is written as recursive functions (`sums`, `skipped`, `bigits_of`, `pow5`) or as the choice of an end (`SkipWhile`), so that the
parser can be reasoned about.

### FmtWrite, FmtFloat, FmtBigint

Strings are sequences of bytes, each operator is a function of the code and has its name.
Integers keep their widths, and the absolute value is the `0 - x` of the unsigned type. A floating-point number is sign, biased
exponent and stored significand of a small format, with the code's conditions on the real formats as constants (`Kappa`,
`TieExponent`, `ExpUpper`, `SegmentDigits`). `long double` has a format of its own, the 80-bit one of x86-64: its significand holds the leading bit
(`has_implicit_bit` is false), which `basic_fp` and `format_hexfloat` treat apart. Dragonbox is `to_decimal` with both its intervals; the
products with its table of powers are exact here, so that an error in that table
or in the rounding of its entries is not seen. `double` and `float` go through it, `long double` through
`format_dragon` with its bigints of `BigitBits`.

`FmtGrammar` never scans and `FmtShown` never writes: they say of a finished string or text
whether it may be. `FmtShown` reads the digits back, compares with every other number
of the format, and lays the padding beside the content, so that it says what a text means and not how it is made. With the writers it shares how specifiers are read, the number of columns of
a code point, copies and bytes of the fill, and the numbers of the format.

### FmtBuffer

`kind` is one of the six buffers, that is, of the six `grow()`s. A text comes as `Append_` with one `AppendPass`
per pass of the loop, `Reserve` with one `PushBack` per byte, or `ToPointer`. `at` is where `ptr_`
points: into the object, to a block of the heap, or to the target that the caller gave. `AllocationFails` and
`IteratorThrows` fall into the middle of a piece, `Close` is the flush of `out()` or of the
destructor. Memory buffers are also cleared, moved, assigned and destroyed, in any number. What a buffer
has passed on (`out`) and the text of each object (`text`) are history.

## 3. Runs

| run | checks | shows |
| --- | --- | --- |
| `sink_window` | `TypeOK`, `Chronological`, `NoClobber`, `CapHolds`, `WindowHolds`, `CounterResumes` | safety of the sink under every fault, with windows of 1 and 2 that change at restarts: no listing in either pass, entries and sizes that cannot be read, failing opens, renames, removes, writes and closes, crashes |
| `sink_progress` | `NothingElseLoses`, `CallReturns` | which steps lose lines; the constructor and `write()` end, with five attempts, truncate-only windows and foreign entries |
| `logger_threads` | `TypeOK`, `LinesWhole`, `TimeShown`, `FanOut`, `FlushCovers`, `ImplementsService` | two threads, two sinks, a clock that jumps, exceptions of every kind |
| `logger_returns` | `CallReturns` | every call returns on every path |
| `rendering` | `TypeOK`, `LineFresh`, `ColorsWrapTag` | all layouts, reconfigurations, clocks, threads, spills and outputs |
| `shared_sink` | `TypeOK`, `LinesIntact`, `FlushedOut`, `CallReturns` | two loggers, two shared sinks in opposite order |
| `fmt_format` | `TypeOK`, `ReadsAsGrammar`, `CheckedRuns`, `RefusedFails`, `IntegersShown`, `StringsShown`, `DebugShown`, `FloatsShown` | about a hundred thousand calls: words of the grammar and strings beside it, and every type of argument with its specifiers |
| `fmt_buffer` | `TypeOK`, `WithinCapacity`, `Delivered`, `OneOwner`, `RoomForOne`, `CallReturns` | all buffers, all orders of pieces, two memory buffers, failures |

Runs that find a disagreement between the code and what the repository says of it
(`PROJECT.json` quotes the lines):

| run | violated | what happens |
| --- | --- | --- |
| `sink_unlisted` | `ResumesAlways` | a directory that cannot be listed looks empty, and the counter starts over at existing archives |
| `logger_get_name` | `NameWhole` | `get_name()` reads `name_` without the mutex, beside `set_name()` |
| `shared_stdout` | `LinesIntact` | two loggers with a `stdout_sink` each share no lock, and `fwrite_unlocked` takes none |
| `fmt_fixup` | `LeadingDigit` | `{:.3f}` of a `long double` just below a power of ten begins with a zero that belongs to no digit (on x86-64: the largest one below 1e28). `FloatsShown` leaves out such values |

Smaller things that the models show and no run is spent on:

* An archive of index SIZE_MAX - 1 is accepted by the scan, and the counter wraps
  after the next rotation to `<stem>.0<ext>` (`sinks/rotating_file_sink.h:143`). The proofs exclude it with `NoWrap`.
* One orphan that cannot be removed ends the clean-up of the constructor: `remove` shares its error
  code with the loop (line 200). A second listing that fails (194) leaves every orphan, and an entry whose status cannot
  be read is skipped (197), without any sign. `WindowHolds` excepts the archives left so, each by itself: all others are within the window.
* An error of `file_size` is ignored (86-90): the size counts as 0 and the file is appended to. Nor are the bytes of a short
  write counted (105-107). The file then grows beyond the cap by what was not counted, and `CapHolds` says by
  exactly that much.
* A `long double` of x86-64 stores its leading bit, so the test for powers of two (`fmt/format.h:1594`, `f == 0`) never holds. Their
  shortest digits come from an interval that reaches too far down: 512 in the small format is written 510, and of the
  powers of two from 2^-16000 to 2^15999, 4338 are not read back (2^-15995 becomes `1.0597888710225605028e-4815`).
  `FloatsShown` checks long doubles against the interval that the code uses.
* A subnormal `long double` in hexadecimal has an exponent up to 3 too large (`fmt/format.h:3074`): `{:a}` of the smallest one is
  `0x0.000000000000001p-16382`, which should end in -16385. `FloatsShown` makes this exception.
* A message of second 0 of the epoch shows the placeholder zeroes, since
  `last_secs_ = {}` means "none" (`formatter.h:111`). `TimeShown` and `LineFresh` make this exception.
* `{:5?}` of an empty string is an opening quote only. `DebugShown` makes this exception.
* A message logged at `level::off` passes `should_log` and `should_flush` for
  every setting, although `flush_level_` has the comment "off => never auto-flush" (`logger.h:127`).
* The checker takes a `bool` or `char` for a dynamic width, the run throws. `CheckedRuns` names this and the other
  errors that no checker can foresee.
* A name switches the run to manual ids (`fmt/base.h:908`), but not the checker (`fmt/base.h:1736` does not tell its context). So
  with an argument `a` the checker accepts `"{a}{}"`, which throws when it is run, and refuses `"{}{a}{1}"`, which would run.
  `CheckedRuns` and `RefusedFails` leave out strings that name an argument.

### Bounds, and why they are enough

* **Sink.** `MaxMsgs` is 3 or 4 calls of `write()` with at most two earlier archives. With a cap of 3
  and lines of 2 and 4 bytes, four writes make up to three rotations, more than a window of 2
  holds, so that an archive leaves the window made by this process and another the one made before it. A restart
  costs no call, so that behaviours hold any number of them. `MaxAttempts` is 5 in
  `sink_progress` and 2 elsewhere: the retries differ only in their
  number. The first file of `sink_window` is empty; files left by an earlier process come from its restarts. `SizeMax = 9` keeps the counter clear of the wrap (this is `NoWrap`, section 4).
* **Logger.** Three locked calls of two threads: two log lines that pass each other and one
  reconfiguration or flush between them, or three lines of which two share a thread. Two sinks are enough for
  one to be ahead of the other. `Secs` holds 1 and 2, so the clock stands,
  advances, and goes back. `MaxCalls` bounds the locked calls; the level setters are unbounded.
* **Rendering.** No bound on the number of calls: the state space is finite. Lines are 18 to
  55 bytes long and the array holds 30, so that headers, payloads and the newline alone meet its end, and one layout
  fills it exactly. Two values of each part of a message suffice to tell a stale one.
* **Shared sinks.** Three calls per logger, buffers of two lines and a part of a third, so that
  lines pile up, do not fit, and are drained.
* **fmt, reading.** All words of up to five tokens for fields and of up to three for specifiers, then all
  subsets of the eight specifiers in their order and all swaps of two, then numbers of up to four digits over
  digits that meet the ends of an `int` of 8 bits. Arguments of every type, with
  `MaxPacked = 2` so that three arguments leave the packed form.
* **fmt, writing.** `int` has 8 bits and `long long` 16, so that their ends are among the values. Floats have 4 bits of
  significand and 5 of exponent: every such number is written with the shortest digits and with
  up to four (or five significant) digits of precision. Long doubles have 8 bits, the leading one among them, so that a hexadecimal
  text can be cut and its first digit overflow; a dozen significands with every exponent (the powers of two, next to them, around the
  half of either digit, all ones). `BigitBits = 4` gives bigints several bigits,
  `SegmentDigits = 4` makes `format_float` go through segments, and `MaxDoubleDigits = 15` is more than any number of the format has.
* **fmt, buffers.** An array of 2 bytes, pieces of 1, 2 and 4, texts of up to 6: a piece spans the array, fills it
  exactly, and leaves one byte. `Limits` 0, 1, 3, 4 lie before, in and behind the first array. `AllocMax = 7` makes the growth hit
  `max_size()`; three blocks are one more than two objects can own.

### Fairness

`RotatingFileSink` assumes weak fairness of the steps inside the constructor and
`write()`: the calling thread runs. It does not assume that a process restarts, that
a write is ever made, or that a fault ends; `ScanArchives` and `Crash` are not
fair. `Logger` and `SharedSink` assume weak fairness of each thread inside a
call. `std::mutex` promises no order among waiters; since the number of calls is
bounded, a thread that waits is eventually alone, and `CallReturns` says that
no path keeps the mutex and no circle of waiters forms, not that waiting is
bounded. The `shared_sink` run has no deadlock check because it stops once all calls are made.

`FmtBuffer` assumes weak fairness of the steps inside `append()` and of the bytes pushed after a
reservation: the call runs. `CallReturns` there says that every pass of the loop writes something, whatever
`grow()` did. `Rendering` and `FmtParse` state safety only and have no fairness.

## 4. Proofs

### Rotating file sink

`RotatingFileSinkProofs` proves, for every value of the constants that
`SinkAssumption` allows, type correctness (`TypeCorrect`) and, assuming `NoWrap`,
the other six safety properties: `ChronologicalCorrect`, `NoClobberCorrect`,
`CapCorrect`, `WindowCorrect`, `ResumeCorrect` and the action property
`LossCorrect`. So they hold for any cap, window, number of
attempts, line sizes, number of writes, number of restarts, and set of faults.

**NoWrap** is `InitTop + MaxMsgs < SizeMax`: no archive of the first start is so
close to SIZE_MAX that the rotations of the behaviour reach it. It is needed: without it
the counter wraps to 0. `TypeCorrect` does not need it.

**The inductive invariant** `IInv`. None of the properties is inductive. The
counter is what ties them together:

* `CounterInv`: every archive and every use of the counter was paid for by a
  `write()`, so that indices stay below SIZE_MAX and `++` does not wrap; what is not a regular file holds no lines.
* `AheadInv`: while a process runs, its counter is above every archive. This gives
  `NoClobber`, and that a renamed file comes after every archive.
* `UsedInv`: with a window of at least one, the last archive made is still there,
  so that a restart finds it and the counter resumes (`CounterResumes`). The window must not be 0: truncate-only sinks delete
  every archive, and an index is used again.
* `OrderInv`: no stored line is younger than the latest call, and while
  a line is pending none is as young; `Chronological` follows through append and rename.
* `CapInv`: while the file is open, `current_size` and `uncounted` make up its size, so that the test in `write()` decides about the
  real file but for the bytes it misses, and every line was within the cap by that measure.
* `WindowInv`: between calls the window holds for every archive outside `undeleted`, and in the step between rename and trim it is one too large.
* `PhaseInv`: which phases have an open file, an empty one, or used up their attempts.

Each part has a lemma for its steps, with one case per action that disturbs it.
Steps that only remove archives (`Shrinks`), leave the directory alone (`Quiet`), or end the process (`DownEffect`) are
treated once in lemmas of their own. What failures change is in the
statements: the properties that rest on the counter hold as long as every constructor saw the highest
archive (`listed`; `sink_unlisted` shows why); the window holds for each archive except those that failed or skipped
removals left (`undeleted`); and the cap holds always, exceeded by no more than the bytes not counted (`uncounted`).

### Stack buffer

`StackBufProofs` proves for every array size and every set of bytes that `append`,
`push_back`, `clear` and the move constructor keep a buffer well formed and do to its contents
what they do to a sequence: append, append one, empty, nothing. The cases are the ones of the
code (on the heap, fits, spills); `SpillKeeps` is the lemma for the third, `StackContents`
says what the array shows. `Rendering` relies on these operations through `Contents` only,
and `RenderingProofs` cites the four theorems.

### Rendering

`RenderingProofs` proves `TypeOK`, `LineFresh` and `ColorsWrapTag` for all layouts, widths of
the fraction, names, times, threads, levels, payloads, sizes of the array and kinds of
output, from `RenderingAssumption` and `StackBufAssumption`. The argument has three layers:

* Sequences. `PatchedIs`: a patch that fits changes its own bytes only. `Takes(x, off, t, p)` says that `t` at `off` of
  `x` fits and gives `p`; `TakesWhole`, `TakesFirst` and `TakesBehind` carry a patch of a field to the text around it.
* The layout. `Built(o, n, p)` is the header filled with nine pieces `p` (date, time, fraction, thread, level).
  `YearTakes` to `LvlTakes` show that a patch at the offset of a field exchanges this piece and no other. `RebuildLays` says that
  `rebuild_header` makes such a layout and records those offsets, `StampedIs` that `format_header`
  exchanges every piece that is shown, and `HeaderIs` that the result is `Header`, the documented layout.
* The steps. The invariant `IInv` adds to the properties `HeaderInv` (the header is laid out for the current options and
  name, each offset in use is the one of its field, and the cached second is the one the pieces show), `ShownInv` (during a
  call the pieces show its message) and `BodyInv` (what lies behind the header so far).
  `HeaderInv` is what a stale offset would break: offsets of fields that are off may have any value.

### Logger

`LoggerProofs` proves `TypeOK`, `LinesWhole`, `TimeShown`, `FlushCovers`, `FanOut` and
`ImplementsService` for any number of threads, sinks, names, layouts, levels, seconds and
calls, from `LoggerAssumption` only (the clock may jump, every sink and every rendering may throw). The invariant
`IInv` behind them adds

* `Mutex`: the thread at a step under the lock is the holder, so at most one is.
* `Calls`: each step belongs to the operation of its call, and `at` to the fold it is in.
* `Config`: outside `set_name` the header was built from `name_`; the cached second is the one shown.
* `Rendered`: what the thread under the lock has put into `buf_` so far. With `Config` this is `LinesWhole` at the
  moment a line is sent, and since lines never change, forever.
* `Flushes`: a flush under way has covered the sinks before `at`.
* `Handing`, `Follow`: the line being handed out is the last one of the sinks it has reached, and each sink
  follows the one before it short of that line. `FanOut` alone is not inductive: in the middle of the fold the next sink
  must still be able to take the line.
* `Ids`: ids grow along a thread and are distinct between calls.

For the refinement, the line in hand is not delivered yet. `InHandIs` shows that the mapping of `Logger`, which
recognises that line by its id, means the sinks that the fold has reached. Then the last write
delivers the line to all sinks, a sink that throws delivers it to the sinks before it (or to none, a stutter), the other writes
are stutters, and `RebuildHeader`, `Reformat` and `FlushSink` are the steps of the service they stand for.

### Shared sinks

`SharedSinkProofs` proves `TypeOK`, `LinesIntact` and `FlushedOut` under `Shared`, which is needed: without it the
run `shared_stdout` refutes `LinesIntact`. Loggers, streams, the order of the sinks, the sizes of lines and buffers and the
number of calls are arbitrary. `LinesIntact` speaks only of a stream that nobody is at; the invariant `IInv` says what
holds in the middle of a write or a flush:

* `Owners`: the mutex of a stream belongs to the one logger inside its sink.
* `Found`: the position a logger read is still the position of the stream.
* `Copied`: the bytes behind that position are those of the line, before the position moves past them.
* `Kept`: file and buffer up to the position hold the lines completed; between the two steps of a flush the file alone does.
* `Covered`: `FlushedOut` for one stream; `Reset` establishes it from the length of what `Kept` says is in the file.

Every step of a logger is either quiet (it touches no stream) or local (it touches the stream whose mutex it
holds); `Quiet` and `Local` say once that the other loggers and streams keep their parts. The rest is about
sequences: `FlatAppend`, that a line more is `LineLen` bytes more, with its division and remainder, and `OverwrittenIs`.

### Buffers of fmt

`FmtBufferProofs` proves the five safety properties of `FmtBuffer` for every size of the array, every limit, all
pieces, any maximum of the allocator and any number of objects and blocks: `TypeCorrect`,
`NeverBeyond`, `TextDelivered`, `BlocksOwned` and `AlwaysRoom`. None of them is
inductive; the invariant `IInv` adds

* `Control`: which objects there are, what `todo` is in each step, and that a piece is what is written of it and `todo`.
* `Handed`, for each object while the call runs: `ShapeOf`, where the bytes lie and how
  much room there is (a full `array_n` has gone to its inline array and counted at least its limit), and `HoldsOf`, how the bytes in hand, those passed on
  and the count make up the text. `TextDelivered` is inductive only with the
  place, since `flush()` does different things before and after the switch.
* `Reserved`: a container's capacity is its size and what was reserved, so that the room that
  `push_back` uses without a test is there.
* `OneOwner` itself, and `Final`: after the call, and after an exception of the iterator, what was passed on stays.

There is one lemma for each action, and they rest on a few about `flush`, `grow` and
`try_reserve` (`FlushCorrect`, `GrowCorrect`, `PutCorrect`) and on sequences.

### Parser of fmt

`FmtParseProofs` proves `ParserTypeCorrect`, `CompiledStringsRun` and `RefusedStringsFail` for every format string, every list
of arguments, every number of packed types and every width of `int`, from three assumptions: `SpecsAssumption`
(an `int` has at least 4 bits), `DigitsAssumption` (`digits10` digits fit an `int`: true of 8, 16 and 32 bits, though not
of every width), and `InputsAssumption` (strings of characters, arguments of the types there are, integers in integer arguments).

**Types.** The invariant is `IInv`. `Specs_ok` bounds the word of the specifiers and its fields; `Refs_ok` says what a dynamic
width or precision may refer to; `Place_ok` bounds position, counter and id, among them that `next_arg_id` is behind the position,
because every automatic id has read a character; `Out_ok` bounds what was written. `FmtSpecsProofs` has the arithmetic of the word: for each
field, that setting it keeps the others (`SetType` ... `SetFillSize`). Two recursive functions need an induction:
the sum of the digits (`Numbers`: it is a number of `int` or the error value, although it wraps, since
`digits10` digits stay below their power of ten) and the depth of braces. The induction theorems of the library
take an operator and cannot be used; `Induction` says the same of a *set* of numbers, and follows from the least
number principle (`Least`), which well-foundedness of `<` gives.

**Two passes agree.** `CompiledStringsRun` and `RefusedStringsFail` compare the run with a pass that is over and
of which `checked` keeps one bit. They meet in a function, `StepOf`, from a configuration of the parser
to the next one and to whether the checker objects. It depends on the string and the arguments only, which
stay (`SameSteps`).

* `PassesAgree` is the invariant. While the checker reads, there is a set `V` of configurations it went through, closed under
  `StepOf` but for the one it is at. When it ends, `V` is closed (`Accepted`) or ends in a refusal (`Refused`). The run moves in that same `V`.
* `Agrees` is what every action has to show, for either pass: it moves to `StepOf`'s next configuration, or gives up where `StepOf` objects,
  or has an excuse that types cannot foresee (`Excused`, the exceptions of `CheckedRuns`). One lemma for each
  action (`TextAgrees` ... `WriteAgrees`) shows it; `SpecSteps` relates the cases of the switch to those of `StepOf`.
* Where the two passes differ: the checker objects to a width or precision for its argument's type, and the run does not look
  at it before it writes the field. From there on the run is no longer in `V`; it is `Doomed` (`DoomedStays` ... `DoomedWrite`): whatever
  specifiers follow, the field is not written. This is the part of `RefusedStringsFail` that is not a comparison step by step.
* `FastPathPasses`: the string `"{}"`, which the run does not parse, ends as parsing it would.

### Only model-checked

Liveness (`CallReturns`, three times), which is out of the prover's reach. Of `fmt_format`, `ReadsAsGrammar`, since its reference `FmtGrammar`
enumerates words with recursive operators, and the texts (`IntegersShown`, `StringsShown`, `DebugShown`, `FloatsShown`): their references
read digits back with recursive operators, and that the two agree is an induction over the data, through bigints and
digit loops, for each writer.

## 5. Not modelled

* In fmt: wide characters, 128-bit integers, the fallbacks for compilers without intrinsics, chrono and
  user-defined `parse` functions; the tables of powers of ten and of digit pairs, which are arithmetic here; printing to a
  `FILE*` or a console and system errors as text, which spdlite never calls; the buffer over a bare pointer, which never grows.
* In the checks of fmt: characters written for integers (`{:c}`), and a locale together with `0`. The smallest normal
  number of the fast types is left out: `to_decimal` counts on the IEEE formats to have the same digits for both
  intervals there, and the small format has not.
* The other formats of `long double` (the 64-bit one, which is `double`, the 128-bit one, and pairs of doubles) and `__float128`; that its
  exponent is wider than that of `double`.
* `null_sink` (no state), and the constructor of `file_sink`; its `write` and `flush` are those of `SharedSink`.
* Concurrent use of a logger that is being moved, and `logger_st`, which is for one thread.
* Two rotating sinks on one file, in one process or two: the code offers no coordination for it.
* Failing allocations in spdlite's own calls (`set_name`, `rebuild_header`).
* The level macros: decided at compile time.
* The digits of archive names and timestamps.

Hazards that no property covers, because the code makes no promise there:

* the level is loaded before the mutex is taken (`logger.h:98`), so that a message may be written after `set_log_level(off)` has returned;
* the time is taken before the mutex (`logger.h:137`), so that lines may be out of the order of their timestamps;
* a user's formatter that logs to the same logger locks its mutex a second time (`logger.h:182`);
* times before 1970 have a negative fraction (`formatter.h:117`): the model has times from 0 on.

## 6. Plan

Done: the rotating sink with its proofs, the logger with its refinement and its proofs, the
rendering of a line with its proofs, the shared sinks with their proofs, reading and writing of fmt, its parser and its buffers with
their proofs. What is left, in this order:

1. `Logger` over `SharedSink` and over the rotating sink: a sink that throws in the
   middle of a rotation, under the mutexes of its callers.
2. The texts of the simpler writers (booleans, characters, padding) against `FmtShown`, with the bytes of a number left
   abstract.
3. `ArchiveIndex`: the digit loop of `parse_archive_index_` with its overflow guard at
   a small width, against the value of the digits.
