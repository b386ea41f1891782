# Prac3: a model of a parallel median filter and of the libjpeg below it

The repository holds two C++ programs that filter a JPEG image with a median
window: `Prac3.cpp`, an MPI program in which a master cuts the image into
strips and slaves filter them, and `Sequential_Filter.cpp`, the same filter in
one process, for comparison. Both use the small classes in `Tools/` and the
vendored libjpeg, release 6b, in `jpeg-6b/`, which is most of the code. This
directory holds TLA+ modules for them, the TLC configurations that check the
modules on small instances, and proofs, checked by TLAPS, of what holds for every
size.

## The system

| Component | Source | State | Operations |
|---|---|---|---|
| Master | `Prac3.cpp` 47-211 | `Input`, `Output`, `y_portions`, `mod_check`, `indexer`, loop indexes | read, split, send sizes, scatter, gather, write |
| Slave | `Prac3.cpp` 215-324 | `dimensions`, `input_arr`, `out_arr`, `window`, `counter` | receive size, echo, receive strip, acknowledge, filter, send result |
| MPI | not in the repository | messages on the way, ranks inside a send | blocking send and receive, one tag |
| Sequential filter | `Sequential_Filter.cpp` | `Input`, `Output`, `window`, `counter` | read, rounds of the filter, write |
| JPEG class | `Tools/JPEG.cpp` | `Rows`, `Height`, `Components` | construct, `Clear`, `Allocate`, `Read`, `Write`, destruct |
| libjpeg: life cycle | `jdapimin.c`, `jdapistd.c`, `jcapimin.c`, `jcapistd.c`, `jcomapi.c`, `jerror.c` | `global_state`, scanline counters | create, start, scanlines, finish, destroy, `error_exit` |
| libjpeg: marker reader | `jdmarker.c`, `jdatasrc.c` | restart point, `unread_marker`, `marker_list`, `discarded_bytes`, `next_restart_num`, tables | one routine per marker, restarts, resynchronisation |
| libjpeg: input controller | `jdinput.c`, `jdapimin.c`, `jdapistd.c` | `inheaders`, `eoi_reached`, scan numbers, row counters, latched tables | `consume_markers`, scans, calls of the application |
| libjpeg: memory manager | `jmemmgr.c`, `jmem*.c` | pools, large objects, virtual arrays, temporary files | allocate, request, realize, access, free |
| libjpeg: decompressor's rows | `jdmaster.c`, `jdcoefct.c`, `jdmainct.c`, `jdsample.c`, `jdmerge.c`, `jdpostct.c`, `jdapistd.c`, `jdtrans.c` | coefficient, main, upsampling, postprocessing buffers, passes | start, read rows or raw data, output passes, dummy passes |
| libjpeg: compressor | `jcparam.c`, `jcmaster.c`, `jcprepct.c`, `jcsample.c`, `jcmainct.c`, `jccoefct.c`, `jcmarker.c`, `jctrans.c`, `jcapi*.c` | parameters, `sent_table`, buffers, passes | set parameters, write tables, rows, raw data or coefficients, finish, abort |
| libjpeg: entropy coding | `jchuff.c`, `jcphuff.c`, `jdhuff.c`, `jdphuff.c` | bit buffers, `last_dc_val`, `EOBRUN`, correction bits, counts | make tables, code and decode an MCU, restart, flush |
| libjpeg: DCT, quantization | `jcdctmgr.c`, `jfdct*.c`, `jddctmgr.c`, `jidct*.c` | divisors, multipliers | transform a block |
| libjpeg: colours and sampling | `jccolor.c`, `jdcolor.c`, `jcsample.c`, `jdsample.c`, `jdmerge.c` | tables | convert a pixel, down- and upsample a row, smooth, interpolate |
| libjpeg: one-pass quantizer | `jquant1.c` | `Ncolors`, colormap, `colorindex`, dither tables, `fserrors`, `row_index`, `on_odd_row` | divide the colours, start a pass, map a row |
| libjpeg: two-pass quantizer | `jquant2.c` | histogram, errors | its passes only |
| libjpeg: programs | `cjpeg.c`, `djpeg.c`, `jpegtran.c`, `transupp.c`, `rd*.c`, `wr*.c` | - | not modelled |
| Timer | `Tools/Timer.cpp` | a start time | not modelled |
| Build, data, generated pages | `makefile`, `Data/`, `doxy/`, `Libraries/` | - | not modelled |

How they interact. `main` starts one process per rank. Rank 0 runs `Master`,
which reads the image through the JPEG class (which calls libjpeg), computes how
many rows each slave gets, and then talks to the slaves one at a time: for each,
send three integers and wait for them to come back; then for each, send the
strip and wait for an acknowledgement; then for each, in rank order, receive the
filtered strip and copy the rows that the slave owns. The slaves talk to the
master only. All messages have the same tag. The rows a strip shares with its
neighbours are there so that the filter sees the same samples as in the whole
image.

Inside libjpeg everything is a call of the application. Reading, a call asks the
input controller, which alternates between the marker reader and the entropy
decoder; blocks go into the coefficient controller, then through inverse DCT, main
controller, upsampler and postprocessor into the application's rows. Writing goes
the other way. Each stage keeps state between calls, because any call may stop
where the source has no byte left or the destination no room, and is made again.

What is hard about it:

* *Ordering.* With one MPI tag, sizes, acknowledgements and results are told apart by
  the order of the calls alone; results queue behind acknowledgements.
* *Blocking.* `MPI_Send` may or may not wait for its receive. Which one happens
  depends on the size of the strip, so a cycle of sends hangs on large images only.
* *Failure.* Reading the image can fail before the slaves have been told anything;
  libjpeg ends the process with `exit`; `new` throws; writing can fail; memory or disk
  run out in the middle of `realize_virt_arrays`.
* *Suspension.* Every reader and every encoder may stop at every byte and begins again
  at the last point it synchronised; what it changed since must be undone or be
  harmless. Rows are counted as taken, or not, on both sides of such a call.
* *Passes.* Scans, output passes, optimization passes and dummy passes overlap: the input
  runs ahead of the output, tables change between scans, a pass is given up half-way.
* *Arithmetic.* Strips of the image with shared rows; row groups with context at the
  edges of iMCU rows; heights that fill no strip; tables with codes too long.
* *Damage.* Restart markers that are lost, doubled or wrong, files that are cut off.

What makes each component correct:

* *Master and slaves:* every message meets the receive it was meant for, nothing is
  left behind, the output has every row of the image exactly once, each row is what
  filtering the whole image gives, and the program ends.
* *Median window, sequential filter:* samples are read inside the strip, of one colour
  only, and away from the border exactly those around the pixel, in every round.
* *JPEG class:* rows are deleted once, libjpeg is called in order, success means that
  all rows were read or written and that everything taken was released.
* *Reading:* what is read does not depend on where the bytes were cut; damage costs the
  MCUs near it; a call for a scan or a row that never comes ends.
* *Memory manager:* an array keeps what was written in it, however little memory there
  is; what was obtained is what is returned, after every failure.
* *Decompressor:* each row is made of the sample rows it lies on, in order, from scans
  that have been read; a call without a row has used up what there was.
* *Compressor:* the file has the blocks of the image in order, each bit of each
  coefficient once, and its decoder has the tables and intervals they were coded with.
* *Codec:* decoding gives the coefficients that were coded, tables are legal and good,
  samples come back within a quantization step, pixels near those of the source, in every
  size and colour space.
* *Quantizer:* every code is one of the colormap and near its pixel, all lookups are in their
  tables, errors do not build up, whatever passes came before and wherever they were given up.

## The modules

| Module | What it is |
|---|---|
| `MPI` | Sends and receives between named ranks, as operators that `Prac3` uses |
| `WindowRows` | Which rows of a strip the filter reads for a row |
| `Partition` | How the rows are cut into strips, and what the partition is meant to be |
| `Prac3` | Master and slaves: one action per statement that communicates |
| `RowFilter` | Abstract specification: the filter of a whole image, row by row |
| `Prac3Properties` | The properties of `Prac3`, its refinement mapping, its inductive invariants |
| `NumberProofs` | Lemmas on numbers, sums and recursive functions that the other proofs share |
| `Prac3Proofs` | Theorems about the messages and the rows of `Prac3` |
| `WindowSamples` | The samples of the window, shared by the next two |
| `MedianWindow`, `MedianWindowProofs` | The loops of the filter in `Slave`, sample by sample; theorems about them |
| `SequentialFilter`, `SequentialFilterProofs` | The sequential program; theorems about it |
| `Libjpeg` | Life cycle of a libjpeg object, as operators that `JpegImage` uses |
| `JpegImage`, `JpegImageProofs` | The JPEG class, called in any order; theorems about it |
| `MarkerReader` | The marker reader over a source of bytes that may run dry |
| `InputController` | The calls of an application that reads a file, and its properties: composes marker reader, decoder and coefficient controller |
| `MCInput` | Files, sound and damaged |
| `RowStore` | Abstract specification of a virtual array |
| `VirtualArray` | A virtual array with buffer and backing store |
| `MemoryManager`, `MCMemory` | Pools, large objects, realization of arrays, over three system-dependent parts |
| `MemoryProofs` | Theorems about the virtual array and the memory manager |
| `DecompressSetup` | What `jdmaster.c` works out before the first row: scales, methods, modules |
| `RowPipeline` | Main controller, upsamplers, postprocessor, as functions on their state |
| `CoefBuffer` | The coefficient controller over a source of MCUs |
| `OutputController` | The calls of an application that reads rows, and its properties: composes the three above |
| `MCRows` | Images and parameters |
| `CompressParams` | Parameters, defaults, scripts and their validation |
| `MarkerWriter` | The markers of a file, and which tables were sent |
| `CompressPipeline` | Preprocessor, downsampler, main and coefficient controllers |
| `CompressController` | The calls of an application that writes files, the passes, and their properties |
| `MCCompress` | Sessions of one to three files |
| `HuffTables` | Optimal tables, derived tables of encoder and decoder |
| `HuffEncoder`, `HuffDecoder` | Sequential and progressive coders, bit by bit |
| `ForwardDCT`, `InverseDCT` | The integer transforms with their quantization |
| `StreamProofs` | Theorems about reading a file: marker reader and input controller, their rows and comments |
| `EntropyCoding` | An image through coder, damaged or slow bytes, and decoder, and its properties |
| `PixelValues` | Colour conversion, down- and upsampling, smoothing, the table of range limits, as functions on pixels and rows |
| `OnePassQuantizer` | The one-pass quantizer: set-up, passes, rows; its properties |
| `CodecProofs` | Theorems about `PixelValues`, `OnePassQuantizer` and `HuffTables` |
| `PixelPipeline` | Pictures from pixels to blocks, through `EntropyCoding`, back to pixels and through the quantizer; its properties |
| `MCCodec` | Images, pictures, scripts and what readers ask for |

### Prac3

A row of `Input` is represented by its index. A strip maps its rows to rows of
`Input`; a filtered row maps each offset of the window to the row of `Input` that it
read there. So a property of `Output` is a statement about where its samples come
from, whatever their values; `Stride`, the number of bytes in a row, matters for the
sizes of messages only.

`pc[p]` is the statement that rank `p` is at. Each iteration of a loop that sends and
receives is two actions, since other ranks move between the two (`SendDims`,
`RecvEcho`, `SendArray`, `RecvAck`); the loops that copy rows are part of the action of
the message they belong to (`SendArray` reads the strip, `Gather` copies it back and
updates `indexer`). `i` is the index of the loop the master is in. `ReadFails` is the
early return at line 61 (or 70); `MasterDies` is rank 0 ending inside `Read`, `Allocate`
or `Write`, or by a wild row pointer in the scatter loop (`ReadsOutside`), upon which
`mpirun` ends the job. A row read outside an array has the value `OutOfBounds`.

`MPI_Send` appends a message and either goes on or leaves its rank in `blocked` until
the message is taken: the choice is free at each send, so a property holds for every
library, buffering or not. A message of another type or too long for its receive sets
`job` to `"mpi_error"`. A shorter one is accepted, as MPI does.

### RowFilter

Rows of an image are filtered in any order and any number at a time, each once, and the
image is saved only if all rows are there; at any moment before the program may give
up. `Prac3` implements it under the mapping `rows <- Output`, `phase <- Phase`.
`FilterRow` on the image as a whole is what a single slave with the whole image would
compute, and, away from the border, what the sequential filter computes.

### MedianWindow and SequentialFilter

A sample is the pair of its row and its column in the C expression; a window holds
samples, not values. `FillWindow` is the three loops that fill it and `TakeMedians` the
sort, the assignment and the step to the next pixel. In `MedianWindow`, `UsedRow` and
`UsedCol` are the branches of lines 269-304. `RowsAsAbstracted` ties the two levels: away
from the left and right border the rows used are those of `FilterRow`, on which
`Prac3` is built. `SequentialFilter` keeps the three components that its code fixes
apart from `Input.Components`, which it only uses for the bounds of its loops.

### JpegImage and Libjpeg

The client calls `Allocate`, `Read` and `Write` in any order before the destructor.
Inside a call, each libjpeg function is an action that succeeds or exits
(`error_exit` destroys the libjpeg object, then `exit` closes the streams and destroys
the global JPEG objects); `fopen` may fail at any time and must fail when all streams
are in use; `new` may throw, which ends the process as it is. The checks of `new` for
null in lines 65-68 and 71-75 can never be true, so `Allocate` never returns false. The
stdio source and destination never suspend, which leaves out the states that only
suspension shows; those are in the modules below. `heap` counts row buffers, `live` libjpeg
objects, `files` streams, all as they are on the machine, and not as the object believes.

### MarkerReader and InputController

A file is a sequence of bytes, `pos` the restart point, `avail` how far bytes have come.
A marker routine reads on from `pos` without changing anything; if a byte is missing it
fails and will be called again, otherwise its effect and the new `pos` take place at
once. Where the code synchronises in the middle (`next_marker` after each garbage byte,
`save_marker` with the part of a comment it has), so does the model. A block of
coefficients is one byte: what is kept of it is its number, which is enough to say
which MCU was taken for which. The decoder gets bytes as the code does, ahead of the blocks and one after the other
(`FillOne`, `Fill`), when it has none left (`Refilled`, `DecodeBlock`), and keeps them only if the whole MCU is there
(`DecodedMcu`). `jpeg_resync_to_restart` is modelled as it guesses, with
each of its three actions.

`InputController` is the loops of `jpeg_read_header`, `jpeg_start_decompress`,
`jpeg_start_output`, `jpeg_read_scanlines`, `jpeg_finish_output` and `jpeg_finish_decompress`
around `consume_input`. The application may use buffered-image mode or not; it waits for
bytes when a call says that there are none.

### VirtualArray and MemoryManager

`VirtualArray` is `access_virt_sarray` and `access_virt_barray`, which are the same code,
with `do_sarray_io`. The contents of a row are one value; memory and files hold `Garbage`
before they are written. `RowStore` is what the caller sees: rows that keep what was
written into them, zero where the array is zeroed first, and accesses refused that go
past the end or into rows never written. The mapping takes a row from the buffer if it is
there and from the file otherwise.

`MemoryManager` extends it: `BeginRealize` divides the memory, `RealizeArray` gives one array after
another its buffer and may fail at each allocation (`RealizeFails`), from which `jpeg_abort` and `jpeg_destroy` must
recover. `mem.total` is what libjpeg counts, `mem.obtained` what the system has given.

### DecompressSetup, RowPipeline, CoefBuffer, OutputController

A sample row is known by where it comes from: component, number, the scans its
coefficients had been read from, the rows it was smoothed with. `RowPipeline` has one
operator for each processing routine (`process_data_simple_main`,
`process_data_context_main`, `sep_upsample`, `merged_2v_upsample`, `post_process_2pass`, ...) on the record of
all private states; the lists of pointers of `jdmainct.c` are kept as lists, with their
wraparound, and read where the code reads them. `CoefBuffer` has the same for
`decompress_onepass`, `consume_data`, `decompress_data` and `decompress_smooth_data`. In
`OutputController` one action is one call of the application: start, read one or three
rows, raw data, coefficients, start and finish an output pass, change the colormap.

### CompressParams, MarkerWriter, CompressPipeline, CompressController

The same the other way. A sample row is the tuple of image rows it is made of; a block
has the rows and the column that its DC value comes from; `out` is the file, one record
per marker and MCU. `BlocksInPlace` does not look at the program's state to decide
where a block belongs, but at the JPEG standard's numbering of MCUs, and follows the file
with a decoder of its own (`Decodable`). The entropy coder is abstract here: it takes an
MCU, or not when there is no room.

### HuffTables to EntropyCoding

Here values count: coefficients are integers, codes sequences of bits, files bytes
with stuffed zeros. `HuffEncoder` turns blocks into tokens as `encode_one_block` and the four
progressive routines do, and puts tokens out, or counts them, as the pass asks.
`HuffDecoder` has the bit buffer of `jdhuff.h` (how full it is, when it is refilled, zeros
behind the end), the lookahead table and the slow path behind it, and for a suspended MCU
what is thrown away and what `undoit` puts back. `EntropyCoding` runs jobs: transform,
count, code, let bytes arrive, decode, transform back, with a fault between.

### PixelValues, OnePassQuantizer, PixelPipeline

Values count here too. `PixelValues` has one operator for each routine that converts a pixel
or makes one row of samples from others, with the fixed point arithmetic of the code: the
tables of `jccolor.c` and `jdcolor.c` as the sums their entries add up to, with their
rounding, and `sample_range_limit` as the whole table, wraparound for the inverse DCT included.

`OnePassQuantizer` keeps what `jquant1.c` keeps. Setting up is the loops of `select_ncolors`
step by step (`NextRoot`, `EqualShares`, `Increment`, `EndOfRound`) and the tables
(`CreateTables`); `start_pass_1_quant` may come in any mode, also in the middle of the pass before, and
changes what it changes in the code: padding `colorindex` and making dither tables when they
are first needed, clearing `fserrors`. A row is mapped component by component; error diffusion has
one action per pixel (`DiffusePixel`), since it is its running sums (`cur`, `belowerr`, `bpreverr`) that
the properties are about.

`PixelPipeline` is the way of a picture: `Preprocessed` is conversion, expansion of edges, downsampling
and the order of blocks; `SampleRow`, `UpsampledRow` and the merged upsampler lead back. The reader
picks size, colour space and interpolation, and may have the rows quantized in passes of any
mode. Which rows the routines get when buffers are small is not repeated here, it is the matter of
`CompressPipeline` and `RowPipeline`.

## The runs

| Run | States | Checks | Shows |
|---|---|---|---|
| `core` | 11,535 | `ProtocolInv`, `MessagesFit`, `ImageComplete`, `PartitionInvisible`, `DataInv`, `ImplementsRowFilter`, `EndsOnceImageIsRead` | five processes, radius 2, low images and every remainder, every buffering |
| `read_failure` | | `EveryRankFinalizes` is violated | a failed read leaves the slaves waiting |
| `median` | 516 | `ReadsInsideButBottomLeft`, `ColoursKeptByPixelShifts`, `SamplesFiltered`, `RowsAsAbstracted` | 5 x 3 window on gray and colour strips |
| `median_corner` | | `ReadsInside` is violated | the bottom left corner reads past the strip |
| `sequential` | 177 | `InteriorFiltered` | colour images with and without interior pixels |
| `jpeg` | 12,337 | `RowsOwned`, `SuccessIsComplete`, `OnlyFailuresLeak`, `CallsEnd` | all sequences of calls with all failures |
| `input` | 71,034 | `CommentsSavedOnce`, `GarbageCountedOnce`, `QuantTablesOfFirstScan`, `RowsReadBeforeOutput`, `OnePassInStep`, `DamageStaysLocal`, `Ends` | 37 files, sound, damaged, cut off and refused, read in pieces, with and without buffered-image mode |
| `memory` | 190,995 | `ArrayInv`, `NothingLost`, `BuffersFit`, `ImplementsRowStore` | two arrays with less memory than they need, enough, and no limit; every order of accesses, every failure |
| `rows` | 100,184 | `RowsInPlace`, `ScansShown`, `SmoothedFromReadRows`, `QuantizerSeesImage`, `EveryCallProgresses` | 83 images with parameters, calls of one and three rows, sources that run dry, two output passes |
| `rows_bottom` | | `NeverPastBottom` is violated | 2-pass quantization puts out a row below the image |
| `compress` | 1,035 | `BlocksInPlace`, `Decodable`, `RowsAccounted`, `FilesComplete` | 53 sessions of up to three files, destinations that refuse |
| `codec` | 65,772 | `TablesFit`, `RoundTrip`, `PictureKept`, `QuantizerSafe` | images through coder and decoder, with slow, damaged and cut off data; pictures in every colour space and sampling, read in every size and quantized |

### Bounds, and why they are enough

* `core`: five processes are the makefile's default and the fewest with two inner
  slaves, one for each of the two inner branches of the gather loop. A radius of 2
  tells a shared row from a radius. Heights 12 to 15 have every remainder of a division
  by four and are the lowest ones that are well sized (each slave owns more rows than
  the radius); heights 1 to 3 leave slaves without a row, 4, 5 and 8 give them one or two.
* `median`: strips of the height of the window, and one and two rows more; three and four
  pixels, so that a pixel has no, one or two edges; one and three components.
* `sequential`: images with no pixel, one, and several inside the border; four rounds
  instead of ten, so that windows and medians of earlier rounds are met again.
* `jpeg`: `Heights`, up to three rows; `Channels` 1 and 3, which can be written, and 4,
  which can not. `MaxObjects` = 3 libjpeg objects and `MaxFiles` = 2 streams bound the
  leaks of failing calls: with the memory, or the streams, used up a call can only
  fail, as on a machine.
* `input`: a Huffman table has one count and one value (`CodeLengths`), a quantization table
  one entry and a block one sample (`DCTSIZE2`, `DCTSIZE`): their lengths matter only as
  the number of bytes after which a source can run dry. Restart intervals of two MCUs and
  four segments: one or two of them lost, the cases that the guess of
  `jpeg_resync_to_restart` tells apart. `GetBytes` = 2 is how far the decoder reads ahead.
  `MaxScanNumber` = 3 asks for one more scan than a file has.
* `memory`: sizes in small units, with the arithmetic of the code; three rows and a strip of
  two, so that a strip moves by less than its height; limits and free blocks on either side of
  what the two arrays need. `MaxObjects` = 2 bounds pools and large objects,
  `MaxArrays` = 2 virtual arrays. One of the other arrays is wider than a chunk may be, so that it is refused.
* `rows`: heights of one row, of an iMCU row, one row less and one more, two, and two and a
  bit, for every upsampling method, fancy and plain, scales 1, 2, 4, 8, every quantizer.
  `MaxReady` = 4 MCUs and markers at the source; `MaxPasses` = 2 output passes, enough for one
  that is given up and one after it.
* `compress`: heights as above; `MaxRoom` = 2 MCUs of room at a destination; rows passed 1, 3 and
  40 at a time.
* `codec`: limits are lowered so that small images reach them: `HUFF_LOOKAHEAD` 4 for 8, so
  that there are codes on both sides of it; `MAX_CORR_BITS` 66 for 1000 and `MAX_EOBRUN` 3 for
  0x7FFF. `MIN_GET_BITS` is 25, as on a machine of 32 bits. Room for 4 or 400 bytes when an MCU
  is coded, one byte or all arriving at a time, only after the decoder has suspended. At most
  one fault per image, inside a scan with restart markers. Block sizes 1, 2, 4 and 8.
  Pictures fill their MCUs. Their `roughness` says how far pixels may be from the source
  where one sample stands for several of them; with 4 instead of 5 the run fails.
  The quantizer is asked for few colours of one, three and four components (`MCRequests`), so that
  a value stands for many samples and errors are large, for 256, and for 1, 7 and 257, which it refuses. `MaxPasses` = 2 are the passes
  of a reader: one that is given up at any row, and one after it in any mode.

There are no other bounds; no counter grows without one. Deadlock is not checked where the
programs stop (`core`, `median`, `sequential`, `jpeg`, `input`, `memory`, and `read_failure`, where ranks
stop without ending, which is the point of that run). In `rows`, `compress` and `codec` it is: an
application that is done or refused stutters (`Stopped`, `AllDone`), and nothing else may stop.

### Fairness

* `Prac3`: each rank is a process of the operating system, so there is weak fairness for
  the master's step and for each slave's step. A rank in a receive without a message,
  or in an unbuffered send, is not enabled, and nothing is assumed about it.
  Nothing is assumed about the choice between buffering and waiting, nor about failures.
* `JpegImage`: weak fairness for the steps inside a call. The client need not call.
* `InputController`: weak fairness for the steps of a call, which is one thread, and for the
  application, which goes on calling and gets bytes when there are none; strong fairness
  for `FinishDecompress`, since `Ends` is about applications that do not begin output passes
  forever.
* The others have no fairness and no liveness property. `rows` says with `EveryCallProgresses`, and
  `codec` with the last conjunct of `RoundTrip`, in every state what liveness would rest on: a call
  that did nothing had nothing to work on.

### What the models assume

* *Compressor:* an application leaves room for markers, as `jcmarker.c` demands, gives the file
  after an aborted one all its tables (`write_all_tables`), and passes comments before the
  first row. Parameters are kept from one file to the next where it does not set them.
* *Rows:* an application that is refused (an error exit) stops.
* *Codec:* in `PictureKept` a sample of a block may be off by one quantization step and 1; rounding could
  add up to more in images other than those of the jobs. The job for the fast transform
  uses quantization steps of 40: for small ones its multipliers are inaccurate by design
  (`jidctfst.c:64`). Columns and rows of zeros, which the inverse transforms skip, have no case
  of their own: what is skipped is what the calculation gives.

### Where the code and its comments disagree

Three runs show a statement of the repository that the code does not keep; `PROJECT.json`
quotes each.

1. `Prac3.cpp:347`: programs end with `MPI_Finalize`; after a failed read the slaves do not.
2. `Prac3.cpp:269` and `290`: the branches check for windows at the edge; a sample left of
   and below the strip is read after its end (`Prac3.cpp:285`). This is with the sizes
   in `Prac3.h`. The medians of the last row of each strip are affected in the first
   columns; in an inner strip that row is not copied back, in the last strip it is.
3. `jdpostct.c:223`: "We have to check bottom of image here". The check uses the first row of the
   strip (`starting_row`) and not the next row: with strips of four, seven rows and two rows
   per call an eighth row is put out, and `output_scanline` goes past `output_height`.

Beside these, reading the code shows behaviour outside the instances that are run, which
nothing here checks: with two processes the one strip is given rows it does not have
(`Prac3.cpp:77`); a window wider than a pixel has components mixes colours at the edges, and an
even one overruns `window[][]` (`Prac3.cpp:249-304`); `Sequential_Filter` stores three samples per pixel of
a gray image; early returns of `Read` and `Write` keep a stream or an object, of which
`OnlyFailuresLeak` says that nothing else does. `jquant1.c:36` has each component
mapped "to the nearest" value, but `largest_input_value` puts the boundary between two values a little above their
middle: with two values, 128 is mapped to 0, and 255 is nearer. `ValueIsNear` is what holds of it.

## The proofs

What is proved about `Prac3` holds for every `NumProcs` of at least 2, every odd
`WindowY` greater than 1, every set of positive `Heights` and every positive `Stride`; these are
the named assumptions of `Partition`, `WindowRows` and `Prac3`. The assumption on `NumProcs` excludes
one process, with which the code divides by zero; that on `WindowY` excludes even windows
and windows of one row, which filter nothing. The theorems about the two filters assume also that
`WindowX` is odd (`WindowXAssumption`: an even one overruns `window[][]`) and that an image has a pixel and
a component (`SizesAssumption`), those about `JpegImage` nothing but what `Heights`, `Channels` and the bounds
are, those about the quantizer what a request is (`RequestsAssumption`), those about reading that the sizes of
blocks and the read-ahead of the decoder are positive, and of the files only that they are sequences of bytes and of the limits for comments
that they are numbers (`FilesAssumption`, `SaveLimitsAssumption` and the others of `MarkerReader` and `InputController`); those about Huffman tables that the lookahead is not longer than a code may be
(`LookaheadAssumption`), those about the memory manager
that sizes are positive, slops not negative and limits integers (`ObjectsAssumption`, `SystemAssumption`, those
of `VirtualArray`). TLC has
checked every invariant on a small instance before it was proved.

`NumberProofs` has what the others share about numbers: dividing with a remainder, where strips start, that a
number is a place in exactly one of them, and what sums over finite sets and over sequences are. The last needs induction. The
library's theorems for it take an operator, which the provers here can not instantiate; `SetInduction`
says the same of a set of sets and is proved from a least counterexample, so that `SumFunction`
of the community modules is known for every length of a list. `Recursion` and `StrongRecursion` say that a function defined from each number to the
next, or from all smaller ones, exists (TLA+ defines it with `CHOOSE`, from which nothing follows otherwise), and
`RepeatedKeeps` that what a step keeps is kept by any number of them. How the code computes portions and
`indexer`, and where windows begin and end, is proved where it is used.

The first part of `Prac3Proofs` is about messages. `MessagesFit` (no message of a wrong type or length, no strip that
is not of the size its slave has allocated, nothing left behind) is not inductive: it says nothing about
the messages still on the way. `ProtocolInv` does. For each slave it says how far
the master has got with it (`Stage`), and for each such stage which statements the slave
may be at and exactly which messages are under way in both directions; in stage
"filling", for instance, these can be the strip, nothing, the acknowledgement, or the
acknowledgement with the result behind it. Two slaves are independent in it except
through the master, so each action has a lemma that treats the slave it concerns, and
`UntouchedSlave` and `SlaveFrame` deal with all others. `blocked` does not occur: which sends wait is
irrelevant to safety. From `ProtocolSafe`:

* `TypeCorrect` and `MessagesMatch`, conjuncts of `ProtocolInv`;
* `BufferedStrips` and `NoStrayMessage`, read off the stages;
* `MessagesSafe`: `MessagesFit` in every state.

The second part of `Prac3Proofs` is about rows. `DataInv` says what `y_portions`, `mod_check` and
`indexer` are at each statement, what each slave holds, and that the rows collected so
far are those from 0 up to the start of the next strip. The delicate part is
`IndexerInv`: the gather loop does not update `indexer` for a strip that owns no row, so
`indexer` is known only while strips are not empty, and the proof uses that only the
last strips can be empty. From `DataSafe` (with `ProtocolInv` for the contents of
messages):

* `StripsInside`: well sized images are only read inside;
* `CompleteImage`: for every height, low ones included, exactly the rows of the image are
  assigned;
* `InvisiblePartition`: in a well sized image, a row filtered in a strip reads the rows
  that it reads in the whole image;
* `Refinement`: if all `Heights` are well sized, `Prac3` implements `RowFilter`: the initial
  states map to initial states, `Gather` to `FilterRows` of the rows the slave owns,
  `ReadImage` to `Load`, `WriteImage` to `Save` or `GiveUp`, failures to `GiveUp`, every other
  step to a stutter.

The first part of `MemoryProofs` is about a virtual array of any size, strip, buffer and contents, from
the assumptions of `VirtualArray` (sizes are positive, `Zero` and `Garbage` are contents). That the caller
sees its rows is not inductive without knowing when buffer and file agree. `ArrayInv` says that the
strip the caller holds is in the buffer, that rows it may write to are defined and will be
flushed (`WritableIsDirty`), that a buffer that need not be flushed holds what the file holds
(`CleanIsSaved`), and that an array without a file is never moved. Each access is split into what it
does to the buffer's place (`WindowFacts`, forward and backward scans), to what is transferred, chunk
by chunk and cut off at the last defined row (`TransferFacts`, `FlushedFacts`), and to the rows that are
zeroed. From it:

* `ArraySafe`: `ArrayInv` in every state;
* `Refinement`: `VirtualArray` implements `RowStore`, with a row taken from the buffer if it lies there and is
  defined, and from the file otherwise. Moving the buffer leaves this mapping alone (`MovedContents`), so an
  access maps to an access of the store, one that is refused to one that the store refuses, a write to a
  write, and giving the array its buffer to a stutter.

The second part is about the memory manager, for every number and size of objects and arrays, every
limit, and each of the three system-dependent parts. `NothingLost` and `BuffersFit` are not inductive: an account alone does
not say which arrays have a buffer, nor a buffer what was planned. `ManagerInv` adds

* that an array has no buffer, whole strips or all rows (`ArraysBuffered`), and that only an error leaves a
  backing store without a buffer (`StoresHaveBuffers`);
* that `VirtualArray` is the observed array of the list, with the height the manager gave it (`ObservedIsArray`);
* that arrays without a buffer are the head of the list while the application requests, and its
  tail while they are realized (`PlanFollowed`: requests are put in front, and realization goes from front to end);
* that the buffers there are keep to `max_minheights`, and that to what was available (`PlanHolds`).

Each allocation is shown to add the same to a list and to both accounts (`SmallKept`, `LargeKept`,
`ChunksKept`), whichever pool has room, whatever slop is got and after however many chunks the
system refuses; freeing takes off the sum of the lists (`FreedFacts`). From it:

* `MemoryReturned`: `NothingLost` in every state;
* `SpaceKept`: `BuffersFit` in every state; the sum of the buffers is at most `max_minheights` times the
  least they need, or all rows of all of them, and either is available unless `max_minheights` is 1;
* `ManagedArraySafe`, `ManagerRefinement`: each step of the manager is a step of `VirtualArray` or a stutter
  (`ManagerImplementsArray`), the height it gives is one `RealizeWith` expects, and so the array has
  the invariant and implements `RowStore` in the hands of the manager too.

`JpegImageProofs` is about one object of the JPEG class and the libjpeg objects, streams and row buffers its
calls take. `RowsOwned` alone says nothing of a call that is half done. `JpegInv` has, for each
statement, the `global_state` that libjpeg must be in (`CalledInState`), so that no call is refused; how many rows have
been read or written, and that they are those of the file (`ReadingInv`, `WritingInv`); and a balance
(`LeakInv`): libjpeg objects and streams are at most the failed calls, and one more inside a call.
`ProcessInv` counts row buffers for every way the process can end. From `JpegSafe`:

* `RowsStayOwned`: rows are neither lost nor deleted twice;
* `SuccessComplete`: a call that returns true has read or written all rows;
* `LeaksAreFailures`: nothing stays behind but after a failure.

`MedianWindowProofs` is about the loops of `Slave` for every strip and window. `MedianInv` says that medians are
taken in order (`Earlier` are those of the pixels passed) and that the window was filled for this pixel alone. What the properties
say of a window is then arithmetic on the offsets: `FillWindow` counts them down and up again, and the
branches of lines 269 to 304 move them. From `MedianSafe`:

* `WindowsInside`: only the window of the bottom left corner reads outside its strip;
* `ColoursStay`: a shift by whole pixels keeps the colour;
* `MediansRight`: each sample is filtered once, in order;
* `RowAbstraction`: the rows are those of `WindowRows`, on which everything about `Prac3` rests.

`SequentialFilterProofs` does the same for `Sequential_Filter`, whose rounds all write the same samples: `SequentialInv` holds
what a round has done when it is at a pixel, and what the round before has left. The
control of the program (`ControlInv`) is known for every image, what the filter
does (`FilterInv`) for images of three components, which the code fixes. `SequentialFilters` is
`InteriorFiltered` in every state.

The first part of `CodecProofs` has theorems about values and one about the quantizer. Of the values, for all samples:

* `ConvertedInRange`, `ChromaInTable`: conversion needs no limit on the way in, and stays in its table on the way out;
* `GrayStaysGray`, `ColoursComeBack`: a colour comes back within one of what it was, a gray pixel exactly;
* `SmoothingInRange`, `InterpolationInside`: what smoothing and fancy upsampling compute are samples, and the
  latter lie between those they are made of.

The quantizer's `QuantizerSafe` is proved for every request, pixel, pass and order of passes (`QuantizerShows`),
from `QuantizerInv`, which has one conjunct for each thing kept: the request, the root (`RootHeld`: with
one less, the colours fit), the shares given out (`SharesHeld`), the tables, the errors, the pass, the row and the pixel that
diffusion is at. Three arguments carry it. A code is a number of up to four digits, each in its own base: looking a component
up in the colormap takes its digit out again, though the other components are in the sum (`DigitsOfCode`,
`EntryOfDigit`). The table of inputs has a value for each input, within half a step of it, also when padded (`ValueIsNear`). And errors
are a sum that does not grow: a residue is at most half a step, and each pixel takes at most 16
sixteenths of residues, whatever the row before has left (`ErrorFits`, `BoundKept`), which is why the corrected sample is in the part of
the table of range limits meant for it.

The second part of `CodecProofs` is about Huffman tables. What a table's codes are follows by induction
(`FirstCodesFacts`, `FirstPlacesFacts`). Of every table that is not refused (`BadTable`):

* `CodesApart`: no code begins another and none is all ones: codes of one length are consecutive numbers, and those of a
  greater length begin behind them (`PrefixesAreGreater`);
* `DecoderFindsCode`: reading bit by bit, the decoder's comparison with `maxcode` fails for all shorter lengths, holds at the
  code's own, and `valoffset` leads to its place;
* `LookaheadFindsCode`: the lookahead table has for all `HUFF_LOOKAHEAD` bits that begin with a code its length and symbol.

`OptimalTableUsable` is about `jpeg_gen_optimal_table`, for all counts for which no code is longer than
`MAX_CLEN`: the table is accepted, has the symbols that occur and no others, each once, and its codes
tell them apart. `jchuff.c:823` says that it is not clear why the symbols may be sorted by the lengths they
had before the adjustment. For being decodable it makes no difference: codes are made from how many there are of each length, and
any order of the symbols will do. What is kept all the way is that the lengths are those of the leaves of a tree (`IsBranch`, `IsTree`):

* merging two trees adds one to all their codes, and gives a tree (`MergedBranch`, `MergeKeepsTrees`), until one is left
  (`CodeSizesFacts`);
* the adjustment of K.2 takes two leaves of the greatest length away and puts them below a shorter one
  (`MoveKeepsTree`). That there is a shorter one is the point at which it could fail: a tree with all its
  leaves 17 or more deep has more of them than the 257 there can be (`SomeAreShorter`), and the number of leaves
  never changes (`AllCounted`);
* taking away the pseudo-symbol's leaf leaves one of the longest codes free, which is that of all ones (`LimitedTable`).

In the code the numbers of codes of each length are bytes (`UINT8 bits[]`). They fit when at most 254 symbols occur,
and libjpeg's own coders count no more than 176. That more frequent symbols get codes that are not longer is not proved.

`StreamProofs` is about reading a file, whatever the file is and however its bytes arrive. Its first part is about the rows.
`RowsReadBeforeOutput` alone does not say where the input is when a scan begins or a call is made
again. `RowsInv` adds, clause by clause:

* `CallsFit`: which `global_state` a call and a mode of the application belong to;
* `NewScanIsLater`: a scan that begins while rows are put out is not the one that is shown, so that its row 0
  takes nothing back;
* `OnePassStarts`, `OnePassGoesOn`: without a buffer for the whole image the decoder is, at every statement
  between two suspensions, on the row that the call under way puts out (`RowUnderWay`), and back at the
  marker reader only when the rows are through.

Of the marker reader it needs no more than `MarkersCountScans` and `RestartsKeepScan`: it counts a scan exactly when it
says that one begins. From `RowsInvariant`:

* `RowsRead`: a row is put out only after it was read;
* `RowsInStep`: in one pass input and output are on the same row, and damage never ends the process.

The second part is about the comments (`CommentsSavedOnce`), and so about where in the file the marker reader is at every statement. What it is to find
is defined without a reader: `Layout` is the list of the segments of a file, one found behind the other, and `SavedComments(n)` the
comments of the first `n` that belong to the datastream, each cut off at the limit. Both are recursive functions; `SegmentsFacts` and
`SavedFacts` say by induction what they are for every file. The property alone says nothing of a reader in the middle of a segment. `PlaceInv` has

* whose turn it is (`TurnsInv`): which method `consume_input` is (`MethodFits`), what is left over between two calls
  (`CallsRest`), what a comment may be that is saved half-way (`SavingFits`), and what is over when the reader
  returns (`ResultFits`), at the end (`EndFits`) and before the start (`StartFits`). These parts are inductive without the place;
* the place: the first `n` segments are read, and the reader is behind them and has passed no marker since
  (`BehindSegment`), or has read the marker of the next (`AtSegment`), or is inside it and has saved exactly its
  bytes up to `pos` (`InsideSegment`). In each case `marker_list` is `SavedComments(n)`.

The clause that could fail is that no marker was passed over (`Clear`). Who reads between segments is not only
`next_marker` but also the entropy decoder, which looks ahead as far as `GetBytes`, stops at a marker and takes FF 00 for a byte
(`FillOneFacts`, `RefilledFacts`, `DecodedMcuFacts`), and the resynchronisation, which throws restart markers away; all leave the reader behind the same segment.
A segment whose length is below 2 is passed as one that ends inside its own length (`ShortSegmentClear`). A
comment is saved in runs, from one shortage of bytes to the next, which join to its bytes (`KeptJoins`), and what is beyond the limit is passed in one go. From
`TurnsInductive` and `PlaceInductive`:

* `CommentsRight`: `CommentsSavedOnce` in every state, for every file, sound or not.

Model-checked only:

* `EndsOnceImageIsRead`, `Ends` and `CallsEnd`: liveness is out of the prover's reach.
* `GarbageCountedOnce` and `QuantTablesOfFirstScan`: they need the place of the reader, which `PlaceInv` has, and
  beyond it what every segment does to the counters and tables, and a cardinality over the gaps of the file. `DamageStaysLocal` is about
  the files of the run, whose damage is known (`Intact`).
* The properties of `OutputController`, `CompressController`, `EntropyCoding` and `PixelPipeline`: the
  modules on the decoder's and the compressor's rows and on coded bits use recursive operators, with which the prover
  loses its arithmetic. `QuantizerShows` is about the quantizer by itself, `QuantizerSpec`; in
  `PixelPipeline`, which only gives it its pixels, `QuantizerSafe` is checked by the run. Of `TablesFit`, which is about `EntropyCoding`,
  `OptimalTableUsable` is the part on tables; that each symbol coded has been counted is checked by the run.

## What is not modelled, and why

* Values of samples in the two programs, and so `sort` and the median itself: all properties
  are about which samples a median is taken over.
* The size of the stack, on which whole strips are kept (`Prac3.cpp:117`, `145`, `231`,
  `235`), and what a failed `Write` leaves on disk.
* The histogram and the median cut of the two-pass quantizer, and its error diffusion (`jquant2.c`).
  Which rows it gets, when, and in which pass is modelled.
* The floating point transforms (`jfdctflt.c`, `jidctflt.c`): the checker has integers only.
* Width of integers in the codec: the code uses at least 32 bits wherever it multiplies. TLC's integers
  have 32 bits too and an overflow would end the run, so there is none in the jobs; for other
  samples nothing is said.
* The formats and command lines of libjpeg's own programs, which the makefile does not build.
* `Timer` (the clock), the build, generated documentation, binaries for Windows.

## Plan

Done, in this order: `MPI`, `WindowRows`, `Partition`, `Prac3` with `RowFilter`, its runs and its
proofs; `WindowSamples`, `MedianWindow`, `SequentialFilter`; `Libjpeg`, `JpegImage`; then libjpeg from the
outside in: reading markers and scans, memory with its proofs, the decompressor's rows, the
compressor, the codec, and pixels with the one-pass quantizer; then the proofs about `JpegImage`, the two filters, messages, pixels, the memory manager, reading in
step, Huffman tables, and the comments of a file.

What the model could still have: the two-pass quantizer's histogram and error rows, as state that its passes
share; an abstract specification of the JPEG class from which
the two programs are composed, to say which files exist when a program has ended; the
compressor's file fed into `MarkerReader`, which now takes files of its own.

What could still be proved:

1. `QuantTablesOfFirstScan` and `GarbageCountedOnce`, from `PlaceInv`.
2. `RowPipeline`: the lists of pointers of `jdmainct.c`, for every number of row groups.
3. `HuffTables`: that no more frequent symbol has a longer code.
