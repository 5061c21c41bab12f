# openPablo: specifications, model checks and proofs

openPablo is a batch image processor. `main` reads a JSON *ticket*, picks a
processor for the input file, runs an image engine over the picture and writes
one output file per *sink* of the ticket. The tree also holds storage plugins,
image operations and format encoders taken from darktable, and a lens database
taken from hugin, which the project collects as building blocks.

This directory holds TLA+ modules of that code, TLC configurations that check
them on small instances, and proofs that TLAPS checks for every instance.
`PROJECT.json` names the lines each definition stands for. Paths below are
relative to the `src` directory of the repository.

    tlc -workers 2 -config MCDiskStorage.cfg MCDiskStorage   # a run
    tlapm DiskStorageProofs.tla                              # its proofs

## Inventory

| part | state it keeps | operations | what is hard | what makes it correct |
|---|---|---|---|---|
| main (`main.cpp`) | ticket, processor, exit status | parse, test the input, create, start, delete | exceptions, `throw` with nothing to rethrow, `exit(2)` in the factory | a failure status means nothing was delivered; a good one means that the engine and the processors are freed |
| processor factory (`processors/ProcessorFactory.cpp`) | none | createInstance | libraries that fail; a processor with no file name | every answer leads to a processor or an end |
| image processor (`processors/ImageProcessor.cpp`) | settings, original, processed and sink image, the engine | start: read, enhance, loop over sinks | copies against shared images, early returns in the loop, exceptions in the metadata | sinks delivered in order, each from an image enhanced once, metadata the same in all layers |
| PSD, PDF processors | layers; count of images | start | an object without a filter, an inner processor | count is that of the image-like objects; the inner processor is freed |
| engines (`engines`) | the engine's image | start | throws | one pass over a copy |
| disk storage (`imageio/storage/disk.c`) | shared file name pattern, mutex | store | parallel calls; test for a free name before the file is made | user files are kept, numbered files differ, the mutex is released |
| gallery storage (`gallery.c`) | pattern, cached directory, sorted list | store, finalize_store | calls finish in any order; thumbnails share the size fields | index in order, pages form a ring, full-size pictures stay full-size |
| e-mail storage (`email.c`) | list of attachments, temporary files | store, finalize_store | parallel appends, fixed buffers, a client that reads later | each export mailed once while there is room |
| Picasa, Flickr storages (`picasa.c`, `flickr.c`) | api context shared by calls, album, dialog | store; entry, refresh, choose, get_params, free_params | parallel calls, server failures, contexts that change owner, stale lists and tokens | one request at a time, one album, temporary files removed, one owner per context |
| lens database (`lensdb/LensDB.cpp`) | two lensfun databases, the lens found, the lens being saved | InitDB, searches, getters; BeginSaveLens, the Save procedures, EndSaveLens, SaveCameraCrop | a protocol of calls that nothing enforces; pointers into arrays that are freed; refusals half-way | memory is safe for callers that keep the protocol, files keep what was not saved, getters answer about the lens asked for |
| format encoders (`imageio/format`) | handles of a codec, buffers | write_image, read_header, read_image | setjmp exits, failures after any acquisition | the status is that of the file, and each exit releases what was obtained, but for what is on record |
| image operations: pixels (`iop`, process and process_cl) | buffers on the host and the device | allocate, run kernels, release, fall back to the host | failure at any step; a second implementation that must agree | the output is complete and, but for the method and the smoothing of demosaic.c, the same on both paths; the input is kept; each exit releases what was obtained, but for what is on record |
| image operations: mosaics (`amaze_demosaic_RT.cc`, `cacorrect.c`) | tile buffers, sums of a fit | load, stages, copy back | overlaps, buffers that are not cleared, borders, two layouts of one array | every row is written once, from values of its own tile |
| image operations: panels (`iop`, gui and commit_params) | parameters, widgets, history, what the pipes have | callbacks, gui_update, reload_defaults, presets, picker, commit_params | a widget that is updated calls back; fields pass through four places | what is shown is what is processed; looking at something writes nothing |
| image operations: flip, exposure, crop | orientation; black, white and auto; box, mouse, focus | buttons, sliders, expose events, mouse | bits that do not commute; setters that call each other; a box that mouse, aspect, focus and parameters set | regions as turned, levels that can be divided by, a frame that the user has not reshaped is the crop stored |
| GEGL operations, loggers, `OP.cpp`, RAWProcessor, `3rdparty` | - | - | - | not modelled |

The storage plugins share one mutex (`darktable.plugin_threadsafe`) or the one
unnamed OpenMP critical section, and get their calls from the threads of an
export job that is not part of this tree: the caller is modelled from the
plugin interface (each image once, `finalize_store` after the last call).
The processors are called by `main`, and the PSD processor calls an image
processor of its own; these compose in `OpenPablo`. The image operations are
called by darktable's core (pixel pipes, history, signals of the widgets), which
is not in the tree either: it is external, modelled from the callbacks it makes.

## Modules

| module | models | state and actions |
|---|---|---|
| `Metadata` | ImageProcessor.cpp 265-352 | the tags of a file as a function; `RemoveTags`, then `AddTags`, with the place where a ticket entry throws |
| `ImageProcessor` | ImageProcessor::start | `pc` is the place in `start`; images are records of pixels, size, profile, layers and tags; one action per step of a sink: resize, profile, format, encode, exif, metadata, write; `Caught` is the catch around the loop and `Escape` an exception before it |
| `PdfScan` | PDFProcessor::start | the iterator, the counter, how the pass ended |
| `OpenPablo` | main, testFile, createInstance, PSDProcessor::start | `stage` is the place; EXTENDS `ImageProcessor` and `PdfScan` and runs them as its processors; exit codes as in the program |
| `TicketPromise` | - (abstract) | what a script that calls the program can rely on: sinks delivered one by one, failure only before the first |
| `DiskStorage` | disk.c store | each call is a process; expanding the pattern, every probe of a name, unlock, export and xmp are steps; a pattern is a sequence of parts, a name one of their texts, which is cut at its last dot (`Stem`); names are told apart by their parts, never by where one text ends |
| `StorageJobs` | - (abstract) | what a storage that presents its images together promises to a job: one answer for each image, then one presentation of what it took |
| `GalleryStorage` | gallery.c store, finalize_store | threads take images from a job; what the mutex covers is one step, what is outside is several |
| `EmailStorage` | email.c store, finalize_store | an export that may fail unnoticed; the append is two steps (find the end, link); rounds of the loop; the mail client reads files later |
| `FlickrStorage` | flickr.c store | upload in the critical block; album test, creation, info, the second test and adding are separate steps outside it |
| `PicasaStorage` | picasa.c store | two critical blocks that exclude each other; request and answer are separate steps |
| `ContextOwnership` | - (abstract) | an api context belongs to the dialog or to one job and is freed by its owner |
| `AlbumDialog`, `PicasaSession`, `FlickrSession` | dialog callbacks, get_params, free_params | what the two dialogs share, and each of them; each callback is one step: they all run in the thread of the dialog |
| `LensDB` | LensDB.cpp | one action per public call; the database files, the main database, what a save has open, and `wild` once behaviour is undefined |
| `Routine` | the control of process, process_cl, write_image, read_image | one machine for all: obtain, compute, release, fail, return, fall back to the host; a buffer holds the names of the steps that contributed to it; `nulls` are allocations that failed and were not looked at, whose use ends the program (`Crash`, outcome `killed`) |
| `RoutineRows` | what a row of `Routine` is | steps and buffers without state, and the outline of a program: what holds before each of its steps (`Sound`) |
| `PixelRoutines`, `FormatRoutines` | the files of `iop` and of `imageio/format` | a row per file and branch: the order of the steps, what each reads and writes, where its failure goes, what that exit releases and returns; where a last write may fail unseen, and where the card makes something else |
| `MosaicTiles` | amaze_demosaic_RT, process of cacorrect.c | a tile is loaded, goes through its stages, and is copied back; which rows hold values of this tile |
| `ShiftFit` | the polynomial fit of cacorrect.c | the sums are built block by block; the order drops from 4 to 2 when blocks are few |
| `IopPanel`, `IopPanelRows` | panels of 33 files of `iop` | one machine: edit, drag, page, jump in the history, new image, preset, picker, commit; a row per panel: defaults, widgets, ranges, guards on `gui->reset`, what is committed where |
| `Flip` | flip.c | the three bits, buttons, presets, modify_roi_in; a ghost picture is turned along |
| `ExposureEditor` | exposure.c | the two setters with their nested calls, auto, the expose events; the white level is the integer itself, where the code takes it through log2 and exp2 |
| `CropBox` | clipping.c | the box, its commits, focus, the mouse with its button down; one dimension; the mouse drags with a free aspect, the handlers of the aspect (`SwapAspect`, `ChooseAspect`) give the box any shape that fits |
| `MC*` | instances for TLC | `MCStorages`, `MCPixels` and `MCEditors` are sums: a variable `which` says which of several machines a behaviour is one of, the others rest; `MCEditors` also evaluates that every row is `Sound` (`RowsSound`) |
| `OpenPabloProofs`, `DiskStorageProofs`, `GalleryProofs`, `FlickrStorageProofs`, `EmailProofs`, `StoragesProofs`, `LensDBProofs`, `IopProofs` | theorems | see Proofs |

What is data in the code is a member of a small set here: a profile, a size, a
path, an album. Conversions are kept where a property is about them: the output
name (`OutputName`), the completed pattern, the key of a tag to remove, the
links of a page. Names that start with a bug comment (`\* bug: ...`) are
deliberate errors: replacing the definition they vary must break the property
named beside them in `PROJECT.json`, which shows that the property can fail.

## Runs that pass

| run | asks | bounds |
|---|---|---|
| `open_pablo` | whole runs of the program, whatever fails: sinks in order, from one enhancement, without loss, with uniform metadata; a failing run delivers nothing, a good one frees its engine and processors, every run ends; implements `TicketPromise` | tickets of 0 to 3 sinks with every shape of the test tickets and an entry of an unknown type, two tags, two profiles of which one is installed, relative and absolute input names, the three settings of ProcessLayers, `MaxLayers` = 2, PDF documents of up to two objects of eight kinds |
| `disk_storage` | mutex, user files, numbered files, termination | three calls, two with one base name and one with a dot in its base name; seven patterns: a directory that exists, with a dot in it, a plain name in it, with and without a number, another variable, a dot before a plain end and before a number; four user files, `MaxSuffix` = 5 |
| `storages` | gallery, Flickr, Picasa, e-mail and the two dialogs, one at a time: mutexes and critical blocks, order of the index, sizes, ring of pages, albums and results, mails, contexts; gallery and e-mail implement `StorageJobs`, the dialogs `ContextOwnership` | three images; gallery: two threads, four patterns (a directory that exists, a plain one, one with its own and the file's name, one with another variable that is cut), two images of one base name; Flickr: one call or two at a time (`TeamSizes`); Picasa: three calls, two with tags; e-mail: three parallel exports and a second job, `AttachmentRoom` = 2; dialogs: two users, `MaxAlbums` = 2, three log-ins (contexts are symmetric) |
| `lens_db` | memory, calibrations, getters, files | `MaxCalls` = 4, two files (one the user's), two cameras of which one is known, two lenses, one mount besides those of the files, one focal length besides 0, vectors of the right and a wrong length |
| `pixels` | routines and formats with every failure; tiles; the fit | every row of the tables; heights 34 to 130, with tiles of 96 rows for AMaZE (512 in the code) and of 64 for the correction (64 in the code, 256 for large images); nine blocks, of which any subset is kept, three laws of the shift, `Few` = 8, `TooFew` = 4 |
| `editors` | panels; flip; exposure; crop | every panel, two image kinds, `MaxEdits` = 3; four sizes and all orientations; `MaxActs` = 4 with six areas; `MaxEvents` = 5 with five places of the mouse, one outside the image |

Three calls let one call be overtaken by another while a third is between two
of its steps; two calls show every pairwise race, and two threads with three
images let a thread come back with state of its last image. Three contexts are
one for the dialog and two for jobs. Two albums let a wrong index name
another album and not only none. Three sinks let a failing one stand between
two good ones. Two PDF objects let one be counted before the one that ends the
pass. `MaxSuffix` leaves more numbers than two user files and three images can
take. Four calls of the lens database are begin, save, end and one that comes
too late, or a refusal and a whole save after it. The heights go through every
residue of the step between tiles, from less than one tile to more than one of
AMaZE and three of the correction. Nine blocks are more than `Few`, so that
both orders of the fit happen, and no fit. Three actions on a panel are a picked
colour, an item made of it, and a way back to it; that no row needs more is
proved. Four actions on the exposure are a measured
area, auto, and two that interfere; five on the crop are focus, a press, a move,
a flip and an older item. A deadlock would be an error in every run, and the end
of a job, a run or the bound of a user's actions is a step that leaves
everything as it is, except in the dialogs of the albums and in `Flip`, which
always have a next step.

### What the properties say

`StoragesTyped` is the type invariant of the storages and the dialogs. Its parts
`GTypeOK`, `PTypeOK`, `FTypeOK` and `ETypeOK` also hold the relation of a call's
place to what it owns: the mutex or critical section, the temporary file, the
room on the command line. The other modules have no type invariant of their own
among the properties: that of the disk storage is a theorem, and in the others
a value of a wrong type would stop TLC or break one of the following.

* `DeliveredPrefix`: when a profile is missing or a library throws in the loop,
  exactly the sinks before it were written. `EnhancedExactlyOnce`: the pixels of
  a file went through the engine once, and those of the original layer of a
  layered PSD never. `NoSinkLost`: sinks with different paths never write one
  file. `FileIsUniform`: a file has one format and one set of tags in all layers,
  though `processedImage` outlives its sink.
* `CleanExit`, `PromiseKept`, `RunEnds`: over every processor, an exception that
  reaches `main` did so before the first sink; status 0 comes with the engine,
  the processor and an inner processor freed; and every run ends. `CleanExit` speaks
  of what main and the processors have made, and of the endings that main decides
  on: the settings, the job and the images that the factory makes of RawTherapee
  (ProcessorFactory.cpp:158-191) are never released, and `exit(2)` and the `throw`
  without an exception end the program past main.
  `ReportIsComplete`: a reported number counts every image-like object of the
  document, and a pass that a `PdfError` ends reports nothing.
* `UserFilesKept`, `NumberedFilesDiffer`, `LockDiscipline` of the disk storage:
  what the unlocked export cannot break although `NoOverwrite` fails. Numbered is
  an image whose name has its number to the end: what is behind the last dot
  of an expanded name is cut off (disk.c:200-204), and with it a number that stands
  there, be it that of the pattern or the one that completes it. And a pattern with
  any `$` is not completed (disk.c:171).
* `JobsPresented`: the gallery and e-mail implement `StorageJobs`. However the calls
  of a job interleave and whichever fail, its index or its mail is made after the
  last of them, once, of exactly the images that store took: the index in the order
  of the job, or empty if it cannot be opened; the mail as far as the command line
  has room, or empty if the client does not start.
* `SizesKeptApart`, `PagesFormRing` of the gallery.
* `MailAsExported` (`EveryExportListed`, `MailComplete`): no attachment lost or added twice by
  parallel appends; a mail misses one only for lack of room.
  `NothingStaleMailed`: the client never reads what an earlier job exported, unless
  the export of this job failed: store does not look at its result.
* `OneAlbum`: parallel Picasa calls make one album, and any further one has a
  failed call to answer for it, or an answer 201 whose entry has no children, which
  leaves `current_album` NULL and is no failure (picasa.c:430-433, 480); only after
  such an answer can an upload find no album, and dereferences it. `AlbumsAsChosen`:
  Flickr makes no album unless
  asked, and only parallel calls can read an album that was lost.
  `ZeroLeavesNothing` (Flickr, where 0 is the failure): such a photo is in no
  album, and on the server only if the answer to its upload was lost, which the
  code cannot tell from a refusal (flickr.c:313-319). `ResultTellsUpload` (Picasa): 0
  means that the photo is there, 1 that it is not, unless the answer was lost
  (picasa.c:255-263) or there were tags to send. `PhotosTogetherSerially`:
  one thread keeps the promise that `flickr_album` shows broken.
* `AlbumAsShown` (with `AccountAsNamed` and `FlickrAccountAsNamed`),
  `ContextsOwned`: an index taken from what the combo box shows (`items`) means the
  same album in the list in which get_params looks it up (`albums`), which may be
  newer or older. At Picasa a job of another account than the named one comes only
  from a context that waits for a new log-in. At Flickr the context that an export
  would be given, and the album it would name, are of the user in the dialog, unless
  a token outlived the name it was for (`outlived`): the next log-in is by the token
  (flickr.c:356). And contexts have one owner.
* `MemorySafe`: the lens database misuses memory only after it refused a lens, by
  a Save procedure outside of Begin and End, or without a main database.
  `RestOfFileKept`: a save changes one lens or camera of its file, and no other.
  `CalibratedOnce`, `AnswersAboutAsked`: one calibration for a focal length, and
  no answer about a lens of an earlier search.
* `ResultComplete`: whichever steps fail and whichever of the two
  implementations did the work, the output is made of all its steps and no part
  of it is left unwritten. Both make it of the same steps, but for the rows of
  demosaic.c with AMaZE or the smoothing: process_cl looks at neither
  (demosaic.c:753) and commit_params does not keep it from being called (1044-1054),
  so that the card makes PPG without smoothing of them. `NothingLeaks`: each exit
  that returns releases what was obtained
  before it. A row's `keeps` names what the code never releases, so that such a
  leak is on record and any other breaks the property. `InputKept`: the
  fallback and the second pass find the input as it was, and nothing is used that
  was not asked for or is released already. An allocation that fails and is not
  looked at (most `malloc`s of process, `TIFFOpen` at tiff.c:66) ends the
  program at its first use: the model has that step, `Crash`, and no property denies
  it. `FailureReported`: the status 0 stands for a whole file, or for one without
  its last buffer where nobody looks at what `fclose` returns (png.c:202,
  copy.c:98); and another status for a failure.
* `EachRowOnce`, `HaloEnough`: tiles partition the image, and the overlap is as
  wide as the stages reach, but for the weights and the measuring pass that the
  comment of the property names. `CubicFitExact`: shifts that follow a law of low
  order are found again.
* `ShownIsProcessed`: a field goes unharmed from the slider into the parameters,
  an item of the history, the pipe and back into the widget. One widget of one
  row is left out, as `Overrun` says: the picker of relight.c writes a lightness
  of 0 to 100 where its slider ends at 1 (relight.c:300).
  `RefreshWritesNothing`: looking at an older item or another image makes no item
  and changes no parameter, although widgets that move call back.
* `RegionAsTurned`: after any turns and presets the region of the input is the
  one that the user has turned into the region of the output.
* `EveryItemProcessable`: no item of the history has black at white, where
  process would divide by zero. `AutoRests`: auto ends at the measured levels.
* `StoredAsDrawn`: only what the user did to the box, by the mouse or by another
  aspect, can make the frame differ from the crop that is stored, up to the sign;
  `edited` remembers that, in spite of callbacks that set only some
  of box, parameters and switch. The field `applied` of the code is set in many
  places and read in none: the frame is drawn the same, edited or not.

## Runs that show a disagreement

Each checks one statement a comment or a test ticket makes of the code, and TLC
finds an execution that breaks it.

| run | what the code does |
|---|---|
| `original_image` | a layered PSD sink changes `originalImage`, which "must not be changed" |
| `sink_as_asked` | the resized and profiled `sinkImage` is never the one that is encoded |
| `disk_overwrite` | two calls pick one free name before either has made the file |
| `flickr_album` | the critical block ends before the album is tested: two albums, or a photo in none |
| `lens_rejected` | a refused lens leaves a pointer to the destroyed database, which is destroyed again |
| `drawn_as_kept` | with the horizontal flip the frame gets a negative width |

Other behaviour that differs from what a reader may expect is in the modules as
the code has it, without a run of its own: the array form of `RemoveTags`
removes nothing (ImageProcessor.cpp:283); PDF objects with an unknown filter are
counted (PDFProcessor.cpp:148); the gallery does not guard a pattern that ends in
`$(FILE_NAME)` against overwriting, and every store sets the directory of the
index (gallery.c:209, 240); the number that a pattern has, or is given so that
exports do not overwrite each other ("braindead export", disk.c:170), is cut off when
a dot stands before it and no slash between (disk.c:200); a Flickr call whose temporary file cannot be made
returns success (flickr.c:683), and one whose answer is lost returns failure though
the photo may be there (flickr.c:313); an old token wins over the name in the dialog
(flickr.c:356); a Picasa photo that was created is reported as failed when the
answer is lost or does not parse (picasa.c:260, 281); an album that is created with
an entry without children leaves no album and no error, and the upload then reads
through NULL (picasa.c:430, 480); the Picasa context made for the next
export has no list of albums (picasa.c:1031); e-mail attachments are cut at 4096
bytes, exports of one base name share a file, and an export that fails attaches the
file that an earlier job left under that name (email.c:171, 102, 104).

Of the image operations: the fit of order 2 adds to the places of order 4, so
that `FitExact` fails where `CubicFitExact` holds (cacorrect.c:759, against the
comment in 758); the pass that corrects may load rows that an earlier tile has
corrected (`TileFromInput`), and the mirrored border goes beyond a tile that is
cut short (`InsideTile`, cacorrect.c:270, 406); these three are stated in
`ShiftFit` and `MosaicTiles` without a run. A few more lie where no module
reaches, or are written into a row as the code has them: two pipes share the
static grey patch of temperature.c:704; colortransfer.c:327 sets a field of the
parameters from the thread of a pipe; an index of spots.c outlives its spot; the
request of the exposure panel and the area it measured survive a change of the
image; with the centre locked and a free aspect an enlarged crop box goes left
of the image, and its left border dragged to the end makes it narrower than the
least width the drag asks for; an aspect that is chosen
while the panel has no focus is undone by the focus it asks for (clipping.c:651);
AMaZE and the smoothing are
unknown to process_cl of demosaic.c, and its green equilibration works in place
under OpenMP (demosaic.c:349); the error jumps of jpeg.c and png.c leave
buffers behind; pfm.c, ppm.c, tiff.c and exr.cc do not look at the result of
their writes, png.c and copy.c not at that of `fclose`, tiff.c not at that of
`TIFFOpen`; and a picture that does not fit into the memory that jpeg.c compresses
into makes it try the same line for ever (jpeg.c:84, 202).

## Fairness

Three specifications state fairness. The main program is one thread that keeps
running: its step is weakly fair (`OPSpec`), and the loops of the processors go
over finite lists. Each call of the disk storage is an OpenMP thread that keeps
running: `FairSpec` makes each weakly fair. A weakly fair thread can be
overtaken at the mutex; the number of images bounds that, so no strong fairness
is assumed. In `ExposureSpec` (and `MCSpec` of `MCEditors`) the expose event of
the panel is weakly fair: every item of the history makes the pipe run, and a
pipe that ends draws the panel again, as long as auto is on. The user is never
assumed to act. The calls of the other storages wait only for a mutex or a critical
block that its holder leaves on every path; for these and for the dialogs TLC
checks that no state is a deadlock, and no fairness is assumed.

## Proofs

All are checked by `tlapm` with Z3, Zenon and, for the temporal steps, LS4.
37 of the 40 properties of the passing runs are theorems, for every value of
the constants; the other three, which are liveness, are at the end of this section. A
configuration shows a property on its instance; the theorem has no bound on
images, calls, edits, tickets or sizes. Each module has an inductive
invariant, a conjunction of named parts, each part a relation of the state that
the properties need and do not say; each step of the model is one step of the
proof that keeps it.

* `OpenPabloProofs`: everything the run `open_pablo` checks but its liveness, for
  every set of tickets, file names, profiles, metadata and documents. The
  invariant is in three parts, each over the variables of one machine. `IPInv`:
  what an image variable holds at each place of `start`
  (`Shape`), that the loop has written the sinks before the current one and read
  the entries of that one (`Progress`), that the engine made one pass
  (`Pictures`), and that each file is the output of one written sink under the
  name it asked for (`Files`). `PdfInv`: the counter is the number of image-like
  objects behind the iterator. `MainInv`: what is allocated at each stage, and
  that the exit status is decided on the way to the shutdown. `RunKeepsPromise`
  is the refinement of `TicketPromise`, step by step; only that a run ends is
  left to TLC. `FileIsUniform` rests on what `Pictures` says of the blob: after
  the metadata all its layers have the one Exif data of the sink.
* `DiskStorageProofs`: the mutex discipline, user files and numbered files for
  every set of images, names and patterns. A call is in its critical section
  exactly while it owns the mutex. A call past its probe holds a name that was
  free of user files when it was probed (`NamesFresh`), and user files are never
  added, so the name a call exports to is never one of them. For numbered files:
  the first call to expand the pattern completes it, and completing twice changes
  nothing (`CompletedIdempotent`). A stem is the expanded pattern or that cut at
  its last dot (`StemShape`), so that a number in front of the cut is in it
  (`NumberInStem`), and two stems of one pattern with it are of one image
  (`NumberTellsImage`); from then on every numbered name of the job
  carries the number of its image (`NumberInv`). A complete pattern with no
  variable belongs to a job of one image (`PlainIsAlone`).
* `GalleryProofs.GalleryCorrect`: index, sizes and ring of pages, for every number
  of images and threads. Each call has an image of its own (`Calls`); the list is
  in order and holds exactly the images whose page was written (`Listed`, where
  the insertion sort has a lemma that a place exists and keeps the order); the
  index is written when no call is left (`Indexed`); the size fields are small
  between shrinking and restoring only (`Sized`); a page is in the directory of
  its number (`Paged`). `GalleryPresents` is the refinement of `StorageJobs`: a return
  is an answer, `FinalizeStore` the presentation, and every other step a stutter.
* `EmailProofs.EmailCorrect`: for every set of images, of jobs and every room on
  the command line. One call at a time is between the two halves of the append
  and the list is as that call found it (`Linking`); what returned is in the list
  or in the command line, once (`Collected`); mails are of jobs that ran
  (`Mailed`); a temporary file whose export did not fail has the pixels of its
  job or of a later one (`Exported`). `EmailPresents` is the refinement of
  `StorageJobs`: the second half of the append answers, `Launch` and `LaunchFails`
  present.
* `FlickrStorageProofs`: results and albums for every set of images and any number
  of threads. What a place in `store` says of its photo (`PhotoAtPlace`: there, in no
  album yet, or there without an answer) carries `FlickrZeroLeavesNothing`. The context's album is the user's, or none, or one this job made
  (`AlbumOfChoice`), and a call about to read it finds one unless another call
  ran in between (`AlbumAtHand`). For one thread and a willing server, between two
  calls there is an album exactly when no new one is expected (`AlbumSettled`):
  `FlickrPhotosTogetherSerially`, which `flickr_album` shows to need its one thread.
* `StoragesProofs`: every property of the run `storages`, about the composed
  specification `MCSpec` itself. The upload to Picasa: a call asks for an
  album only while there is none and nobody else can ask, and gets past that block
  with an album unless it was told nothing of its own (`AlbumFirst`); so all
  photos are in `current`, and an album that is not `current` has a failed call or an
  answer without an album to stand for it (`AlbumOfAll`). Who reads the missing album
  ends the program for all calls (`AllKilled`). The ownership of contexts: no context has two owners
  (`OneOwnerAlways`, about `ContextOwnership`), and both dialogs implement it
  (`ContextsAlwaysOwned`): a refresh is a log-in or leaves contexts alone,
  `HandOver` is a hand-over, `FreeParams` a release. The dialogs' lists:
  `ListsInv` says that a context has the list of its own account and that the box
  shows the list of the dialog's context unless that has none; `FlickrNamed`, that
  the context of the Flickr dialog and its list are of the user named, as its token
  is unless it outlived the name; `AlbumAsShown` follows. Gallery, Flickr and e-mail are instances of their proof modules: a
  behaviour of the composition is one of the component, or rests, so
  that their theorems hold of it by the constants of the instance.
* `LensDBProofs`: everything the run `lens_db` checks, for every set of files and
  lenses and any number of calls. `SaveInv` ties the pointers of a save
  together: the array of lenses is there exactly while a save is open, the current
  lens is one of it, and the other lenses are those of the file in their order
  (`LensesInv`), with mounts that contain those of the file the list was made of
  (`MountsInv`); from that, what a writing call may change. `CalibInv`: replacing
  a calibration leaves one for each focal length. `FoundInv`: whatever
  was found answers to the last name that was asked for.
* `IopProofs`: the panels, the orientation, the exposure, the crop, the tiles, the
  routines and the fit.
  `PanelInv`: every item of the history, and the parameters, are in the ranges of
  the sliders (`Recording`), the widgets show the parameters (`Showing`), and the
  pipes have the item in force unless it is still to be committed
  (`Processing`). `TurnedInv`: the picture that was turned along is the view that
  the three bits stand for. Two quarter turns, a turn and its reverse
  and the mirrors are lemmas about views, and a stretch of an axis stays one when
  it is mirrored (`TurnedStretch`), which makes four corners enough for the region.
  `ItemsProcessable`: each setter with its nested call of the other gives back
  black below white, and so is every item it makes on the way. `FrameIsStored`:
  every item of the history is a crop, for any may become the box again, what
  a drag remembers are positions, and a box that is not `edited` is that of the crop,
  through each handler that reshapes one or the other. Tiles: every row above the interior of a
  tile has been written and no row below it (`Writing`); and for the overlap a
  stage leaves what it makes in all rows as far from the edge as it works
  (`Loading`), so that a later stage that works further from it by its reach finds
  them. The sixteen stages are checked one by one against that (`AmazeOverlaps`,
  `CaOverlaps`), the induction over stages and tiles is done once.
* `IopProofs`, routines: `RoutinesComplete`, `RoutinesGiveBack`, `RoutinesKeepInput`
  and `RoutinesTell` hold of the machine `Routine` over every table whose rows are
  `Sound`. The properties themselves are far from inductive: a routine that holds
  nothing it should not hold may be in the middle of a program that never gives it
  back. So a program gets an *outline* (`RoutineRows`), as in the method of Floyd:
  before each step, what is allocated for sure or is a NULL nobody looked at, what
  may be allocated, what a failure nobody noticed left unallocated, and what the buffers contain without such a failure.
  `Sound` asks of a row that its steps, exits and end fit its outline: a buffer is
  released only where it is surely allocated, each exit releases what may be, the
  end has the promised output of its path, or an exit that reports 0 all but its last
  buffer. This is a condition on the text of a program and
  knows nothing of failures or of the fallback; `RoutineInv` says that the state
  follows the outline (`Placed`, `HeldAsOutlined`, `MadeAsOutlined`,
  `MissedAsOutlined`), and one lemma for each action of the machine carries it over
  failures, exits, the use of a NULL (`CrashKeeps`) and the change from the device to the host. TLC evaluates `Sound`
  for all rows of `PixelRoutines` and `FormatRoutines` (`RowsSound` of `MCEditors`; not
  in `MCPixels`, so that a wrong row breaks a property there and not an assumption).
* `IopProofs`, fit: `CubicFitIsExact`, for an area of any size, any subset of its
  blocks and any laws. `FitInv`: whatever blocks have been added, each row of the
  sums applied to the coefficients of the law gives the right-hand side of that row
  (`Solved`), because each block keeps this balance (`BlockSolved`, `Distributes`).

Two of these need induction over data, for the outline of a program is a recursive
function over its steps, and a power one over its exponent. The library's induction
theorems take an operator as a parameter and are of no use here; `LeastNatural`, from
the well-foundedness of the naturals, gives a set of naturals its least member, and
the recursive functions are shown to exist by taking the least length at which they
would not (`IterationExists`, `IterationsAgree`).

The attempt to prove `ShownIsProcessed` found the exception in relight.c: the
run, at two actions to a panel, could not reach it, and the property was claimed
without it. The bound is three now and the exception is in the property.

Assumptions, all named in the module that declares the constants and evaluated by
TLC in a run: constants that stand for "none" are none of the things they are
told from (`ProcessorConstants`, `LensConstants`, `DialogConstants`,
`PicasaConstants`, `FlickrConstants`, `GalleryConstants`, `EmailConstants`);
tickets, documents and database files have the shape that the parser gives them
(`TicketConstants`, `DocumentConstants`, `ContentConstants`); there is room for
one attachment (`EmailConstants`); the job numbers its images differently,
by texts without a dot or a slash (`DiskConstants`); images have a size (`FlipSizes`); an image is higher than a
margin, and tiles are higher than three (`GeometryAssumption`, where the code has
tiles of 64 to 512 rows and margins of 8 and 16). `PanelConstants` says of each row
that it fits its sliders (`Fitting`): TLC evaluates it for all 33 rows, and the
proof does the rest for a panel that is used without end. The blocks of the fit are
counted and the coefficients of its laws are integers (`SideAssumption`,
`LawsAssumption`). Hypotheses of single
theorems: `Null` is no file and no list (`NullIsNothing`); the database files
were written with one calibration for each focal length (`FilesCalibratedOnce`), as
the program does; "no file" is no file (`SinksKept`); the rows of a table are `Sound`
(`TableSound`, of the routines).

Only model-checked, and why:

* `RunEnds`, `StoreReturns`, `AutoRests`: liveness under fairness is out of the
  prover's reach. So are deadlocks, for they are about ENABLED.

## Not modelled

* Pixel arithmetic of engines, image operations and GEGL operations, the table of
  camera presets in wb_presets.c, the matrices of lens.c and clipping.c.
* The curve editors (tonecurve, basecurve, colorzones, equalizer, lowlight,
  zonesystem: nodes dragged by the mouse), the panels of spots.c, watermark.c,
  lens.c and colortransfer.c, and the handshake of the latter between pipes: their
  state is not of the common pattern, and each would need a module like `CropBox`.
* Concurrency of the panels with the pixel pipes, except that a commit comes at
  any time: the threads belong to darktable's core.
* The vertical dimension and keystone of clipping.c, and what a chosen aspect is: the
  box becomes any one that fits. Dragging with an aspect that is fixed.
* The rounding of the white level through log2 and exp2 (exposure.c:117, 217).
* lensfun: what a score or an interpolation is; lenses are found or not.
* The text of pages, mails, requests, captions and logs.
* The GTK dialogs of disk, gallery and e-mail, which copy entries.
* What libraries do inside: Magick, Exiv2, LibRaw, RawTherapee, libmagic,
  PoDoFo, curl and flickcurl answer or fail by choice. Calls of two threads on
  one flickcurl handle outside the critical block (flickr.c:727, 737, 747) are
  given independent results.
* The file system below /tmp for PSD layers; that a raw file is developed into
  /tmp/RT.jpg, which nothing reads.
* `OP.cpp`, an unbuilt copy of `main.cpp`, the loggers, the empty RAWProcessor.

## Plan

1. (done) `Metadata`, `ImageProcessor`, `PdfScan`, `OpenPablo` over
   `TicketPromise`; the five storages; the dialogs over `ContextOwnership`;
   proofs for the disk, Picasa and Flickr storages and the ownership of contexts.
2. (done) The lens database; the format encoders and pixel routines over one
   machine; the mosaics; the panels and three editors; proofs for the exposure
   and the crop.
3. (done) Proofs of every safety and action property of the program, the
   storages, the lens database, the panels, the editors, the tiles, the routines
   and the fit; that `OpenPablo` implements `TicketPromise`, the dialogs
   `ContextOwnership`, and the gallery and e-mail `StorageJobs`.
4. (open) An abstract specification of the other side of a job, its threads and
   their calls of `store`, `finalize_store` and `free_params`, which every storage
   would be composed with.
5. (open) The curve editors and the handshake of colortransfer.c.
