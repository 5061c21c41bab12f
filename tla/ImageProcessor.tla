--------------------------- MODULE ImageProcessor ---------------------------
(***************************************************************************)
(* ImageProcessor::start: read the input image, run it once through the    *)
(* Magick engine, then produce one output per sink of the ticket.  The     *)
(* code is one thread of control; `pc' is its place in the function.  What *)
(* can go wrong outside this repository (Magick++, Exiv2, the file system) *)
(* is the choice between an action and MagickThrows.                       *)
(*                                                                         *)
(* An exception before the sinks leaves start (pc = "escaped"); one in the *)
(* sink loop is caught and start returns normally (pc = "caught").         *)
(***************************************************************************)
EXTENDS Metadata, Integers

CONSTANTS
  Tickets,        \* tickets (the boost property tree) of a run
  Filenames,      \* names setFilename is called with
  AbsoluteNames,  \* those of them that are absolute paths
  NoName,         \* the empty name of a processor without setFilename
  Formats,        \* output formats a ticket can name
  ExivFormats,    \* those of them Exiv2 opens
  Profiles,       \* ICC profile names
  Installed,      \* those whose file can be opened
  Paths,          \* output paths
  Sizes,          \* sizes a sink asks for
  NoImage,        \* an image variable that holds none
  NoFile          \* there is no file of this name

ASSUME ProcessorConstants ==
  /\ AbsoluteNames \subseteq Filenames
  /\ NoName \notin Filenames
  /\ ExivFormats \subseteq Formats
  /\ Installed \subseteq Profiles
  /\ "PSD" \in Formats
  /\ "JPEG" \in Formats

\* The children of Output, each with the entries start() reads of it.
ASSUME TicketConstants == \A t \in Tickets : t.output # Absent =>
  /\ t.output \in Seq(Range(t.output))
  /\ \A s \in Range(t.output) :
       s.path \in Paths \cup {Absent} /\ s.format \in Formats \cup {Absent}

VARIABLES
  pc,              \* place in start()
  ticket,          \* pt, set by setSettings
  filename,        \* set by setFilename
  engine,          \* "none", "live" or "deleted": the Engine object
  originalImage,   \* the image as read
  processedImage,  \* the image the engine made of it
  sinkImage,       \* the copy of it that is resized for the current sink
  sink,            \* index of the current sink
  sinkBlob,        \* the encoded layers of the current sink
  exif,            \* exifData of the current sink
  disk,            \* the output files: name -> content
  written          \* history: sinks written, in the order of writing

ipvars == <<pc, ticket, filename, engine, originalImage, processedImage,
            sinkImage, sink, sinkBlob, exif, disk, written>>

(* An image: how often the engine ran over it, its Magick format, its size *)
(* and ICC profile, and the Exif data it carries.                          *)
Image == [passes : 0..2, format : Formats \cup {"input"},
          size : Sizes \cup {"native"}, icc : Profiles \cup {"input"},
          exif : ExifData]

(* Output names: outputDir.filePath drops the directory when the name is   *)
(* absolute, which it is when Input.InputPath is.                          *)
OutputNames == [dir : Paths \cup {"/"}, file : Filenames, format : Formats]
PathlessName(s) == \* bug: OutputPath is not joined to the file name
  [dir |-> "/", file |-> filename, format |-> s.format]
OutputName(s) == [dir |-> IF filename \in AbsoluteNames THEN "/" ELSE s.path,
                  file |-> filename, format |-> s.format]

Sinks == IF ticket.output = Absent THEN << >> ELSE ticket.output
Current == Sinks[sink]
InLoop == {"sink", "icc", "format", "encode", "open", "metadata", "write"}
Returned == {"complete", "no profile", "caught"}

----------------------------------------------------------------------------
IPInit ==
  /\ pc = "idle"
  /\ ticket \in Tickets
  /\ filename = NoName
  /\ engine = "none"
  /\ originalImage = NoImage /\ processedImage = NoImage /\ sinkImage = NoImage
  /\ sink = 0 /\ sinkBlob = << >>
  /\ exif = [t \in ImageTags |-> NoValue]
  /\ disk = [n \in OutputNames |-> NoFile]
  /\ written = << >>

\* new ImageProcessor, setFilename (or not), setSettings, start.
Start(name) ==
  /\ pc = "idle"
  /\ pc' = "read"
  /\ filename' = name
  /\ UNCHANGED <<ticket, engine, originalImage, processedImage, sinkImage,
                 sink, sinkBlob, exif, disk, written>>

\* originalImage.read; an empty name makes Magick throw, see MagickThrows.
ReadImage ==
  /\ pc = "read" /\ filename # NoName
  /\ pc' = "engine"
  /\ \E tags \in ExifData :
       originalImage' = [passes |-> 0, format |-> "input", size |-> "native",
                         icc |-> "input", exif |-> tags]
  /\ UNCHANGED <<ticket, filename, engine, processedImage, sinkImage, sink,
                 sinkBlob, exif, disk, written>>

\* createEngine("Magick"), setMagickImage: the engine gets a copy.
CreateEngine ==
  /\ pc = "engine" /\ engine = "none"
  /\ engine' = "live"
  /\ processedImage' = originalImage
  /\ UNCHANGED <<pc, ticket, filename, originalImage, sinkImage, sink,
                 sinkBlob, exif, disk, written>>

\* bug: the engine shares the pixels of the image it was given.
RunSharedEngine ==
  /\ pc = "engine" /\ engine = "live"
  /\ pc' = "sink" /\ sink' = 1
  /\ engine' = "deleted"
  /\ processedImage' = [processedImage EXCEPT !.passes = @ + 1]
  /\ originalImage' = [originalImage EXCEPT !.passes = @ + 1]
  /\ UNCHANGED <<ticket, filename, sinkImage, sinkBlob, exif, disk, written>>

\* MagickEngine::start, getMagickImage, delete engine; enter the sink loop.
RunEngine ==
  /\ pc = "engine" /\ engine = "live"
  /\ pc' = "sink" /\ sink' = 1
  /\ engine' = "deleted"
  /\ processedImage' = [processedImage EXCEPT !.passes = @ + 1]
  /\ UNCHANGED <<ticket, filename, originalImage, sinkImage, sinkBlob, exif,
                 disk, written>>

\* BOOST_FOREACH is at the end of Output.
EndOfSinks ==
  /\ pc = "sink" /\ ticket.output # Absent /\ sink = Len(Sinks) + 1
  /\ pc' = "complete"
  /\ UNCHANGED <<ticket, filename, engine, originalImage, processedImage,
                 sinkImage, sink, sinkBlob, exif, disk, written>>

\* get id, Width and Height; resize a copy.  pt.get throws for a missing one.
ResizeForSink ==
  /\ pc = "sink" /\ sink <= Len(Sinks)
  /\ Current.size # Absent
  /\ pc' = "icc"
  /\ sinkImage' = [processedImage EXCEPT !.size = Current.size]
  /\ UNCHANGED <<ticket, filename, engine, originalImage, processedImage,
                 sink, sinkBlob, exif, disk, written>>

\* Load the ICC file and convert the resized copy to it.
ApplyProfile ==
  /\ pc = "icc" /\ Current.icc \in Installed
  /\ pc' = "format"
  /\ sinkImage' = [sinkImage EXCEPT !.icc = Current.icc]
  /\ UNCHANGED <<ticket, filename, engine, originalImage, processedImage,
                 sink, sinkBlob, exif, disk, written>>

\* bug: a missing profile skips the sink instead of ending the run.
ProfileMissingContinues ==
  /\ pc = "icc" /\ Current.icc \in Profiles \ Installed
  /\ pc' = "sink" /\ sink' = sink + 1
  /\ UNCHANGED <<ticket, filename, engine, originalImage, processedImage,
                 sinkImage, sinkBlob, exif, disk, written>>

\* The ICC file cannot be opened: start returns, the later sinks with it.
ProfileMissing ==
  /\ pc = "icc" /\ Current.icc \in Profiles \ Installed
  /\ pc' = "no profile"
  /\ UNCHANGED <<ticket, filename, engine, originalImage, processedImage,
                 sinkImage, sink, sinkBlob, exif, disk, written>>

\* FileHandling: JPEG must give Compression, PSD PreserveOriginalLayer.
FormatComplete(s) ==
  /\ s.format # Absent
  /\ s.format = "JPEG" => s.compression # Absent
  /\ s.format = "PSD" => s.preserve # Absent

ReadFormat ==
  /\ pc = "format" /\ FormatComplete(Current)
  /\ pc' = "encode"
  /\ UNCHANGED <<ticket, filename, engine, originalImage, processedImage,
                 sinkImage, sink, sinkBlob, exif, disk, written>>

\* Two layers: magick("PSD") on the original and on the processed image.
EncodeLayered ==
  /\ pc = "encode" /\ Current.format = "PSD" /\ Current.preserve = "True"
  /\ pc' = "open"
  /\ originalImage' = [originalImage EXCEPT !.format = "PSD"]
  /\ processedImage' = [processedImage EXCEPT !.format = "PSD"]
  /\ sinkBlob' = <<originalImage', processedImage'>>
  /\ UNCHANGED <<ticket, filename, engine, sinkImage, sink, exif, disk, written>>

\* One layer: processedImage.write(&sinkBlob, outputFormat) sets its format.
EncodeFlat ==
  /\ pc = "encode" /\ ~(Current.format = "PSD" /\ Current.preserve = "True")
  /\ pc' = "open"
  /\ processedImage' = [processedImage EXCEPT !.format = Current.format]
  /\ sinkBlob' = <<processedImage'>>
  /\ UNCHANGED <<ticket, filename, engine, originalImage, sinkImage, sink,
                 exif, disk, written>>

\* Exiv2 opens the blob and reads its metadata; it throws for other formats.
OpenExif ==
  /\ pc = "open" /\ Current.format \in ExivFormats
  /\ pc' = "metadata"
  /\ exif' = sinkBlob[1].exif
  /\ UNCHANGED <<ticket, filename, engine, originalImage, processedImage,
                 sinkImage, sink, sinkBlob, disk, written>>

\* bug: only the first layer gets the new metadata.
ApplyToFirstLayer ==
  /\ pc = "metadata"
  /\ pc' = "write"
  /\ exif' = ApplyMetadata(exif, ticket.metadata)
  /\ sinkBlob' = [sinkBlob EXCEPT ![1].exif = exif']
  /\ UNCHANGED <<ticket, filename, engine, originalImage, processedImage,
                 sinkImage, sink, disk, written>>

\* Apply the ticket's metadata, write it into the blob and read the layers.
ApplySinkMetadata ==
  /\ pc = "metadata"
  /\ pc' = "write"
  /\ exif' = ApplyMetadata(exif, ticket.metadata)
  /\ sinkBlob' = [i \in DOMAIN sinkBlob |-> [sinkBlob[i] EXCEPT !.exif = exif']]
  /\ UNCHANGED <<ticket, filename, engine, originalImage, processedImage,
                 sinkImage, sink, disk, written>>

\* writeImages to OutputPath; whatever has the same name is overwritten.
WriteOutput ==
  /\ pc = "write" /\ Current.path # Absent
  /\ pc' = "sink" /\ sink' = sink + 1
  /\ disk' = [disk EXCEPT ![OutputName(Current)] = [sink |-> sink, layers |-> sinkBlob]]
  /\ written' = Append(written, sink)
  /\ UNCHANGED <<ticket, filename, engine, originalImage, processedImage,
                 sinkImage, sinkBlob, exif>>

\* The ticket lacks the entry that is read next: ptree_bad_path is thrown.
EntryMissing ==
  \/ pc = "sink" /\ ticket.output = Absent
  \/ pc = "sink" /\ sink <= Len(Sinks) /\ Current.size = Absent
  \/ pc = "icc" /\ Current.icc = Absent
  \/ pc = "format" /\ ~FormatComplete(Current)
  \/ pc = "write" /\ Current.path = Absent

\* bug: the exception is not caught around the sink loop.
Uncaught ==
  /\ pc \in InLoop
  /\ pc' = "escaped"
  /\ UNCHANGED <<ticket, filename, engine, originalImage, processedImage,
                 sinkImage, sink, sinkBlob, exif, disk, written>>

\* An exception inside the sink loop: "failed to magick", and start returns.
Caught ==
  /\ \/ EntryMissing
     \/ pc = "sink" /\ sink <= Len(Sinks)                \* resize fails
     \/ pc = "icc" /\ Current.icc \in Installed          \* not a profile
     \/ pc \in {"encode", "open", "metadata", "write"}   \* Magick++, Exiv2, disk
  /\ pc' = "caught"
  /\ UNCHANGED <<ticket, filename, engine, originalImage, processedImage,
                 sinkImage, sink, sinkBlob, exif, disk, written>>

\* An exception before the sink loop leaves start(); a live engine leaks.
Escape ==
  /\ pc \in {"read", "engine"}
  /\ pc' = "escaped"
  /\ UNCHANGED <<ticket, filename, engine, originalImage, processedImage,
                 sinkImage, sink, sinkBlob, exif, disk, written>>

\* One step of start() after it was entered.
IPStep ==
  \/ ReadImage \/ CreateEngine \/ RunEngine
  \/ EndOfSinks \/ ResizeForSink \/ ApplyProfile \/ ProfileMissing \/ ReadFormat
  \/ EncodeLayered \/ EncodeFlat \/ OpenExif \/ ApplySinkMetadata \/ WriteOutput
  \/ Caught \/ Escape

\* start() is over; the process that called it goes on.
Over == pc \in Returned \cup {"escaped"} /\ UNCHANGED ipvars

IPNext == (\E name \in Filenames \cup {NoName} : Start(name)) \/ IPStep \/ Over

IPSpec == IPInit /\ [][IPNext]_ipvars
----------------------------------------------------------------------------
\* A value for every variable at every place of start().
IPTypeOK ==
  /\ pc \in {"idle", "read", "engine", "escaped"} \cup InLoop \cup Returned
  /\ ticket \in Tickets
  /\ filename \in Filenames \cup {NoName}
  /\ engine \in {"none", "live", "deleted"}
  /\ {originalImage, processedImage, sinkImage} \subseteq Image \cup {NoImage}
  /\ sink \in 0..Len(Sinks) + 1
  /\ sinkBlob \in Seq(Image)
  /\ exif \in ExifData
  /\ disk \in [OutputNames -> [sink : 1..Len(Sinks), layers : Seq(Image)] \cup {NoFile}]
  /\ written \in Seq(1..Len(Sinks))

(***************************************************************************)
(* The sinks are delivered strictly in the order of the ticket: whatever   *)
(* abandons a sink (a missing entry, a missing profile, an exception of a  *)
(* library) abandons all later ones, so the written sinks are a prefix of  *)
(* the ticket, all of them exactly when the loop ran to its end.           *)
(***************************************************************************)
DeliveredPrefix ==
  /\ \A i \in DOMAIN written : written[i] = i
  /\ pc = "complete" => Len(written) = Len(Sinks)
  /\ pc \in InLoop => Len(written) = sink - 1

(***************************************************************************)
(* The engine works on a copy.  Every file that reaches the disk has the   *)
(* image enhanced exactly once as its last layer, however many sinks came  *)
(* before it, and an original layer, when it has one, that no engine ever  *)
(* touched.                                                                *)
(***************************************************************************)
EnhancedExactlyOnce ==
  \A n \in OutputNames : disk[n] # NoFile =>
    LET layers == disk[n].layers
    IN  /\ layers[Len(layers)].passes = 1
        /\ Len(layers) = 2 => layers[1].passes = 0

(***************************************************************************)
(* A sink's file is lost only to a later sink of the same path and format: *)
(* with a relative input name, each written sink's file is there unless a  *)
(* later written sink asks for the same path and format.                   *)
(***************************************************************************)
NoSinkLost ==
  filename \notin AbsoluteNames =>
    \A i \in DOMAIN written :
      \/ \E n \in OutputNames : disk[n] # NoFile /\ disk[n].sink = i
      \/ \E j \in DOMAIN written : /\ j > i
                                   /\ Sinks[j].path = Sinks[i].path
                                   /\ Sinks[j].format = Sinks[i].format

(***************************************************************************)
(* The layers of one file agree: all have the format the sink names and    *)
(* the same Exif data, though the formats of the two images that outlive a *)
(* sink are overwritten by every sink that follows it.                     *)
(***************************************************************************)
FileIsUniform ==
  \A n \in OutputNames : disk[n] # NoFile =>
    \A i \in DOMAIN disk[n].layers :
      /\ disk[n].layers[i].format = n.format
      /\ disk[n].layers[i].exif = disk[n].layers[1].exif

----------------------------------------------------------------------------
(* Statements of comments that the code does not keep.                     *)

\* ImageProcessor.cpp:115: "originalImage contains original image and must
\* not be changed".
OriginalImageUnchanged ==
  [][originalImage # NoImage => originalImage' = originalImage]_ipvars
\* "-- resize image" (ImageProcessor.cpp:148), "-- apply output ICC profile"
\* (161): the file of a sink has the size and the profile the sink asks for.
SinkAsAsked ==
  \A n \in OutputNames : disk[n] # NoFile =>
    \A i \in DOMAIN disk[n].layers :
      /\ disk[n].layers[i].size = Sinks[disk[n].sink].size
      /\ disk[n].layers[i].icc = Sinks[disk[n].sink].icc
=============================================================================
