-------------------------- MODULE OpenPabloProofs --------------------------
(***************************************************************************)
(* A run of openPablo, for every set of tickets, file names, profiles and  *)
(* PDF documents: what reaches the disk, what a run leaves behind, and     *)
(* that it keeps TicketPromise.                                            *)
(*                                                                         *)
(* Each of the three parts has an inductive invariant over its own         *)
(* variables: IPInv of ImageProcessor::start, PdfInv of the PDF scan and   *)
(* MainInv of main and the processors around them.                         *)
(***************************************************************************)
EXTENDS OpenPablo, FiniteSetTheorems, SequenceTheorems, TLAPS

(* Image with its Exif data in E.                                          *)
Layers(E) ==
  [passes : 0..2, format : Formats \cup {"input"}, size : Sizes \cup {"native"},
   icc : Profiles \cup {"input"}, exif : E]

(* The layers of one file, in the format it is named after: the enhanced   *)
(* image, behind the original when there are two.                          *)
Encoded(blob, format, E) ==
  /\ blob \in Seq(Layers(E)) /\ Len(blob) \in 1..2
  /\ blob[Len(blob)].passes = 1
  /\ Len(blob) = 2 => blob[1].passes = 0
  /\ \A i \in 1..Len(blob) : blob[i].format = format

Shape ==
  /\ pc \in {"idle", "read", "engine", "escaped"} \cup InLoop \cup Returned
  /\ ticket \in Tickets
  /\ filename \in Filenames \cup {NoName}
  /\ sink \in Nat
  /\ disk = [n \in OutputNames |-> disk[n]]
  /\ written \in Seq(Nat)

(* How far the loop is, and what it has read of the current sink.          *)
Progress ==
  /\ pc \in {"idle", "read", "engine", "escaped"} => written = << >>
  /\ \A i \in 1..Len(written) : written[i] = i
  /\ Len(written) <= Len(Sinks)
  /\ pc \in InLoop => sink = Len(written) + 1
  /\ pc \in InLoop \ {"sink"} => sink <= Len(Sinks)
  /\ pc \in {"engine"} \cup InLoop => filename \in Filenames
  /\ pc \in {"encode", "open", "metadata", "write"} => Current.format \in Formats
  /\ pc = "complete" => Len(written) = Len(Sinks)

(* The engine works on its own copy, before the loop.                      *)
Pictures ==
  /\ engine = "live" => pc \in {"engine", "escaped"}
  /\ pc \in {"engine"} \cup InLoop => originalImage \in Image /\ originalImage.passes = 0
  /\ pc = "engine" /\ engine = "live" => processedImage \in Image /\ processedImage.passes = 0
  /\ pc \in InLoop => processedImage \in Image /\ processedImage.passes = 1
  /\ pc \in {"open", "metadata"} => Encoded(sinkBlob, Current.format, ExifData)
  /\ pc = "write" => Encoded(sinkBlob, Current.format, {exif})

(* Every file is the output of one written sink, under the name it asks.   *)
Files ==
  \A n \in OutputNames : disk[n] # NoFile =>
    /\ disk[n].sink \in 1..Len(written)
    /\ n = OutputName(Sinks[disk[n].sink])
    /\ \E e : Encoded(disk[n].layers, n.format, {e})

IPInv == Shape /\ Progress /\ Pictures /\ Files

PdfInv ==
  /\ document \in Documents \cup {<< >>}
  /\ at \in 1..Len(document) + 1 /\ nNum \in Nat
  /\ scan = "closed" => at = 1 /\ nNum = 0
  /\ nNum = Cardinality({k \in 1..at - 1 : LooksLikeImage(document[k])})
  /\ scan = "reported" => at = Len(document) + 1
  /\ scan = "killed" => NoFilter(document[at])

(* Outside stage "image", and before it, start() has not been entered; the *)
(* exit status is decided by the step into "shutdown" or "ended".          *)
MainInv ==
  /\ stage \in Stages /\ image \in Filenames \cup {NoName}
  /\ stage \notin {"image", "delete", "shutdown", "ended"} => pc = "idle"
  /\ stage = "image" => pc # "idle" /\ (inner = "image" => processor = "psd")
  /\ stage \notin {"image", "delete", "shutdown", "ended"} => inner = "none"
  /\ stage = "start" => processor \in Classes
  /\ stage \in {"psd", "layers"} => processor = "psd"
  /\ stage = "delete" => inner # "image" /\ engine # "live"
  /\ stage \notin {"shutdown", "ended"} => exit = "running"
  /\ stage = "ended" /\ exit \in {"0", "1"} => ~logging
  /\ exit = "0" => processor = "deleted" /\ inner # "image" /\ engine # "live"

----------------------------------------------------------------------------
(* ImageProcessor::start.                                                  *)

(* The sinks of a ticket are a sequence, and what they ask for is typed.   *)
LEMMA SinksTyped ==
  ASSUME ticket \in Tickets
  PROVE  /\ Sinks \in Seq(Range(Sinks)) /\ Len(Sinks) \in Nat
         /\ \A i \in 1..Len(Sinks) :
              /\ Sinks[i].path \in Paths \cup {Absent}
              /\ Sinks[i].format \in Formats \cup {Absent}
<1>1. CASE ticket.output = Absent
  BY <1>1 DEF Sinks, Range
<1>2. CASE ticket.output # Absent
  <2>1. Sinks = ticket.output
    BY <1>2 DEF Sinks
  <2>2. Sinks \in Seq(Range(Sinks))
    BY <1>2, <2>1, TicketConstants
  <2>3. \A i \in 1..Len(Sinks) : Sinks[i] \in Range(Sinks)
    BY <2>2 DEF Range
  <2> QED
    BY <1>2, <2>1, <2>2, <2>3, TicketConstants
<1> QED
  BY <1>1, <1>2

(* Setting a field of an image leaves an image.                            *)
LEMMA ImageFields ==
  ASSUME NEW E, NEW img \in Layers(E)
  PROVE  /\ \A f \in Formats : /\ [img EXCEPT !.format = f] \in Layers(E)
                               /\ [img EXCEPT !.format = f].format = f
                               /\ [img EXCEPT !.format = f].passes = img.passes
         /\ img.passes = 0 => /\ [img EXCEPT !.passes = @ + 1] \in Layers(E)
                              /\ [img EXCEPT !.passes = @ + 1].passes = 1
         /\ \A e : /\ [img EXCEPT !.exif = e] \in Layers({e})
                   /\ [img EXCEPT !.exif = e].passes = img.passes
                   /\ [img EXCEPT !.exif = e].format = img.format
BY DEF Layers

LEMMA ImageIsLayer == Image = Layers(ExifData)
BY DEF Image, Layers

LEMMA ImageFormat ==
  \A img \in Image, f \in Formats : /\ [img EXCEPT !.format = f] \in Image
                                    /\ [img EXCEPT !.format = f].format = f
                                    /\ [img EXCEPT !.format = f].passes = img.passes
BY DEF Image

(* One layer is a file when it is the enhanced image, two when the         *)
(* original comes first.                                                   *)
LEMMA FlatEncoded ==
  ASSUME NEW E, NEW f, NEW img \in Layers(E), img.passes = 1, img.format = f
  PROVE  Encoded(<<img>>, f, E)
BY DEF Encoded

LEMMA LayeredEncoded ==
  ASSUME NEW E, NEW f, NEW old \in Layers(E), NEW new \in Layers(E),
         old.passes = 0, new.passes = 1, old.format = f, new.format = f
  PROVE  Encoded(<<old, new>>, f, E)
BY DEF Encoded

(* Giving all layers the same Exif data keeps them the layers of a file.   *)
LEMMA ExifWritten ==
  ASSUME NEW E, NEW f, NEW e, NEW blob, Encoded(blob, f, E)
  PROVE  Encoded([i \in DOMAIN blob |-> [blob[i] EXCEPT !.exif = e]], f, {e})
<1> DEFINE new == [i \in DOMAIN blob |-> [blob[i] EXCEPT !.exif = e]]
<1>1. DOMAIN blob = 1..Len(blob) /\ Len(blob) \in Nat
  BY DEF Encoded
<1>2. \A i \in 1..Len(blob) : blob[i] \in Layers(E)
  BY <1>1 DEF Encoded
<1>3. \A i \in 1..Len(blob) : /\ new[i] \in Layers({e})
                              /\ new[i].passes = blob[i].passes
                              /\ new[i].format = blob[i].format
  BY <1>1, <1>2, ImageFields
<1>4. new \in Seq(Layers({e})) /\ Len(new) = Len(blob)
  <2>1. new \in [1..Len(blob) -> Layers({e})]
    BY <1>1, <1>3
  <2> HIDE DEF new
  <2>2. new \in Seq(Layers({e}))
    <3>1. Seq(Layers({e})) = UNION {[1..n -> Layers({e})] : n \in Nat}
      BY SeqDef, Zenon
    <3> QED
      BY <1>1, <2>1, <3>1, Zenon
  <2>3. 1..Len(new) = 1..Len(blob) /\ Len(new) \in Nat
    BY <2>1, <2>2, LenProperties
  <2> QED
    BY <1>1, <2>2, <2>3
<1> HIDE DEF new
<1>5. Encoded(new, f, {e})
  BY <1>1, <1>3, <1>4 DEF Encoded
<1> QED
  BY <1>5 DEF new

(* Files stay what they are while nothing is written.                      *)
LEMMA FilesFrame ==
  Files /\ UNCHANGED <<ticket, filename, disk, written>> => Files'
<1> SUFFICES ASSUME Files, UNCHANGED <<ticket, filename, disk, written>> PROVE Files'
  OBVIOUS
<1>1. Sinks' = Sinks
  BY DEF Sinks
<1> QED
  BY <1>1 DEF Files, OutputName, Encoded

LEMMA IPInitially == IPInit => IPInv
<1> SUFFICES ASSUME IPInit PROVE IPInv
  OBVIOUS
<1>1. Shape
  BY DEF IPInit, Shape
<1>2. Progress
  BY <1>1, SinksTyped DEF IPInit, Progress, InLoop, Shape
<1>3. Pictures
  BY DEF IPInit, Pictures, InLoop
<1>4. Files
  BY DEF IPInit, Files
<1> QED
  BY <1>1, <1>2, <1>3, <1>4 DEF IPInv

LEMMA StartKeeps == IPInv /\ (\E name \in Filenames \cup {NoName} : Start(name)) => IPInv'
<1> SUFFICES ASSUME IPInv, NEW name \in Filenames \cup {NoName}, Start(name) PROVE IPInv'
  OBVIOUS
<1> USE DEF Start
<1>1. Shape'
  BY DEF IPInv, Shape, OutputNames
<1>2. Progress'
  BY DEF IPInv, Progress, InLoop, Sinks, Current
<1>3. Pictures'
  BY DEF IPInv, Pictures, InLoop
<1>4. Files'
  <2>1. Len(written) = 0
    BY DEF IPInv, Progress
  <2> QED
    BY <2>1 DEF IPInv, Files, OutputNames, Progress
<1> QED
  BY <1>1, <1>2, <1>3, <1>4 DEF IPInv

(* Up to the sink loop.                                                    *)
LEMMA BeforeLoopKeeps == IPInv /\ (ReadImage \/ CreateEngine \/ RunEngine) => IPInv'
<1> SUFFICES ASSUME IPInv, ReadImage \/ CreateEngine \/ RunEngine PROVE IPInv'
  OBVIOUS
<1> USE DEF IPInv
<1>1. UNCHANGED <<ticket, filename, disk, written>>
  BY DEF ReadImage, CreateEngine, RunEngine
<1>2. Shape'
  BY <1>1 DEF Shape, ReadImage, CreateEngine, RunEngine, InLoop
<1>3. Files'
  BY <1>1, FilesFrame
<1>4. Progress'
  BY <1>1, SinksTyped DEF Shape, Progress, InLoop, Sinks, Current, ReadImage, CreateEngine, RunEngine
<1>5. Pictures'
  <2>1. CASE ReadImage
    BY <2>1 DEF Pictures, InLoop, ReadImage, Image
  <2>2. CASE CreateEngine
    BY <2>2 DEF Pictures, InLoop, CreateEngine
  <2>3. CASE RunEngine
    BY <2>3, ImageIsLayer, ImageFields DEF Pictures, InLoop, RunEngine
  <2> QED
    BY <2>1, <2>2, <2>3
<1> QED
  BY <1>2, <1>3, <1>4, <1>5

(* Steps that only read the ticket or give up.                             *)
LEMMA ReadingKeeps ==
  IPInv /\ (EndOfSinks \/ ResizeForSink \/ ApplyProfile \/ ProfileMissing \/ ReadFormat
              \/ Caught \/ Escape) => IPInv'
<1> SUFFICES ASSUME IPInv, EndOfSinks \/ ResizeForSink \/ ApplyProfile \/ ProfileMissing \/ ReadFormat
                             \/ Caught \/ Escape
             PROVE  IPInv'
  OBVIOUS
<1> USE DEF IPInv, EndOfSinks, ResizeForSink, ApplyProfile, ProfileMissing, ReadFormat, Caught, Escape
<1>1. UNCHANGED <<ticket, filename, engine, originalImage, processedImage, sink, sinkBlob, exif, disk, written>>
  OBVIOUS
<1>2. Shape'
  BY <1>1 DEF Shape, InLoop, Returned
<1>3. Files'
  BY <1>1, FilesFrame
<1>4. Sinks' = Sinks /\ Current' = Current
  BY <1>1 DEF Sinks, Current
<1>5. Progress'
  <2>1. pc' = "encode" => Current.format \in Formats
    <3> SUFFICES ASSUME pc' = "encode" PROVE Current.format \in Formats
      OBVIOUS
    <3>1. pc = "format" /\ FormatComplete(Current)
      OBVIOUS
    <3>2. sink \in 1..Len(Sinks)
      BY <3>1, SinksTyped DEF Progress, Shape, InLoop
    <3> QED
      BY <3>1, <3>2, SinksTyped DEF Shape, FormatComplete, Current
  <2>2. pc' # "write" /\ pc' # "open" /\ pc' # "metadata" /\ pc' \notin {"idle", "read", "engine"}
    OBVIOUS
  <2>3. pc' = "escaped" => written = << >>
    BY DEF Progress
  <2>4. pc' = "complete" => Len(written) = Len(Sinks)
    BY SinksTyped DEF Progress, Shape, InLoop
  <2>5. pc' \in InLoop => pc \in InLoop /\ sink <= Len(Sinks)
    BY DEF Progress, InLoop
  <2> QED
    BY <1>1, <1>4, <2>1, <2>2, <2>3, <2>4, <2>5 DEF Progress, InLoop
<1>6. Pictures'
  <2>1. pc' \in {"escaped", "complete", "no profile", "caught", "icc", "format", "encode"}
    OBVIOUS
  <2>2. pc' \in InLoop => pc \in InLoop
    BY DEF InLoop, EntryMissing
  <2>3. engine = "live" => pc' = "escaped"
    BY DEF Pictures, InLoop, EntryMissing
  <2> QED
    BY <1>1, <2>1, <2>2, <2>3 DEF Pictures, InLoop
<1> QED
  BY <1>2, <1>3, <1>5, <1>6

(* Encoding the layers, and giving all of them the ticket's metadata.      *)
LEMMA EncodingKeeps ==
  IPInv /\ (EncodeLayered \/ EncodeFlat \/ OpenExif \/ ApplySinkMetadata) => IPInv'
<1> SUFFICES ASSUME IPInv, EncodeLayered \/ EncodeFlat \/ OpenExif \/ ApplySinkMetadata
             PROVE  IPInv'
  OBVIOUS
<1> USE DEF IPInv
<1>1. UNCHANGED <<ticket, filename, engine, sink, disk, written>>
  BY DEF EncodeLayered, EncodeFlat, OpenExif, ApplySinkMetadata
<1>2. Shape'
  BY <1>1 DEF Shape, InLoop, EncodeLayered, EncodeFlat, OpenExif, ApplySinkMetadata
<1>3. Files'
  BY <1>1, FilesFrame
<1>4. Sinks' = Sinks /\ Current' = Current
  BY <1>1 DEF Sinks, Current
<1>5. Progress'
  BY <1>1, <1>4 DEF Progress, InLoop, EncodeLayered, EncodeFlat, OpenExif, ApplySinkMetadata
<1>6. Pictures'
  <2> USE ImageIsLayer DEF InLoop
  <2>1. CASE EncodeLayered
    <3>1. /\ originalImage \in Image /\ processedImage \in Image
          /\ originalImage.passes = 0 /\ processedImage.passes = 1
      BY <2>1 DEF Pictures, EncodeLayered
    <3>2. Current.format = "PSD" /\ "PSD" \in Formats
      BY <2>1, ProcessorConstants DEF EncodeLayered
    <3>3. /\ originalImage' \in Image /\ processedImage' \in Image
          /\ originalImage'.passes = 0 /\ processedImage'.passes = 1
          /\ originalImage'.format = "PSD" /\ processedImage'.format = "PSD"
      BY <2>1, <3>1, <3>2, ImageFormat DEF EncodeLayered
    <3>4. Encoded(sinkBlob', Current.format, ExifData)
      BY <2>1, <3>2, <3>3, LayeredEncoded DEF EncodeLayered
    <3> QED
      BY <1>1, <1>4, <2>1, <3>3, <3>4 DEF Pictures, EncodeLayered
  <2>2. CASE EncodeFlat
    <3>1. processedImage \in Image /\ processedImage.passes = 1 /\ Current.format \in Formats
      BY <2>2 DEF Pictures, Progress, EncodeFlat
    <3>2. /\ processedImage' \in Image /\ processedImage'.passes = 1
          /\ processedImage'.format = Current.format
      BY <2>2, <3>1, ImageFormat DEF EncodeFlat
    <3>3. Encoded(sinkBlob', Current.format, ExifData)
      BY <2>2, <3>2, FlatEncoded DEF EncodeFlat
    <3> QED
      BY <1>1, <1>4, <2>2, <3>2, <3>3 DEF Pictures, EncodeFlat
  <2>3. CASE OpenExif
    BY <1>1, <1>4, <2>3 DEF Pictures, OpenExif
  <2>4. CASE ApplySinkMetadata
    <3>1. Encoded(sinkBlob', Current.format, {exif'})
      <4>1. Encoded(sinkBlob, Current.format, ExifData)
        BY <2>4 DEF Pictures, ApplySinkMetadata
      <4>2. sinkBlob' = [i \in DOMAIN sinkBlob |-> [sinkBlob[i] EXCEPT !.exif = exif']]
        BY <2>4 DEF ApplySinkMetadata
      <4> QED
        BY <4>1, <4>2, ExifWritten, Zenon
    <3> QED
      BY <1>1, <1>4, <2>4, <3>1 DEF Pictures, ApplySinkMetadata
  <2> QED
    BY <2>1, <2>2, <2>3, <2>4
<1> QED
  BY <1>2, <1>3, <1>5, <1>6

(* Writing replaces at most the file of an earlier sink of the same name.  *)
LEMMA WriteFacts ==
  ASSUME IPInv, WriteOutput
  PROVE  /\ sink = Len(written) + 1 /\ sink \in 1..Len(Sinks) /\ Len(Sinks) \in Nat
         /\ written \in Seq(Nat) /\ written' \in Seq(Nat) /\ Len(written') = sink
         /\ \A i \in 1..Len(written) : written'[i] = written[i]
         /\ written'[sink] = sink
         /\ OutputName(Current) \in OutputNames
         /\ OutputName(Current).format = Current.format
         /\ disk'[OutputName(Current)] = [sink |-> sink, layers |-> sinkBlob]
         /\ \A n \in OutputNames : n # OutputName(Current) => disk'[n] = disk[n]
         /\ disk' = [n \in OutputNames |-> disk'[n]]
<1> USE DEF IPInv
<1> DEFINE name == OutputName(Current)
           file == [sink |-> sink, layers |-> sinkBlob]
<1>1. /\ pc = "write" /\ Current.path # Absent
      /\ disk' = [disk EXCEPT ![name] = file]
      /\ written' = Append(written, sink)
  BY DEF WriteOutput
<1>2. /\ sink = Len(written) + 1 /\ sink \in 1..Len(Sinks)
      /\ Len(Sinks) \in Nat /\ written \in Seq(Nat)
  BY <1>1, SinksTyped DEF Progress, Shape, InLoop
<1>3. /\ written' \in Seq(Nat) /\ Len(written') = sink
      /\ \A i \in 1..Len(written) : written'[i] = written[i]
      /\ written'[sink] = sink
  BY <1>1, <1>2, AppendProperties
<1>4. name \in OutputNames /\ name.format = Current.format
  <2>1. Current.path \in Paths /\ Current.format \in Formats /\ filename \in Filenames
    BY <1>1, <1>2, SinksTyped DEF Progress, Shape, InLoop, Current
  <2> QED
    BY <2>1 DEF OutputName, OutputNames
<1>5. /\ disk'[name] = file
      /\ \A n \in OutputNames : n # name => disk'[n] = disk[n]
      /\ disk' = [n \in OutputNames |-> disk'[n]]
  <2> HIDE DEF name, file
  <2> QED
    BY <1>1, <1>4 DEF Shape
<1> QED
  BY <1>2, <1>3, <1>4, <1>5

LEMMA WriteKeeps == IPInv /\ WriteOutput => IPInv'
<1> SUFFICES ASSUME IPInv, WriteOutput PROVE IPInv'
  OBVIOUS
<1> USE DEF IPInv
<1>1. /\ UNCHANGED <<ticket, filename, engine, originalImage, processedImage, sinkBlob, exif>>
      /\ pc = "write" /\ pc' = "sink" /\ sink' = sink + 1
  BY DEF WriteOutput
<1>2. Sinks' = Sinks /\ \A s : OutputName(s)' = OutputName(s)
  BY <1>1 DEF Sinks, OutputName
<1>3. Shape'
  <2>1. sink' \in Nat /\ written' \in Seq(Nat) /\ pc' \in InLoop
    BY <1>1, WriteFacts DEF InLoop
  <2>2. disk' = [n \in OutputNames |-> disk'[n]]
    BY WriteFacts
  <2> QED
    BY <1>1, <2>1, <2>2 DEF Shape, OutputNames
<1>4. Progress'
  <2>1. Len(written') = sink /\ sink <= Len(Sinks) /\ sink' = Len(written') + 1
    BY <1>1, WriteFacts
  <2>2. \A i \in 1..Len(written') : written'[i] = i
    <3> SUFFICES ASSUME NEW i \in 1..sink PROVE written'[i] = i
      BY <2>1
    <3>1. CASE i = sink
      BY <3>1, WriteFacts
    <3>2. CASE i # sink
      <4>1. i \in 1..Len(written)
        BY <3>2, WriteFacts
      <4> QED
        BY <4>1, WriteFacts DEF Progress
    <3> QED
      BY <3>1, <3>2
  <2>3. filename \in Filenames
    BY <1>1 DEF Progress, InLoop
  <2> QED
    BY <1>1, <1>2, <2>1, <2>2, <2>3 DEF Progress
<1>5. Pictures'
  BY <1>1 DEF Pictures, InLoop
<1>6. Files'
  <2> SUFFICES ASSUME NEW n \in OutputNames, disk'[n] # NoFile
               PROVE  /\ disk'[n].sink \in 1..Len(written')
                      /\ n = OutputName(Sinks[disk'[n].sink])
                      /\ \E e : Encoded(disk'[n].layers, n.format, {e})
    BY <1>2 DEF Files, Encoded, OutputNames
  <2>1. CASE n = OutputName(Current)
    <3>1. disk'[n] = [sink |-> sink, layers |-> sinkBlob]
      BY <2>1, WriteFacts, Zenon
    <3>2. Encoded(disk'[n].layers, n.format, {exif})
      BY <1>1, <2>1, <3>1, WriteFacts DEF Pictures
    <3>3. \E e : Encoded(disk'[n].layers, n.format, {e})
      BY <3>2, Zenon
    <3>4. disk'[n].sink = sink /\ n = OutputName(Sinks[sink])
      BY <2>1, <3>1 DEF Current
    <3>5. sink \in 1..Len(written')
      BY WriteFacts
    <3> QED
      BY <3>3, <3>4, <3>5
  <2>2. CASE n # OutputName(Current)
    <3>1. disk'[n] = disk[n] /\ disk[n] # NoFile
      BY <2>2, WriteFacts
    <3>2. /\ disk[n].sink \in 1..Len(written)
          /\ n = OutputName(Sinks[disk[n].sink])
          /\ \E e : Encoded(disk[n].layers, n.format, {e})
      BY <3>1, Zenon DEF Files
    <3>3. disk'[n].sink \in 1..Len(written')
      BY <3>1, <3>2, WriteFacts
    <3>4. \E e : Encoded(disk'[n].layers, n.format, {e})
      BY <3>1, <3>2, Zenon
    <3> QED
      BY <3>1, <3>2, <3>3, <3>4
  <2> QED
    BY <2>1, <2>2
<1> QED
  BY <1>3, <1>4, <1>5, <1>6

LEMMA IPStepKeeps == IPInv /\ IPStep => IPInv'
BY BeforeLoopKeeps, ReadingKeeps, EncodingKeeps, WriteKeeps DEF IPStep

LEMMA IPStutterKeeps == IPInv /\ UNCHANGED ipvars => IPInv'
<1> SUFFICES ASSUME IPInv, UNCHANGED ipvars PROVE IPInv'
  OBVIOUS
<1> USE DEF IPInv, ipvars
<1>1. Sinks' = Sinks /\ Current' = Current
  BY DEF Sinks, Current
<1>2. Files'
  BY FilesFrame
<1>3. Shape' /\ Progress' /\ Pictures'
  BY <1>1 DEF Shape, Progress, Pictures
<1> QED
  BY <1>2, <1>3

(* NoSinkLost is kept by a write, provided that no content of a file is    *)
(* taken for there being no file.                                          *)
LEMMA NoSinkLostKept ==
  ASSUME IPInv, NoSinkLost, WriteOutput, \A i, l : [sink |-> i, layers |-> l] # NoFile
  PROVE  NoSinkLost'
<1> DEFINE name == OutputName(Current)
           Later(i, j) == j > i /\ Sinks[j].path = Sinks[i].path /\ Sinks[j].format = Sinks[i].format
<1>1. Sinks' = Sinks /\ filename' = filename
  BY DEF WriteOutput, Sinks
<1>2. DOMAIN written' = 1..sink /\ DOMAIN written = 1..(sink - 1) /\ sink \in Nat
  BY WriteFacts
<1>3. disk'[name] # NoFile /\ disk'[name].sink = sink /\ name \in OutputNames
  BY WriteFacts
<1>4. SUFFICES ASSUME filename \notin AbsoluteNames, NEW i \in 1..sink
               PROVE  \/ \E n \in OutputNames : disk'[n] # NoFile /\ disk'[n].sink = i
                      \/ \E j \in 1..sink : Later(i, j)
  BY <1>1, <1>2 DEF NoSinkLost, OutputNames
<1>5. CASE i = sink
  BY <1>3, <1>5
<1>6. CASE i # sink /\ \E n \in OutputNames : disk[n] # NoFile /\ disk[n].sink = i
  <2>1. PICK n \in OutputNames : disk[n] # NoFile /\ disk[n].sink = i
    BY <1>6
  <2>2. CASE n # name
    <3>1. disk'[n] = disk[n]
      BY <2>2, WriteFacts
    <3> QED
      BY <2>1, <3>1
  <2>3. CASE n = name
    <3>1. OutputName(Sinks[i]) = OutputName(Sinks[sink])
      BY <2>1, <2>3 DEF IPInv, Files, Current
    <3>2. Sinks[i].path = Sinks[sink].path /\ Sinks[i].format = Sinks[sink].format
      BY <1>4, <3>1 DEF OutputName
    <3>3. sink \in 1..sink /\ sink > i
      BY <1>2, <1>6
    <3> QED
      BY <3>2, <3>3
  <2> QED
    BY <2>2, <2>3
<1>7. CASE i # sink /\ \E j \in 1..(sink - 1) : Later(i, j)
  BY <1>2, <1>7
<1> QED
  BY <1>2, <1>4, <1>5, <1>6, <1>7 DEF NoSinkLost

----------------------------------------------------------------------------
(* PDFProcessor::start.                                                    *)

Images(upto) == {k \in 1..upto : LooksLikeImage(document[k])}

LEMMA ImagesFinite == ASSUME NEW n \in Nat PROVE IsFiniteSet(Images(n))
<1>1. IsFiniteSet(1..n) /\ Images(n) \subseteq 1..n
  BY FS_Interval DEF Images
<1> QED
  BY <1>1, FS_Subset

(* Passing one object adds it to the images exactly when it looks like one. *)
LEMMA NextObject ==
  ASSUME NEW n \in Nat \ {0}
  PROVE  Cardinality(Images(n)) =
           IF LooksLikeImage(document[n]) THEN Cardinality(Images(n - 1)) + 1
                                          ELSE Cardinality(Images(n - 1))
<1>1. n - 1 \in Nat /\ IsFiniteSet(Images(n - 1)) /\ n \notin Images(n - 1)
  BY ImagesFinite DEF Images
<1>2. CASE LooksLikeImage(document[n])
  <2>1. Images(n) = Images(n - 1) \cup {n}
    BY <1>2 DEF Images
  <2> QED
    BY <1>1, <1>2, <2>1, FS_AddElement
<1>3. CASE ~LooksLikeImage(document[n])
  <2>1. Images(n) = Images(n - 1)
    BY <1>3 DEF Images
  <2> QED
    BY <1>3, <2>1
<1> QED
  BY <1>2, <1>3

LEMMA DocumentLength == ASSUME document \in Documents \cup {<< >>}
                        PROVE  Len(document) \in Nat /\ DOMAIN document = 1..Len(document)
<1>1. CASE document = << >>
  BY <1>1
<1>2. CASE document \in Documents
  BY <1>2, DocumentConstants
<1> QED
  BY <1>1, <1>2

LEMMA PdfInitially == PdfInit => PdfInv
<1> SUFFICES ASSUME PdfInit PROVE PdfInv
  OBVIOUS
<1>1. {k \in 1..1 - 1 : LooksLikeImage(document[k])} = {}
  OBVIOUS
<1> QED
  BY <1>1, FS_EmptySet DEF PdfInit, PdfInv

LEMMA PdfStepKeeps == PdfInv /\ PdfStep => PdfInv'
<1> SUFFICES ASSUME PdfInv, PdfStep PROVE PdfInv'
  OBVIOUS
<1>0. Len(document) \in Nat /\ at \in Nat /\ nNum = Cardinality(Images(at - 1))
  BY DocumentLength DEF PdfInv, Images
<1>1. CASE OpenDocument
  <2>1. document' \in Documents /\ at' = 1 /\ nNum' = 0 /\ scan' = "loop"
    BY <1>1 DEF PdfInv, OpenDocument
  <2>2. Len(document') \in Nat
    BY <2>1, DocumentConstants
  <2>3. {k \in 1..at' - 1 : LooksLikeImage(document'[k])} = {}
    BY <2>1
  <2> QED
    BY <2>1, <2>2, <2>3, FS_EmptySet DEF PdfInv, LooksLikeImage
<1>2. CASE OpenFails \/ FilterRaises \/ FilterIsNull \/ ReportImages
  <2>1. UNCHANGED <<document, at, nNum>>
    BY <1>2 DEF OpenFails, FilterRaises, FilterIsNull, ReportImages
  <2>2. scan' \in {"error", "killed", "reported"}
    BY <1>2 DEF OpenFails, FilterRaises, FilterIsNull, ReportImages
  <2>3. scan' = "killed" => NoFilter(document[at])
    BY <1>2 DEF OpenFails, FilterRaises, FilterIsNull, ReportImages
  <2>4. scan' = "reported" => at = Len(document) + 1
    BY <1>0, <1>2 DEF PdfInv, OpenFails, FilterRaises, FilterIsNull, ReportImages
  <2> QED
    BY <2>1, <2>2, <2>3, <2>4 DEF PdfInv, LooksLikeImage, NoFilter
<1>3. CASE SkipObject \/ CountObject
  <2>1. /\ at \in 1..Len(document) /\ at' = at + 1
        /\ UNCHANGED <<scan, document>> /\ scan = "loop"
    BY <1>0, <1>3 DEF PdfInv, SkipObject, CountObject, InScan
  <2>2. nNum' = Cardinality(Images(at))
    BY <1>0, <1>3, <2>1, NextObject DEF SkipObject, CountObject
  <2>3. nNum' \in Nat
    BY <1>3 DEF PdfInv, SkipObject, CountObject
  <2>4. at' - 1 = at /\ Images(at) = {k \in 1..at' - 1 : LooksLikeImage(document'[k])}
    BY <1>0, <2>1 DEF Images, LooksLikeImage
  <2>5. nNum' = Cardinality({k \in 1..at' - 1 : LooksLikeImage(document'[k])})
    BY <2>2, <2>4
  <2> QED
    BY <1>0, <2>1, <2>3, <2>5 DEF PdfInv, LooksLikeImage
<1> QED
  BY <1>1, <1>2, <1>3 DEF PdfStep

LEMMA PdfStutterKeeps == PdfInv /\ UNCHANGED pdfvars => PdfInv'
BY DEF PdfInv, pdfvars, LooksLikeImage, NoFilter

LEMMA PdfInvReports == PdfInv => ReportIsComplete
<1> SUFFICES ASSUME PdfInv PROVE ReportIsComplete
  OBVIOUS
<1>1. scan = "reported" => at - 1 = Len(document)
  BY DocumentLength DEF PdfInv
<1> QED
  BY <1>1, DocumentLength DEF PdfInv, ReportIsComplete

----------------------------------------------------------------------------
(* main and the processors around it.                                      *)

LEMMA MainInitially == OPInit => MainInv
BY DEF OPInit, IPInit, MainInv, Stages

LEMMA EnginePlace == Pictures => (pc \in Returned \cup {"idle"} => engine # "live")
BY DEF Pictures, Returned

LEMMA MainStepKeeps == IPInv /\ MainInv /\ MainStep => MainInv'
<1> SUFFICES ASSUME IPInv, MainInv, MainStep PROVE MainInv'
  OBVIOUS
<1> USE EnginePlace DEF IPInv
<1>1. CASE ArgumentsOk \/ ArgumentsWrong \/ ReadTicket \/ InputName \/ InputReadable \/ InputMissing
  BY <1>1 DEF MainInv, Stages, Goto, ipvars, ArgumentsOk, ArgumentsWrong, ReadTicket, InputName,
              InputReadable, InputMissing
<1>2. CASE Catch("ticket") \/ Catch("input") \/ ImageEscapes \/ PsdThrows
  BY <1>2 DEF MainInv, Stages, Goto, ipvars, Catch, ImageEscapes, PsdThrows
<1>3. CASE MagicUnavailable \/ RawDeveloped \/ TypeDetected
  BY <1>3 DEF MainInv, Stages, Goto, ipvars, MagicUnavailable, RawDeveloped, TypeDetected, Create, Classes
<1>4. CASE MagicAnswers \/ RawNotLoaded \/ RawNotProcessed \/ NotRaw
  BY <1>4 DEF MainInv, Stages, Goto, ipvars, MagicAnswers, RawNotLoaded, RawNotProcessed, NotRaw
<1>5. CASE StartProcessor \/ PsdAsImage
  BY <1>5 DEF MainInv, Stages, StartProcessor, PsdAsImage, Start, Classes, ipvars
<1>6. CASE ImageReturns
  BY <1>6 DEF MainInv, Stages, Goto, ipvars, ImageReturns
<1>7. CASE PsdReadLayers \/ PsdWriteLayer \/ PsdLayersDone
  BY <1>7 DEF MainInv, Stages, Goto, ipvars, PsdReadLayers, PsdWriteLayer, PsdLayersDone
<1>8. CASE PdfReturns \/ PdfKilled
  BY <1>8 DEF MainInv, Stages, Goto, ipvars, PdfReturns, PdfKilled
<1>9. CASE DeleteProcessor \/ Shutdown
  BY <1>9 DEF MainInv, Stages, Goto, ipvars, DeleteProcessor, Shutdown
<1> QED
  BY <1>1, <1>2, <1>3, <1>4, <1>5, <1>6, <1>7, <1>8, <1>9 DEF MainStep

LEMMA ImageStepKeepsMain == IPInv /\ MainInv /\ RunImage => MainInv'
<1> SUFFICES ASSUME IPInv, MainInv, RunImage PROVE MainInv'
  OBVIOUS
<1>1. stage = "image" /\ UNCHANGED mainvars
  BY DEF RunImage
<1>2. pc' # "idle"
  BY DEF RunImage, IPStep, ReadImage, CreateEngine, RunEngine, EndOfSinks, ResizeForSink,
         ApplyProfile, ProfileMissing, ReadFormat, EncodeLayered, EncodeFlat, OpenExif,
         ApplySinkMetadata, WriteOutput, Caught, Escape
<1> QED
  BY <1>1, <1>2 DEF MainInv, mainvars

(* What a step of main does to start() and to the PDF scan: nothing, or it *)
(* enters start().                                                         *)
LEMMA MainStepParts ==
  MainInv /\ MainStep
    => UNCHANGED pdfvars /\ (UNCHANGED ipvars \/ \E name \in Filenames \cup {NoName} : Start(name))
<1> SUFFICES ASSUME MainInv, MainStep
             PROVE  /\ UNCHANGED pdfvars
                    /\ UNCHANGED ipvars \/ \E name \in Filenames \cup {NoName} : Start(name)
  OBVIOUS
<1>1. CASE StartProcessor \/ PsdAsImage
  BY <1>1 DEF MainInv, StartProcessor, PsdAsImage
<1>2. CASE ~(StartProcessor \/ PsdAsImage)
  BY <1>2 DEF MainStep, Goto, ArgumentsOk, ArgumentsWrong, ReadTicket, Catch, InputName, InputReadable,
              InputMissing, MagicUnavailable, MagicAnswers, RawDeveloped, RawNotLoaded, RawNotProcessed,
              NotRaw, TypeDetected, Create, ImageReturns, ImageEscapes, PsdReadLayers, PsdWriteLayer,
              PsdLayersDone, PsdThrows, PdfReturns, PdfKilled, DeleteProcessor, Shutdown
<1> QED
  BY <1>1, <1>2

IInv == IPInv /\ PdfInv /\ MainInv

LEMMA RunInitially == OPInit => IInv
BY IPInitially, PdfInitially, MainInitially DEF OPInit, IInv

LEMMA RunKeeps == IInv /\ [OPNext]_opvars => IInv'
<1> SUFFICES ASSUME IInv, [OPNext]_opvars PROVE IInv'
  OBVIOUS
<1> USE DEF IInv
<1>1. CASE MainStep
  BY <1>1, MainStepParts, MainStepKeeps, StartKeeps, IPStutterKeeps, PdfStutterKeeps
<1>2. CASE RunImage
  <2>1. IPInv'
    BY <1>2, IPStepKeeps DEF RunImage
  <2> QED
    BY <1>2, <2>1, ImageStepKeepsMain, PdfStutterKeeps DEF RunImage
<1>3. CASE RunPdf
  <2>1. UNCHANGED <<mainvars, ipvars>> /\ PdfStep
    BY <1>3 DEF RunPdf
  <2>2. MainInv'
    BY <2>1 DEF MainInv, mainvars, ipvars
  <2> QED
    BY <2>1, <2>2, PdfStepKeeps, IPStutterKeeps
<1>4. CASE UNCHANGED opvars
  <2>1. UNCHANGED <<mainvars, ipvars, pdfvars>>
    BY <1>4 DEF opvars
  <2>2. MainInv'
    BY <2>1 DEF MainInv, mainvars, ipvars
  <2> QED
    BY <2>1, <2>2, IPStutterKeeps, PdfStutterKeeps
<1> QED
  BY <1>1, <1>2, <1>3, <1>4 DEF OPNext, Ended

LEMMA RunInvariant == OPSpec => []IInv
BY RunInitially, RunKeeps, PTL DEF OPSpec

----------------------------------------------------------------------------
(***************************************************************************)
(* The written sinks are a prefix of the ticket's, all of them when the    *)
(* loop of start() ran to its end, for every ticket.                       *)
(***************************************************************************)
THEOREM SinksInOrder == OPSpec => []DeliveredPrefix
<1>1. IInv => DeliveredPrefix
  BY DEF IInv, IPInv, Shape, Progress, DeliveredPrefix
<1> QED
  BY <1>1, RunInvariant, PTL

(***************************************************************************)
(* Every file has the image that the engine enhanced once as its last      *)
(* layer, and before it, if anything, one that no engine touched.          *)
(***************************************************************************)
THEOREM FilesEnhancedOnce == OPSpec => []EnhancedExactlyOnce
<1>1. IInv => EnhancedExactlyOnce
  BY DEF IInv, IPInv, Files, Encoded, EnhancedExactlyOnce
<1> QED
  BY <1>1, RunInvariant, PTL

(***************************************************************************)
(* All layers of a file have the format of its name and the same Exif      *)
(* data, whatever the ticket's metadata do to it.                          *)
(***************************************************************************)
THEOREM FilesUniform == OPSpec => []FileIsUniform
<1>1. ASSUME IInv PROVE FileIsUniform
  <2> SUFFICES ASSUME NEW n \in OutputNames, disk[n] # NoFile, NEW i \in DOMAIN disk[n].layers
               PROVE  /\ disk[n].layers[i].format = n.format
                      /\ disk[n].layers[i].exif = disk[n].layers[1].exif
    BY DEF FileIsUniform
  <2>1. PICK e : Encoded(disk[n].layers, n.format, {e})
    BY <1>1, Zenon DEF IInv, IPInv, Files
  <2>2. /\ DOMAIN disk[n].layers = 1..Len(disk[n].layers) /\ 1 \in 1..Len(disk[n].layers)
        /\ \A j \in 1..Len(disk[n].layers) : disk[n].layers[j] \in Layers({e})
    BY <2>1 DEF Encoded
  <2> QED
    BY <2>1, <2>2 DEF Encoded, Layers
<1> QED
  BY <1>1, RunInvariant, PTL

(***************************************************************************)
(* With a relative input name a sink's file is there until a later sink of *)
(* the same path and format is written over it.                            *)
(***************************************************************************)
THEOREM SinksKept ==
  ASSUME \A i, l : [sink |-> i, layers |-> l] # NoFile
  PROVE  OPSpec => []NoSinkLost
<1>1. OPInit => NoSinkLost
  BY DEF OPInit, IPInit, NoSinkLost
<1>2. IInv /\ NoSinkLost /\ [OPNext]_opvars => NoSinkLost'
  <2> SUFFICES ASSUME IInv, NoSinkLost, [OPNext]_opvars PROVE NoSinkLost'
    OBVIOUS
  <2>1. CASE WriteOutput
    BY <2>1, NoSinkLostKept DEF IInv
  <2>2. CASE UNCHANGED <<ticket, filename, disk, written>>
    BY <2>2 DEF NoSinkLost, Sinks, OutputNames
  <2>3. CASE \E name \in Filenames \cup {NoName} : Start(name)
    BY <2>3 DEF Start, NoSinkLost, IInv, IPInv, Progress
  <2>4. IPStep => WriteOutput \/ UNCHANGED <<ticket, filename, disk, written>>
    BY DEF IPStep, ReadImage, CreateEngine, RunEngine, EndOfSinks, ResizeForSink, ApplyProfile,
           ProfileMissing, ReadFormat, EncodeLayered, EncodeFlat, OpenExif, ApplySinkMetadata,
           Caught, Escape
  <2> QED
    BY <2>1, <2>2, <2>3, <2>4, MainStepParts DEF IInv, OPNext, RunImage, RunPdf, Ended, opvars, ipvars
<1> QED
  BY <1>1, <1>2, RunInvariant, PTL DEF OPSpec

(***************************************************************************)
(* A PDF pass that reports counts every object that looks like an image,   *)
(* and one that dies stands at an image without a filter.                  *)
(***************************************************************************)
THEOREM ReportComplete == OPSpec => []ReportIsComplete
<1>1. IInv => ReportIsComplete
  BY PdfInvReports DEF IInv
<1> QED
  BY <1>1, RunInvariant, PTL

(***************************************************************************)
(* Status 0 means that the processors and the engine are freed; statuses 0 *)
(* and 1 that logging was shut down, whichever processor was chosen.       *)
(***************************************************************************)
THEOREM ExitsClean == OPSpec => []CleanExit
<1>1. IInv => CleanExit
  BY DEF IInv, MainInv, CleanExit
<1> QED
  BY <1>1, RunInvariant, PTL

(* A step of start() writes the next sink or none.                         *)
LEMMA ImageStepDelivers ==
  IInv /\ RunImage => Promise!Deliver \/ UNCHANGED Promise!promisevars
<1> SUFFICES ASSUME IInv, RunImage
             PROVE  Promise!Deliver \/ UNCHANGED Promise!promisevars
  OBVIOUS
<1>1. exit = "running" /\ exit' = exit
  BY DEF IInv, MainInv, RunImage, mainvars
<1>2. CASE WriteOutput
  <2>1. Sinks' = Sinks
    BY <1>2 DEF WriteOutput, Sinks
  <2>2. Len(written') = Len(written) + 1 /\ Len(written) < Len(Sinks)
    BY <1>2, WriteFacts DEF IInv
  <2> QED
    BY <1>1, <2>1, <2>2 DEF Promise!Deliver
<1>3. CASE ~WriteOutput
  <2>1. UNCHANGED <<ticket, written>>
    BY <1>3 DEF RunImage, IPStep, ReadImage, CreateEngine, RunEngine, EndOfSinks, ResizeForSink,
         ApplyProfile, ProfileMissing, ReadFormat, EncodeLayered, EncodeFlat, OpenExif,
         ApplySinkMetadata, Caught, Escape
  <2> QED
    BY <1>1, <2>1 DEF Promise!promisevars, Sinks
<1> QED
  BY <1>2, <1>3

(* A step of main delivers nothing, and gives a failure status only before *)
(* the first sink.                                                         *)
LEMMA MainStepEnds ==
  IInv /\ MainStep => Promise!Succeed \/ Promise!Fail \/ UNCHANGED Promise!promisevars
<1> SUFFICES ASSUME IInv, MainStep
             PROVE  Promise!Succeed \/ Promise!Fail \/ UNCHANGED Promise!promisevars
  OBVIOUS
<1> USE DEF IInv
<1>1. UNCHANGED <<ticket, written>> /\ Sinks' = Sinks
  BY MainStepParts DEF ipvars, Start, Sinks
<1>2. CASE exit' = exit
  BY <1>1, <1>2 DEF Promise!promisevars
<1>3. CASE DeleteProcessor
  BY <1>1, <1>3 DEF DeleteProcessor, MainInv, Promise!Succeed
<1>4. CASE ArgumentsWrong \/ InputMissing \/ RawNotLoaded \/ RawNotProcessed \/ PdfKilled
             \/ Catch("ticket") \/ Catch("input") \/ ImageEscapes \/ PsdThrows
  <2>1. exit = "running" /\ pc \in {"idle", "escaped"}
    BY <1>4 DEF MainInv, ArgumentsWrong, InputMissing, RawNotLoaded, RawNotProcessed, PdfKilled,
                Catch, ImageEscapes, PsdThrows
  <2>2. exit' \in Failures
    BY <1>4 DEF Failures, ArgumentsWrong, InputMissing, RawNotLoaded, RawNotProcessed, PdfKilled,
                Catch, ImageEscapes, PsdThrows
  <2>3. Len(written) = 0
    BY <2>1 DEF IPInv, Progress
  <2> QED
    BY <1>1, <2>1, <2>2, <2>3 DEF Promise!Fail
<1>5. CASE ~(DeleteProcessor \/ ArgumentsWrong \/ InputMissing \/ RawNotLoaded \/ RawNotProcessed
               \/ PdfKilled \/ Catch("ticket") \/ Catch("input") \/ ImageEscapes \/ PsdThrows)
  <2>1. exit' = exit
    BY <1>5 DEF MainStep, ArgumentsOk, ReadTicket, InputName, InputReadable, MagicUnavailable,
                MagicAnswers, RawDeveloped, NotRaw, TypeDetected, Create, StartProcessor, ImageReturns,
                PsdReadLayers, PsdWriteLayer, PsdLayersDone, PsdAsImage, PdfReturns, Shutdown
  <2> QED
    BY <1>2, <2>1
<1> QED
  BY <1>3, <1>4, <1>5

(***************************************************************************)
(* OpenPablo implements TicketPromise: a run delivers the sinks of its     *)
(* ticket one by one and ends once, with a failure only if it delivered    *)
(* none.  (That it ends is a liveness property, left to TLC.)              *)
(***************************************************************************)
THEOREM RunKeepsPromise == OPSpec => PromiseKept
<1>1. OPInit => Promise!PromiseInit
  BY SinksTyped DEF OPInit, IPInit, Promise!PromiseInit
<1>2. IInv /\ [OPNext]_opvars => [Promise!PromiseNext]_Promise!promisevars
  <2> SUFFICES ASSUME IInv, [OPNext]_opvars
               PROVE  Promise!PromiseNext \/ UNCHANGED Promise!promisevars
    OBVIOUS
  <2>1. CASE MainStep
    BY <2>1, MainStepEnds DEF Promise!PromiseNext
  <2>2. CASE RunImage
    BY <2>2, ImageStepDelivers DEF Promise!PromiseNext
  <2>3. CASE RunPdf \/ UNCHANGED opvars
    BY <2>3 DEF RunPdf, opvars, ipvars, mainvars, Promise!promisevars, Sinks
  <2> QED
    BY <2>1, <2>2, <2>3 DEF OPNext, Ended
<1> QED
  BY <1>1, <1>2, RunInvariant, PTL DEF OPSpec, PromiseKept, Promise!PromiseSpec
=============================================================================
