----------------------------- MODULE OpenPablo -----------------------------
(***************************************************************************)
(* One run of openPablo: main, the processor factory, and the processors   *)
(* it can choose.  The image processor is the module ImageProcessor, which *)
(* the PSD processor uses as well, and the PDF processor is PdfScan.       *)
(*                                                                         *)
(* The run ends with an exit status: "0"; "1" after a caught exception;    *)
(* "-1" for wrong arguments; "2" from exit(2) in the raw path; "aborted"   *)
(* when `throw' has nothing to rethrow; "killed" by a null pointer.        *)
(***************************************************************************)
EXTENDS ImageProcessor, PdfScan

CONSTANT MaxLayers   \* bound of the layers of a PSD file

ASSUME LayersConstant == MaxLayers \in Nat

VARIABLES
  stage,       \* place in main, the factory or a processor that is not PdfScan
               \* or ImageProcessor
  image,       \* imageFullName, then the file name of the processor
  processor,   \* the Processor object: its class, "none" or "deleted"
  inner,       \* the ImageProcessor that the PSD processor creates
  layers,      \* layers of the PSD file that are still to be written
  logging,     \* between LOGOG_INITIALIZE and LOGOG_SHUTDOWN
  exit         \* exit status, "running" until there is one

mainvars == <<stage, image, processor, inner, layers, logging, exit>>
opvars == <<mainvars, ipvars, pdfvars>>

Classes == {"image", "psd", "pdf"}
Stages == {"args", "ticket", "input", "test", "magic", "raw", "type", "start",
           "image", "psd", "layers", "pdf", "delete", "shutdown", "ended"}

Goto(place) == stage' = place /\ UNCHANGED <<ipvars, pdfvars>>

----------------------------------------------------------------------------
OPInit ==
  /\ IPInit /\ PdfInit
  /\ stage = "args"
  /\ image = NoName
  /\ processor = "none" /\ inner = "none"
  /\ layers = 0
  /\ logging = TRUE
  /\ exit = "running"

\* A ticket must be named, and only one: else -1, without LOGOG_SHUTDOWN.
ArgumentsOk == stage = "args" /\ Goto("ticket") /\ UNCHANGED <<image, processor, inner, layers, logging, exit>>

ArgumentsWrong ==
  /\ stage = "args" /\ Goto("ended")
  /\ exit' = "-1"
  /\ UNCHANGED <<image, processor, inner, layers, logging>>

\* read_json, which throws when the ticket cannot be read.
ReadTicket == stage = "ticket" /\ Goto("input") /\ UNCHANGED <<image, processor, inner, layers, logging, exit>>

\* Input.InputPath and Input.InputFile.
InputName ==
  /\ stage = "input" /\ Goto("test")
  /\ image' \in Filenames
  /\ UNCHANGED <<processor, inner, layers, logging, exit>>

\* catch (std::exception): whatever main and start() leave uncaught.
Catch(place) ==
  /\ stage = place /\ Goto("shutdown")
  /\ exit' = "1"
  /\ UNCHANGED <<image, processor, inner, layers, logging>>

\* testFile opens the input, or executes `throw' with nothing to rethrow.
InputReadable == stage = "test" /\ Goto("magic") /\ UNCHANGED <<image, processor, inner, layers, logging, exit>>

InputMissing ==
  /\ stage = "test" /\ Goto("ended")
  /\ exit' = "aborted"
  /\ UNCHANGED <<image, processor, inner, layers, logging>>

\* createInstance: a new processor, with the file name or without it.
Create(place, class, name) ==
  /\ stage = place /\ Goto("start")
  /\ processor' = class
  /\ image' = name
  /\ UNCHANGED <<inner, layers, logging, exit>>

\* libmagic cannot be opened or has no database: an unnamed ImageProcessor.
MagicUnavailable == Create("magic", "image", NoName)
MagicAnswers == stage = "magic" /\ Goto("raw") /\ UNCHANGED <<image, processor, inner, layers, logging, exit>>

\* LibRaw opens it: RawTherapee develops it into /tmp/RT.jpg, and the
\* ImageProcessor is given the name of the raw file all the same.
RawDeveloped == Create("raw", "image", image)
RawNotLoaded ==
  /\ stage = "raw" /\ Goto("ended")
  /\ exit' = "2"
  /\ UNCHANGED <<image, processor, inner, layers, logging>>
\* RawTherapee cannot process what it loaded: res->saveToFile of a null pointer.
RawNotProcessed ==
  /\ stage = "raw" /\ Goto("ended")
  /\ exit' = "killed"
  /\ UNCHANGED <<image, processor, inner, layers, logging>>
NotRaw == stage = "raw" /\ Goto("type") /\ UNCHANGED <<image, processor, inner, layers, logging, exit>>

\* The MIME type; an unknown one gets an ImageProcessor without a name.
TypeDetected ==
  \/ \E class \in Classes : Create("type", class, image)
  \/ Create("type", "image", NoName)

\* setSettings and start of the processor.
StartProcessor ==
  /\ stage = "start" /\ stage' = processor
  /\ IF processor = "image" THEN Start(image) ELSE UNCHANGED ipvars
  /\ UNCHANGED <<image, processor, inner, layers, logging, exit, pdfvars>>

\* ImageProcessor::start, called by main or by the PSD processor.
RunImage == stage = "image" /\ IPStep /\ UNCHANGED <<mainvars, pdfvars>>

\* bug: the PSD processor forgets the one it created.
ImageReturnsInnerKept ==
  /\ stage = "image" /\ pc \in Returned /\ Goto("delete")
  /\ UNCHANGED <<image, processor, inner, layers, logging, exit>>

\* It returns: a PSD processor deletes the one it created.
ImageReturns ==
  /\ stage = "image" /\ pc \in Returned /\ Goto("delete")
  /\ inner' = IF processor = "psd" THEN "deleted" ELSE inner
  /\ UNCHANGED <<image, processor, layers, logging, exit>>

ImageEscapes == pc = "escaped" /\ Catch("image")

\* PSDProcessor::start with ProcessLayers: every layer goes to a file in /tmp.
PsdReadLayers ==
  /\ stage = "psd" /\ ticket.psd = "Yes" /\ Goto("layers")
  /\ layers' \in 1..MaxLayers
  /\ UNCHANGED <<image, processor, inner, logging, exit>>

PsdWriteLayer ==
  /\ stage = "layers" /\ layers > 0 /\ Goto("layers")
  /\ layers' = layers - 1
  /\ UNCHANGED <<image, processor, inner, logging, exit>>

PsdLayersDone == stage = "layers" /\ layers = 0 /\ Goto("delete") /\ UNCHANGED <<image, processor, inner, layers, logging, exit>>

\* Without ProcessLayers the PSD file is handed to an ImageProcessor.
PsdAsImage ==
  /\ stage = "psd" /\ ticket.psd \notin {"Yes", Absent}
  /\ stage' = "image" /\ inner' = "image"
  /\ Start(image)
  /\ UNCHANGED <<image, processor, layers, logging, exit, pdfvars>>

\* ProcessLayers or Layers is missing, or Magick cannot read or write a layer.
PsdThrows == (ticket.psd \in {"Yes", Absent} /\ Catch("psd")) \/ (layers > 0 /\ Catch("layers"))

RunPdf == stage = "pdf" /\ PdfStep /\ UNCHANGED <<mainvars, ipvars>>
PdfReturns == scan \in {"reported", "error"} /\ stage = "pdf" /\ Goto("delete") /\ UNCHANGED <<image, processor, inner, layers, logging, exit>>
PdfKilled ==
  /\ stage = "pdf" /\ scan = "killed" /\ Goto("ended")
  /\ exit' = "killed"
  /\ UNCHANGED <<image, processor, inner, layers, logging>>

DeleteProcessor ==
  /\ stage = "delete" /\ Goto("shutdown")
  /\ processor' = "deleted"
  /\ exit' = "0"
  /\ UNCHANGED <<image, inner, layers, logging>>

Shutdown ==
  /\ stage = "shutdown" /\ Goto("ended")
  /\ logging' = FALSE
  /\ UNCHANGED <<image, processor, inner, layers, exit>>

Ended == stage = "ended" /\ UNCHANGED opvars

MainStep ==
  \/ ArgumentsOk \/ ArgumentsWrong \/ ReadTicket \/ Catch("ticket")
  \/ InputName \/ Catch("input") \/ InputReadable \/ InputMissing
  \/ MagicUnavailable \/ MagicAnswers \/ RawDeveloped \/ RawNotLoaded \/ RawNotProcessed \/ NotRaw
  \/ TypeDetected \/ StartProcessor
  \/ ImageReturns \/ ImageEscapes
  \/ PsdReadLayers \/ PsdWriteLayer \/ PsdLayersDone \/ PsdAsImage \/ PsdThrows
  \/ PdfReturns \/ PdfKilled
  \/ DeleteProcessor \/ Shutdown

OPNext == MainStep \/ RunImage \/ RunPdf \/ Ended

\* One thread, which keeps running until it ends.
OPSpec == OPInit /\ [][OPNext]_opvars /\ WF_opvars(MainStep \/ RunImage \/ RunPdf)
----------------------------------------------------------------------------
Failures == {"1", "-1", "2", "aborted", "killed"}

OPTypeOK ==
  /\ IPTypeOK /\ PdfTypeOK
  /\ stage \in Stages
  /\ image \in Filenames \cup {NoName}
  /\ processor \in Classes \cup {"none", "deleted"}
  /\ inner \in {"none", "image", "deleted"}
  /\ layers \in 0..MaxLayers
  /\ logging \in BOOLEAN
  /\ exit \in Failures \cup {"running", "0"}

(***************************************************************************)
(* A run that ends with status 0 has freed what it made: the processor,    *)
(* the one a PSD processor made, and the engine; and every ending that     *)
(* main itself decides on after parsing the arguments shuts logging down.  *)
(***************************************************************************)
CleanExit ==
  /\ exit = "0" => processor = "deleted" /\ inner # "image" /\ engine # "live"
  /\ stage = "ended" /\ exit \in {"0", "1"} => ~logging

(***************************************************************************)
(* The run is one of TicketPromise: sinks are delivered one by one, the    *)
(* run ends, and it fails only before the first of them.                   *)
(***************************************************************************)
Promise == INSTANCE TicketPromise WITH
  delivered <- Len(written), asked <- Len(Sinks), status <- exit,
  Running <- "running", Success <- "0"

PromiseKept == Promise!PromiseSpec
RunEnds == Promise!Ends
=============================================================================
