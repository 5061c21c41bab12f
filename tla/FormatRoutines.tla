--------------------------- MODULE FormatRoutines ---------------------------
(***************************************************************************)
(* The rows of Routine for src/imageio/format.  A writer's input is the    *)
(* picture and its output the file; with a reader it is the other way      *)
(* round.  Pictures have two lines.  What `keeps' names here is what the   *)
(* code leaves behind after some failure.  A stream keeps the end of what  *)
(* is written in a buffer; "flush" is fclose writing it.                   *)
(***************************************************************************)
EXTENDS RoutineRows

Told(steps, exits, promise, left) ==
  [OnCpu(Program(steps, exits, 0), promise) EXCEPT !.tells = TRUE, !.keeps = left]
Twice(steps) == steps \o steps

----------------------------------------------------------------------------
(* JPEG.  libjpeg jumps back on an error, to code that destroys cinfo: the *)
(* file stays open, and so does the profile; when the file cannot be       *)
(* opened cinfo is left.                                                   *)
JpegWrite ==
  Told(<<Get("cinfo", "none"), Get("f", "open"), Try("header", {}, "out", "jump"), Get("profile", "none"), Do("copy", {}, "profile"),
         Try("icc", {"out", "profile"}, "out", "jump"), Put("profile"), Try("exif", {"out"}, "out", "jump")>>
       \o Twice(<<Try("rows", {"in", "out"}, "out", "jump")>>)
       \o <<Try("end", {"out"}, "out", "jump"), Put("cinfo"), Put("f")>>,
       [open |-> Exit({}, 1), jump |-> Exit({"cinfo"}, 1)],
       {"in", "header", "icc", "exif", "rows", "end"}, {"cinfo", "f", "profile"})

\* Into memory, without a file.  What it returns at the end is a length.  If
\* the memory is full empty_output_buffer says so and libjpeg takes no more
\* lines: the loop tries the line for ever, as Routine does that stays where
\* it is.
JpegCompress ==
  [OnCpu(Program(<<Get("cinfo", "none"), Try("header", {}, "out", "jump")>>
                 \o Twice(<<Try("rows", {"in", "out"}, "out", "jump")>>)
                 \o <<Try("end", {"out"}, "out", "jump"), Put("cinfo")>>, [jump |-> Exit({"cinfo"}, 1)], 0),
         {"in", "header", "rows", "end"}) EXCEPT !.tells = FALSE]

\* read_header or decompress_header, and read_image or decompress on what
\* that has left open.  An error in the second half ends the program; a
\* line that is not read ends the routine and leaves everything open.
JpegLines ==
  <<Get("row", "null")>> \o Twice(<<Try("copy", {"in", "dinfo"}, "row", "short"), Do("rows", {"row"}, "out")>>)

JpegRead ==
  Told(<<Get("f", "open"), Get("dinfo", "none"), Try("header", {"in"}, "dinfo", "jump")>> \o JpegLines
       \o <<Put("dinfo"), Put("row"), Put("f")>>,
       [open |-> Exit({}, 1), jump |-> Exit({"dinfo", "f"}, 1), short |-> Exit({}, 1)],
       {"in", "header", "rows"}, {"dinfo", "row", "f"})

JpegDecompress ==
  Told(<<Get("dinfo", "none"), Try("header", {"in"}, "dinfo", "jump")>> \o JpegLines \o <<Put("dinfo"), Put("row")>>,
       [jump |-> Exit({"dinfo"}, 1), short |-> Exit({}, 1)], {"in", "header", "rows"}, {"dinfo", "row"})

----------------------------------------------------------------------------
(* PNG.  Every failure closes the file; one that libpng jumps back from    *)
(* does not destroy info_ptr, nor the text with the EXIF data.  What       *)
(* fclose returns is not looked at.                                        *)
PngRawProfile ==
  <<Get("text", "jump"), Get("chunk", "jump"), Get("key", "jump"), Do("hex", {}, "chunk"),
    Try("exif", {"out", "chunk"}, "out", "jump"), Put("chunk"), Put("key"), Put("text")>>

\* bug: after the jump the routine returns 0.
PngExitsSilent ==
  [open |-> Exit({}, 1), close |-> Exit({"f"}, 1), jump |-> Exit({"f", "png_ptr"}, 0), fclose |-> Exit({"f"}, 0)]
PngExits ==
  [open |-> Exit({}, 1), close |-> Exit({"f"}, 1), jump |-> Exit({"f", "png_ptr"}, 1), fclose |-> Exit({"f"}, 0)]

Flush == Try("flush", {"out"}, "out", "fclose")
Late(row) == [row EXCEPT !.late = {"fclose"}]

PngWrite ==
  Late(Told(<<Get("f", "open"), Get("png_ptr", "close"), Get("info_ptr", "jump"), Try("header", {}, "out", "jump")>>
       \o Twice(<<Try("rows", {"in", "out"}, "out", "jump")>>) \o PngRawProfile
       \o <<Try("end", {"out"}, "out", "jump"), Put("png_ptr"), Put("info_ptr"), Flush, Put("f")>>,
       PngExits, {"in", "header", "rows", "hex", "exif", "end", "flush"}, {"info_ptr", "text", "chunk", "key"}))

PngRead ==
  Told(<<Get("f", "open"), Try("signature", {"in"}, "f", "close"), Get("png_ptr", "close"), Get("info_ptr", "jump"),
         Try("header", {"in"}, "info_ptr", "jump")>>
       \o Twice(<<Try("rows", {"in", "info_ptr"}, "out", "jump")>>)
       \o <<Try("copy", {"in"}, "info_ptr", "jump"), Put("png_ptr"), Put("info_ptr"), Put("f")>>,
       PngExits, {"in", "header", "rows"}, {"info_ptr"})

----------------------------------------------------------------------------
(* Writers that do not tell.  TIFF and OpenEXR return 1 at the end; what   *)
(* OpenEXR throws leaves the planes behind.  Portable maps return 0 when   *)
(* the file cannot be opened; pfm returns what became of the last pixel,   *)
(* ppm always 0: the break leaves only the line.  TIFFOpen may return      *)
(* NULL, which is then used; without memory for the profile it is left     *)
(* out.                                                                    *)
Untold(steps, exits, status, promise) == [OnCpu(Program(steps, exits, status), promise) EXCEPT !.tells = FALSE]
Lossy(name, from) == Try(name, from, "out", "lost")

TiffWrite ==
  Untold(<<Upload("profile", "none"), Try("icc", {}, "profile", "lost"), Upload("tif", "null"),
           Do("header", {"profile", "tif"}, "out"), Get("rowdata", "null")>>
         \o Twice(<<Do("strip", {"in"}, "rowdata"), Lossy("rows", {"rowdata", "out"})>>)
         \o <<Lossy("flush", {"out"}), Put("tif"), Put("rowdata"), Lossy("exif", {"out"}), Put("profile")>>,
         << >>, 1, {"in", "icc", "header", "strip", "rows", "flush", "exif"})

ExrWrite ==
  LET planes == <<"red", "green", "blue">>
  IN  [Untold(<<Try("header", {}, "out", "throw")>> \o Gets(planes, "null")
              \o <<Do("plane", {"in"}, "red"), Do("plane", {"in"}, "blue"), Do("plane", {"in"}, "green"),
                   Try("tiles", Members(planes) \cup {"out"}, "out", "throw")>> \o Puts(planes)
              \o <<Lossy("flush", {"out"})>>,
              [throw |-> Exit({}, 1)], 1, {"in", "header", "plane", "tiles", "flush"}) EXCEPT !.keeps = Members(planes)]

PortableMap(step, last) ==
  Untold(<<Get("f", "open"), Lossy("header", {}), Lossy(step, {"in", "out"}), Try(step, {"in", "out"}, "out", last),
           Lossy("flush", {"out"}), Put("f")>>,
         [open |-> Exit({}, 0), close |-> Exit({"f"}, 1)], 0, {"in", "header", step, "flush"})
PfmWrite == PortableMap("float", "close")
PpmWrite == PortableMap("swap", "lost")

----------------------------------------------------------------------------
(* The copy of the original and its sidecar.  Every failure goes to END,   *)
(* which releases what there is; the statement is finalized nowhere.  Both *)
(* files are opened before either is looked at, and the copy is closed     *)
(* without a look.                                                         *)
CopyFile ==
  LET strings == {"sourcefile", "targetfile", "xmpfile", "content", "fin", "fout"}
  IN  Late(Told(<<Get("stmt", "none"), Get("sourcefile", "END"), Get("targetfile", "END"), Get("fin", "lost"),
             Get("fout", "lost"), Need({"fin", "fout"}, "END"), Get("content", "END"),
             Try("copy", {"in"}, "content", "END"), Try("copy", {"content"}, "out", "END"), Get("xmpfile", "none"),
             Try("sidecar", {"out"}, "out", "END")>>
           \o Puts(<<"sourcefile", "targetfile", "xmpfile", "content", "fin">>) \o <<Flush, Put("fout")>>,
           [END |-> Exit(strings, 1), fclose |-> Exit({"fout"}, 0)], {"in", "sidecar", "flush"}, {"stmt"}))

----------------------------------------------------------------------------
(* Radiance files.  Lines with a legal width may be run-length encoded; a  *)
(* first line that is not turns to the flat routine.                       *)
RgbeExits == [error |-> Exit({"buffer"}, 1)]
RgbeHeader == [OnCpu(Program(<<Try("header", {"in"}, "out", "error")>>, RgbeExits, 0), {"in", "header"})
               EXCEPT !.tells = TRUE]
RgbeFlat(done) == <<Try("pixels", {"in"} \cup done, "out", "error"), Try("pixels", {"in", "out"}, "out", "error")>>
RgbeLine == <<Try("runs", {"in"}, "buffer", "error"), Do("pixels", {"buffer"}, "out")>>
RgbeRuns == Told(<<Get("buffer", "error")>> \o Twice(RgbeLine) \o <<Put("buffer")>>, RgbeExits,
                 {"in", "runs", "pixels"}, {})
RgbeThenFlat == Told(<<Get("buffer", "error")>> \o RgbeLine \o <<Put("buffer")>> \o RgbeFlat({"out"}),
                     RgbeExits, {"in", "runs", "pixels"}, {})
RgbePlain == Told(RgbeFlat({}), RgbeExits, {"in", "pixels"}, {})

Formats ==
  [jpeg |-> [write |-> JpegWrite, compress |-> JpegCompress, read |-> JpegRead, decompress |-> JpegDecompress],
   png |-> [write |-> PngWrite, read |-> PngRead], tiff |-> [write |-> TiffWrite], exr |-> [write |-> ExrWrite],
   pfm |-> [write |-> PfmWrite], ppm |-> [write |-> PpmWrite], copy |-> [write |-> CopyFile],
   rgbe |-> [header |-> RgbeHeader, runs |-> RgbeRuns, thenFlat |-> RgbeThenFlat, plain |-> RgbePlain]]
=============================================================================
