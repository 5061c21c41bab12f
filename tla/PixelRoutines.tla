---------------------------- MODULE PixelRoutines ----------------------------
(***************************************************************************)
(* The rows of Routine for src/iop: process, and process_cl where there is *)
(* one.  A row has a case for every branch that takes other steps.         *)
(***************************************************************************)
EXTENDS RoutineRows, SequencesExt

\* Each pixel of the output comes from those of the input.
Pass(name) == <<Do(name, {"in"}, "out")>>
OnePass(name) == [all |-> OnCpu(Loops(<< >>, Pass(name)), {"in", name})]
Unchanged == OnCpu(Loops(<< >>, <<Copy("in", "out")>>), {"in"})
Repeat(work, n) == [i \in 1..(n * Len(work)) |-> work[((i - 1) % Len(work)) + 1]]

----------------------------------------------------------------------------
(* One pass *)
Channelmixer == OnePass("mix")
Colorcontrast == OnePass("steepness")
Colorcorrection == OnePass("highlights and shadows")
Colorize == OnePass("hue")
Colorzones == OnePass("curves")
Flip == OnePass("flip")
Gamma == OnePass("table")
Graduatednd == OnePass("density")
Grain == OnePass("noise")
Invert == OnePass("film")
Levels == OnePass("levels")
Lowlight == OnePass("blueness")
Monochrome == OnePass("filter")
Overexposed == OnePass("mark")
ProfileGamma == OnePass("table")
Relight == OnePass("light")
Splittoning == OnePass("tones")
Useless == OnePass("checker")
Velvia == OnePass("saturate")
Vibrance == OnePass("vibrance")
Vignette == OnePass("falloff")
Anlfyeni == OnePass("highpass")

Clipping == [same |-> Unchanged, turned |-> OnCpu(Loops(<< >>, Pass("interpolate")), {"in", "interpolate"})]

\* The frame first, then the image into it.
Borders == [all |-> OnCpu(Loops(<< >>, <<Border(Do("colour", {}, "out")), Inner(Copy("in", "out"))>>), {"colour", "in"})]

\* Each spot is cloned from the input, not from what other spots left.
Spots == [all |-> OnCpu(Loops(<< >>, <<Copy("in", "out")>> \o Repeat(<<Do("clone", {"in", "out"}, "out")>>, 2)), {"in", "clone"})]

Hotpixels == [all |-> OnCpu(Loops(<< >>, <<Copy("in", "out"), Inner(Do("fix", {"in"}, "out"))>>), {"in", "fix"})]

----------------------------------------------------------------------------
(* Tables and coefficients that are copied to the device *)
OnTables(bufs, name) ==
  OnBoth(OnDevice(Uploads(bufs, "error"), <<Do(name, {"in"} \cup Members(bufs), "out")>>, bufs),
         Loops(<< >>, Pass(name)), {"in", name})

\* The three tables are checked together, when the last is copied.
Tonecurve ==
  LET bufs == <<"L", "a", "b", "coeffs">>
      gets == Uploads(<<"L", "a", "b">>, "lost") \o <<Need({"L", "a", "b"}, "error"), Upload("coeffs", "error")>>
  IN  [all |-> [OnTables(bufs, "curve")
                EXCEPT !.gpu = OnDevice(gets, <<Do("curve", {"in"} \cup Members(bufs), "out")>>, bufs)]]

Basecurve == [all |-> OnTables(<<"m", "coeffs">>, "curve")]

\* Without a matrix process_cl is not ready and the row goes through lcms.
ColorinTables == <<"m", "r", "g", "b", "coeffs">>
\* bug: the label `error' does not release the coefficients.
ColorinDeviceKeeping ==
  [OnDevice(Uploads(ColorinTables, "error"), <<Do("to Lab", {"in"} \cup Members(ColorinTables), "out")>>, ColorinTables)
   EXCEPT !.exits["error"].frees = @ \ {"coeffs"}]
ColorinDevice ==
  OnDevice(Uploads(ColorinTables, "error"), <<Do("to Lab", {"in"} \cup Members(ColorinTables), "out")>>, ColorinTables)
ColorinHost == Loops(<< >>, Pass("to Lab"))
Colorin ==
  [matrix |-> OnBoth(ColorinDevice, ColorinHost, {"in", "to Lab"}), lcms |-> OnCpu(ColorinHost, {"in", "to Lab"})]

\* The check of the fourth table looks at the third.
ColoroutDevice ==
  OnDevice([Uploads(ColorinTables, "error") EXCEPT ![4] = Upload("b", "lost")],
           <<Do("to rgb", {"in"} \cup Members(ColorinTables), "out"), Do("curves", {"out"}, "out")>>, ColorinTables)
ColoroutHost == Loops(<< >>, Pass("to rgb") \o <<Do("curves", {"out"}, "out")>>)
Colorout ==
  [matrix |-> OnBoth(ColoroutDevice, ColoroutHost, {"in", "to rgb", "curves"}),
   lcms |-> OnCpu(Loops(<< >>, Pass("to rgb")), {"in", "to rgb"})]

Scaling(row) ==
  LET With(prog, n) == [prog EXCEPT !.steps = SubSeq(@, 1, n) \o <<Scale>> \o SubSeq(@, n + 1, Len(@))]
  IN  [row EXCEPT !.scales = 1, !.gpu = With(@, Len(@.steps)), !.cpu = With(@, Len(@.steps))]

\* The coefficients multiply processed_maximum after the pass; so does the
\* scale of the exposure.
Temperature == [all |-> Scaling(OnTables(<<"coeffs">>, "coefficients"))]
Exposure == [all |-> Scaling(OnTables(<< >>, "exposure"))]
Highlights == [all |-> OnTables(<< >>, "clip")]

----------------------------------------------------------------------------
(* Blurs *)
Blurs(n) == Repeat(<<Do("blur", {"out"}, "line"), Do("blur", {"line", "out"}, "out")>>, n)

\* Eight box blurs of what is bright.
Bloom ==
  [all |-> OnCpu(Loops(<<"bright">>,
      <<Copy("in", "out"), Do("threshold", {"out"}, "bright"), Get("line", "null")>>
      \o Repeat(<<Do("blur", {"bright"}, "line"), Do("blur", {"line", "bright"}, "bright")>>, 8)
      \o <<Do("screen", {"in", "bright"}, "out"), Put("line")>>), {"in", "threshold", "blur", "screen"})]

\* One buffer for a line of each channel; red is told apart no further.
Soften ==
  LET lines == <<"red", "green", "blue">>
      Lines(from, step) == [i \in 1..3 |-> Do(step, {from}, lines[i])]
  IN  [all |-> OnCpu(Program(<<Do("saturate", {"in"}, "out")>> \o Gets(lines, "null")
         \o Repeat(Lines("out", "blur") \o <<Do("blur", {"out"} \cup Members(lines), "out")>>, 8)
         \o <<Do("mix", {"in", "out"}, "out")>> \o Puts(lines), << >>, 0),
       {"in", "saturate", "blur", "mix"})]

\* The buffers of the device hold constants only; the blur goes from `out'
\* to `out'.  Without a radius neither path blurs.
Inverted == Do("invert", {"in"}, "out")
Mixed == Do("mix", {"in", "out"}, "out")
HighpassDevice(blurs) ==
  OnDevice(<<Upload("m", "error")>>, <<Inverted>> \o Repeat(<<Do("blur", {"out", "m"}, "out")>>, blurs) \o <<Mixed>>, <<"m">>)
HighpassHost(blurs) ==
  Program(<<Inverted>> \o (IF blurs = 0 THEN << >> ELSE <<Get("line", "null")>> \o Blurs(blurs) \o <<Put("line")>>)
            \o <<Mixed>>, << >>, 0)
Highpass ==
  [radius |-> OnBoth(HighpassDevice(2), HighpassHost(8), {"in", "invert", "blur", "mix"}),
   none |-> OnBoth(HighpassDevice(0), HighpassHost(0), {"in", "invert", "mix"})]

\* On the host the frame that the kernel does not reach is copied.
SharpenDevice ==
  OnDevice(<<Upload("m", "error")>>,
           <<Do("blur", {"in", "m"}, "out"), Do("blur", {"out", "m"}, "out"), Mixed>>, <<"m">>)
SharpenHost ==
  Program(<<Get("tmp", "error"), Inner(Do("blur", {"in"}, "tmp")), Inner(Do("blur", {"tmp"}, "out")),
            Border(Copy("in", "out")), Put("tmp"), Border(Copy("in", "out")), Mixed>>, [error |-> Exit({}, 1)], 0)
Sharpen ==
  [none |-> OnBoth(OnDevice(<< >>, <<Copy("in", "out")>>, << >>), Unchanged.cpu, {"in"}),
   radius |-> OnBoth(SharpenDevice, SharpenHost, {"in", "blur", "mix"})]

\* The recursive filter runs over columns; the picture is transposed between.
Transposed(first, from, to) ==
  <<Copy("in", first), Do("columns", {first}, from), Copy(from, first), Do("columns", {first}, from), Copy(from, first)>>

LowpassDevice ==
  Kernels(<<"temp1", "temp2">>, Transposed("temp1", "temp2", "out")
            \o <<Do("contrast", {"temp1"}, "temp2"), Copy("temp2", "out")>>)
LowpassHost ==
  Program(<<Get("temp", "error"), Do("columns", {"in"}, "temp"), Do("columns", {"temp"}, "out"), Put("temp"),
            Do("contrast", {"out"}, "out")>>, [error |-> Exit({}, 1)], 0)
Lowpass == [all |-> OnBoth(LowpassDevice, LowpassHost, {"in", "columns", "contrast"})]

ShadhiDevice ==
  Kernels(<<"temp1", "temp2">>, Transposed("temp1", "temp2", "out")
            \o <<Copy("in", "temp2"), Do("overlay", {"temp1", "temp2"}, "temp2"), Copy("temp2", "out")>>)
\* The columns, then the rows, then the picture over the inverted blur.
ShadhiColumns == <<Do("columns", {"in"}, "temp")>>
ShadhiRows == <<Do("columns", {"temp"}, "out")>>
ShadhiHost ==
  Checked(<<"temp">>, ShadhiColumns \o ShadhiRows
    \o <<Do("overlay", {"out"}, "out"), Do("overlay", {"in", "out"}, "temp"), Do("overlay", {"temp", "out"}, "out")>>)
Shadhi == [all |-> OnBoth(ShadhiDevice, ShadhiHost, {"in", "columns", "overlay"})]

----------------------------------------------------------------------------
(* Local contrast and denoising *)
Clahe == [all |-> OnCpu(Loops(<<"luminance">>,
  <<Do("luminance", {"in"}, "luminance"), Do("equalise", {"in", "luminance"}, "out")>>),
  {"in", "luminance", "equalise"})]

\* process_cl of this file is not compiled.
Nlmeans ==
  [small |-> Unchanged,
   all |-> OnCpu(Loops(<<"Sa">>, <<Do("zero", {}, "out"), Do("patches", {"in"}, "Sa"),
             Do("patches", {"in", "Sa", "out"}, "out"), Do("normalise", {"in", "out"}, "out")>>),
           {"in", "zero", "patches", "normalise"})]

\* Four quarters of the mosaic, five levels each.
Rawdenoise ==
  [off |-> Unchanged,
   on |-> OnCpu(Loops(<<"fimg">>, <<Do("zero", {}, "fimg"), Do("root", {"in"}, "fimg")>>
            \o Repeat(<<Do("hat", {"fimg"}, "fimg")>>, 5) \o <<Do("square", {"in", "fimg"}, "out")>>),
          {"in", "root", "hat", "square"})]

\* Forward and back over two levels, in place.  The list holds the levels.
Level(step, b) == <<Do(step, {"out", "list"}, b), Do(step, {"out", b}, "out")>>
Equalizer ==
  LET tmp == <<Upload("list", "null"), Do("copy", {"list"}, "list"), Get("level1", "null"), Get("level2", "null")>>
  IN  [all |-> OnCpu(Program(<<Copy("in", "out")>> \o tmp
         \o Level("forward", "level1") \o Level("forward", "level2") \o <<Do("coefficients", {"out"}, "out")>>
         \o Level("back", "level2") \o Level("back", "level1")
         \o Puts(<<"level1", "level2", "list">>), << >>, 0), {"in", "forward", "coefficients", "back"})]

\* n scales.  The coarse picture goes to and fro between out and tmp.
Details == <<"detail1", "detail2", "detail3">>
\* bug: the two buffers the other way round.
PingSwapped(scale) == IF scale % 2 = 0 THEN "tmp" ELSE "out"
Ping(scale) == IF scale % 2 = 0 THEN "out" ELSE "tmp"
Named(step, s) == step \o ToString(s)
eaw_decompose(s, from) ==
  <<Do(Named("detail", s), {from}, Details[s + 1]), Do(Named("coarse", s), {from}, Ping(s + 1))>>
eaw_synthesize(s) == <<Do(Named("add", s), {Ping(s + 1), Details[s + 1]}, Ping(s))>>
Scales(n, first) ==
  FlattenSeq([s \in 1..n |-> eaw_decompose(s - 1, IF s = 1 THEN first ELSE Ping(s - 1))])
  \o FlattenSeq([s \in 1..n |-> eaw_synthesize(n - s)])
AtrousDevice(n) == Kernels(<<"tmp">> \o SubSeq(Details, 1, n), <<Copy("in", "out")>> \o Scales(n, "out"))
AtrousHost(n) == Checked(<<"tmp">> \o SubSeq(Details, 1, n), Scales(n, "in"))
Atrous(n) ==
  OnBoth(AtrousDevice(n), AtrousHost(n), {"in"} \cup {Named(step, s) : step \in {"detail", "coarse", "add"}, s \in 0..(n - 1)})

\* Laplacian pyramids of two exposures, weighted.
Weights == <<Get("W", "null"), Do("weight", {"in"}, "W"), Do("weight", {"W"}, "W")>>
Laplace(b) == <<Do("laplace", {b}, b)>>
Blend == <<Do("blend", {"im1", "im2", "W"}, "im1")>>
Shrecovery ==
  [all |-> OnCpu(Program(Weights \o <<Get("im1", "null"), Get("im2", "null"), Copy("in", "im1"), Do("expose", {"in"}, "im2")>>
     \o Laplace("im1") \o Laplace("im2") \o Blend \o <<Copy("im1", "out")>> \o Puts(<<"W", "im1", "im2">>), << >>, 0),
     {"in", "weight", "expose", "laplace", "blend"})]

----------------------------------------------------------------------------
(* The permutohedral lattice: every thread splats into its own hash, which *)
(* are merged before the blur.                                             *)
Splat == <<Do("splat", {"in"}, "lattice")>>
MergeSplat == <<Do("merge", {"lattice"}, "lattice")>>
LatticeBlur == <<Do("lattice blur", {"lattice"}, "lattice")>>
LatticeSteps(steps) ==
  <<Get("lattice", "none")>> \o Splat \o MergeSplat \o LatticeBlur \o steps \o <<Put("lattice")>>

Tonemap == [all |-> [OnCpu(Program(LatticeSteps(<<Do("slice", {"in", "lattice"}, "out"), Scale>>), << >>, 0),
                           {"in", "splat", "merge", "lattice blur", "slice"}) EXCEPT !.scales = 1]]

Bilateral ==
  [none |-> Unchanged, preview |-> Unchanged,
   few |-> OnCpu(Loops(<< >>, <<Inner(Do("weights", {"in"}, "out")), Border(Copy("in", "out"))>>), {"in", "weights"}),
   many |-> OnCpu(Program(LatticeSteps(<<Do("slice", {"lattice"}, "out")>>), << >>, 0),
                  {"in", "splat", "merge", "lattice blur", "slice"})]

\* The preview of the zones blurs into the middle of `out', which is then
\* overwritten; the buffer with the zones stays for the panel, which frees it.
Zonesystem ==
  [all |-> OnCpu(Loops(<< >>, Pass("zones")), {"in", "zones"}),
   preview |-> [OnCpu(Program(<<Get("preview", "none"), Inner(Do("blur", {"in"}, "out")), Do("index", {"out"}, "preview"),
                  Do("zones", {"in"}, "out")>>, << >>, 0), {"in", "zones"}) EXCEPT !.keeps = {"preview"}]]

----------------------------------------------------------------------------
(* The lens.  What grows with the picture is kept for the next one and     *)
(* freed with the piece.                                                   *)
Lens ==
  LET Modified(steps) == Program(<<Get("modifier", "none")>> \o steps \o <<Put("modifier")>>, << >>, 0)
      Bend(from) == <<Get("tmpbuf2", "null"), Do("coordinates", {}, "tmpbuf2"), Do("distort", {from, "tmpbuf2"}, "out")>>
      Shade(b) == Do("vignetting", {b}, b)
      Keeping(row) == [row EXCEPT !.keeps = {"tmpbuf", "tmpbuf2"}]
      first == <<Get("tmpbuf", "null"), Copy("in", "tmpbuf"), Shade("tmpbuf")>>
      bent == {"in", "coordinates", "distort", "vignetting"}
  IN  [unknown |-> Unchanged,
       inverse |-> Keeping(OnCpu(Modified(Bend("in") \o <<Shade("out")>>), bent)),
       inverseFlat |-> OnCpu(Modified(<<Copy("in", "out"), Shade("out")>>), {"in", "vignetting"}),
       forward |-> Keeping(OnCpu(Modified(first \o Bend("tmpbuf")), bent)),
       flat |-> Keeping(OnCpu(Modified(first \o <<Copy("tmpbuf", "out")>>), {"in", "vignetting"}))]

(* An svg that is missing, one that cannot be read, and one that can.  The *)
(* drawing context is destroyed on no path, nor is svg where the surface   *)
(* fails.                                                                  *)
Watermark ==
  LET doc == <<Get("svgdoc", "none"), Get("svg", "none"), Put("svgdoc")>>
  IN  [missing |-> Unchanged,
       broken |-> OnCpu(Program(<<Get("svgdoc", "none"), Put("svgdoc"), Copy("in", "out")>>, << >>, 0), {"in"}),
       noSurface |-> [OnCpu(Program(doc \o <<Get("image", "none"), Put("image"), Copy("in", "out")>>, << >>, 0), {"in"})
                      EXCEPT !.keeps = {"svg"}],
       all |-> [OnCpu(Program(doc \o <<Get("image", "none"), Do("clear", {}, "image"), Get("surface", "none"),
                  Get("cr", "none"), Do("draw", {"image"}, "image"), Do("blend", {"in", "image"}, "out")>>
                  \o Puts(<<"surface", "svg", "image">>), << >>, 0), {"in", "clear", "draw", "blend"})
                EXCEPT !.keeps = {"cr"}]]

Colortransfer ==
  [acquire |-> Unchanged, neutral |-> Unchanged,
   apply |-> OnCpu(Loops(<< >>, <<Do("histogram", {"in"}, "out"), Do("clusters", {"in", "out"}, "out")>>),
                   {"in", "histogram", "clusters"})]

----------------------------------------------------------------------------
(* Raw mosaics *)
\* Chromatic aberration: with too few blocks, or shifts that cannot be
\* solved for, what was copied stays.
CaTiles == <<"Gtmp", "buffer", "buffer1">>
CaMeasure == <<Try("blocks", {"out"}, "buffer1", "kept")>>
CaFit == <<Try("fit", {"buffer1"}, "buffer1", "kept"), Try("fit", {"buffer1"}, "buffer1", "kept")>>
CaShift == <<Do("interpolate", {"out", "buffer1", "Gtmp"}, "buffer"), Do("write", {"buffer", "out"}, "out")>>
Cacorrect ==
  [all |-> OnCpu(Program(<<Copy("in", "out")>> \o Gets(CaTiles, "null")
     \o <<Do("green", {"out"}, "Gtmp")>>
     \o CaMeasure \o CaFit \o CaShift \o Puts(<<"buffer", "Gtmp", "buffer1">>), [kept |-> Exit(Members(CaTiles), 0)], 0),
     {"in", "green", "blocks", "fit", "interpolate", "write"})]

\* The interpolations of process: PPG with its border and the median
\* before it, and AMaZE, with a buffer for its tiles.
pre_median_b(from, to) == <<Do("median", {from}, to)>>
PpgGreen(from, to) == <<Inner(Do("green", {from}, to))>>
PpgRedBlue(to) == <<Inner(Do("redblue", {to}, to))>>
Ppg(from, to, median) ==
  <<Border(Do("border", {from}, to))>>
  \o IF median
     THEN <<Get("med_in", "null")>> \o pre_median_b(from, "med_in") \o PpgGreen("med_in", to) \o PpgRedBlue(to)
          \o <<Put("med_in")>>
     ELSE PpgGreen(from, to) \o PpgRedBlue(to)
Amaze(from, to) == <<Get("buffer", "null"), Do("tiles", {from}, "buffer"), Do("amaze", {"buffer"}, to), Put("buffer")>>
Interpolate(from, to, amaze) == IF amaze THEN Amaze(from, to) ELSE Ppg(from, to, FALSE)

\* The average of the whole, or of the surroundings, of each green pixel; the
\* card knows only the second.
\* bug: in place, in what the pipe has lent, and then copied.
EquilibrateInPlace(from, to) == <<Do("equilibrate", {from}, from), Copy(from, to)>>
Equilibrate(from, to) == <<Do("equilibrate", {from}, to)>>

\* The same with kernels; the border is written last.
PpgDevice(from, to, median) ==
  (IF median THEN <<Do("median", {from}, to), Do("green", {to}, to)>> ELSE <<Do("green", {from}, to)>>)
  \o <<Do("redblue", {to}, to), Border(Do("border", {from}, to))>>

\* Full resolution.
AmazeMade == {"in", "tiles", "amaze"}
PpgMade == {"in", "green", "redblue", "border"}
DemosaicFull(median) ==
  OnBoth(OnDevice(<< >>, PpgDevice("in", "out", median), << >>), Program(Ppg("in", "out", median), << >>, 0),
         PpgMade \cup (IF median THEN {"median"} ELSE {}))

EquilibratedHost(amaze) ==
  Program(<<Get("in2", "null")>> \o Equilibrate("in", "in2") \o Interpolate("in2", "out", amaze) \o <<Put("in2")>>, << >>, 0)
EquilibratedDevice == Kernels(<<"green_eq">>, Equilibrate("in", "green_eq") \o PpgDevice("green_eq", "out", FALSE))

\* More than half of it, and less.
ScaledHost(amaze) ==
  Program(<<Get("tmp", "null")>> \o Interpolate("in", "tmp", amaze) \o <<Do("scale", {"tmp"}, "out"), Put("tmp")>>, << >>, 0)
ScaledDevice == Kernels(<<"tmp">>, PpgDevice("in", "tmp", FALSE) \o <<Do("scale", {"tmp"}, "out")>>)

HalfHost(median) ==
  IF median THEN Loops(<<"tmp">>, pre_median_b("in", "tmp") \o <<Do("half", {"tmp"}, "out")>>)
            ELSE Loops(<< >>, Pass("half"))
HalfDevice(median) ==
  IF median THEN Kernels(<<"tmp">>, <<Do("median", {"in"}, "tmp"), Do("half", {"tmp"}, "out")>>)
            ELSE OnDevice(<< >>, Pass("half"), << >>)

\* The filter that only process has.
Smoothing(row) ==
  [row EXCEPT !.cpu.steps = @ \o <<Do("smooth", {"out"}, "out")>>, !.promise = @ \cup {"smooth"}]

\* process_cl looks neither at the method nor at the smoothing, and
\* commit_params does not keep it from being called: what the card makes of
\* AMaZE is PPG.
Apart(row, host, promise) == [row EXCEPT !.cpu = host, !.promise = promise]
Demosaic ==
  [ppg |-> DemosaicFull(FALSE), median |-> DemosaicFull(TRUE),
   equalised |-> OnBoth(EquilibratedDevice, EquilibratedHost(FALSE), PpgMade \cup {"equilibrate"}),
   equalisedAmaze |-> Apart(OnBoth(EquilibratedDevice, EquilibratedHost(FALSE), PpgMade \cup {"equilibrate"}),
                            EquilibratedHost(TRUE), AmazeMade \cup {"equilibrate"}),
   scaled |-> OnBoth(ScaledDevice, ScaledHost(FALSE), PpgMade \cup {"scale"}),
   scaledAmaze |-> Apart(OnBoth(ScaledDevice, ScaledHost(FALSE), PpgMade \cup {"scale"}),
                         ScaledHost(TRUE), AmazeMade \cup {"scale"}),
   half |-> OnBoth(HalfDevice(FALSE), HalfHost(FALSE), {"in", "half"}),
   export |-> OnBoth(HalfDevice(TRUE), HalfHost(TRUE), {"in", "median", "half"}),
   smooth |-> Smoothing(OnBoth(HalfDevice(FALSE), HalfHost(FALSE), {"in", "half"})),
   amaze |-> Apart(DemosaicFull(FALSE), Program(Amaze("in", "out"), << >>, 0), AmazeMade)]

----------------------------------------------------------------------------
Files ==
  [anlfyeni |-> Anlfyeni, atrous |-> [two |-> Atrous(2), three |-> Atrous(3)], basecurve |-> Basecurve, bilateral |-> Bilateral,
   bloom |-> Bloom, borders |-> Borders, cacorrect |-> Cacorrect, channelmixer |-> Channelmixer, clahe |-> Clahe,
   clipping |-> Clipping, colorcontrast |-> Colorcontrast, colorcorrection |-> Colorcorrection, colorin |-> Colorin,
   colorize |-> Colorize, colorout |-> Colorout, colortransfer |-> Colortransfer, colorzones |-> Colorzones,
   demosaic |-> Demosaic, equalizer |-> Equalizer, exposure |-> Exposure, flip |-> Flip, gamma |-> Gamma,
   graduatednd |-> Graduatednd, grain |-> Grain, highlights |-> Highlights, highpass |-> Highpass,
   hotpixels |-> Hotpixels, invert |-> Invert, lens |-> Lens, levels |-> Levels, lowlight |-> Lowlight,
   lowpass |-> Lowpass, monochrome |-> Monochrome, nlmeans |-> Nlmeans, overexposed |-> Overexposed,
   profile_gamma |-> ProfileGamma, rawdenoise |-> Rawdenoise, relight |-> Relight, shadhi |-> Shadhi,
   sharpen |-> Sharpen, shrecovery |-> Shrecovery, soften |-> Soften, splittoning |-> Splittoning, spots |-> Spots,
   temperature |-> Temperature, tonecurve |-> Tonecurve, tonemap |-> Tonemap, useless |-> Useless,
   velvia |-> Velvia, vibrance |-> Vibrance, vignette |-> Vignette, watermark |-> Watermark, zonesystem |-> Zonesystem]
=============================================================================
