---------------------------- MODULE IopPanelRows ----------------------------
(***************************************************************************)
(* The rows of IopPanel: one for each file of src/iop whose panel follows  *)
(* the common pattern.  A slider of the code with the range 0.0 to 1.0 and *)
(* the step 0.01 is one from 0 to 100 here.                                *)
(***************************************************************************)
EXTENDS IopPanel

\* Fields that differ for images that are not raw, and presets.
ButLdr(row, fields) == [row EXCEPT !.ldr = fields @@ @]
WithPresets(row, presets) == [row EXCEPT !.presets = presets]
OnlyRaw(row, pipes) == [row EXCEPT !.kinds = {"raw"}, !.pipes = pipes]

----------------------------------------------------------------------------
(* Detail *)
Anlfyeni == Panel([alpha |-> 10, scale |-> 1000, strength |-> 1000],
  {Slider("alpha", 1, 70), Slider("scale", 0, 6000), Slider("strength", 0, 10000)})

Bloom == Panel([size |-> 20, threshold |-> 90, strength |-> 25],
  {Slider("size", 0, 100), Slider("threshold", 0, 100), Slider("strength", 0, 100)})

Clahe == Panel([radius |-> 64, slope |-> 125], {Slider("radius", 0, 256), Slider("slope", 100, 300)})

\* Not in the preview, and not when the strength is 0; the marks of what was
\* found are for the screen.
Hotpixels ==
  [OnlyRaw(Panel([strength |-> 50, threshold |-> 1, markfixed |-> 0, permissive |-> 0],
     {Slider("strength", 0, 100), Slider("threshold", 0, 100), Toggle("markfixed"), Toggle("permissive")}),
     {"full", "export"})
   EXCEPT !.idle = {<<"strength", 0>>}, !.screen = {"markfixed"}]

Nlmeans == Panel([luma |-> 10, chroma |-> 30], {Slider("luma", 0, 100), Slider("chroma", 0, 100)})

Rawdenoise == OnlyRaw(Panel([threshold |-> 10], {Slider("threshold", 0, 100)}), {"full", "export"})

Sharpen == Panel([radius |-> 200, amount |-> 50, threshold |-> 50],
  {Slider("radius", 0, 800), Slider("amount", 0, 200), Slider("threshold", 0, 10000)})

Soften == Panel([size |-> 50, saturation |-> 100, brightness |-> 33, amount |-> 50],
  {Slider("size", 0, 100), Slider("saturation", 0, 100), Slider("brightness", -200, 200),
   Slider("amount", 0, 100)})

Grain == Panel([channel |-> 2, scale |-> 400, strength |-> 25],
  {Slider("scale", 100, 3200), Slider("strength", 0, 100)})

Highpass == Panel([sharpness |-> 50, contrast |-> 50], {Slider("sharpness", 0, 100), Slider("contrast", 0, 100)})

----------------------------------------------------------------------------
(* Tone *)
Shrecovery == Panel([strength |-> 200, mu |-> 50, sigma |-> 20, size_limit |-> 4],
  {Slider("strength", -200, 600), Slider("mu", 10, 90), Slider("sigma", 5, 60), Slider("size_limit", 2, 64)})

\* The centre has no guard, and the picker writes its own: a lightness
\* of 0 to 100 into a field that is from 0 to 1.
Relight ==
  WithPresets(
    [Panel([ev |-> 33, center |-> 0, width |-> 400],
       {Slider("ev", -200, 200), Slider("width", 200, 1000), Loose("center", 0, 100)})
     EXCEPT !.pick = [NoPick EXCEPT !.fields = {"center"}, !.colours = {4000, 9000}, !.ends = TRUE]],
    {[ev |-> 25, center |-> 25, width |-> 400], [ev |-> -25, center |-> 25, width |-> 400]})

\* Drawn on the screen only.
Overexposed == [Panel([lower |-> 20, upper |-> 980], {Slider("lower", 0, 1000), Slider("upper", 0, 1000)})
                EXCEPT !.pipes = {"full"}]

\* The combination of the mode has no guard.  On for raw files only.
Highlights == Panel([mode |-> 0, blendL |-> 100, blendC |-> 0, blendh |-> 0],
  {Loose("mode", 0, 1), Slider("blendL", 0, 100), Slider("blendC", 0, 100), Slider("blendh", 0, 100)})

----------------------------------------------------------------------------
(* Colour *)
\* Without filters the colour of the film comes from a dialog or a picker.
Invert ==
  [Panel([color |-> 1000], {[Dialog("color", 0, 1000) EXCEPT !.kinds = {"ldr"}]})
   EXCEPT !.pick = [fields |-> {"color"}, colours |-> {300, 600}, skips |-> TRUE, ends |-> FALSE, kinds |-> {"ldr"}]]

\* The sliders show one of seven channels; red is shown at first.
Channels == <<"hue", "saturation", "lightness", "red", "green", "blue", "gray">>
MixOf(c) == [i \in 1..7 |-> <<c, Channels[i]>>]
Mixed(r, g, b) ==
  LET shares == [r |-> r, g |-> g, b |-> b]
  IN  [f \in {"r", "g", "b"} \X {Channels[i] : i \in 1..7} |-> shares[f[1]][CHOOSE i \in 1..7 : Channels[i] = f[2]]]
Boosted(h, s, l) == Mixed(<<0, 0, h, 1000, 0, 0, 0>>, <<0, 0, s, 0, 1000, 0, 0>>, <<0, 0, l, 0, 0, 1000, 0>>)
Gray(r, g, b) == Mixed(<<0, 0, 0, 1000, 0, 0, r>>, <<0, 0, 0, 0, 1000, 0, g>>, <<0, 0, 0, 0, 0, 1000, b>>)
Channelmixer ==
  WithPresets(
    [Panel(Boosted(0, 0, 0), {Paged(MixOf(c), -2000, 2000) : c \in {"r", "g", "b"}}) EXCEPT !.first = 4],
    {Mixed(<<0, 0, 0, 0, 0, 1000, 0>>, <<0, 0, 0, 0, 1000, 0, 0>>, <<0, 0, 0, 1000, 0, 0, 0>>),
     Mixed(<<0, 0, 0, 1000, 0, 0, 0>>, <<0, 0, 0, 0, 0, 1000, 0>>, <<0, 0, 0, 0, 1000, 0, 0>>),
     Boosted(800, 100, 100), Boosted(100, 800, 100), Boosted(100, 100, 800),
     Gray(210, 720, 70), Gray(-275, -275, 1275),
     Mixed(<<0, 0, 0, 1000, 0, 0, 1000>>, <<0, 0, 0, 0, 0, 1000, 325>>, <<0, 0, 0, 0, 0, 0, -400>>),
     Mixed(<<0, 0, 0, 0, 0, 0, 400>>, <<0, 0, 0, 0, 0, 0, 750>>, <<0, 0, 0, 0, 0, 0, -150>>)})

\* The colour dialog sets the two gradient sliders and records again.
Colorize == Panel([hue |-> 0, saturation |-> 50, source_lightness_mix |-> 50, lightness |-> 50],
  {Eager("hue", 0, 100), Eager("saturation", 0, 100), Slider("lightness", 0, 100),
   Slider("source_lightness_mix", 0, 100)})

\* hue_callback is guarded before it writes, saturation_callback is not.
Graduatednd ==
  WithPresets(
    Panel([density |-> 20, compression |-> 0, rotation |-> 0, offset |-> 50, hue |-> 0, saturation |-> 0],
      {Slider("density", -80, 80), Slider("compression", 0, 100), Slider("rotation", -180, 180),
       Slider("offset", 0, 100), Slider("hue", 0, 100), Loose("saturation", 0, 100)}),
    {[density |-> d, compression |-> c] : d \in {10, 20, 30}, c \in {0, 75}}
      \cup {[density |-> 10, hue |-> 82, saturation |-> 50], [density |-> 20, hue |-> 8, saturation |-> 25]})

ProfileGamma == Panel([linear |-> 10000, gamma |-> 10000], {Slider("linear", 0, 10000), Slider("gamma", 0, 10000)})

Velvia == Panel([strength |-> 25, bias |-> 100], {Slider("strength", 0, 100), Slider("bias", 0, 100)})

Vibrance == Panel([amount |-> 25], {Slider("amount", 0, 100)})

Useless == Panel([checker_scale |-> 50], {Slider("checker_scale", 1, 100)})

\* The offsets have no widgets.
Colorcontrast == Panel([a_steepness |-> 100, a_offset |-> 0, b_steepness |-> 100, b_offset |-> 0],
  {Slider("a_steepness", 0, 500), Slider("b_steepness", 0, 500)})

----------------------------------------------------------------------------
(* Filters with a spatial extent *)
\* The first slider sets both spatial sigmas.
Bilateral == Panel([f \in {"sigma0", "sigma1"} |-> 1500] @@ [f \in {"sigma2", "sigma3", "sigma4"} |-> 50],
  {[Slider("sigma0", 100, 3000) EXCEPT !.also = {"sigma1"}]}
    \cup {Slider(f, 1, 1000) : f \in {"sigma2", "sigma3", "sigma4"}})

Lowpass ==
  WithPresets(
    Panel([order |-> 0, radius |-> 250, contrast |-> 100, saturation |-> 100],
      {Slider("radius", 1, 2000), Slider("contrast", -100, 100), Slider("saturation", -300, 300)}),
    {[order |-> 0, radius |-> 500, contrast |-> -100, saturation |-> 0]})

\* Two fields are reserved: kept in the parameters, not handed to the pipes.
Shadhi ==
  [Panel([order |-> 0, radius |-> 1000, shadows |-> 1000, reserved1 |-> 0, highlights |-> 1000,
          reserved2 |-> 0, compress |-> 500],
     {Slider("shadows", 0, 2000), Slider("highlights", 0, 2000), Slider("radius", 1, 2000),
      Slider("compress", 0, 1000)})
   EXCEPT !.commit = @ \ {"reserved1", "reserved2"}]

Vignette == Panel([scale |-> 80, falloff_scale |-> 50, brightness |-> -50, saturation |-> -50,
                   center_x |-> 0, center_y |-> 0, autoratio |-> 0, whratio |-> 100, shape |-> 100],
  {Slider("scale", 0, 100), Slider("falloff_scale", 0, 100), Slider("brightness", -100, 100),
   Slider("saturation", -100, 100), Slider("center_x", -100, 100), Slider("center_y", -100, 100),
   Toggle("autoratio"), Slider("whratio", 0, 200), Slider("shape", 0, 500)})

\* In landscape: the aspect is a combination with an entry and no guard,
\* -1000 stands for a border of constant width.
Borders ==
  WithPresets(
    [Panel([color |-> 1000, aspect |-> 1500, size |-> 10],
       {Slider("size", 0, 50), Loose("aspect", -1000, 2000), Dialog("color", 0, 1000)})
     EXCEPT !.pick = [NoPick EXCEPT !.fields = {"color"}, !.colours = {300, 600}, !.skips = TRUE]],
    {[color |-> c, aspect |-> 1500, size |-> 10] : c \in {0, 1000}})

\* Alignment, the row of nine buttons, is left out: gui_update presses the
\* button of the new alignment and leaves the old one pressed as well.
Watermark == Panel([opacity |-> 100, scale |-> 100, xoffset |-> 0, yoffset |-> 0, filename |-> 0],
  {Slider("opacity", 0, 100), Slider("scale", 1, 100), Slider("xoffset", -100, 100),
   Slider("yoffset", -100, 100), Slider("filename", 0, 1)})

----------------------------------------------------------------------------
(* From the sensor *)
\* Never in the preview; the combinations have no guard.
Demosaic ==
  [OnlyRaw(Panel([green_eq |-> 0, median_thrs |-> 0, color_smoothing |-> 0, demosaicing_method |-> 0, yet_unused |-> 0],
     {Loose("green_eq", 0, 3), Slider("median_thrs", 0, 1000), Slider("color_smoothing", 0, 5),
      Loose("demosaicing_method", 0, 1)}), {"full", "export"})
   EXCEPT !.commit = @ \ {"yet_unused"}]

Gamma == Panel([linear |-> 100, gamma |-> 100], {})

Cacorrect == [OnlyRaw(Panel([keep |-> 50], {}), {"full", "export"}) EXCEPT !.commit = {}]

\* The first chromatic aberration that is set overrides the lens's, and
\* nothing takes that back.  The menus of cameras and lenses are left out.
Lens ==
  LET Tca(f) == [Slider(f, 990, 1010) EXCEPT !.sets = [tca_override |-> 1]]
  IN  Panel([target_geom |-> 1, inverse |-> 0, scale |-> 100, tca_r |-> 1000, tca_b |-> 1000, tca_override |-> 0,
             focal |-> 50, aperture |-> 28, distance |-> 1000],
        {Slider("target_geom", 1, 4), Toggle("inverse"), Slider("scale", 10, 200), Tca("tca_r"), Tca("tca_b"),
         Slider("focal", 10, 1000), Slider("aperture", 10, 380), Slider("distance", 25, 100000)})

IopRows ==
  [anlfyeni |-> Anlfyeni, bloom |-> Bloom, clahe |-> Clahe, hotpixels |-> Hotpixels, nlmeans |-> Nlmeans,
   rawdenoise |-> Rawdenoise, sharpen |-> Sharpen, soften |-> Soften, grain |-> Grain, highpass |-> Highpass,
   shrecovery |-> Shrecovery, relight |-> Relight, overexposed |-> Overexposed, highlights |-> Highlights,
   invert |-> Invert, channelmixer |-> Channelmixer, colorize |-> Colorize, graduatednd |-> Graduatednd,
   profile_gamma |-> ProfileGamma, velvia |-> Velvia, vibrance |-> Vibrance, useless |-> Useless,
   colorcontrast |-> Colorcontrast, bilateral |-> Bilateral, lowpass |-> Lowpass, shadhi |-> Shadhi,
   vignette |-> Vignette, borders |-> Borders, watermark |-> Watermark, demosaic |-> Demosaic, gamma |-> Gamma,
   cacorrect |-> Cacorrect, lens |-> Lens]
=============================================================================
