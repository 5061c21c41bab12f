---------------------------- MODULE MCOpenPablo ----------------------------
(* Runs of openPablo: tickets of the shapes of tests/*.txt, cut down, and   *)
(* PDF documents of up to two objects of eight kinds.                       *)
EXTENDS OpenPablo

MCSink(path, format, size, icc) ==
  [path |-> path, format |-> format, size |-> size, icc |-> icc,
   compression |-> "87", preserve |-> "True"]

Web   == MCSink("web", "JPEG", "small", "iso")
Paper == MCSink("print", "PSD", "large", "iso")

\* JSON arrays give nameless items, objects give named ones.
Listed(t) == [key |-> NoKey, text |-> t, nested |-> FALSE]
Keyed(t)  == [key |-> t, text |-> "", nested |-> FALSE]
Nested(t) == [key |-> t, text |-> "", nested |-> TRUE]
Tag(t, v) == [key |-> t, value |-> v]
Entry(type, remove, add) == [type |-> type, remove |-> remove, add |-> add]

\* tests/jpg2pdf.txt, tests/ticket.txt.
Jpg2Pdf == << Entry("EXIF", <<Listed("Vendor")>>, <<Tag("Model", "v")>>),
              Entry("IPTC", <<Listed("Vendor")>>, <<Tag(NoKey, "v")>>) >>
TicketTxt == << Entry("EXIF", <<Listed("")>>, <<Tag(NoKey, "v")>>) >>
\* A type that the program does not know is passed over, also when it is not last.
OtherType == << Entry("XMP", Absent, Absent), Entry("EXIF", << >>, <<Tag("Model", "v")>>) >>
\* Objects: one that removes a tag, one that ends the pass half way.
Removing == << Entry("EXIF", <<Nested("Vendor"), Keyed("Model")>>, <<Tag("Model", "v")>>) >>

OutputLists ==
  { << >>, <<Web>>, <<Web, Paper>>, <<Paper, Web>>, <<Paper, Paper>>,
    <<Web, [Web EXCEPT !.path = "print"], Paper>>,
    <<Web, [Web EXCEPT !.icc = "other"], Paper>>,
    <<[Paper EXCEPT !.preserve = "False"], Paper, Web>>,
    <<Web, [Web EXCEPT !.compression = Absent]>>,
    <<Web, [Paper EXCEPT !.preserve = Absent]>>,
    <<[Web EXCEPT !.format = "PDF"], Web>>,
    <<[Web EXCEPT !.size = Absent]>>, <<Web, [Web EXCEPT !.path = Absent], Web>>,
    <<[Web EXCEPT !.icc = Absent]>>, <<[Web EXCEPT !.format = Absent]>> }

\* Every output with some metadata, and some outputs with all of it and with
\* every setting of the PSD processor.
Ticket(outputs, metadata, psd) == [output : outputs, metadata : metadata, psd : psd]
MCTickets ==
  Ticket(OutputLists \cup {Absent}, {Jpg2Pdf, Removing}, {"No"})
    \cup Ticket({<<Web, Paper>>}, {Absent, TicketTxt, OtherType}, {"No"})
    \cup Ticket({<<Web, Paper>>}, {<<Entry(Absent, << >>, << >>)>>}, {"No"})
    \cup Ticket({<<Web>>}, {Absent}, {"Yes", Absent})
TicketOfTests == Ticket({<<Web, Paper>>}, {Jpg2Pdf}, {"No"})

Object(type, subtype, filters) ==
  [dictionary |-> TRUE, type |-> type, subtype |-> subtype, array |-> FALSE, filters |-> filters]
InArray(object) == [object EXCEPT !.array = TRUE]

MCObjects ==
  { Object("XObject", "Image", <<"DCTDecode">>), InArray(Object("XObject", "Image", <<"DCTDecode">>)),
    Object("none", "Image", <<"FlateDecode">>), Object("XObject", "Form", <<"LZWDecode">>),
    InArray(Object("XObject", "Image", <<"FlateDecode", "DCTDecode">>)),
    Object("XObject", "Form", << >>), Object("Font", "none", << >>),
    [Object("XObject", "Image", <<"JPXDecode">>) EXCEPT !.dictionary = FALSE] }

MaxObjects == 2
MCDocuments == UNION {[1..n -> MCObjects] : n \in 0..MaxObjects}
=============================================================================
