------------------------------ MODULE PdfScan ------------------------------
(***************************************************************************)
(* PDFProcessor::start: one pass over the objects of a PDF document that   *)
(* counts what looks like an image.  Nothing is extracted.  An object is   *)
(* its /Type and /Subtype names and its /Filter: the filters it names, and *)
(* whether they stand in an array.                                         *)
(***************************************************************************)
EXTENDS Sequences, Integers, FiniteSets

CONSTANT Documents   \* documents a run can meet

ASSUME DocumentConstants == \A d \in Documents : d \in Seq({d[k] : k \in DOMAIN d})

ImageFilters == {"DCTDecode", "JPXDecode", "FlateDecode"}

VARIABLES scan,      \* "closed", "loop", or how start ended
          document,  \* the objects of the document
          at,        \* the iterator
          nNum       \* images counted so far

pdfvars == <<scan, document, at, nNum>>

\* The test is a disjunction: a form XObject passes it as well.
LooksLikeImage(object) ==
  object.dictionary /\ (object.type = "XObject" \/ object.subtype = "Image")

\* One name, or an array that holds DCTDecode alone, has a filter name.
Named(object) ==
  IF object.array THEN object.filters = <<"DCTDecode">> ELSE Len(object.filters) = 1
HasImageFilter(object) == Named(object) /\ object.filters[1] \in ImageFilters
NoFilter(object) == ~object.array /\ object.filters = << >>

----------------------------------------------------------------------------
PdfInit == scan = "closed" /\ document = << >> /\ at = 1 /\ nNum = 0

\* PdfMemDocument opens the file, or throws a PdfError.
OpenDocument ==
  /\ scan = "closed" /\ scan' = "loop"
  /\ document' \in Documents
  /\ UNCHANGED <<at, nNum>>

OpenFails == scan = "closed" /\ scan' = "error" /\ UNCHANGED <<document, at, nNum>>

InScan == scan = "loop" /\ at <= Len(document)

\* bug: the look at the filter decides what is skipped.
SkipUnknown ==
  /\ InScan /\ ~(LooksLikeImage(document[at]) /\ HasImageFilter(document[at]))
  /\ at' = at + 1
  /\ UNCHANGED <<scan, document, nNum>>

\* bug: the iterator stays at an object that is skipped.
SkipStuck == InScan /\ ~LooksLikeImage(document[at]) /\ UNCHANGED <<scan, document, at, nNum>>

SkipObject ==
  /\ InScan /\ ~LooksLikeImage(document[at])
  /\ at' = at + 1
  /\ UNCHANGED <<scan, document, nNum>>

\* DCTDecode, JPXDecode, FlateDecode and every unknown filter count alike.
CountObject ==
  /\ InScan /\ LooksLikeImage(document[at])
  /\ Named(document[at])
  /\ at' = at + 1 /\ nNum' = nNum + 1
  /\ UNCHANGED <<scan, document>>

\* GetName of an array raises a PdfError, which ends the pass.
FilterRaises ==
  /\ InScan /\ LooksLikeImage(document[at])
  /\ ~Named(document[at]) /\ ~NoFilter(document[at])
  /\ scan' = "error"
  /\ UNCHANGED <<document, at, nNum>>

\* GetKey found no filter: pObj->GetName() reads through a null pointer.
FilterIsNull ==
  /\ InScan /\ LooksLikeImage(document[at])
  /\ NoFilter(document[at])
  /\ scan' = "killed"
  /\ UNCHANGED <<document, at, nNum>>

ReportImages ==
  /\ scan = "loop" /\ at > Len(document)
  /\ scan' = "reported"
  /\ UNCHANGED <<document, at, nNum>>

PdfStep ==
  \/ OpenDocument \/ OpenFails \/ SkipObject \/ CountObject
  \/ FilterRaises \/ FilterIsNull \/ ReportImages

PdfOver == scan \in {"reported", "error", "killed"} /\ UNCHANGED pdfvars
PdfNext == PdfStep \/ PdfOver
PdfSpec == PdfInit /\ [][PdfNext]_pdfvars
----------------------------------------------------------------------------
PdfTypeOK ==
  /\ scan \in {"closed", "loop", "reported", "error", "killed"}
  /\ document \in Documents \cup {<< >>}
  /\ at \in 1..Len(document) + 1
  /\ nNum \in 0..Len(document)

(***************************************************************************)
(* A pass that reports has met no image-like object without a usable       *)
(* filter, and its number is that of all image-like objects, whatever      *)
(* their filter; a pass that stops early stands at the object that did it. *)
(***************************************************************************)
ReportIsComplete ==
  /\ scan = "reported" =>
       nNum = Cardinality({k \in DOMAIN document : LooksLikeImage(document[k])})
  /\ scan = "killed" => NoFilter(document[at])
=============================================================================
