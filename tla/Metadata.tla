------------------------------ MODULE Metadata ------------------------------
(***************************************************************************)
(* The metadata pass of ImageProcessor::start: the MetaData entries of the *)
(* ticket, applied in order to the Exif data of one encoded sink image.    *)
(* The whole pass sits in one try block, so the first item that throws     *)
(* ends it; what was changed before stays changed and is written.          *)
(***************************************************************************)
EXTENDS Sequences, SequencesExt

CONSTANTS
  ImageTags,  \* names Exiv2 accepts after "Exif.Image."
  Values,     \* values a ticket can give a tag
  NoKey,      \* the empty name that the JSON reader gives an array element
  NoValue,    \* the tag is not in the Exif data
  Absent      \* the ticket does not have this entry

ASSUME MetadataConstants ==
  /\ NoKey \notin ImageTags
  /\ NoValue \notin Values

\* exifData: the value of each tag.
ExifData == [ImageTags -> Values \cup {NoValue}]

(***************************************************************************)
(* One child of RemoveTags: `key' is its JSON name, `text' its data, and   *)
(* `nested' says whether it has a child of its own name.  ["Vendor"] is    *)
(* read as key NoKey, {"Vendor": ""} as key Vendor that is not nested.     *)
(* get<string>(key) of the child throws unless the path key exists in it;  *)
(* the empty path always does.                                             *)
(***************************************************************************)
Throws(item) == item.key # NoKey /\ ~item.nested

\* Number of leading items that the loop over RemoveTags gets through.
Reached(items) ==
  LET bad == {i \in 1..Len(items) : Throws(items[i])}
  IN  IF bad = {} THEN Len(items) ELSE Min(bad) - 1

\* ExifKey("Exif.Image." + key) throws for an unknown key, which the inner
\* catch swallows; a known key is erased if it is there.
RemoveTags(exif, items) ==
  LET gone == {items[i].key : i \in 1..Reached(items)}
  IN  [t \in ImageTags |-> IF t \in gone THEN NoValue ELSE exif[t]]

\* exifData["Exif.Image." + key] = data; an unknown key is swallowed.
AddTag(exif, item) ==
  IF item.key \in ImageTags THEN [exif EXCEPT ![item.key] = item.value] ELSE exif

AddTags(exif, items) == FoldLeft(AddTag, exif, items)

\* One entry of MetaData, in the state [exif, ok]; ok = FALSE: already thrown.
\* A type other than EXIF is passed over.
ApplyEntry(state, entry) ==
  LET removed == RemoveTags(state.exif, entry.remove)
      broken  == Reached(entry.remove) < Len(entry.remove) \/ entry.add = Absent
  IN  CASE ~state.ok \/ entry.type \notin {"EXIF", Absent} -> state
        [] state.ok /\ (entry.type = Absent \/ entry.remove = Absent) ->
             [state EXCEPT !.ok = FALSE]
        [] OTHER ->
             [exif |-> IF broken THEN removed ELSE AddTags(removed, entry.add),
              ok   |-> ~broken]

\* The whole pass; a ticket without MetaData leaves the Exif data alone.
ApplyMetadata(exif, metadata) ==
  IF metadata = Absent THEN exif
  ELSE FoldLeft(ApplyEntry, [exif |-> exif, ok |-> TRUE], metadata).exif
=============================================================================
