--------------------------- MODULE MCDiskStorage ---------------------------
(* Three images, two of which have the same base name in different          *)
(* directories and one has a dot in its base name; user files under names    *)
(* the job comes up with.                                                    *)
EXTENDS DiskStorage

CONSTANTS i1, i2, i3

MCImages == {i1, i2, i3}
MCVariables == {"$(FILE_NAME)", "$(SEQUENCE)", "$(JOBCODE)"}
MCParts == MCVariables \cup {"v1.0", "/", "photo", ".", "_"}
MCTexts == {"a", "b.c", "b", "1", "2", "3", "export", "v1.0", "v1", "/", "photo", ".", "_", ""}

MCSequence == [i \in MCImages |-> CASE i = i1 -> "1" [] i = i2 -> "2" [] i = i3 -> "3"]
MCValue == [p \in MCParts |-> [i \in MCImages |->
  CASE p = "$(FILE_NAME)" -> IF i = i3 THEN "b.c" ELSE "a"
    [] p = "$(SEQUENCE)" -> MCSequence[i]
    [] p = "$(JOBCODE)" -> "export"
    [] OTHER -> p]]

MCMark == [t \in MCTexts |->
  IF t \in {"b.c", "v1.0", "."} THEN "." ELSE IF t = "/" THEN "/" ELSE "none"]
MCCut == [t \in MCTexts |-> CASE t = "b.c" -> "b" [] t = "v1.0" -> "v1" [] OTHER -> ""]

Typed(exists, parts) == [exists |-> exists, parts |-> parts]
MCPatterns ==
  {Typed(TRUE, <<"v1.0", "/">>), Typed(FALSE, <<"v1.0", "/", "photo">>),
   Typed(FALSE, <<"$(FILE_NAME)">>), Typed(FALSE, <<"$(FILE_NAME)", "$(SEQUENCE)">>),
   Typed(FALSE, <<"$(JOBCODE)">>), Typed(FALSE, <<"photo", ".", "photo">>),
   Typed(FALSE, <<".", "$(SEQUENCE)">>)}

Taken(stem, suffix) == [stem |-> stem, suffix |-> suffix]
MCUserFiles == {Taken(<<"a">>, 0), Taken(<<"a">>, 1),
                Taken(<<"v1.0", "/", "photo", "_", "1">>, 0), Taken(<<".", "1">>, 0)}
=============================================================================
