---------------------------- MODULE CatalogContents ----------------------------
(***************************************************************************)
(* What reading a file-based catalog comes to, without files that are      *)
(* parsed side by side: all records are merged at once, in no order, and   *)
(* the catalog is delivered as a whole or refused as a whole.              *)
(*                                                                         *)
(* CatalogReader is the program that does this.                            *)
(***************************************************************************)
EXTENDS CatalogRecords

VARIABLES files,     \* the catalog
          fault,     \* it cannot be fetched, or the time for it is over
          contents,  \* what was made of it, once there is a verdict
          verdict

contentsVars == <<files, fault, contents, verdict>>

ContentsInit ==
    /\ files \in Catalogs
    /\ fault = FALSE
    /\ contents = Nothing
    /\ verdict = "pending"

Fail ==
    /\ fault' = TRUE
    /\ UNCHANGED <<files, contents, verdict>>

Decide ==
    /\ verdict = "pending"
    /\ ~fault
    /\ \A r \in Records(files) : ~Fatal(r)
    /\ IsMerge(contents', Records(files))
    /\ verdict' = IF Servable(contents') THEN "delivered" ELSE "refused"
    /\ UNCHANGED <<files, fault>>

Refuse ==
    /\ verdict = "pending"
    /\ fault' \/ \E r \in Records(files) : Fatal(r)
    /\ fault => fault'
    /\ verdict' = "refused"
    /\ UNCHANGED files

ContentsNext == Fail \/ Decide \/ Refuse

ContentsSpec == ContentsInit /\ [][ContentsNext]_contentsVars
=============================================================================
