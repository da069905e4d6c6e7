------------------------------- MODULE Uploads -------------------------------
(***************************************************************************)
(* Files: documents of an account, documents of a deal, and the photo of a *)
(* fill report.  Each request checks the account and the file, puts the    *)
(* file into the object storage and inserts a row that names its key; the  *)
(* two stores share no transaction.  Composed with Tools: fill reports     *)
(* need a tool, and every check reads the status.  That the uploader of a  *)
(* deal's document is a party of the deal is checked in AfterDeal.         *)
(***************************************************************************)
EXTENDS Tools

CONSTANTS
    Upload,                   \* requests that carry a file, each once
    Uploader, FileKind,       \* [Upload -> Company], [Upload -> Shelf]
    FileName, Content,        \* [Upload -> STRING], [Upload -> Sniffed]
    submit_fill_report

Shelf == {"documents", "deal-docs", "fill-reports"}
Sniffed == {"application/pdf", "image/jpeg", "text/plain", "none"}

ASSUME UploadsType ==
    /\ Uploader \in [Upload -> Company] /\ FileKind \in [Upload -> Shelf]
    /\ Content \in [Upload -> Sniffed] /\ submit_fill_report \in Tool
    /\ \A d \in Upload : Content[d] = "none" => FileKind[d] = "fill-reports"

VARIABLES
    stage,                    \* how far each request is
    storage                   \* the bucket: the file under each key, or "nothing"

uploadVars == <<stage, storage>>

\* Mutant: the key has no uuid, so that equal names share it.
NameOnly(d) == <<FileKind[d], Uploader[d], FileName[d]>>

\* The upload itself stands for the uuid in the key.
KeyOf(d) == <<FileKind[d], d, FileName[d]>>

Key == {KeyOf(d) : d \in Upload}

UploadsInit ==
    /\ stage = [d \in Upload |-> "absent"]
    /\ storage = [k \in Key |-> "nothing"]

Goto(d, from, to) == stage[d] = from /\ stage' = [stage EXCEPT ![d] = to]

-----------------------------------------------------------------------------
Sniff(d, allowed) == Content[d] \in allowed          \* else ErrUnsupportedFile

\* UploadDocument.
BeginDocument(d) ==
    /\ FileKind[d] = "documents" /\ isEligibleStatus(Uploader[d])
    /\ Sniff(d, {"application/pdf", "image/jpeg"})
    /\ Goto(d, "absent", "put")

\* UploadDealDocument.
BeginDealDocument(d) ==
    /\ FileKind[d] = "deal-docs" /\ isEligibleStatus(Uploader[d])
    /\ Sniff(d, {"application/pdf", "image/jpeg"})
    /\ Goto(d, "absent", "put")

\* CreateFillReport: the photo is optional.
BeginFillReport(d) ==
    /\ FileKind[d] = "fill-reports" /\ requireActiveUser(Uploader[d])
    /\ UserHasTool(Uploader[d], submit_fill_report)
    /\ Sniff(d, {"image/jpeg", "none"})
    /\ Goto(d, "absent", IF Content[d] = "none" THEN "insert" ELSE "put")

BeginUpload(d) ==
    /\ BeginDocument(d) \/ BeginDealDocument(d) \/ BeginFillReport(d)
    /\ UNCHANGED <<accountVars, job, toolVars, storage>>

PutObject(d) ==
    /\ Goto(d, "put", "insert")
    /\ storage' = [storage EXCEPT ![KeyOf(d)] = d]
    /\ UNCHANGED <<accountVars, job, toolVars>>

\* The INSERT of the row, whatever the status is by now.
InsertUpload(d) ==
    /\ Goto(d, "insert", "stored")
    /\ UNCHANGED <<accountVars, job, toolVars, storage>>

\* A statement or the storage fails, or the server is lost: a file that was
\* put stays, and no row names it.
LoseUpload(d) ==
    /\ stage[d] \in {"put", "insert"}
    /\ stage' = [stage EXCEPT ![d] = "lost"]
    /\ UNCHANGED <<accountVars, job, toolVars, storage>>

UploadStep(d) == BeginUpload(d) \/ PutObject(d) \/ InsertUpload(d) \/ LoseUpload(d)

-----------------------------------------------------------------------------
UploadsTypeOK ==
    /\ stage \in [Upload -> {"absent", "put", "insert", "stored", "lost"}]
    /\ storage \in [Key -> Upload \cup {"nothing"}]

\* Every row shows the file that was uploaded with it: the file is there
\* before the row, no other upload takes its key, and a request that is lost
\* half-way leaves a file without a row, never a row without its file.
RowsShowTheirFile == \A d \in Upload :
    stage[d] = "stored" /\ Content[d] # "none" => storage[KeyOf(d)] = d

\* The same from the moment the file is stored.
UploadsInv == \A d \in Upload :
    stage[d] \in {"insert", "stored"} /\ Content[d] # "none" => storage[KeyOf(d)] = d
=============================================================================
