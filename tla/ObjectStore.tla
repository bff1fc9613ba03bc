----------------------------- MODULE ObjectStore -----------------------------
(***************************************************************************)
(* The S3 objects of a document, raw/{account}/{document}.pdf and          *)
(* artifacts/{account}/{document}.md.  Contents are version numbers: the   *)
(* n-th upload of the PDF is n, the Markdown made from it is n too, and 0  *)
(* is a missing object.                                                    *)
(***************************************************************************)
EXTENDS Environment

VARIABLES raw, markdown

storeVars == <<raw, markdown>>

StoreTypeOK ==
  /\ raw \in [Documents -> 0..MaxVersion]
  /\ markdown \in [Documents -> 0..MaxVersion]

StoreInit ==
  /\ raw = [d \in Documents |-> 0]
  /\ markdown = [d \in Documents |-> 0]

ObjectExists(d) == raw[d] > 0

PutMarkdown(d, version) == /\ markdown' = [markdown EXCEPT ![d] = version]
                           /\ UNCHANGED raw

(* The client PUTs the PDF to its presigned URL, as often as it likes      *)
(* while the URL is valid.                                                 *)
Upload(d) ==
  /\ raw[d] < MaxVersion
  /\ raw' = [raw EXCEPT ![d] = @ + 1]
  /\ UNCHANGED markdown
=============================================================================
