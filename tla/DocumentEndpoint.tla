-------------------------- MODULE DocumentEndpoint --------------------------
(***************************************************************************)
(* POST /documents and the reads of a document.  The request authenticates *)
(* its key, inserts the row, signs the upload URL and answers; the session *)
(* is a dependency with yield, and FastAPI leaves it, which commits, only  *)
(* after the answer has been sent.  An exception before that rolls back.   *)
(* Each client run creates one document, so the run names the document.    *)
(***************************************************************************)
CONSTANT Runs   \* client runs, each with its document and its job

VARIABLES
  registered,   \* the hash of the client's key is in the accounts table
  request,      \* where POST /documents of each run is
  response,     \* its answer
  document      \* the committed document rows

documentVars == <<registered, request, response, document>>

DocumentTypeOK ==
  /\ registered \in BOOLEAN
  /\ request \in [Runs -> {"none", "sent", "answered", "closed"}]
  /\ response \in [Runs -> {"none", "created", "unauthorized", "error"}]
  /\ document \in [Runs -> BOOLEAN]

DocumentInit ==
  /\ registered \in BOOLEAN
  /\ request = [r \in Runs |-> "none"]
  /\ response = [r \in Runs |-> "none"]
  /\ document = [r \in Runs |-> FALSE]

(* AccountService.authenticate finds an account for the key. *)
Authenticated == registered

(* What a query scoped to the account finds: committed rows. *)
Visible(r) == document[r]

Respond(r, answer, next) ==
  /\ request[r] = "sent"
  /\ request' = [request EXCEPT ![r] = next]
  /\ response' = [response EXCEPT ![r] = answer]

(* The row is inserted and the URL signed; nobody else sees the row yet. *)
CreateDocument(r) ==
  /\ Authenticated
  /\ Respond(r, "created", "answered")
  /\ UNCHANGED <<registered, document>>

(* No account has this key. *)
RejectKey(r) ==
  /\ ~Authenticated
  /\ Respond(r, "unauthorized", "closed")
  /\ UNCHANGED <<registered, document>>

(* Mutant: the row is committed before the URL is signed. *)
MutantCreateFails(r) ==
  /\ Respond(r, "error", "closed")
  /\ document' \in {document, [document EXCEPT ![r] = Authenticated]}
  /\ UNCHANGED registered

(* A statement or the signing raises: rollback, then the answer. *)
CreateFails(r) ==
  /\ Respond(r, "error", "closed")
  /\ UNCHANGED <<registered, document>>

(* The session ends after the answer: the row is committed, or the commit  *)
(* fails, or the process dies, and the client is not told.                 *)
EndSession(r) ==
  /\ request[r] = "answered"
  /\ request' = [request EXCEPT ![r] = "closed"]
  /\ document' \in {document, [document EXCEPT ![r] = TRUE]}
  /\ UNCHANGED <<registered, response>>

ServeDocument(r) == CreateDocument(r) \/ RejectKey(r) \/ CreateFails(r) \/ EndSession(r)
=============================================================================
