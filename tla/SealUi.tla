-------------------------------- MODULE SealUi --------------------------------
(***************************************************************************)
(* seal-ui (src/apps/seal/seal-ui): the browser pages and the HTTP client  *)
(* behind them.  What seal-api shows of a document is the contract's view; *)
(* SealSystem implements that contract.  The client repeats a call up to   *)
(* MaxRetries times, a POST like a GET, and a call it gives up on may      *)
(* still be executed by the API later.                                     *)
(***************************************************************************)
EXTENDS Naturals, FiniteSets

CONSTANTS
  Docs,        \* document ids
  Pages,       \* submissions, each with its own result area
  NoDoc,       \* a page that has no id, a client without an answer
  MaxRetries,  \* maxRetries of the client
  MaxFaults    \* bound: failed attempts per page

ASSUME UiAssumption ==
  /\ NoDoc \notin Docs \cup Pages
  /\ NoDoc \notin {"none", "pending", "failed", "completed"}
  /\ IsFiniteSet(Docs)
  /\ MaxRetries \in Nat \ {0} /\ MaxFaults \in Nat

VARIABLES
  view,    \* what GET /api/v1/documents/{id} answers, "none" for a 404
  owner,   \* history: the page whose POST created the document
  page,    \* what the page shows or waits for
  doc,     \* the id in the page
  tries,   \* failed attempts of the call the client is making
  answer,  \* the status in the client's hand, not yet rendered
  late,    \* POSTs of the page timed out in the client, alive in the API
  faults,  \* history: failed attempts on behalf of the page
  unusable \* history: the pages that got a reply the client could not use

counters == <<late, faults, unusable>>
pageVars == <<page, doc, tries, answer, counters>>
vars == <<view, owner, pageVars>>

Contract == INSTANCE SealContract

Showing == {"form", "refused", "spinner", "download", "failed", "frozen"}
Waiting == {"posting", "asking"}

TypeOK ==
  /\ view \in [Docs -> {"none", "pending", "failed", "completed"}]
  /\ owner \in [Docs -> Pages \cup {NoDoc}]
  /\ page \in [Pages -> Showing \cup Waiting]
  /\ doc \in [Pages -> Docs \cup {NoDoc}]
  /\ tries \in [Pages -> 0 .. MaxRetries]
  /\ answer \in [Pages -> {"none", "pending", "failed", "completed", NoDoc}]
  /\ late \in [Pages -> Nat] /\ faults \in [Pages -> Nat]
  /\ unusable \subseteq Pages

Init ==
  /\ Contract!Init
  /\ owner = [d \in Docs |-> NoDoc]
  /\ page = [p \in Pages |-> "form"]
  /\ doc = [p \in Pages |-> NoDoc]
  /\ tries = [p \in Pages |-> 0]
  /\ answer = [p \in Pages |-> NoDoc]
  /\ late = [p \in Pages |-> 0]
  /\ faults = [p \in Pages |-> 0]
  /\ unusable = {}

(* The API's POST handler inserts a row for a request of page p under an   *)
(* id nobody has yet; which one does not matter.                           *)
Insert(p, d) ==
  /\ d = CHOOSE new \in Docs : view[new] = "none"
  /\ Contract!Accept(d)
  /\ owner' = [owner EXCEPT ![d] = p]

FreeIds == {d \in Docs : view[d] = "none"}

Goto(p, s) == page' = [page EXCEPT ![p] = s]

(* Mistakes: an attempt too many; only one attempt; an id is shown although*)
(* the call failed.                                                        *)
Attempt(p, last, givenUp) ==
  /\ faults[p] < MaxFaults
  /\ faults' = [faults EXCEPT ![p] = @ + 1]
  /\ tries' = [tries EXCEPT ![p] = @ + 1]
  /\ page' = IF tries'[p] >= last THEN [page EXCEPT ![p] = givenUp] ELSE page
  /\ UNCHANGED unusable
FailedAttemptExtra(p, givenUp) == Attempt(p, MaxRetries + 1, givenUp)
FailedAttemptOnce(p, givenUp) == Attempt(p, 1, givenUp)
FailedAttemptShown(p, givenUp) == Attempt(p, MaxRetries, "spinner")

(* An attempt failed (no reply in time, a broken connection, a 5xx): the   *)
(* client tries again, and after MaxRetries attempts the handler answers   *)
(* 500, which htmx does not swap into the page.                            *)
FailedAttempt(p, givenUp) ==
  /\ faults[p] < MaxFaults
  /\ faults' = [faults EXCEPT ![p] = @ + 1]
  /\ tries' = [tries EXCEPT ![p] = @ + 1]
  /\ page' = IF tries'[p] = MaxRetries THEN [page EXCEPT ![p] = givenUp] ELSE page
  /\ UNCHANGED unusable

(* A reply below 500 that the call cannot use (a status it does not expect,*)
(* a body that breaks off or does not decode) is an error at once: only    *)
(* doRequest repeats anything.                                             *)
UnusableReply(p, givenUp) ==
  /\ Goto(p, givenUp)
  /\ unusable' = unusable \cup {p}
  /\ UNCHANGED <<tries, faults>>

(* The form is posted with a text in it. *)
Submit(p) ==
  /\ page[p] = "form"
  /\ Goto(p, "posting")
  /\ UNCHANGED <<view, owner, doc, tries, answer, counters>>

(* One attempt of the client's POST: answered 201 with an id, ... *)
CreateDocument(p, d) ==
  /\ page[p] = "posting"
  /\ Insert(p, d)
  /\ Goto(p, "spinner")
  /\ doc' = [doc EXCEPT ![p] = d]
  /\ tries' = [tries EXCEPT ![p] = 0]
  /\ UNCHANGED <<answer, counters>>

(* ... executed but not heard of, ... *)
CreateUnheard(p, d) ==
  /\ page[p] = "posting"
  /\ Insert(p, d)
  /\ FailedAttempt(p, "refused")
  /\ UNCHANGED <<doc, answer, late>>

(* ... failed, for good or with the request still under way, ... *)
CreateFailed(p, underway) ==
  /\ page[p] = "posting"
  /\ FailedAttempt(p, "refused")
  /\ late' = [late EXCEPT ![p] = @ + (IF underway THEN 1 ELSE 0)]
  /\ UNCHANGED <<view, owner, doc, answer>>

(* ... answered 201 with a body that cannot be read, ... *)
CreateUnread(p, d) ==
  /\ page[p] = "posting"
  /\ Insert(p, d)
  /\ UnusableReply(p, "refused")
  /\ UNCHANGED <<doc, answer, late>>

(* ... or answered with another status below 500. *)
CreateRejected(p) ==
  /\ page[p] = "posting"
  /\ UnusableReply(p, "refused")
  /\ UNCHANGED <<view, owner, doc, answer, late>>

LateCreate(p, d) ==
  /\ late[p] > 0
  /\ Insert(p, d)
  /\ late' = [late EXCEPT ![p] = @ - 1]
  /\ UNCHANGED <<page, doc, tries, answer, faults, unusable>>

(* The fragment's one "load" trigger fires: GET /documents/{id}/status. *)
Poll(p) ==
  /\ page[p] = "spinner"
  /\ Goto(p, "asking")
  /\ UNCHANGED <<view, owner, doc, tries, answer, counters>>

(* One attempt of the client's GET. *)
GetDocument(p) ==
  /\ page[p] = "asking" /\ answer[p] = NoDoc
  /\ answer' = [answer EXCEPT ![p] = view[doc[p]]]
  /\ tries' = [tries EXCEPT ![p] = 0]
  /\ UNCHANGED <<view, owner, page, doc, counters>>

GetFailed(p) ==
  /\ page[p] = "asking" /\ answer[p] = NoDoc
  /\ FailedAttempt(p, "frozen")
  /\ UNCHANGED <<view, owner, doc, answer, late>>

GetUnusable(p) ==
  /\ page[p] = "asking" /\ answer[p] = NoDoc
  /\ UnusableReply(p, "frozen")
  /\ UNCHANGED <<view, owner, doc, answer, late>>

(* Mistakes: every answer that is not pending offers the download; every   *)
(* answer asks again.                                                      *)
RenderEager(s) == IF s = "pending" THEN "spinner" ELSE "download"
RenderSpinner(s) == "spinner"

(* What the status handler makes of an answer; only the pending fragment   *)
(* asks again, and a 404 is not swapped in.                                *)
Render(s) == CASE s = "pending"   -> "spinner"
               [] s = "completed" -> "download"
               [] s = "none"      -> "frozen"
               [] OTHER           -> "failed"

Status(p) ==
  /\ page[p] = "asking" /\ answer[p] # NoDoc
  /\ Goto(p, Render(answer[p]))
  /\ answer' = [answer EXCEPT ![p] = NoDoc]
  /\ UNCHANGED <<view, owner, doc, tries, counters>>

(* The rest of Seal works on the documents as the contract allows. *)
Backend(d) ==
  /\ Contract!Disappoint(d) \/ Contract!Complete(d)
  /\ UNCHANGED <<owner, pageVars>>

Posting(p) ==
  \/ \E d \in FreeIds : CreateDocument(p, d) \/ CreateUnheard(p, d) \/ CreateUnread(p, d)
  \/ \E underway \in BOOLEAN : CreateFailed(p, underway)
  \/ CreateRejected(p)

Asking(p) == GetDocument(p) \/ GetFailed(p) \/ GetUnusable(p) \/ Status(p)

Next ==
  \/ \E p \in Pages :
       \/ Submit(p) \/ Posting(p) \/ Poll(p) \/ Asking(p)
       \/ \E d \in FreeIds : LateCreate(p, d)
  \/ \E d \in Docs : Backend(d)

Spec == Init /\ [][Next]_vars

(* The browser fires its trigger and a status request is carried out;      *)
(* nobody has to submit a form and no document has to change.              *)
FairSpec ==
  /\ Spec
  /\ \A p \in Pages : WF_vars(Poll(p)) /\ WF_vars(Asking(p))

-----------------------------------------------------------------------------
(* The API's download and verify answers, and what the client and the      *)
(* handlers make of them.                                                  *)
GetDownloadURL(d) == IF view[d] = "completed" THEN "url" ELSE "error"
Download(p) == IF GetDownloadURL(doc[p]) = "url" THEN "see other" ELSE "conflict"

VerifyDocument(d) == [valid |-> view[d] = "completed"]
Verify(p) == IF VerifyDocument(doc[p]).valid THEN "valid" ELSE "error text"

-----------------------------------------------------------------------------
(* One submission creates at most MaxRetries documents, however its POSTs  *)
(* time out and are executed after all.                                    *)
RowsOf(p) == {d \in Docs : owner[d] = p}
FewRowsPerSubmission == \A p \in Pages : Cardinality(RowsOf(p)) + late[p] <= MaxRetries

(* A page that follows a document follows one its own submission created.  *)
PageShowsOwnRow ==
  \A p \in Pages :
    page[p] \in {"spinner", "asking", "download", "failed", "frozen"} =>
      doc[p] \in Docs /\ owner[doc[p]] = p

(* The download page's two links work: the answer that put them there may  *)
(* be old, but "completed" does not go away.                               *)
DownloadLinksWork ==
  \A p \in Pages :
    page[p] = "download" => Download(p) = "see other" /\ Verify(p) = "valid"

(* Fewer than MaxRetries failed attempts never reach the user: without a   *)
(* reply the client cannot use, which it does not ask for again, the page  *)
(* is neither refused nor frozen.                                          *)
RetriesMaskFaults ==
  \A p \in Pages :
    page[p] \in {"refused", "frozen"} => faults[p] >= MaxRetries \/ p \in unusable

(* A page whose document has settled stops spinning.  It shows the download*)
(* or a failure (which a retry may since have overtaken), or it is frozen. *)
SettledIsShown ==
  \A p \in Pages :
    page[p] \in {"spinner", "asking"} /\ view[doc[p]] = "completed"
      ~> page[p] \in {"download", "failed", "frozen"}

=============================================================================
