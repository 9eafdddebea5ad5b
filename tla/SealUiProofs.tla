----------------------------- MODULE SealUiProofs -----------------------------
(***************************************************************************)
(* Theorems about the browser pages, for any number of documents and       *)
(* submissions, any MaxRetries and any number of failed attempts.          *)
(***************************************************************************)
EXTENDS SealUi, FiniteSetTheorems, TLAPS

Following == {"spinner", "asking", "download", "failed", "frozen"}

(* A row has an owner, and only a row.                                     *)
Rows == \A d \in Docs : view[d] = "none" <=> owner[d] = NoDoc

(* A page with a call to make has attempts left, all of them failed; what  *)
(* the client has in its hand was true and, if final, still is.            *)
PageInv(p) ==
  /\ page[p] \in Following => doc[p] \in Docs /\ owner[doc[p]] = p
  /\ page[p] \in {"posting", "spinner", "asking", "form"} => tries[p] < MaxRetries
  /\ page[p] \in {"refused", "frozen"} => faults[p] >= MaxRetries \/ p \in unusable
  /\ tries[p] <= faults[p]
  /\ answer[p] # "none"
  /\ answer[p] # NoDoc => page[p] = "asking"
  /\ answer[p] = "completed" => view[doc[p]] = "completed"
  /\ page[p] = "download" => view[doc[p]] = "completed"

Inv == TypeOK /\ Rows /\ \A p \in Pages : PageInv(p)

LEMMA InitInv == Init => Inv
  BY UiAssumption DEF Init, Contract!Init, Inv, TypeOK, Rows, PageInv, Following, Showing, Waiting

(* The rows may change: a new one comes, none goes, "completed" stays.     *)
RowsGrow ==
  /\ view' \in [Docs -> {"none", "pending", "failed", "completed"}]
  /\ owner' \in [Docs -> Pages \cup {NoDoc}]
  /\ Rows'
  /\ \A d \in Docs : (owner[d] # NoDoc => owner'[d] = owner[d])
                     /\ (view[d] = "completed" => view'[d] = "completed")

LEMMA InsertGrows ==
  ASSUME Inv, NEW p \in Pages, NEW d \in FreeIds, Insert(p, d)
  PROVE  RowsGrow /\ owner[d] = NoDoc /\ owner' = [owner EXCEPT ![d] = p]
<1>1. d \in Docs /\ view[d] = "none"
  BY DEF FreeIds
<1>2. view' = [view EXCEPT ![d] = "pending"] /\ owner' = [owner EXCEPT ![d] = p]
  BY DEF Insert, Contract!Accept, Contract!Move
<1> QED BY <1>1, <1>2, UiAssumption DEF Inv, TypeOK, Rows, RowsGrow

LEMMA BackendGrows ==
  ASSUME Inv, NEW d \in Docs, Backend(d)
  PROVE  RowsGrow
<1>1. owner' = owner /\ \E to \in {"failed", "completed"} : view' = [view EXCEPT ![d] = to]
      /\ (view[d] = "completed" => view'[d] = "completed") /\ view[d] # "none"
  BY UiAssumption DEF Inv, TypeOK, Backend, Contract!Disappoint, Contract!Complete, Contract!Move
<1> QED BY <1>1, UiAssumption DEF Inv, TypeOK, Rows, RowsGrow

(* A page that does nothing while rows come keeps its invariant. *)
LEMMA StillPage ==
  ASSUME Inv, NEW p \in Pages, RowsGrow \/ UNCHANGED <<view, owner>>,
         page'[p] = page[p], doc'[p] = doc[p], tries'[p] = tries[p], answer'[p] = answer[p],
         faults'[p] = faults[p], p \in unusable' <=> p \in unusable
  PROVE  PageInv(p)'
<1>1. PageInv(p) /\ (page[p] \in Following => owner[doc[p]] = p /\ p # NoDoc)
  BY UiAssumption DEF Inv, PageInv
<1>2. doc[p] \in Docs => (view[doc[p]] = "completed" => view'[doc[p]] = "completed")
  BY DEF RowsGrow
<1>3. page[p] \in Following => owner'[doc[p]] = p
  BY <1>1 DEF RowsGrow, PageInv
<1>4. page[p] \in {"download", "asking"} => page[p] \in Following
  BY DEF Following
<1>5. answer[p] = "completed" => answer[p] # NoDoc
  BY UiAssumption
<1> QED BY <1>1, <1>2, <1>3, <1>4, <1>5 DEF PageInv

(* A failed attempt: another one follows, or the call is given up.         *)
LEMMA FailedPage ==
  ASSUME Inv, NEW p \in Pages, NEW givenUp \in {"refused", "frozen"}, page[p] \in Waiting,
         page[p] = "asking" <=> givenUp = "frozen", answer[p] = NoDoc,
         FailedAttempt(p, givenUp), RowsGrow \/ UNCHANGED <<view, owner>>,
         doc' = doc, answer' = answer
  PROVE  /\ \A q \in Pages : PageInv(q)'
         /\ page' \in [Pages -> Showing \cup Waiting]
         /\ tries' \in [Pages -> 0 .. MaxRetries] /\ faults' \in [Pages -> Nat]
<1>1. /\ PageInv(p) /\ tries[p] \in Nat /\ tries[p] < MaxRetries /\ faults[p] \in Nat
      /\ tries \in [Pages -> 0 .. MaxRetries] /\ faults \in [Pages -> Nat]
      /\ page \in [Pages -> Showing \cup Waiting] /\ MaxRetries \in Nat
  BY UiAssumption DEF Inv, TypeOK, PageInv, Waiting
<1>2. /\ tries' = [tries EXCEPT ![p] = tries[p] + 1] /\ tries'[p] = tries[p] + 1
      /\ unusable' = unusable
      /\ faults' = [faults EXCEPT ![p] = faults[p] + 1] /\ faults'[p] = faults[p] + 1
      /\ page' = IF tries'[p] = MaxRetries THEN [page EXCEPT ![p] = givenUp] ELSE page
  BY <1>1 DEF FailedAttempt
<1>3. page'[p] = IF tries'[p] = MaxRetries THEN givenUp ELSE page[p]
  BY <1>1, <1>2
<1>4. page[p] = "asking" => doc[p] \in Docs /\ owner[doc[p]] = p /\ owner'[doc[p]] = p
  BY <1>1, UiAssumption DEF PageInv, Following, RowsGrow
<1>5. PageInv(p)'
  BY <1>1, <1>2, <1>3, <1>4, UiAssumption DEF PageInv, Following, Waiting
<1>6. ASSUME NEW q \in Pages, q # p PROVE PageInv(q)'
  BY <1>1, <1>2, <1>6, StillPage
<1>7. page' \in [Pages -> Showing \cup Waiting]
  BY <1>1, <1>2 DEF Showing
<1>8. tries' \in [Pages -> 0 .. MaxRetries] /\ faults' \in [Pages -> Nat]
  BY <1>1, <1>2
<1> QED BY <1>5, <1>6, <1>7, <1>8

(* A reply that cannot be used: the call is given up.                      *)
LEMMA UnusablePage ==
  ASSUME Inv, NEW p \in Pages, NEW givenUp \in {"refused", "frozen"}, page[p] \in Waiting,
         page[p] = "asking" <=> givenUp = "frozen", answer[p] = NoDoc,
         UnusableReply(p, givenUp), RowsGrow \/ UNCHANGED <<view, owner>>,
         doc' = doc, answer' = answer
  PROVE  /\ \A q \in Pages : PageInv(q)'
         /\ page' \in [Pages -> Showing \cup Waiting]
         /\ unusable' \subseteq Pages /\ UNCHANGED <<tries, faults>>
<1>1. /\ PageInv(p) /\ page \in [Pages -> Showing \cup Waiting] /\ unusable \subseteq Pages
  BY DEF Inv, TypeOK
<1>2. /\ page' = [page EXCEPT ![p] = givenUp] /\ page'[p] = givenUp
      /\ unusable' = unusable \cup {p} /\ UNCHANGED <<tries, faults>>
  BY <1>1 DEF UnusableReply, Goto
<1>3. page[p] = "asking" => doc[p] \in Docs /\ owner[doc[p]] = p /\ owner'[doc[p]] = p
  BY <1>1, UiAssumption DEF PageInv, Following, RowsGrow
<1>4. PageInv(p)'
  BY <1>1, <1>2, <1>3, UiAssumption DEF PageInv, Following
<1>5. ASSUME NEW q \in Pages, q # p PROVE PageInv(q)'
  BY <1>1, <1>2, <1>5, StillPage
<1>6. page' \in [Pages -> Showing \cup Waiting]
  BY <1>1, <1>2 DEF Showing
<1> QED BY <1>1, <1>2, <1>4, <1>5, <1>6

LEMMA PostingStep ==
  ASSUME Inv, NEW p \in Pages, Posting(p)
  PROVE  Inv'
<1>0. page[p] = "posting" /\ answer[p] = NoDoc
  BY DEF Posting, CreateDocument, CreateUnheard, CreateFailed, CreateUnread, CreateRejected,
         Inv, PageInv
<1>1. ASSUME NEW d \in FreeIds, CreateDocument(p, d) PROVE Inv'
  <2>1. RowsGrow /\ d \in Docs /\ owner' = [owner EXCEPT ![d] = p]
    BY <1>1, InsertGrows DEF CreateDocument, FreeIds
  <2>2. /\ page' = [page EXCEPT ![p] = "spinner"] /\ doc' = [doc EXCEPT ![p] = d]
        /\ tries' = [tries EXCEPT ![p] = 0] /\ UNCHANGED <<answer, counters>>
    BY <1>1 DEF CreateDocument, Goto
  <2>3. TypeOK'
    BY <2>1, <2>2, UiAssumption DEF Inv, TypeOK, RowsGrow, Showing, counters
  <2>4. ASSUME NEW q \in Pages PROVE PageInv(q)'
    <3>1. CASE q = p
      <4>1. page'[p] = "spinner" /\ doc'[p] = d /\ tries'[p] = 0 /\ owner'[d] = p
            /\ answer'[p] = NoDoc /\ faults'[p] \in Nat
        BY <1>0, <2>1, <2>2 DEF Inv, TypeOK, counters
      <4> QED BY <2>1, <3>1, <4>1, UiAssumption DEF PageInv
    <3>2. CASE q # p
      BY <2>1, <2>2, <3>2, StillPage DEF Inv, TypeOK, counters
    <3> QED BY <3>1, <3>2
  <2> QED BY <2>1, <2>3, <2>4 DEF Inv, RowsGrow
<1>2. ASSUME NEW d \in FreeIds, CreateUnheard(p, d) PROVE Inv'
  <2>1. RowsGrow
    BY <1>2, InsertGrows DEF CreateUnheard
  <2>2. FailedAttempt(p, "refused") /\ UNCHANGED <<doc, answer, late>>
    BY <1>2 DEF CreateUnheard
  <2>3. unusable' = unusable
    BY <2>2 DEF FailedAttempt
  <2> QED BY <1>0, <2>1, <2>2, <2>3, FailedPage DEF Inv, TypeOK, RowsGrow, Waiting
<1>3. ASSUME NEW underway \in BOOLEAN, CreateFailed(p, underway) PROVE Inv'
  <2>1. FailedAttempt(p, "refused") /\ UNCHANGED <<view, owner, doc, answer>>
    BY <1>3 DEF CreateFailed
  <2>2. late' \in [Pages -> Nat]
    BY <1>3 DEF CreateFailed, Inv, TypeOK
  <2>3. unusable' = unusable
    BY <2>1 DEF FailedAttempt
  <2> QED BY <1>0, <2>1, <2>2, <2>3, FailedPage DEF Inv, TypeOK, Rows, Waiting
<1>4. ASSUME NEW d \in FreeIds, CreateUnread(p, d) PROVE Inv'
  <2>1. RowsGrow
    BY <1>4, InsertGrows DEF CreateUnread
  <2>2. UnusableReply(p, "refused") /\ UNCHANGED <<doc, answer, late>>
    BY <1>4 DEF CreateUnread
  <2> QED BY <1>0, <2>1, <2>2, UnusablePage DEF Inv, TypeOK, RowsGrow, Waiting
<1>5. CASE CreateRejected(p)
  <2>1. UnusableReply(p, "refused") /\ UNCHANGED <<view, owner, doc, answer, late>>
    BY <1>5 DEF CreateRejected
  <2> QED BY <1>0, <2>1, UnusablePage DEF Inv, TypeOK, Rows, Waiting
<1> QED BY <1>1, <1>2, <1>3, <1>4, <1>5 DEF Posting

LEMMA AskingStep ==
  ASSUME Inv, NEW p \in Pages, Asking(p)
  PROVE  Inv'
<1>0. /\ page[p] = "asking" /\ PageInv(p) /\ doc[p] \in Docs /\ owner[doc[p]] = p /\ TypeOK
      /\ p # NoDoc /\ view[doc[p]] # "none"
  BY UiAssumption DEF Asking, GetDocument, GetFailed, GetUnusable, Status, Inv, PageInv, Following,
         Rows
<1>1. CASE GetDocument(p)
  <2>1. /\ answer' = [answer EXCEPT ![p] = view[doc[p]]] /\ tries' = [tries EXCEPT ![p] = 0]
        /\ UNCHANGED <<view, owner, page, doc, counters>>
    BY <1>1 DEF GetDocument
  <2>2. TypeOK'
    BY <1>0, <2>1, UiAssumption DEF TypeOK, counters
  <2>3. ASSUME NEW q \in Pages PROVE PageInv(q)'
    <3>1. CASE q = p
      <4>1. answer'[p] = view[doc[p]] /\ tries'[p] = 0 /\ faults'[p] \in Nat
        BY <1>0, <2>1 DEF TypeOK, counters
      <4> QED BY <1>0, <2>1, <3>1, <4>1, UiAssumption DEF PageInv, counters
    <3>2. CASE q # p
      BY <1>0, <2>1, <3>2, StillPage DEF TypeOK, counters
    <3> QED BY <3>1, <3>2
  <2> QED BY <2>1, <2>2, <2>3 DEF Inv, Rows
<1>2. CASE GetFailed(p)
  <2>1. FailedAttempt(p, "frozen") /\ UNCHANGED <<view, owner, doc, answer, late>> /\ answer[p] = NoDoc
    BY <1>2 DEF GetFailed
  <2>2. unusable' = unusable
    BY <2>1 DEF FailedAttempt
  <2> QED BY <1>0, <2>1, <2>2, FailedPage DEF Inv, TypeOK, Rows, Waiting
<1>3. CASE GetUnusable(p)
  <2>1. /\ UnusableReply(p, "frozen") /\ UNCHANGED <<view, owner, doc, answer, late>>
        /\ answer[p] = NoDoc
    BY <1>3 DEF GetUnusable
  <2> QED BY <1>0, <2>1, UnusablePage DEF Inv, TypeOK, Rows, Waiting
<1>4. CASE Status(p)
  <2>1. /\ answer[p] # NoDoc /\ page' = [page EXCEPT ![p] = Render(answer[p])]
        /\ answer' = [answer EXCEPT ![p] = NoDoc]
        /\ UNCHANGED <<view, owner, doc, tries, counters>>
    BY <1>4 DEF Status, Goto
  <2>2. answer[p] \in {"pending", "failed", "completed"}
    BY <1>0, <2>1 DEF TypeOK, PageInv
  <2>3. /\ Render(answer[p]) \in {"spinner", "failed", "download"}
        /\ Render(answer[p]) = "download" => answer[p] = "completed"
    BY <2>2 DEF Render
  <2>4. TypeOK'
    BY <1>0, <2>1, <2>3 DEF TypeOK, Showing, counters
  <2>5. ASSUME NEW q \in Pages PROVE PageInv(q)'
    <3>1. CASE q = p
      <4>1. answer'[p] = NoDoc /\ page'[p] = Render(answer[p])
        BY <1>0, <2>1 DEF TypeOK
      <4> QED BY <1>0, <2>1, <2>3, <3>1, <4>1, UiAssumption DEF PageInv, counters
    <3>2. CASE q # p
      BY <1>0, <2>1, <3>2, StillPage DEF TypeOK, counters
    <3> QED BY <3>1, <3>2
  <2> QED BY <2>1, <2>4, <2>5 DEF Inv, Rows
<1> QED BY <1>1, <1>2, <1>3, <1>4 DEF Asking

LEMMA InvStep == Inv /\ [Next]_vars => Inv'
<1> SUFFICES ASSUME Inv, [Next]_vars PROVE Inv'
  OBVIOUS
<1>1. ASSUME NEW p \in Pages, Submit(p) \/ Poll(p) PROVE Inv'
  <2>1. PICK s \in {"posting", "asking"} :
          /\ page' = [page EXCEPT ![p] = s]
          /\ s = "asking" <=> page[p] = "spinner"
          /\ page[p] \in {"form", "spinner"}
          /\ UNCHANGED <<view, owner, doc, tries, answer, counters>>
    BY <1>1 DEF Submit, Poll, Goto
  <2>2. TypeOK'
    BY <2>1 DEF Inv, TypeOK, Waiting, counters
  <2>3. ASSUME NEW q \in Pages PROVE PageInv(q)'
    <3>1. CASE q = p
      BY <2>1, <3>1 DEF Inv, TypeOK, PageInv, Following, counters
    <3>2. CASE q # p
      BY <2>1, <3>2, StillPage DEF Inv, TypeOK, counters
    <3> QED BY <3>1, <3>2
  <2> QED BY <2>1, <2>2, <2>3 DEF Inv, Rows
<1>2. ASSUME NEW p \in Pages, NEW d \in FreeIds, LateCreate(p, d) PROVE Inv'
  <2>1. RowsGrow
    BY <1>2, InsertGrows DEF LateCreate
  <2>2. late' \in [Pages -> Nat] /\ UNCHANGED <<page, doc, tries, answer, faults, unusable>>
    BY <1>2 DEF LateCreate, Inv, TypeOK
  <2> QED BY <2>1, <2>2, StillPage DEF Inv, TypeOK, RowsGrow
<1>3. ASSUME NEW d \in Docs, Backend(d) PROVE Inv'
  <2>1. RowsGrow
    BY <1>3, BackendGrows
  <2>2. UNCHANGED pageVars
    BY <1>3 DEF Backend
  <2> QED BY <2>1, <2>2, StillPage DEF Inv, TypeOK, RowsGrow, pageVars, counters
<1>4. CASE UNCHANGED vars
  BY <1>4, StillPage DEF Inv, TypeOK, Rows, vars, pageVars, counters
<1> QED BY <1>1, <1>2, <1>3, <1>4, PostingStep, AskingStep DEF Next

LEMMA Invariance == Spec => []Inv
  BY InitInv, InvStep, PTL DEF Spec

THEOREM UiTypeCorrect == Spec => []TypeOK
<1>1. Inv => TypeOK
  BY DEF Inv
<1> QED BY <1>1, Invariance, PTL

(* A page follows only a document of its own submission: no late or        *)
(* repeated POST of another page gets in between.                          *)
THEOREM PagesShowTheirOwn == Spec => []PageShowsOwnRow
<1>1. Inv => PageShowsOwnRow
  BY DEF Inv, PageInv, PageShowsOwnRow, Following
<1> QED BY <1>1, Invariance, PTL

(* The links of a download page work.                                      *)
THEOREM LinksWork == Spec => []DownloadLinksWork
<1>1. Inv => DownloadLinksWork
  BY DEF Inv, PageInv, DownloadLinksWork, Download, GetDownloadURL, Verify, VerifyDocument
<1> QED BY <1>1, Invariance, PTL

(* Fewer than MaxRetries failed attempts never reach the user: only a reply *)
(* that cannot be used refuses or freezes a page any sooner.               *)
THEOREM FaultsMasked == Spec => []RetriesMaskFaults
<1>1. Inv => RetriesMaskFaults
  BY DEF Inv, PageInv, RetriesMaskFaults
<1> QED BY <1>1, Invariance, PTL

-----------------------------------------------------------------------------
(* Every document of a submission, and every POST that may still create    *)
(* one, stands for an attempt of its own.                                  *)
Spent(p) == Cardinality(RowsOf(p)) + late[p]
Few(p) ==
  /\ page[p] = "form" => Spent(p) = 0
  /\ page[p] = "posting" => Spent(p) <= tries[p]
  /\ Spent(p) <= MaxRetries
FewInv == Inv /\ \A p \in Pages : Few(p)

LEMMA RowsOfType ==
  ASSUME NEW p \in Pages
  PROVE  IsFiniteSet(RowsOf(p)) /\ Cardinality(RowsOf(p)) \in Nat
<1>1. RowsOf(p) \subseteq Docs
  BY DEF RowsOf
<1> QED BY <1>1, UiAssumption, FS_Subset, FS_CardinalityType

LEMMA InsertRows ==
  ASSUME Inv, NEW p \in Pages, NEW d \in FreeIds, Insert(p, d)
  PROVE  /\ Cardinality(RowsOf(p)') = Cardinality(RowsOf(p)) + 1
         /\ \A q \in Pages \ {p} : RowsOf(q)' = RowsOf(q)
<1>1. owner[d] = NoDoc /\ owner' = [owner EXCEPT ![d] = p] /\ d \in Docs
  BY InsertGrows DEF FreeIds
<1>2. owner \in [Docs -> Pages \cup {NoDoc}]
  BY DEF Inv, TypeOK
<1>3. RowsOf(p)' = RowsOf(p) \cup {d} /\ d \notin RowsOf(p)
  BY <1>1, <1>2, UiAssumption DEF RowsOf
<1>4. \A q \in Pages \ {p} : RowsOf(q)' = RowsOf(q)
  BY <1>1, <1>2, UiAssumption DEF RowsOf
<1> QED BY <1>3, <1>4, RowsOfType, FS_AddElement

LEMMA StillFew ==
  ASSUME FewInv, NEW p \in Pages, late'[p] = late[p], RowsOf(p)' = RowsOf(p),
         \/ page'[p] = page[p] /\ tries'[p] = tries[p]
         \/ page'[p] \notin {"form", "posting"}
         \/ page[p] = "form" /\ page'[p] = "posting" /\ tries'[p] = tries[p]
  PROVE  Few(p)'
<1>1. Few(p) /\ late[p] \in Nat /\ tries[p] \in Nat /\ Spent(p) \in Nat /\ Spent(p)' = Spent(p)
  BY RowsOfType DEF FewInv, Inv, TypeOK, Spent
<1> QED BY <1>1, UiAssumption DEF Few

LEMMA FewStep == FewInv /\ [Next]_vars => FewInv'
<1> SUFFICES ASSUME FewInv, [Next]_vars, NEW q \in Pages PROVE Few(q)'
  BY InvStep DEF FewInv
<1>0. /\ Inv /\ Few(q) /\ late \in [Pages -> Nat] /\ tries \in [Pages -> 0 .. MaxRetries]
      /\ page \in [Pages -> Showing \cup Waiting] /\ MaxRetries \in Nat
      /\ Cardinality(RowsOf(q)) \in Nat
  BY RowsOfType, UiAssumption DEF FewInv, Inv, TypeOK
<1>1. PICK c \in Nat : c = Cardinality(RowsOf(q))
  BY <1>0
<1>2. Spent(q) = c + late[q] /\ late[q] \in Nat /\ tries[q] \in 0 .. MaxRetries
  BY <1>0, <1>1 DEF Spent
<1>3. ASSUME NEW p \in Pages, p # q, page'[q] = page[q], tries'[q] = tries[q], late'[q] = late[q],
             owner' = owner \/ \E d \in FreeIds : Insert(p, d)
      PROVE  Few(q)'
  <2>1. RowsOf(q)' = RowsOf(q)
    BY <1>0, <1>3, InsertRows DEF RowsOf
  <2> QED BY <1>3, <2>1, StillFew
<1>4. ASSUME owner' = owner PROVE RowsOf(q)' = RowsOf(q)
  BY <1>4 DEF RowsOf
<1>5. ASSUME NEW d \in FreeIds, Insert(q, d)
      PROVE  Spent(q)' = c + 1 + late'[q]
  BY <1>0, <1>1, <1>5, InsertRows DEF Spent
<1>6. ASSUME NEW p \in Pages, NEW d \in FreeIds, CreateDocument(p, d) PROVE Few(q)'
  <2>1. /\ page[p] = "posting" /\ Insert(p, d) /\ late' = late
        /\ page' = [page EXCEPT ![p] = "spinner"] /\ tries' = [tries EXCEPT ![p] = 0]
    BY <1>6 DEF CreateDocument, Goto, counters
  <2>2. CASE p = q
    <3>1. tries[q] < MaxRetries /\ c + late[q] <= tries[q]
      BY <1>0, <1>2, <2>1, <2>2 DEF Few, Inv, PageInv
    <3>2. Spent(q)' = c + 1 + late[q] /\ page'[q] = "spinner"
      BY <1>0, <1>5, <2>1, <2>2
    <3> QED BY <1>0, <1>2, <3>1, <3>2 DEF Few
  <2> QED BY <1>0, <1>3, <2>1, <2>2
<1>7. ASSUME NEW p \in Pages, NEW g \in {"refused", "frozen"}, FailedAttempt(p, g),
             page[p] \in Waiting
      PROVE  /\ p # q => page'[q] = page[q] /\ tries'[q] = tries[q]
             /\ p = q => tries'[q] = tries[q] + 1 /\ tries'[q] <= MaxRetries
                         /\ (page'[q] = page[q] \/ page'[q] = g)
  <2>1. tries[p] < MaxRetries /\ tries[p] \in Nat
    BY <1>0, <1>7 DEF Inv, PageInv, Waiting
  <2> QED BY <1>0, <1>7, <2>1 DEF FailedAttempt
<1>8. ASSUME NEW p \in Pages, NEW d \in FreeIds, CreateUnheard(p, d) PROVE Few(q)'
  <2>1. /\ page[p] = "posting" /\ Insert(p, d) /\ late' = late /\ FailedAttempt(p, "refused")
        /\ page[p] \in Waiting
    BY <1>8 DEF CreateUnheard, Waiting
  <2>2. CASE p = q
    <3>1. /\ tries'[q] = tries[q] + 1 /\ tries'[q] <= MaxRetries
          /\ page'[q] = "posting" \/ page'[q] = "refused"
      BY <1>7, <2>1, <2>2
    <3>2. c + late[q] <= tries[q] /\ Spent(q)' = c + 1 + late[q]
      BY <1>0, <1>2, <1>5, <2>1, <2>2 DEF Few
    <3> QED BY <1>0, <1>2, <3>1, <3>2 DEF Few
  <2>3. CASE p # q
    BY <1>3, <1>7, <2>1, <2>3
  <2> QED BY <2>2, <2>3
<1>9. ASSUME NEW p \in Pages, NEW underway \in BOOLEAN, CreateFailed(p, underway) PROVE Few(q)'
  <2>1. /\ page[p] = "posting" /\ owner' = owner /\ FailedAttempt(p, "refused")
        /\ late' = [late EXCEPT ![p] = @ + (IF underway THEN 1 ELSE 0)]
        /\ page[p] \in Waiting
    BY <1>9 DEF CreateFailed, Waiting
  <2>2. CASE p = q
    <3>1. /\ tries'[q] = tries[q] + 1 /\ tries'[q] <= MaxRetries
          /\ page'[q] = "posting" \/ page'[q] = "refused"
      BY <1>7, <2>1, <2>2
    <3>2. Spent(q)' = c + late'[q] /\ (late'[q] = late[q] \/ late'[q] = late[q] + 1)
      BY <1>0, <1>1, <1>4, <2>1, <2>2 DEF Spent
    <3>3. c + late[q] <= tries[q]
      BY <1>0, <1>2, <2>1, <2>2 DEF Few
    <3> QED BY <1>0, <1>2, <3>1, <3>2, <3>3 DEF Few
  <2>3. CASE p # q
    BY <1>0, <1>3, <1>7, <2>1, <2>3
  <2> QED BY <2>2, <2>3
<1>10. ASSUME NEW p \in Pages, NEW d \in FreeIds, LateCreate(p, d) PROVE Few(q)'
  <2>1. /\ late[p] > 0 /\ Insert(p, d) /\ late' = [late EXCEPT ![p] = @ - 1]
        /\ UNCHANGED <<page, tries>>
    BY <1>10 DEF LateCreate
  <2>2. CASE p = q
    <3>1. Spent(q)' = Spent(q)
      BY <1>0, <1>2, <1>5, <2>1, <2>2
    <3> QED BY <1>0, <2>1, <3>1 DEF Few
  <2>3. CASE p # q
    BY <1>0, <1>3, <2>1, <2>3
  <2> QED BY <2>2, <2>3
<1>11. ASSUME NEW p \in Pages, Submit(p) \/ Poll(p) PROVE Few(q)'
  <2>1. /\ owner' = owner /\ late' = late /\ tries' = tries
        /\ \/ page[p] = "form" /\ page' = [page EXCEPT ![p] = "posting"]
           \/ page' = [page EXCEPT ![p] = "asking"]
    BY <1>11 DEF Submit, Poll, Goto, counters
  <2> QED BY <1>0, <1>4, <2>1, StillFew
<1>12. ASSUME NEW p \in Pages, Asking(p) PROVE Few(q)'
  <2>1. page[p] = "asking" /\ owner' = owner /\ late' = late
    BY <1>12 DEF Asking, GetDocument, GetFailed, GetUnusable, Status, counters
  <2>2. CASE p # q
    <3>1. page'[q] = page[q] /\ tries'[q] = tries[q]
      BY <1>0, <1>12, <2>2 DEF Asking, GetDocument, GetFailed, GetUnusable, Status, Goto,
         FailedAttempt, UnusableReply
    <3> QED BY <1>4, <2>1, <3>1, StillFew
  <2>3. CASE p = q
    <3>1. page'[q] \notin {"form", "posting"}
      BY <1>0, <1>12, <2>1, <2>3 DEF Asking, GetDocument, GetFailed, GetUnusable, Status, Goto,
         FailedAttempt, UnusableReply, Render
    <3> QED BY <1>4, <2>1, <3>1, StillFew
  <2> QED BY <2>2, <2>3
<1>13. ASSUME NEW p \in Pages, NEW d \in FreeIds, CreateUnread(p, d) PROVE Few(q)'
  <2>1. /\ page[p] = "posting" /\ Insert(p, d) /\ UNCHANGED <<late, tries>>
        /\ page' = [page EXCEPT ![p] = "refused"]
    BY <1>13 DEF CreateUnread, UnusableReply, Goto
  <2>2. CASE p = q
    <3>1. tries[q] < MaxRetries /\ c + late[q] <= tries[q]
      BY <1>0, <1>2, <2>1, <2>2 DEF Few, Inv, PageInv
    <3>2. Spent(q)' = c + 1 + late[q] /\ page'[q] = "refused"
      BY <1>0, <1>5, <2>1, <2>2
    <3> QED BY <1>0, <1>2, <3>1, <3>2 DEF Few
  <2>3. CASE p # q
    BY <1>0, <1>3, <2>1, <2>3
  <2> QED BY <2>2, <2>3
<1>14. ASSUME NEW p \in Pages, CreateRejected(p) PROVE Few(q)'
  <2>1. UNCHANGED <<owner, late, tries>> /\ page' = [page EXCEPT ![p] = "refused"]
    BY <1>14 DEF CreateRejected, UnusableReply, Goto
  <2> QED BY <1>0, <1>4, <2>1, StillFew
<1>15. CASE (\E d \in Docs : Backend(d)) \/ UNCHANGED vars
  <2>1. UNCHANGED <<owner, page, tries, late>>
    BY <1>15 DEF Backend, vars, pageVars, counters
  <2> QED BY <1>4, <2>1, StillFew
<1> QED BY <1>6, <1>8, <1>9, <1>10, <1>11, <1>12, <1>13, <1>14, <1>15 DEF Next, Posting

LEMMA FewInit == Init => FewInv
<1> SUFFICES ASSUME Init, NEW p \in Pages PROVE Few(p)
  BY InitInv DEF FewInv
<1>1. RowsOf(p) = {}
  BY UiAssumption DEF Init, RowsOf
<1>2. Cardinality(RowsOf(p)) = 0
  BY <1>1, FS_EmptySet
<1> QED BY <1>2, UiAssumption DEF Init, Few, Spent

(* However its POSTs time out and are carried out after all, a submission  *)
(* creates at most MaxRetries documents.                                   *)
THEOREM SubmissionsAreBounded == Spec => []FewRowsPerSubmission
<1>1. FewInv => FewRowsPerSubmission
  BY DEF FewInv, Few, Spent, FewRowsPerSubmission
<1> QED BY <1>1, FewInit, FewStep, PTL DEF Spec

=============================================================================
