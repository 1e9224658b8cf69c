--------------------------------- MODULE Drafts ---------------------------------
(***************************************************************************)
(* A draft application, the browser pages that save it by themselves       *)
(* (useDraftAutosave) and the delegate who may edit it for the applicant.  *)
(*                                                                         *)
(* A page is one mounted instance of the hook: the wizard is mounted anew  *)
(* for every revision it loads, and an instance that is gone still ends    *)
(* the request it sent. A request can be lost (it stays on the wire), its  *)
(* answer too, and it can arrive after its page gave it up. Fields are the *)
(* form's, its declarations and its links; every save raises the version   *)
(* of the application with the revision, so one number is both.            *)
(***************************************************************************)
EXTENDS Functions, Naturals, Sequences

CONSTANTS
  Pages, Delegated,  \* hook instances, and those in the delegate's browser
  Fields, Values, Blank,
  MaxRevision,       \* bound: revisions of the draft
  MaxFailures,       \* bound: failed requests
  MaxEdits,          \* bound: edits
  Until              \* the instant the delegation ends

DraftsAssumption ==
  /\ Delegated \subseteq Pages /\ "none" \notin Pages /\ Blank \notin Values
  /\ MaxRevision \in Nat \ {0} /\ MaxFailures \in Nat /\ MaxEdits \in Nat /\ Until \in Nat

Patches == UNION {[K -> Values] : K \in SUBSET Fields}
Nothing == [k \in {} |-> Blank]
NoRequest == [page |-> "none", key |-> 0, base |-> 0, patch |-> Nothing]

VARIABLES
  draft,       \* the application: its status and its revisions, each with the request that saved it
  pages,       \* the hook instances
  wire,        \* save requests the server has not handled
  answers,     \* answers that wait for their page
  delegation,  \* the delegation for the draft's premises
  today

draftVars == <<draft, pages, wire, answers, delegation, today>>

Current == Len(draft.revisions)
Content == draft.revisions[Current].content

\* create_initial_revision prefills revision 1 from the premises.
Init ==
  /\ draft = [status |-> "DRAFT",
              revisions |-> <<[content |-> [k \in Fields |-> Blank], request |-> NoRequest]>>]
  /\ wire = {} /\ answers = {} /\ today = 0
  /\ pages = [p \in Pages |-> [state |-> "closed", pending |-> Nothing, flight |-> NoRequest, typed |-> Nothing,
                               local |-> Nothing, key |-> 0, latest |-> 0, failures |-> 0, refused |-> FALSE, edits |-> 0]]
  /\ delegation = "none"

-----------------------------------------------------------------------------
(* The delegation. ConfirmDelegation marks an ended proposal EXPIRED and   *)
(* then raises, which rolls the mark back.                                 *)

ProposeDelegation ==
  /\ delegation = "none"
  /\ delegation' = "PROPOSED"
  /\ UNCHANGED <<draft, pages, wire, answers, today>>

ConfirmDelegation ==
  /\ delegation = "PROPOSED" /\ today < Until
  /\ delegation' = "ACTIVE"
  /\ UNCHANGED <<draft, pages, wire, answers, today>>

RevokeDelegation ==
  /\ delegation \in {"PROPOSED", "ACTIVE"}
  /\ delegation' = "REVOKED"
  /\ UNCHANGED <<draft, pages, wire, answers, today>>

PassDay ==
  /\ today < Until
  /\ today' = today + 1
  /\ UNCHANGED <<draft, pages, wire, answers, delegation>>

CanEdit(p) == p \in Delegated => delegation = "ACTIVE" /\ today < Until

-----------------------------------------------------------------------------
(* The server. The kernel looks for a receipt first; then the application  *)
(* is locked, and both its version and the draft revision must match.      *)

Over(new, old) == [k \in DOMAIN new \cup DOMAIN old |-> IF k \in DOMAIN new THEN new[k] ELSE old[k]]

Receipts(r) == {n \in 1..Current : LET q == draft.revisions[n].request
                                   IN q.page = r.page /\ q.key = r.key}
\* A submission raises the version as well, and no page reads a submitted draft.
ConflictsWith(r) == draft.status # "DRAFT" \/ r.base # Current

\* An answer nobody waits for any more is dropped.
Answer(r, kind, n) ==
  answers' = IF pages[r.page].flight = r THEN answers \cup {[request |-> r, kind |-> kind, revision |-> n]}
             ELSE answers

SaveRevision(content, r) ==
  draft' = [draft EXCEPT !.revisions = Append(@, [content |-> content, request |-> r])]

PatchDraft(r) ==
  /\ r \in wire /\ wire' = wire \ {r}
  /\ \/ /\ \E n \in Receipts(r) :
             Answer(r, IF draft.revisions[n].request = r THEN "saved" ELSE "refused", n)
        /\ UNCHANGED draft
     \/ /\ Receipts(r) = {}
        /\ \/ /\ ~CanEdit(r.page)
              /\ Answer(r, "refused", Current) /\ UNCHANGED draft
           \/ /\ CanEdit(r.page) /\ ConflictsWith(r)
              /\ Answer(r, "conflict", Current) /\ UNCHANGED draft
           \/ /\ CanEdit(r.page) /\ ~ConflictsWith(r)
              /\ Current < MaxRevision
              /\ SaveRevision(Over(r.patch, Content), r) /\ Answer(r, "saved", Current + 1)
  /\ UNCHANGED <<pages, delegation, today>>

\* DetachDraftDocument: another command of the owner that writes a revision.
DetachDraftDocument(k) ==
  /\ draft.status = "DRAFT" /\ Content[k] # Blank /\ Current < MaxRevision
  /\ SaveRevision([Content EXCEPT ![k] = Blank], NoRequest)
  /\ UNCHANGED <<pages, wire, answers, delegation, today>>

-----------------------------------------------------------------------------
(* The page. Its requests carry the key of the attempt: a failed request   *)
(* keeps it, and is sent again at once with what was typed meanwhile.      *)

\* flush: the page as it is once it has taken and sent its pending edits.
Flushed(p, page) ==
  IF page.pending = Nothing \/ page.state = "blocked" THEN [page EXCEPT !.flight = NoRequest]
  ELSE [page EXCEPT !.pending = Nothing,
                    !.flight = [page |-> p, key |-> page.key, base |-> page.latest, patch |-> page.pending]]

Become(p, page) ==
  /\ pages' = [pages EXCEPT ![p] = page]
  /\ wire' = wire \cup ({page.flight} \ {NoRequest, pages[p].flight})

Idle(p) == pages[p].flight = NoRequest
Used(p) == pages[p].latest > 0

\* The wizard mounts the hook on the draft it has loaded.
OpenPage(p) ==
  /\ ~Used(p) /\ CanEdit(p) /\ draft.status = "DRAFT"
  /\ pages' = [pages EXCEPT ![p].state = "open", ![p].latest = Current]
  /\ UNCHANGED <<draft, wire, answers, delegation, today>>

\* schedule; the timer that calls flush is FlushPage, at any later time.
Edit(p, k, v) ==
  /\ pages[p].state = "open" /\ SumFunction([q \in Pages |-> pages[q].edits]) < MaxEdits
  /\ (k \in DOMAIN pages[p].typed => pages[p].typed[k] # v)
  /\ pages' = [pages EXCEPT ![p].pending = Over([x \in {k} |-> v], @), ![p].typed = Over([x \in {k} |-> v], @),
                            ![p].edits = @ + 1]
  /\ UNCHANGED <<draft, wire, answers, delegation, today>>

FlushPage(p) ==
  /\ pages[p].state = "open" /\ Idle(p) /\ pages[p].pending # Nothing
  /\ Become(p, Flushed(p, pages[p]))
  /\ UNCHANGED <<draft, answers, delegation, today>>

\* The unmount cleanup flushes unless a request is under way, which does it when it ends.
ClosePage(p) ==
  /\ pages[p].state \in {"open", "blocked"}
  /\ Become(p, IF Idle(p) THEN [Flushed(p, pages[p]) EXCEPT !.state = "closed"]
               ELSE [pages[p] EXCEPT !.state = "closed"])
  /\ UNCHANGED <<draft, answers, delegation, today>>

AwaitedAnswer(p, a) == a \in answers /\ a.request = pages[p].flight

Saved(p, a) ==
  /\ AwaitedAnswer(p, a) /\ a.kind = "saved"
  /\ answers' = answers \ {a}
  /\ Become(p, Flushed(p, [pages[p] EXCEPT !.key = @ + 1, !.latest = a.revision]))
  /\ UNCHANGED <<draft, delegation, today>>

\* A 412 drops what was typed during the flight; only the sent edits can be kept.
Conflicted(p, a) ==
  /\ AwaitedAnswer(p, a) /\ a.kind = "conflict"
  /\ answers' = answers \ {a}
  /\ pages' = [pages EXCEPT ![p].state = IF @ = "closed" THEN @ ELSE "blocked", ![p].flight = NoRequest,
                            ![p].pending = Nothing, ![p].local = pages[p].flight.patch,
                            ![p].refused = TRUE]
  /\ UNCHANGED <<draft, wire, delegation, today>>

\* Any other failure: mergePending puts the taken edits over newer ones, and
\* the finally block flushes at once.
Fails(p) ==
  /\ ~Idle(p) /\ SumFunction([q \in Pages |-> pages[q].failures]) < MaxFailures
  /\ LET page == [pages[p] EXCEPT !.failures = @ + 1, !.pending = Over(pages[p].flight.patch, @)]
     IN /\ pages' = [pages EXCEPT ![p] = Flushed(p, page)]
        /\ wire' = wire \cup {Flushed(p, page).flight}
  /\ answers' = {a \in answers : ~AwaitedAnswer(p, a)}
  /\ UNCHANGED <<draft, delegation, today>>

\* The conflict panel reloads the draft, which may be newer than the one it showed.
ResolveConflict(p, keep) ==
  /\ pages[p].state = "blocked" /\ draft.status = "DRAFT" /\ CanEdit(p)
  /\ LET page == [pages[p] EXCEPT !.state = "open", !.latest = Current, !.key = @ + 1, !.local = Nothing]
     IN Become(p, Flushed(p, IF keep = "mine" THEN [page EXCEPT !.pending = pages[p].local] ELSE page))
  /\ UNCHANGED <<draft, answers, delegation, today>>

\* SubmitApplication, of the draft revision the page shows and nothing typed since.
SubmitDraft(p) ==
  /\ pages[p].state = "open" /\ Idle(p) /\ pages[p].pending = Nothing
  /\ CanEdit(p) /\ draft.status = "DRAFT" /\ pages[p].latest = Current
  /\ draft' = [draft EXCEPT !.status = "SUBMITTED"]
  /\ UNCHANGED <<pages, wire, answers, delegation, today>>

Next ==
  \/ ProposeDelegation \/ ConfirmDelegation \/ RevokeDelegation \/ PassDay
  \/ \E r \in wire : PatchDraft(r)
  \/ \E k \in Fields : DetachDraftDocument(k)
  \/ \E p \in Pages : OpenPage(p) \/ FlushPage(p) \/ ClosePage(p) \/ Fails(p) \/ SubmitDraft(p)
  \/ \E p \in Pages, k \in Fields, v \in Values : Edit(p, k, v)
  \/ \E p \in Pages, a \in answers : Saved(p, a) \/ Conflicted(p, a)
  \/ \E p \in Pages, keep \in {"server", "mine"} : ResolveConflict(p, keep)

Spec == Init /\ [][Next]_draftVars

-----------------------------------------------------------------------------
TypeOK ==
  /\ draft.status \in {"DRAFT", "SUBMITTED"} /\ Current \in 1..MaxRevision
  /\ delegation \in {"none", "PROPOSED", "ACTIVE", "REVOKED"} \* never EXPIRED
  /\ \A p \in Pages : pages[p].pending \in Patches /\ pages[p].latest \in 0..MaxRevision

\* Whatever is lost, repeated or late between pages and server, a revision is
\* written once for an attempt, on the revision the page had, and changes only
\* the keys of its patch.
EachSaveOnce ==
  \A n \in 2..Current :
    LET r == draft.revisions[n].request
    IN r # NoRequest => /\ r.base = n - 1 /\ Receipts(r) = {n}
                        /\ draft.revisions[n].content = Over(r.patch, draft.revisions[n - 1].content)

\* A page whose requests all succeeded forgets nothing that was typed into it:
\* the last value of a key is pending, under way, or in a revision it saved,
\* even when the page is gone.
TypedIsKept ==
  \A p \in Pages : pages[p].failures = 0 /\ ~pages[p].refused =>
    \A k \in DOMAIN pages[p].typed :
      LET v == pages[p].typed[k]
          In(patch) == k \in DOMAIN patch /\ patch[k] = v
      IN \/ In(pages[p].pending)
         \/ ~Idle(p) /\ In(pages[p].flight.patch)
         \/ \E n \in 1..Current : draft.revisions[n].request.page = p /\ In(draft.revisions[n].request.patch)
=================================================================================
