--------------------------- MODULE LibraryPreview ---------------------------
(***************************************************************************)
(* The one action the extension takes for the student: a reservation in    *)
(* the library's OPAC, and the opening of official pages                   *)
(* (apps/extension/src/background/service-worker.ts:                       *)
(* handleLibraryActionPreview, handleLibraryActionSubmit).                 *)
(*                                                                         *)
(* A preview reads the official page in a tab of its own and is kept in    *)
(* the service worker's memory.  The student confirms it with a request of *)
(* its own; the handler looks at the tab again, posts the form, and says   *)
(* verified only after it has seen the confirmation page and found the     *)
(* title among the student's reservations.  Each look at the tab is an     *)
(* await: the student and the site may change the page at any time, other  *)
(* requests for the same preview may arrive, and the worker may stop.      *)
(*                                                                         *)
(* A handler keeps the preview object it found although the map may lose   *)
(* it.  A page is its site and what it shows; a form is told apart by its  *)
(* fingerprint, which stands for its path, method and controls.  The       *)
(* preparation of a preview shares nothing before it ends and is one step. *)
(***************************************************************************)
EXTENDS Naturals, FiniteSets

CONSTANTS
    Previews,  \* preview ids
    Parts,     \* what a title is made of, punctuation and case set aside
    TitleOf,   \* expected_title: the title of the material a preview is of
    Handlers,  \* submit requests, each used once
    Prints,    \* fingerprints a form on the tab may have
    PreviewTTL,
    MaxTime    \* bound on the clock (model checking only)

\* A title contains another one that has some of its parts only.
Titles == SUBSET Parts \ {{}}

ASSUME PreviewTTLAssumption == PreviewTTL \in Nat /\ MaxTime \in Nat
ASSUME TitleAssumption == TitleOf \in [Previews -> Titles]

VARIABLES
    now,
    preview,  \* LibraryActionPreviewEntry objects
    kept,     \* keys of libraryActionPreviews
    tab,      \* the page in the preview's tab
    handler,  \* handleLibraryActionSubmit of each request
    posted,   \* history: how often the form of a preview was posted
    booked    \* the titles in the student's list of reservations, at the library

vars == <<now, preview, kept, tab, handler, posted, booked>>

\* The OPAC's origin, and the origin submitLibraryReservationFormInPage expects.
OpacOrigin == "library.shibaura-it.ac.jp"
SubmitOrigin == "library.shibaura-it.jp"

Page == [site : {OpacOrigin, SubmitOrigin}, shows : Prints \union {"login", "accepted", "other"}]
Gone == [site |-> "none", shows |-> "closed"]

Kinds == {"reserve", "view"}
NoPreview == [kind |-> "none", print |-> "none", created |-> 0, live |-> FALSE, state |-> "none"]
Doing(pc, p, saw) == [pc |-> pc, of |-> p, saw |-> saw, answer |-> "none"]
Answered(p, answer) == [pc |-> "answered", of |-> p, saw |-> Gone, answer |-> answer]
Idle == Doing("idle", "none", Gone)

Init ==
    /\ now = 0
    /\ preview = [p \in Previews |-> NoPreview]
    /\ kept = {}
    /\ tab = [p \in Previews |-> Gone]
    /\ handler = [h \in Handlers |-> Idle]
    /\ posted = [p \in Previews |-> 0]
    /\ booked \in SUBSET Titles

(***************************************************************************)
(* A preview is ready                                                      *)
(***************************************************************************)
\* handleLibraryActionPreview: the reference is live and names one public record.
Ready(p, kind, print) ==
    /\ preview[p] = NoPreview
    /\ preview' = [preview EXCEPT ![p] = [kind |-> kind, print |-> print, created |-> now,
                                          live |-> TRUE, state |-> "pending"]]
    /\ kept' = kept \union {p}
    /\ UNCHANGED <<now, handler, posted, booked>>

\* The form was reached in a tab of its own, which stays open.
PreviewReservation(p, page) ==
    /\ page.site = OpacOrigin /\ page.shows \in Prints
    /\ Ready(p, "reserve", page.shows)
    /\ tab' = [tab EXCEPT ![p] = page]

\* A shelf or a viewer: the page was read in a tab that is closed again.
PreviewVisit(p, print) ==
    /\ Ready(p, "view", print)
    /\ UNCHANGED tab

(***************************************************************************)
(* The student confirms it: handleLibraryActionSubmit                      *)
(***************************************************************************)
At(h, pc) == handler[h].pc = pc
Of(h) == handler[h].of
Overdue(p) == now > preview[p].created + PreviewTTL

Becomes(h, step) == handler' = [handler EXCEPT ![h] = step]
Goes(h, pc) == Becomes(h, Doing(pc, Of(h), handler[h].saw))
Answer(h, answer) == Becomes(h, Answered(Of(h), answer))
Mark(p, state) == preview' = [preview EXCEPT ![p].state = state]

\* A failure before the post leaves the preview to be confirmed again.
Refuse(h, answer) ==
    /\ Mark(Of(h), "pending")
    /\ Answer(h, answer)

\* What is refused at once; fits stands for the call id, inputs and label of the request.
Objection(p, fits) ==
    IF preview[p].state = "submitting" THEN "in_progress"
    ELSE IF preview[p].state = "consumed" THEN "already_consumed"
    ELSE IF ~preview[p].live THEN "ref_expired"
    ELSE IF ~fits THEN "mismatch" ELSE "none"

\* fault: the preview is not marked while it is worked on
SubmitUnmarked(h, p, fits) ==
    /\ At(h, "idle") /\ p \in kept /\ ~Overdue(p)
    /\ Becomes(h, IF Objection(p, fits) # "none" THEN Answered(p, Objection(p, fits))
                  ELSE Doing(IF preview[p].kind = "reserve" THEN "tab" ELSE "surface", p, Gone))
    /\ UNCHANGED <<now, preview, kept, tab, posted, booked>>
Submit(h, p, fits) ==
    /\ At(h, "idle") /\ p \in kept /\ ~Overdue(p)
    /\ IF Objection(p, fits) # "none"
       THEN Becomes(h, Answered(p, Objection(p, fits))) /\ UNCHANGED preview
       ELSE IF preview[p].kind = "reserve"
       THEN Becomes(h, Doing("tab", p, Gone)) /\ Mark(p, "submitting")
       ELSE Becomes(h, Doing("surface", p, Gone)) /\ UNCHANGED preview
    /\ UNCHANGED <<now, kept, tab, posted, booked>>

\* An overdue preview loses its tab, whoever works in it, and then its entry.
SubmitOverdue(h, p) ==
    /\ At(h, "idle") /\ p \in kept /\ Overdue(p)
    /\ tab' = [tab EXCEPT ![p] = Gone]
    /\ Becomes(h, Doing("expiring", p, Gone))
    /\ UNCHANGED <<now, preview, kept, posted, booked>>

Expire(h) ==
    /\ At(h, "expiring")
    /\ kept' = kept \ {Of(h)}
    /\ Answer(h, "expired")
    /\ UNCHANGED <<now, preview, tab, posted, booked>>

\* chrome.tabs.get: the tab is still there and at the previewed address.
CheckTab(h) ==
    /\ At(h, "tab")
    /\ IF tab[Of(h)] = Gone THEN Refuse(h, "tab_missing")
       ELSE IF tab[Of(h)].site # OpacOrigin THEN Refuse(h, "changed")
       ELSE Goes(h, "form") /\ UNCHANGED preview
    /\ UNCHANGED <<now, kept, tab, posted, booked>>

\* readLibraryReservationFormInPage: the form is the one of the preview.
SameForm(p, page) == page.site = OpacOrigin /\ page.shows = preview[p].print

CheckForm(h) ==
    LET page == tab[Of(h)]
    IN  /\ At(h, "form")
        /\ IF page = Gone THEN Refuse(h, "submit_failed")
           ELSE IF SameForm(Of(h), page)
           THEN Becomes(h, Doing("submit", Of(h), page)) /\ UNCHANGED preview
           ELSE Refuse(h, "changed")
        /\ UNCHANGED <<now, kept, tab, posted, booked>>

\* submitLibraryReservationFormInPage posts whatever form with the title is there.
\* The page goes on to what the library answers, and the library books it or not.
CanPost(page) == page.site = SubmitOrigin /\ page.shows \in Prints

Post(h) ==
    LET p == Of(h)
    IN  /\ At(h, "submit") /\ CanPost(tab[p])
        /\ posted' = [posted EXCEPT ![p] = @ + 1]
        /\ \E accepted \in BOOLEAN :
            /\ booked' = IF accepted THEN booked \union {TitleOf[p]} ELSE booked
            /\ tab' = [tab EXCEPT ![p].shows = IF accepted THEN "accepted" ELSE "other"]
        /\ Goes(h, "posted")
        /\ UNCHANGED <<now, preview, kept>>

PostRefused(h) ==
    /\ At(h, "submit") /\ ~CanPost(tab[Of(h)])
    /\ Refuse(h, "submit_failed")
    /\ UNCHANGED <<now, kept, tab, posted, booked>>

\* The script's result arrives, or is lost with the page that ran it.
\* fault: a lost result leaves the preview taken
PostReturnedStuck(h) ==
    /\ At(h, "posted")
    /\ \/ Goes(h, "confirm") /\ Mark(Of(h), "consumed")
       \/ Answer(h, "submit_failed") /\ UNCHANGED preview
    /\ UNCHANGED <<now, kept, tab, posted, booked>>
PostReturned(h) ==
    /\ At(h, "posted")
    /\ \/ Goes(h, "confirm") /\ Mark(Of(h), "consumed")
       \/ Refuse(h, "submit_failed")
    /\ UNCHANGED <<now, kept, tab, posted, booked>>

\* After the post: the tab is closed in the end, whatever the answer.
Finish(h, answer) ==
    /\ Answer(h, answer)
    /\ tab' = [tab EXCEPT ![Of(h)] = Gone]

\* readLibraryReservationConfirmationInPage looks for the title and words that a
\* form has as well; an accepted reservation has them for certain.
MaySayAccepted(page) == page.site = OpacOrigin /\ page.shows # "login"
SaysAccepted(page) == page.site = OpacOrigin /\ page.shows = "accepted"

\* The page is looked at until it says something or time is up.
Confirm(h) ==
    /\ At(h, "confirm")
    /\ \/ MaySayAccepted(tab[Of(h)]) /\ Goes(h, "readback") /\ UNCHANGED tab
       \/ ~SaysAccepted(tab[Of(h)]) /\ Finish(h, "unverified")
    /\ UNCHANGED <<now, preview, kept, posted, booked>>

\* readMyLibrarySection("reservations"), which may fail or leave out a row: one with the
\* preview's title will do, or with one that contains it or that it contains.
Alike(title, other) == title \subseteq other \/ other \subseteq title
Listed(list, p) == \E title \in list : Alike(title, TitleOf[p])

\* fault: the confirmation page is enough
ReadbackSkipped(h) ==
    /\ At(h, "readback")
    /\ Finish(h, "verified")
    /\ UNCHANGED <<now, preview, kept, posted, booked>>
Readback(h) ==
    /\ At(h, "readback")
    /\ \/ Listed(booked, Of(h)) /\ Finish(h, "verified")
       \/ Finish(h, "readback_failed")
    /\ UNCHANGED <<now, preview, kept, posted, booked>>

\* A page to look at: the official page is read again, and opened if it has not changed.
\* What readPublicLibraryActionSurface sees is told apart no further.
Surface(h) ==
    /\ At(h, "surface")
    /\ \/ Goes(h, "opening") /\ Mark(Of(h), "consumed")
       \/ Answer(h, "changed") /\ UNCHANGED preview
    /\ UNCHANGED <<now, kept, tab, posted, booked>>

Opened(h) ==
    /\ At(h, "opening")
    /\ \E answer \in {"verified", "tab_create_failed"} : Answer(h, answer)
    /\ UNCHANGED <<now, preview, kept, tab, posted, booked>>

HandlerStep(h) ==
    \/ Expire(h) \/ CheckTab(h) \/ CheckForm(h) \/ Post(h) \/ PostRefused(h)
    \/ PostReturned(h) \/ Confirm(h) \/ Readback(h) \/ Surface(h) \/ Opened(h)

(***************************************************************************)
(* Everything else                                                         *)
(***************************************************************************)

\* The student or the site changes the page; nobody posts the form by hand.
Navigate(p, page) ==
    /\ tab[p] # Gone
    /\ tab' = [tab EXCEPT ![p] = page]
    /\ UNCHANGED <<now, preview, kept, handler, posted, booked>>

\* isLiveLibraryActionRef turns false: the reference is older than its own TTL.
RefExpires(p) ==
    /\ preview[p].live
    /\ preview' = [preview EXCEPT ![p].live = FALSE]
    /\ UNCHANGED <<now, kept, tab, handler, posted, booked>>

\* The worker stops; a suspended one has closed the tabs of the previews it kept.
Restart(suspended) ==
    /\ kept' = {}
    /\ handler' = [h \in Handlers |->
                    IF handler[h].pc \in {"idle", "answered"} THEN handler[h]
                    ELSE Answered(Of(h), "none")]
    /\ tab' = IF suspended THEN [p \in Previews |-> IF p \in kept THEN Gone ELSE tab[p]] ELSE tab
    /\ UNCHANGED <<now, preview, posted, booked>>

Tick ==
    /\ now < MaxTime
    /\ now' = now + 1
    /\ UNCHANGED <<preview, kept, tab, handler, posted, booked>>

Next ==
    \/ \E p \in Previews, page \in Page : PreviewReservation(p, page)
    \/ \E p \in Previews, print \in Prints : PreviewVisit(p, print)
    \/ \E h \in Handlers, p \in Previews, fits \in BOOLEAN : Submit(h, p, fits)
    \/ \E h \in Handlers, p \in Previews : SubmitOverdue(h, p)
    \/ \E h \in Handlers : HandlerStep(h)
    \/ \E p \in Previews, page \in Page \union {Gone} : Navigate(p, page)
    \/ \E p \in Previews : RefExpires(p)
    \/ \E suspended \in BOOLEAN : Restart(suspended)
    \/ Tick

Spec == Init /\ [][Next]_vars

(***************************************************************************)
(* Properties                                                              *)
(***************************************************************************)

Steps == {"idle", "expiring", "tab", "form", "submit", "posted", "confirm", "readback",
          "surface", "opening", "answered"}
Answers == {"none", "in_progress", "already_consumed", "ref_expired", "mismatch", "expired",
            "tab_missing", "changed", "submit_failed", "unverified", "readback_failed",
            "verified", "tab_create_failed"}
Entry == [kind : Kinds \union {"none"}, print : Prints \union {"none"}, created : Nat,
          live : BOOLEAN, state : {"none", "pending", "submitting", "consumed"}]
Request == [pc : Steps, of : Previews \union {"none"}, saw : Page \union {Gone},
            answer : Answers]

\* Types of the variables; only a preview that was prepared is kept.
TypeOK ==
    /\ now \in Nat
    /\ preview \in [Previews -> Entry]
    /\ kept \subseteq {p \in Previews : preview[p].kind # "none"}
    /\ tab \in [Previews -> Page \union {Gone}]
    /\ handler \in [Handlers -> Request]
    /\ posted \in [Previews -> Nat]
    /\ booked \subseteq Titles

\* handlers that have the preview to themselves until its form is posted
Holders(p) == {h \in Handlers : Of(h) = p /\ handler[h].pc \in {"tab", "form", "submit", "posted"}}

\* While a preview is being submitted exactly one request is doing it, and as
\* soon as none is, however that one ended, the preview can be confirmed again
\* or is consumed (service-worker.ts:3771, and every way out of the try block).
SubmittingIsHeld ==
    \A p \in kept : /\ preview[p].state = "submitting" => Cardinality(Holders(p)) = 1
                    /\ Holders(p) # {} => preview[p].state = "submitting"

\* A consumed preview is never posted again, not even by a request that found
\* it before it was consumed, nor after its entry has expired (service-worker.ts:3845).
ConsumedIsFinal ==
    [][\A p \in Previews : preview[p].state = "consumed" => posted'[p] = posted[p]]_vars

\* The student is told that the reservation is verified only if its form was posted,
\* whoever posted it and whatever became of the other requests, and the library has a
\* reservation of a title that is the preview's, contains it or is contained in it
\* (service-worker.ts:3884, 3903-3910).
VerifiedMeansReserved ==
    \A h \in Handlers :
        handler[h].answer = "verified" /\ preview[Of(h)].kind = "reserve"
            => posted[Of(h)] > 0 /\ Listed(booked, Of(h))

(***************************************************************************)
(* What the documents say and the code does not do                         *)
(***************************************************************************)

\* After the preview the last button sends (ChatPanel.tsx:3171): on a page
\* that is as it was read just before, the post is not refused.
FinalButtonSends ==
    [][\A h \in Handlers :
        At(h, "submit") /\ tab[Of(h)] = handler[h].saw /\ HandlerStep(h)
            => posted'[Of(h)] > posted[Of(h)]]_vars

=============================================================================
