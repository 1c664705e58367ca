------------------------ MODULE OfficialSites_proofs ------------------------
(***************************************************************************)
(* What the runs on MCOfficialSites check, for every value of the          *)
(* constants: the components beside each other there share no variable.    *)
(*                                                                         *)
(* LibraryPreview                                                          *)
(*                                                                         *)
(* PreviewInv is inductive.  SubmittingIsHeld alone is not: it speaks of   *)
(* the previews that are kept, but a request goes on with a preview whose  *)
(* entry has expired, and may still post it.  Exclusive says the same of   *)
(* every preview object; Progress ties what a request has done so far to   *)
(* the step it is at.                                                      *)
(*                                                                         *)
(* OpacGateway                                                             *)
(*                                                                         *)
(* That pages start an interval apart is not inductive: a call that sleeps *)
(* computed its time before, and another one that started a page meanwhile *)
(* would make it too early.  None can, since the call that sleeps has the  *)
(* lock.  TurnInv therefore has the lock in it: the calls under way are    *)
(* those in the queue, each once, and one that is past "queued" is its     *)
(* head.                                                                   *)
(*                                                                         *)
(* That a search does not ask for what the cache has (AskedOnce) rests on  *)
(* the same: an entry for the key of the holder could only be put there by *)
(* another holder, and looking into the cache, by whoever comes or goes,   *)
(* brings nothing into it (GotWasThere).                                   *)
(*                                                                         *)
(* OfficialReads                                                           *)
(*                                                                         *)
(* An answer is taken from a tab that was found ready earlier, and the     *)
(* page there may change in between.  OnItsWay says why it does not: once  *)
(* a page other than the entry page is complete in the tab of a read, no   *)
(* navigation is outstanding there.                                        *)
(*                                                                         *)
(* ScombzReads                                                             *)
(*                                                                         *)
(* OnePage counts what was read; SamePage says of which generation: of the *)
(* pinned one, and of the one a call that is under way found pinned, also  *)
(* after the pin is lost.                                                  *)
(***************************************************************************)
EXTENDS MCOfficialSites, FiniteSetTheorems, SequenceTheorems, TLAPS

(***************************************************************************)
(* LibraryPreview                                                          *)
(***************************************************************************)

\* A preview has one holder, marked it, and is there to be reserved.
Exclusive ==
    \A h \in Handlers :
        handler[h].pc \in {"tab", "form", "submit", "posted"} =>
            /\ Of(h) \in Previews
            /\ preview[Of(h)].state = "submitting"
            /\ preview[Of(h)].kind = "reserve"
            /\ \A g \in Handlers : g \in Holders(Of(h)) => g = h

\* A kept preview that is marked has a holder.
Marked == \A p \in kept : preview[p].state = "submitting" => Holders(p) # {}

\* What a request has done by the time it is at a step.
Progress ==
    \A h \in Handlers :
        /\ handler[h].pc = "idle" => handler[h].answer = "none"
        /\ handler[h].pc # "idle" => Of(h) \in Previews /\ preview[Of(h)].kind # "none"
        /\ handler[h].pc \in {"surface", "opening"} => preview[Of(h)].kind = "view"
        /\ handler[h].pc \in {"posted", "confirm", "readback"} =>
                preview[Of(h)].kind = "reserve" /\ posted[Of(h)] > 0

PreviewInv == TypeOK /\ Exclusive /\ Marked /\ Progress /\ VerifiedMeansReserved

LEMMA InitInv == Init => PreviewInv
BY PreviewTTLAssumption
   DEF Init, PreviewInv, TypeOK, Exclusive, Marked, Progress, VerifiedMeansReserved, Holders, Of,
       NoPreview, Idle, Doing, Gone, Page, Entry, Request, Steps, Answers, Kinds

Reserving == {"tab", "form", "submit", "posted"}

\* What all steps of requests have in common: entries only go, posts and
\* reservations only come, and no preview changes its kind.
Onward ==
    /\ now' = now /\ kept' \subseteq kept
    /\ tab' \in [Previews -> Page \union {Gone}]
    /\ posted' \in [Previews -> Nat] /\ \A p \in Previews : posted'[p] >= posted[p]
    /\ booked \subseteq booked' /\ booked' \subseteq Titles
    /\ preview' \in [Previews -> Entry]
    /\ \A p \in Previews : preview'[p].kind = preview[p].kind

\* The request whose new record is step has done what Progress asks of it.
Earned(step) ==
    /\ step \in Request /\ step.pc # "idle" /\ step.of \in Previews
    /\ preview[step.of].kind # "none"
    /\ step.pc \in {"surface", "opening"} => preview[step.of].kind = "view"
    /\ step.pc \in {"posted", "confirm", "readback"} =>
            preview[step.of].kind = "reserve" /\ posted'[step.of] > 0
    /\ step.answer = "verified" /\ preview[step.of].kind = "reserve" =>
            posted'[step.of] > 0 /\ Listed(booked', step.of)

LEMMA Moves ==
    ASSUME TypeOK, NEW h \in Handlers, NEW step \in Request, Becomes(h, step)
    PROVE  /\ handler' \in [Handlers -> Request]
           /\ handler'[h] = step
           /\ \A g \in Handlers : g # h => handler'[g] = handler[g]
BY DEF TypeOK, Becomes

LEMMA ProgressStep ==
    ASSUME PreviewInv, Onward, NEW h \in Handlers, NEW step, Earned(step), Becomes(h, step)
    PROVE  TypeOK' /\ Progress' /\ VerifiedMeansReserved'
<1>1. step \in Request
  BY DEF Earned
<1>2. /\ handler' \in [Handlers -> Request]
      /\ handler'[h] = step
      /\ \A g \in Handlers : g # h => handler'[g] = handler[g]
  BY <1>1, Moves DEF PreviewInv
<1>3. TypeOK'
  BY <1>2 DEF PreviewInv, TypeOK, Onward
<1>4. Progress'
  BY <1>2 DEF PreviewInv, TypeOK, Progress, Onward, Earned, Of
<1>5. VerifiedMeansReserved'
  <2> SUFFICES ASSUME NEW g \in Handlers,
                      handler'[g].answer = "verified", preview'[handler'[g].of].kind = "reserve"
               PROVE  posted'[handler'[g].of] > 0 /\ Listed(booked', handler'[g].of)
    BY DEF VerifiedMeansReserved, Of
  <2>1. CASE g = h
    BY <1>2, <2>1 DEF Earned, Onward
  <2>2. CASE g # h
    <3>1. handler[g].of \in Previews /\ handler[g].answer = "verified"
          /\ preview[handler[g].of].kind = "reserve"
      BY <1>2, <2>2 DEF PreviewInv, TypeOK, Progress, Onward, Of
    <3>2. posted[handler[g].of] > 0 /\ Listed(booked, handler[g].of)
      BY <3>1 DEF PreviewInv, VerifiedMeansReserved, Of
    <3>3. Listed(booked', handler[g].of)
      BY <3>2 DEF Listed, Onward
    <3> QED
      BY <1>2, <2>2, <3>1, <3>2, <3>3 DEF PreviewInv, TypeOK, Onward
  <2> QED BY <2>1, <2>2
<1> QED BY <1>3, <1>4, <1>5

\* A request gives its preview back, or consumes it.
LEMMA Releases ==
    ASSUME PreviewInv, Onward, NEW h \in Handlers, handler[h].pc \in Reserving,
           NEW step, Earned(step), Becomes(h, step), step.pc \notin Reserving,
           NEW state \in {"pending", "consumed"}, Mark(Of(h), state)
    PROVE  PreviewInv'
<1>1. TypeOK' /\ Progress' /\ VerifiedMeansReserved'
  BY ProgressStep
<1>2. /\ handler'[h] = step
      /\ \A g \in Handlers : g # h => handler'[g] = handler[g]
  BY Moves DEF PreviewInv, Earned
<1>3. /\ Of(h) \in Previews /\ preview'[Of(h)].state = state
      /\ \A p \in Previews : p # Of(h) => preview'[p] = preview[p]
  BY DEF PreviewInv, TypeOK, Exclusive, Reserving, Mark, Entry
<1>4. \A g \in Handlers : g # h /\ handler[g].pc \in Reserving => Of(g) # Of(h)
  BY DEF PreviewInv, Exclusive, Reserving, Holders
<1>5. Exclusive'
  BY <1>1, <1>2, <1>3, <1>4 DEF PreviewInv, TypeOK, Exclusive, Reserving, Holders, Of, Onward
<1>6. Marked'
  <2> SUFFICES ASSUME NEW p \in kept', preview'[p].state = "submitting" PROVE Holders(p)' # {}
    BY DEF Marked
  <2>1. p \in kept /\ p # Of(h) /\ preview[p].state = "submitting"
    BY <1>3 DEF Onward, PreviewInv, TypeOK
  <2>2. PICK g \in Handlers : g \in Holders(p)
    BY <2>1 DEF PreviewInv, Marked, Holders
  <2>3. g # h
    BY <2>1, <2>2 DEF Holders
  <2> QED BY <1>2, <2>2, <2>3 DEF Holders, Of
<1> QED BY <1>1, <1>5, <1>6 DEF PreviewInv

\* A request goes on with the preview it holds.
LEMMA Advances ==
    ASSUME PreviewInv, Onward, NEW h \in Handlers, handler[h].pc \in Reserving,
           NEW step, Earned(step), Becomes(h, step), step.pc \in Reserving, step.of = Of(h),
           preview' = preview
    PROVE  PreviewInv'
<1>1. TypeOK' /\ Progress' /\ VerifiedMeansReserved'
  BY ProgressStep
<1>2. /\ handler'[h] = step
      /\ \A g \in Handlers : g # h => handler'[g] = handler[g]
  BY Moves DEF PreviewInv, Earned
<1>3. \A p : Holders(p)' = Holders(p)
  BY <1>2 DEF Holders, Of, Reserving
<1>4. Exclusive'
  BY <1>2, <1>3 DEF PreviewInv, Exclusive, Reserving, Of
<1>5. Marked'
  BY <1>3 DEF PreviewInv, Marked, Onward
<1> QED BY <1>1, <1>4, <1>5 DEF PreviewInv

\* A request that holds nothing goes on; if it marks a preview, one to look at.
LEMMA Bystands ==
    ASSUME PreviewInv, Onward, NEW h \in Handlers, handler[h].pc \notin Reserving,
           NEW step, Earned(step), Becomes(h, step), step.pc \notin Reserving,
           \A p \in Previews : \/ preview'[p].state = preview[p].state
                               \/ preview[p].kind = "view" /\ preview'[p].state = "consumed"
    PROVE  PreviewInv'
<1>1. TypeOK' /\ Progress' /\ VerifiedMeansReserved'
  BY ProgressStep
<1>2. /\ handler'[h] = step
      /\ \A g \in Handlers : g # h => handler'[g] = handler[g]
  BY Moves DEF PreviewInv, Earned
<1>3. \A p : Holders(p)' = Holders(p)
  BY <1>2 DEF Holders, Of, Reserving
<1>4. Exclusive'
  <2> SUFFICES ASSUME NEW g \in Handlers, handler'[g].pc \in Reserving
               PROVE  (/\ Of(g) \in Previews
                       /\ preview[Of(g)].state = "submitting"
                       /\ preview[Of(g)].kind = "reserve"
                       /\ \A k \in Handlers : k \in Holders(Of(g)) => k = g)'
    BY DEF Exclusive, Reserving
  <2>1. g # h /\ handler'[g] = handler[g]
    BY <1>2
  <2>2. /\ Of(g) \in Previews /\ preview[Of(g)].state = "submitting"
        /\ preview[Of(g)].kind = "reserve"
        /\ \A k \in Handlers : k \in Holders(Of(g)) => k = g
    BY <2>1 DEF PreviewInv, Exclusive, Reserving
  <2>3. Of(g)' = Of(g)
    BY <2>1 DEF Of
  <2>4. preview'[Of(g)].state = "submitting" /\ preview'[Of(g)].kind = "reserve"
    BY <2>2 DEF Onward
  <2>5. \A k \in Handlers : (k \in Holders(Of(g)))' => k = g
    BY <1>2, <2>2, <2>3 DEF Holders, Reserving, Of
  <2> QED BY <2>2, <2>3, <2>4, <2>5
<1>5. Marked'
  BY <1>3 DEF PreviewInv, TypeOK, Marked, Onward
<1> QED BY <1>1, <1>4, <1>5 DEF PreviewInv

\* What is known of the request a step is about.
LEMMA Knows ==
    ASSUME PreviewInv, NEW h \in Handlers
    PROVE  /\ handler[h] \in Request
           /\ handler[h].pc # "idle" =>
                Of(h) \in Previews /\ preview[Of(h)] \in Entry /\ preview[Of(h)].kind # "none"
           /\ handler[h].pc \in {"tab", "form", "submit", "posted", "confirm", "readback"} =>
                preview[Of(h)].kind = "reserve"
           /\ handler[h].pc \in {"posted", "confirm", "readback"} => posted[Of(h)] > 0
           /\ handler[h].pc \in {"surface", "opening"} => preview[Of(h)].kind = "view"
BY DEF PreviewInv, TypeOK, Exclusive, Progress, Of

\* A step that leaves the variables other than handler and preview alone.
LEMMA Quiet ==
    ASSUME PreviewInv, UNCHANGED <<now, kept, tab, posted, booked>>,
           \/ UNCHANGED preview
           \/ \E p \in Previews, state \in {"pending", "submitting", "consumed"} : Mark(p, state)
    PROVE  Onward
<1>1. /\ preview' \in [Previews -> Entry]
      /\ \A p \in Previews : preview'[p].kind = preview[p].kind
  <2>1. CASE UNCHANGED preview
    BY <2>1 DEF PreviewInv, TypeOK
  <2>2. CASE \E p \in Previews, state \in {"pending", "submitting", "consumed"} : Mark(p, state)
    <3>1. PICK p \in Previews, state \in {"pending", "submitting", "consumed"} : Mark(p, state)
      BY <2>2
    <3>2. preview \in [Previews -> Entry]
      BY DEF PreviewInv, TypeOK
    <3>3. [preview[p] EXCEPT !.state = state] \in Entry
      BY <3>2 DEF Entry
    <3> QED BY <3>1, <3>2, <3>3 DEF Mark, Entry
  <2> QED BY <2>1, <2>2
<1> QED BY <1>1 DEF Onward, PreviewInv, TypeOK

\* A failed look, before the form was posted.
LEMMA Refuses ==
    ASSUME PreviewInv, NEW h \in Handlers, handler[h].pc \in Reserving,
           NEW answer \in Answers \ {"verified"}, Refuse(h, answer),
           UNCHANGED <<now, kept, tab, posted, booked>>
    PROVE  PreviewInv'
<1>1. Of(h) \in Previews /\ preview[Of(h)].kind = "reserve"
  BY Knows DEF Reserving
<1>2. Onward
  BY <1>1, Quiet DEF Refuse
<1>3. Earned(Answered(Of(h), answer))
  BY <1>1 DEF Earned, Answered, Request, Steps, Gone
<1> QED
  BY <1>2, <1>3, Releases DEF Refuse, Answer, Answered, Reserving

LEMMA SubmitInv ==
    ASSUME PreviewInv, NEW h \in Handlers, NEW p \in Previews, NEW fits \in BOOLEAN,
           Submit(h, p, fits)
    PROVE  PreviewInv'
<1>1. /\ handler[h].pc = "idle" /\ p \in kept /\ preview[p] \in Entry /\ preview[p].kind # "none"
      /\ UNCHANGED <<now, kept, tab, posted, booked>>
  BY DEF Submit, At, PreviewInv, TypeOK
<1>2. CASE Objection(p, fits) # "none"
  <2>1. Becomes(h, Answered(p, Objection(p, fits))) /\ UNCHANGED preview
    BY <1>2 DEF Submit
  <2>2. Objection(p, fits) \in Answers \ {"verified"}
    BY DEF Objection, Answers
  <2>3. Earned(Answered(p, Objection(p, fits)))
    BY <1>1, <2>2 DEF Earned, Answered, Request, Steps, Gone
  <2> QED
    BY <1>1, <2>1, <2>3, Quiet, Bystands DEF Answered, Reserving
<1>3. CASE Objection(p, fits) = "none" /\ preview[p].kind # "reserve"
  <2>1. Becomes(h, Doing("surface", p, Gone)) /\ UNCHANGED preview
    BY <1>3 DEF Submit
  <2>2. preview[p].kind = "view"
    BY <1>1, <1>3 DEF Entry, Kinds
  <2>3. Earned(Doing("surface", p, Gone))
    BY <1>1, <2>2 DEF Earned, Doing, Request, Steps, Answers, Gone
  <2> QED
    BY <1>1, <2>1, <2>3, Quiet, Bystands DEF Doing, Reserving
<1>4. CASE Objection(p, fits) = "none" /\ preview[p].kind = "reserve"
  <2>1. Becomes(h, Doing("tab", p, Gone)) /\ Mark(p, "submitting")
    BY <1>4 DEF Submit
  <2>2. preview[p].state # "submitting"
    BY <1>4 DEF Objection
  <2>3. Earned(Doing("tab", p, Gone))
    BY <1>1, <1>4 DEF Earned, Doing, Request, Steps, Answers, Gone
  <2>4. TypeOK' /\ Progress' /\ VerifiedMeansReserved'
    BY <1>1, <2>1, <2>3, Quiet, ProgressStep
  <2>5. /\ handler'[h] = Doing("tab", p, Gone)
        /\ \A g \in Handlers : g # h => handler'[g] = handler[g]
    BY <2>1, <2>3, Moves DEF PreviewInv, Earned
  <2>6. /\ preview'[p].state = "submitting" /\ preview'[p].kind = "reserve"
        /\ \A q \in Previews : q # p => preview'[q] = preview[q]
    BY <1>4, <2>1 DEF PreviewInv, TypeOK, Mark, Entry
  <2>7. \A g \in Handlers : g \notin Holders(p)
    BY <2>2 DEF PreviewInv, Exclusive, Holders, Of
  <2>8. Exclusive'
    BY <2>5, <2>6, <2>7 DEF PreviewInv, Exclusive, Holders, Of, Doing
  <2>9. Marked'
    <3> SUFFICES ASSUME NEW q \in kept', preview'[q].state = "submitting" PROVE Holders(q)' # {}
      BY DEF Marked
    <3>1. CASE q = p
      BY <2>5, <3>1 DEF Holders, Of, Doing
    <3>2. CASE q # p
      <4>1. PICK g \in Handlers : g \in Holders(q)
        BY <1>1, <2>6, <3>2 DEF PreviewInv, TypeOK, Marked, Holders
      <4>2. g # h
        BY <1>1, <4>1 DEF Holders
      <4> QED BY <2>5, <4>1, <4>2 DEF Holders, Of
    <3> QED BY <3>1, <3>2
  <2> QED BY <2>4, <2>8, <2>9 DEF PreviewInv
<1> QED BY <1>2, <1>3, <1>4

\* The steps of the handler of a request.
LEMMA HandlerInv ==
    ASSUME PreviewInv, NEW h \in Handlers, HandlerStep(h)
    PROVE  PreviewInv'
<1>0. handler[h] \in Request /\ tab \in [Previews -> Page \union {Gone}]
  BY DEF PreviewInv, TypeOK
<1>1. CASE Expire(h)
  <2>1. Onward
    BY <1>1 DEF Expire, Onward, PreviewInv, TypeOK
  <2>2. Earned(Answered(Of(h), "expired"))
    BY <1>1, Knows DEF Expire, At, Answered, Earned, Request, Steps, Gone, Answers
  <2> QED
    BY <1>1, <2>1, <2>2, Bystands DEF Expire, At, Answer, Answered, Reserving
<1>2. CASE CheckTab(h)
  <2>1. CASE \E answer \in {"tab_missing", "changed"} : Refuse(h, answer)
    BY <1>2, <2>1, Refuses DEF CheckTab, At, Reserving, Answers
  <2>2. CASE Goes(h, "form") /\ UNCHANGED preview
    <3>1. Onward
      BY <1>2, <2>2, Quiet DEF CheckTab
    <3>2. Earned(Doing("form", Of(h), handler[h].saw))
      BY <1>0, <1>2, Knows DEF CheckTab, At, Doing, Earned, Request, Steps, Answers
    <3> QED
      BY <1>2, <2>2, <3>1, <3>2, Advances DEF CheckTab, At, Goes, Doing, Reserving
  <2> QED BY <1>2, <2>1, <2>2 DEF CheckTab
<1>3. CASE CheckForm(h)
  <2>1. CASE \E answer \in {"submit_failed", "changed"} : Refuse(h, answer)
    BY <1>3, <2>1, Refuses DEF CheckForm, At, Reserving, Answers
  <2>2. CASE Becomes(h, Doing("submit", Of(h), tab[Of(h)])) /\ UNCHANGED preview
    <3>1. Onward
      BY <1>3, <2>2, Quiet DEF CheckForm
    <3>2. Earned(Doing("submit", Of(h), tab[Of(h)]))
      BY <1>0, <1>3, Knows DEF CheckForm, At, Doing, Earned, Request, Steps, Answers
    <3> QED
      BY <1>3, <2>2, <3>1, <3>2, Advances DEF CheckForm, At, Doing, Reserving
  <2> QED BY <1>3, <2>1, <2>2 DEF CheckForm
<1>4. CASE Post(h)
  <2>1. Of(h) \in Previews /\ preview[Of(h)].kind = "reserve" /\ handler[h].pc = "submit"
    BY <1>4, Knows DEF Post, At
  <2>2. /\ posted' = [posted EXCEPT ![Of(h)] = @ + 1]
        /\ booked' = booked \/ booked' = booked \union {TitleOf[Of(h)]}
        /\ UNCHANGED <<now, preview, kept>>
        /\ Goes(h, "posted")
    BY <1>4 DEF Post
  <2>3. tab' \in [Previews -> Page \union {Gone}]
    BY <1>0, <1>4, <2>1 DEF Post, Page, CanPost, Gone
  <2>4. Onward /\ posted'[Of(h)] > 0
    <3>1. /\ posted' \in [Previews -> Nat] /\ posted'[Of(h)] > 0
          /\ \A p \in Previews : posted'[p] >= posted[p]
      BY <2>1, <2>2 DEF PreviewInv, TypeOK
    <3>2. booked \subseteq booked' /\ booked' \subseteq Titles
      BY <2>1, <2>2, TitleAssumption DEF PreviewInv, TypeOK
    <3> QED
      BY <2>2, <2>3, <3>1, <3>2 DEF Onward, PreviewInv, TypeOK
  <2>5. Earned(Doing("posted", Of(h), handler[h].saw))
    BY <1>0, <2>1, <2>4, Knows DEF Doing, Earned, Request, Steps, Answers
  <2> QED
    BY <2>1, <2>2, <2>4, <2>5, Advances DEF Goes, Doing, Reserving
<1>5. CASE PostRefused(h)
  BY <1>5, Refuses DEF PostRefused, At, Reserving, Answers
<1>6. CASE PostReturned(h)
  <2>1. CASE Refuse(h, "submit_failed")
    BY <1>6, <2>1, Refuses DEF PostReturned, At, Reserving, Answers
  <2>2. CASE Goes(h, "confirm") /\ Mark(Of(h), "consumed")
    <3>1. Onward
      BY <1>6, <2>2, Knows, Quiet DEF PostReturned, At
    <3>2. Earned(Doing("confirm", Of(h), handler[h].saw))
      BY <1>0, <1>6, Knows DEF PostReturned, At, Doing, Earned, Request, Steps, Answers
    <3> QED
      BY <1>6, <2>2, <3>1, <3>2, Releases DEF PostReturned, At, Goes, Doing, Reserving
  <2> QED BY <1>6, <2>1, <2>2 DEF PostReturned
<1>7. ASSUME NEW answer \in Answers, Finish(h, answer), UNCHANGED <<now, preview, kept, posted, booked>>,
             handler[h].pc \in {"confirm", "readback"}, answer = "verified" => Listed(booked, Of(h))
      PROVE  PreviewInv'
  <2>1. Onward
    <3>1. tab' \in [Previews -> Page \union {Gone}]
      BY <1>0, <1>7 DEF Finish
    <3>2. \A p \in Previews : posted'[p] >= posted[p]
      BY <1>7 DEF PreviewInv, TypeOK
    <3> QED
      BY <1>7, <3>1, <3>2 DEF Onward, PreviewInv, TypeOK
  <2>2. Earned(Answered(Of(h), answer))
    BY <1>7, Knows DEF Answered, Earned, Request, Steps, Gone
  <2> QED
    BY <1>7, <2>1, <2>2, Bystands DEF Finish, Answer, Answered, Reserving
<1>8. CASE Confirm(h)
  <2>1. CASE Finish(h, "unverified")
    BY <1>7, <1>8, <2>1 DEF Confirm, At, Answers
  <2>2. CASE Goes(h, "readback") /\ UNCHANGED tab
    <3>1. Onward
      BY <1>8, <2>2, Quiet DEF Confirm
    <3>2. Earned(Doing("readback", Of(h), handler[h].saw))
      BY <1>0, <1>8, <3>1, Knows DEF Confirm, At, Doing, Earned, Request, Steps, Answers
    <3> QED
      BY <1>8, <2>2, <3>1, <3>2, Bystands DEF Confirm, At, Goes, Doing, Reserving
  <2> QED BY <1>8, <2>1, <2>2 DEF Confirm
<1>9. CASE Readback(h)
  BY <1>7, <1>9 DEF Readback, At, Answers
<1>10. CASE Surface(h)
  <2>1. CASE Answer(h, "changed") /\ UNCHANGED preview
    <3>1. Onward
      BY <1>10, <2>1, Quiet DEF Surface
    <3>2. Earned(Answered(Of(h), "changed"))
      BY <1>10, Knows DEF Surface, At, Answered, Earned, Request, Steps, Gone, Answers
    <3> QED
      BY <1>10, <2>1, <3>1, <3>2, Bystands DEF Surface, At, Answer, Answered, Reserving
  <2>2. CASE Goes(h, "opening") /\ Mark(Of(h), "consumed")
    <3>1. Onward
      BY <1>10, <2>2, Knows, Quiet DEF Surface, At
    <3>2. Earned(Doing("opening", Of(h), handler[h].saw))
      BY <1>0, <1>10, Knows DEF Surface, At, Doing, Earned, Request, Steps, Answers
    <3>3. \A p \in Previews : \/ preview'[p].state = preview[p].state
                              \/ preview[p].kind = "view" /\ preview'[p].state = "consumed"
      BY <1>10, <2>2, Knows DEF Surface, At, Mark, PreviewInv, TypeOK, Entry
    <3> QED
      BY <1>10, <2>2, <3>1, <3>2, <3>3, Bystands DEF Surface, At, Goes, Doing, Reserving
  <2> QED BY <1>10, <2>1, <2>2 DEF Surface
<1>11. CASE Opened(h)
  <2>1. PICK answer \in {"verified", "tab_create_failed"} : Answer(h, answer)
    BY <1>11 DEF Opened
  <2>2. Onward
    BY <1>11, Quiet DEF Opened
  <2>3. Earned(Answered(Of(h), answer))
    BY <1>11, Knows DEF Opened, At, Answered, Earned, Request, Steps, Gone, Answers
  <2> QED
    BY <1>11, <2>1, <2>2, <2>3, Bystands DEF Opened, At, Answer, Answered, Reserving
<1> QED
  BY <1>1, <1>2, <1>3, <1>4, <1>5, <1>6, <1>8, <1>9, <1>10, <1>11 DEF HandlerStep

LEMMA InvStep == PreviewInv /\ [Next]_vars => PreviewInv'
<1> SUFFICES ASSUME PreviewInv, [Next]_vars PROVE PreviewInv'
  OBVIOUS
<1>0. ASSUME NEW p \in Previews, NEW kind \in Kinds, NEW print \in Prints, Ready(p, kind, print),
             tab' \in [Previews -> Page \union {Gone}]
      PROVE  PreviewInv'
  BY <1>0 DEF Ready, PreviewInv, TypeOK, Exclusive, Marked, Progress, VerifiedMeansReserved,
     Holders, Of, NoPreview, Entry, Request, Kinds
<1>1. ASSUME NEW p \in Previews, NEW shown \in Page, PreviewReservation(p, shown)
       PROVE  PreviewInv'
  <2>1. tab' \in [Previews -> Page \union {Gone}]
    BY <1>1 DEF PreviewReservation, PreviewInv, TypeOK
  <2> QED BY <1>0, <1>1, <2>1 DEF PreviewReservation, Kinds
<1>2. ASSUME NEW h \in Handlers, NEW p \in Previews, NEW fits \in BOOLEAN, Submit(h, p, fits)
      PROVE  PreviewInv'
  BY <1>2, SubmitInv
<1>3. ASSUME NEW h \in Handlers, NEW p \in Previews, SubmitOverdue(h, p)
      PROVE  PreviewInv'
  <2>1. Onward
    BY <1>3 DEF SubmitOverdue, Onward, PreviewInv, TypeOK
  <2>2. Earned(Doing("expiring", p, Gone))
    BY <1>3 DEF SubmitOverdue, PreviewInv, TypeOK, Doing, Earned, Request, Steps, Answers
  <2> QED
    BY <1>3, <2>1, <2>2, Bystands DEF SubmitOverdue, At, Doing, Reserving
<1>4. ASSUME NEW h \in Handlers, HandlerStep(h)
      PROVE  PreviewInv'
  BY <1>4, HandlerInv
<1>5. ASSUME NEW p \in Previews, NEW shown \in Page \union {Gone}, Navigate(p, shown)
      PROVE  PreviewInv'
  BY <1>5 DEF Navigate, PreviewInv, TypeOK, Exclusive, Marked, Progress, VerifiedMeansReserved,
     Holders, Of
<1>6. ASSUME NEW p \in Previews, RefExpires(p)
      PROVE  PreviewInv'
  <2>1. /\ preview' \in [Previews -> Entry]
        /\ \A q \in Previews : /\ preview'[q].state = preview[q].state
                               /\ preview'[q].kind = preview[q].kind
    BY <1>6 DEF RefExpires, PreviewInv, TypeOK, Entry
  <2>2. UNCHANGED <<now, kept, tab, handler, posted, booked>>
    BY <1>6 DEF RefExpires
  <2>3. TypeOK'
    BY <2>1, <2>2 DEF PreviewInv, TypeOK
  <2>4. Exclusive' /\ Progress'
    BY <2>1, <2>2 DEF PreviewInv, Exclusive, Progress, Holders, Of
  <2>5. Marked'
    BY <2>1, <2>2 DEF PreviewInv, TypeOK, Marked, Holders, Of
  <2>6. VerifiedMeansReserved'
    BY <2>1, <2>2 DEF PreviewInv, Progress, VerifiedMeansReserved, Of
  <2> QED BY <2>3, <2>4, <2>5, <2>6 DEF PreviewInv
<1>7. ASSUME NEW suspended \in BOOLEAN, Restart(suspended)
      PROVE  PreviewInv'
  BY <1>7 DEF Restart, Answered, PreviewInv, TypeOK, Exclusive, Marked, Progress,
     VerifiedMeansReserved, Holders, Of, Request, Page, Gone, Steps, Answers
<1>8. CASE Tick
  BY <1>8 DEF Tick, PreviewInv, TypeOK, Exclusive, Marked, Progress, VerifiedMeansReserved,
     Holders, Of
<1>9. ASSUME NEW p \in Previews, NEW print \in Prints, PreviewVisit(p, print)
       PROVE  PreviewInv'
  BY <1>0, <1>9 DEF PreviewVisit, PreviewInv, TypeOK, Kinds
<1>10. CASE UNCHANGED vars
  BY <1>10 DEF vars, PreviewInv, TypeOK, Exclusive, Marked, Progress, VerifiedMeansReserved,
     Holders, Of
<1> QED
  BY <1>1, <1>2, <1>3, <1>4, <1>5, <1>6, <1>7, <1>8, <1>9, <1>10 DEF Next

\* In every behaviour: the types.
THEOREM PreviewTypeCorrect == Spec => []TypeOK
<1>1. Spec => []PreviewInv
  BY InitInv, InvStep, PTL DEF Spec
<1>2. PreviewInv => TypeOK
  BY DEF PreviewInv
<1> QED BY <1>1, <1>2, PTL

LEMMA InvHolds == PreviewInv => SubmittingIsHeld
<1> SUFFICES ASSUME PreviewInv, NEW p \in kept
             PROVE  /\ preview[p].state = "submitting" => Cardinality(Holders(p)) = 1
                    /\ Holders(p) # {} => preview[p].state = "submitting"
  BY DEF SubmittingIsHeld
<1>1. ASSUME NEW h \in Holders(p) PROVE Holders(p) = {h} /\ preview[p].state = "submitting"
  BY <1>1 DEF PreviewInv, Exclusive, Holders, Of
<1>2. ASSUME preview[p].state = "submitting" PROVE Cardinality(Holders(p)) = 1
  <2>1. PICK h : h \in Holders(p)
    BY <1>2 DEF PreviewInv, Marked
  <2>2. Holders(p) = {h}
    BY <1>1, <2>1
  <2> QED BY <2>2, FS_Singleton
<1> QED BY <1>1, <1>2

\* A preview that is being submitted is in the hands of exactly one request,
\* and of none when it is not (service-worker.ts:3771).
THEOREM OneSubmitter == Spec => []SubmittingIsHeld
<1>1. Spec => []PreviewInv
  BY InitInv, InvStep, PTL DEF Spec
<1> QED BY <1>1, InvHolds, PTL

\* Verified is said only of what was posted and is in the library's list
\* (service-worker.ts:3884).
THEOREM VerifiedIsTrue == Spec => []VerifiedMeansReserved
<1>1. Spec => []PreviewInv
  BY InitInv, InvStep, PTL DEF Spec
<1>2. PreviewInv => VerifiedMeansReserved
  BY DEF PreviewInv
<1> QED BY <1>1, <1>2, PTL

\* Only a request that holds the preview posts.
LEMMA PostsHeld ==
    ASSUME PreviewInv, [Next]_vars, NEW p \in Previews, posted'[p] # posted[p]
    PROVE  preview[p].state = "submitting"
<1>1. ASSUME NEW h \in Handlers, HandlerStep(h) PROVE Post(h)
  BY <1>1 DEF HandlerStep, Expire, CheckTab, CheckForm, PostRefused, PostReturned, Confirm,
     Readback, Surface, Opened
<1>2. PICK h \in Handlers : Post(h)
  BY <1>1 DEF Next, vars, PreviewReservation, PreviewVisit, Ready, Submit, SubmitOverdue, Navigate, RefExpires, Restart, Tick
<1>3. Of(h) \in Previews /\ preview[Of(h)].state = "submitting" /\ p = Of(h)
  BY <1>2 DEF Post, At, PreviewInv, TypeOK, Exclusive
<1> QED BY <1>3

\* A consumed preview is never posted again (service-worker.ts:3845).
THEOREM ConsumedNeverPosted == Spec => ConsumedIsFinal
<1>1. Spec => []PreviewInv
  BY InitInv, InvStep, PTL DEF Spec
<1>2. ASSUME PreviewInv, [Next]_vars
      PROVE  [\A p \in Previews : preview[p].state = "consumed" => posted'[p] = posted[p]]_vars
  BY <1>2, PostsHeld
<1> QED BY <1>1, <1>2, PTL DEF Spec, ConsumedIsFinal

(***************************************************************************)
(* OpacGateway                                                             *)
(***************************************************************************)

Away == {"idle", "answered", "cancelled"}
Under ==
    [pc : {"queued"} \union Holding, key : Keys, step : {"page", "availability"}, tries : Nat, wake : Int]

CallsOK ==
    /\ asked = [h \in Calls |-> asked[h]]
    /\ \A h \in Calls : asked[h] \in Under \/ asked[h].pc \in Away
ClockOK == clock \in Int /\ lastStarted \in Int

\* The queue has every call that is under way, once, and no other.
QueueOK ==
    /\ queue \in Seq(Calls)
    /\ \A i, j \in DOMAIN queue : queue[i] = queue[j] => i = j
    /\ \A i \in DOMAIN queue : asked[queue[i]] \in Under
    /\ \A h \in Calls : asked[h] \in Under => \E i \in DOMAIN queue : queue[i] = h

HeadHolds == \A h \in Calls : asked[h].pc \in Holding => queue # <<>> /\ queue[1] = h

USE OpacAssumption DEF OpacAssumption

TurnInv == CallsOK /\ ClockOK /\ QueueOK /\ HeadHolds /\ TurnsSpaced

-----------------------------------------------------------------------------
\* A call is under way or away from the site by where it is.
LEMMA PlaceTells ==
    ASSUME CallsOK, NEW h \in Calls
    PROVE  /\ asked[h] \in Under <=> asked[h].pc \in {"queued"} \union Holding
           /\ asked[h] \in Under => asked[h].key \in Keys /\ asked[h].step \in {"page", "availability"}
                                      /\ asked[h].tries \in Nat /\ asked[h].wake \in Int
BY DEF CallsOK, Away, Under, Holding

\* A call under way goes on, and keeps its place in the queue.
LEMMA GoesOn ==
    ASSUME TurnInv, NEW h \in Calls, asked[h] \in Under, NEW r \in Under, TurnsTo(h, r),
           r.pc = "queued" \/ queue[1] = h, UNCHANGED queue,
           ClockOK',
           \A g \in Calls : asked'[g].pc = "sleeps" => asked'[g].wake >= lastStarted' + MinInterval
    PROVE  TurnInv'
<1>1. CallsOK'
  BY DEF TurnInv, CallsOK, TurnsTo
<1>2. \A g \in Calls : asked'[g] = IF g = h THEN r ELSE asked[g]
  BY DEF TurnInv, CallsOK, TurnsTo
<1>3. QueueOK'
  <2>1. \A i \in DOMAIN queue' : asked'[queue'[i]] \in Under
    BY <1>2 DEF TurnInv, QueueOK
  <2>2. \A g \in Calls : asked'[g] \in Under => \E i \in DOMAIN queue' : queue'[i] = g
    BY <1>2 DEF TurnInv, QueueOK
  <2> QED BY <2>1, <2>2 DEF TurnInv, QueueOK
<1>4. queue # <<>>
  BY DEF TurnInv, QueueOK
<1>5. HeadHolds'
  BY <1>2, <1>4 DEF TurnInv, HeadHolds, Holding
<1>6. TurnsSpaced'
  BY DEF TurnsSpaced, Stands
<1> QED BY <1>1, <1>3, <1>5, <1>6 DEF TurnInv

\* What is behind the first part of a sequence of two parts.
LEMMA SecondPart ==
    ASSUME NEW S, NEW s \in Seq(S), NEW t \in Seq(S), NEW k \in (Len(s) + 1)..(Len(s) + Len(t))
    PROVE  (s \o t)[k] = t[k - Len(s)]
<1>1. Len(s) \in Nat /\ Len(t) \in Nat
  OBVIOUS
<1>2. k \in 1..(Len(s) + Len(t)) /\ ~(k <= Len(s))
  BY <1>1
<1>3. (s \o t)[k] = IF k <= Len(s) THEN s[k] ELSE t[k - Len(s)]
  BY <1>2, ConcatProperties
<1> QED BY <1>2, <1>3

\* A sequence without the element of one place: those behind it move up.
LEMMA RemovedFromQueue ==
    ASSUME NEW S, NEW s \in Seq(S), NEW i \in 1..Len(s)
    PROVE  /\ RemoveAt(s, i) \in Seq(S)
           /\ Len(RemoveAt(s, i)) = Len(s) - 1
           /\ \A k \in 1..Len(RemoveAt(s, i)) : RemoveAt(s, i)[k] = IF k < i THEN s[k] ELSE s[k + 1]
<1> DEFINE r == RemoveAt(s, i)
<1> DEFINE before == SubSeq(s, 1, i - 1)
           after == SubSeq(s, i + 1, Len(s))
<1>1. /\ before \in Seq(S) /\ Len(before) = i - 1
      /\ \A k \in 1..(i - 1) : before[k] = s[k]
  OBVIOUS
<1>2. /\ after \in Seq(S) /\ Len(after) = Len(s) - i
      /\ \A k \in 1..(Len(s) - i) : after[k] = s[i + k]
  OBVIOUS
<1>3. r = before \o after
  BY DEF RemoveAt
<1> HIDE DEF before, after, r
<1>4. r \in Seq(S) /\ Len(r) = Len(s) - 1
  BY <1>1, <1>2, <1>3
<1>5. ASSUME NEW k \in 1..Len(r) PROVE r[k] = IF k < i THEN s[k] ELSE s[k + 1]
  <2>1. CASE k < i
    BY <1>1, <1>2, <1>3, <1>4, <2>1
  <2>2. CASE k >= i
    <3>1. r[k] = after[k - (i - 1)]
      <4>1. k \in (Len(before) + 1)..(Len(before) + Len(after))
        BY <1>1, <1>2, <1>4, <2>2
      <4>2. (before \o after)[k] = after[k - Len(before)]
        BY <1>1, <1>2, <4>1, SecondPart
      <4> QED BY <1>1, <1>3, <4>2
    <3>2. k - (i - 1) \in 1..(Len(s) - i) /\ i + (k - (i - 1)) = k + 1
      BY <1>4, <2>2
    <3> QED BY <1>2, <2>2, <3>1, <3>2
  <2> QED BY <2>1, <2>2
<1> QED BY <1>4, <1>5 DEF r

\* A call under way ends, and leaves the queue.
LEMMA CallEnds ==
    ASSUME TurnInv, NEW h \in Calls, asked[h] \in Under, NEW r, r.pc \in Away, TurnsTo(h, r), Leave(h),
           UNCHANGED <<clock, lastStarted>>
    PROVE  TurnInv'
<1>1. CallsOK' /\ ClockOK'
  BY DEF TurnInv, CallsOK, ClockOK, TurnsTo
<1>2. \A g \in Calls : asked'[g] = IF g = h THEN r ELSE asked[g]
  BY DEF TurnInv, CallsOK, TurnsTo
<1>3. r \notin Under /\ r.pc \notin Holding
  BY DEF Away, Under, Holding
<1>4. PICK i \in DOMAIN queue : queue[i] = h /\ queue' = RemoveAt(queue, i)
  BY DEF Leave
<1>5. queue \in Seq(Calls) /\ i \in 1..Len(queue)
  BY DEF TurnInv, QueueOK
<1>6. /\ queue' \in Seq(Calls)
      /\ Len(queue') = Len(queue) - 1
      /\ \A k \in 1..Len(queue') : queue'[k] = IF k < i THEN queue[k] ELSE queue[k + 1]
  BY <1>4, <1>5, RemovedFromQueue
<1>7. QueueOK'
  <2>1. \A k, l \in DOMAIN queue' : queue'[k] = queue'[l] => k = l
    BY <1>5, <1>6 DEF TurnInv, QueueOK
  <2>2. \A k \in DOMAIN queue' : asked'[queue'[k]] \in Under
    BY <1>2, <1>4, <1>5, <1>6 DEF TurnInv, QueueOK
  <2>3. ASSUME NEW g \in Calls, asked'[g] \in Under PROVE \E k \in DOMAIN queue' : queue'[k] = g
    <3>1. g # h /\ asked[g] \in Under
      BY <1>2, <1>3, <2>3
    <3>2. PICK j \in 1..Len(queue) : queue[j] = g
      BY <1>5, <3>1 DEF TurnInv, QueueOK
    <3>3. j # i
      BY <1>4, <3>1, <3>2
    <3>4. CASE j < i
      BY <1>5, <1>6, <3>2, <3>4
    <3>5. CASE j > i
      <4>1. j - 1 \in 1..Len(queue') /\ queue'[j - 1] = g
        BY <1>5, <1>6, <3>2, <3>5
      <4> QED BY <1>6, <4>1
    <3> QED BY <1>5, <3>3, <3>4, <3>5
  <2> QED BY <1>6, <2>1, <2>2, <2>3 DEF QueueOK
<1>8. HeadHolds'
  <2> SUFFICES ASSUME NEW g \in Calls, asked'[g].pc \in Holding PROVE queue' # <<>> /\ queue'[1] = g
    BY DEF HeadHolds
  <2>1. g # h /\ asked'[g] = asked[g]
    BY <1>2, <1>3
  <2>2. queue[1] = g
    BY <2>1 DEF TurnInv, HeadHolds
  <2>3. i > 1
    BY <1>4, <1>5, <2>1, <2>2
  <2> QED BY <1>5, <1>6, <2>2, <2>3
<1>9. TurnsSpaced'
  BY <1>2, <1>3 DEF TurnInv, TurnsSpaced, Stands, Holding
<1> QED BY <1>1, <1>7, <1>8, <1>9 DEF TurnInv
-----------------------------------------------------------------------------
(* Every step keeps the invariant. *)

LEMMA InitTurnInv == OpacInit => TurnInv
<1> SUFFICES ASSUME OpacInit PROVE TurnInv
  OBVIOUS
<1>1. \A h \in Calls : asked[h] = NotAsked /\ asked[h].pc = "idle"
  BY DEF OpacInit, NotAsked
<1>2. CallsOK
  BY DEF OpacInit, NotAsked, Away, CallsOK
<1>3. \A h \in Calls : asked[h] \notin Under
  BY <1>1 DEF NotAsked, Under
<1>4. QueueOK
  BY <1>3 DEF QueueOK, OpacInit
<1>5. HeadHolds /\ TurnsSpaced
  BY <1>1 DEF HeadHolds, TurnsSpaced, Stands, Holding
<1> QED BY <1>2, <1>4, <1>5 DEF TurnInv, ClockOK, OpacInit

\* A call that stays where it is leaves the ones asleep as they are.
LEMMA OthersSleep ==
    ASSUME TurnInv, NEW h \in Calls, NEW r, r.pc # "sleeps", TurnsTo(h, r), UNCHANGED lastStarted
    PROVE  \A g \in Calls : asked'[g].pc = "sleeps" => asked'[g].wake >= lastStarted' + MinInterval
BY DEF TurnInv, CallsOK, TurnsSpaced, Stands, TurnsTo

\* The call that has the lock changes where it is.
LEMMA GotoKeeps ==
    ASSUME TurnInv, NEW h \in Calls, asked[h] \in Under, queue[1] = h,
           NEW pc \in Holding \ {"sleeps"}, NEW step \in {"page", "availability"}, NEW tries \in Nat,
           TurnsTo(h, [asked[h] EXCEPT !.pc = pc, !.step = step, !.tries = tries]),
           UNCHANGED <<clock, lastStarted, queue>>
    PROVE  TurnInv'
<1> DEFINE r == [asked[h] EXCEPT !.pc = pc, !.step = step, !.tries = tries]
<1>1. r \in Under /\ r.pc = pc
  BY DEF Under
<1>2. ClockOK'
  BY DEF TurnInv, ClockOK
<1>3. r.pc # "sleeps" /\ TurnsTo(h, r)
  BY <1>1
<1> HIDE DEF r
<1>4. \A g \in Calls : asked'[g].pc = "sleeps" => asked'[g].wake >= lastStarted' + MinInterval
  BY <1>3, OthersSleep
<1> QED BY <1>1, <1>2, <1>3, <1>4, GoesOn

\* The call that talks to the site is the head of the queue, and the only one.
LEMMA Holder ==
    ASSUME TurnInv, NEW h \in Calls, asked[h].pc \in Holding
    PROVE  asked[h] \in Under /\ queue[1] = h /\ \A g \in Calls : asked[g].pc \in Holding => g = h
<1>1. CallsOK /\ HeadHolds
  BY DEF TurnInv
<1>2. asked[h] \in Under
  BY <1>1, PlaceTells
<1> QED BY <1>1, <1>2 DEF HeadHolds

LEMMA AskKeeps ==
    ASSUME TurnInv, NEW h \in Calls, NEW key \in Keys, Ask(h, key)
    PROVE  TurnInv'
<1>1. CallsOK /\ ClockOK /\ QueueOK /\ HeadHolds /\ TurnsSpaced
  BY DEF TurnInv
<1>2. asked[h] \notin Under
  BY <1>1, PlaceTells DEF Ask, Stands, Holding
<1>3. ClockOK'
  BY <1>1 DEF Ask, ClockOK
<1>4. CASE \E e \in Live(key) : TurnsTo(h, Returned(key, e.at)) /\ UNCHANGED queue
  <2>1. PICK r : r.pc = "answered" /\ TurnsTo(h, r)
    BY <1>4 DEF Returned
  <2>2. \A g \in Calls : asked'[g] = IF g = h THEN r ELSE asked[g]
    BY <1>1, <2>1 DEF CallsOK, TurnsTo
  <2>3. r \notin Under /\ r.pc \in Away /\ r.pc \notin Holding
    BY <2>1 DEF Under, Away, Holding
  <2>4. CallsOK'
    BY <1>1, <2>1, <2>3 DEF CallsOK, TurnsTo
  <2>5. QueueOK'
    BY <1>1, <1>2, <1>4, <2>2, <2>3 DEF QueueOK
  <2>6. HeadHolds' /\ TurnsSpaced'
    BY <1>1, <1>4, <2>2, <2>3 DEF HeadHolds, TurnsSpaced, Stands, Holding, Ask
  <2> QED BY <1>3, <2>4, <2>5, <2>6 DEF TurnInv
<1>5. CASE /\ TurnsTo(h, [pc |-> "queued", key |-> key, step |-> "page", tries |-> 0, wake |-> 0])
           /\ queue' = Append(queue, h)
  <2> DEFINE r == [pc |-> "queued", key |-> key, step |-> "page", tries |-> 0, wake |-> 0]
  <2>1. r \in Under /\ r.pc \notin Holding /\ TurnsTo(h, r)
    BY <1>5 DEF Under, Holding
  <2> HIDE DEF r
  <2>2. \A g \in Calls : asked'[g] = IF g = h THEN r ELSE asked[g]
    BY <1>1, <2>1 DEF CallsOK, TurnsTo
  <2>3. CallsOK'
    BY <1>1, <2>1 DEF CallsOK, TurnsTo
  <2>4. /\ queue' \in Seq(Calls)
        /\ DOMAIN queue' = 1..(Len(queue) + 1)
        /\ \A i \in 1..Len(queue) : queue'[i] = queue[i]
        /\ queue'[Len(queue) + 1] = h
    BY <1>1, <1>5 DEF QueueOK
  <2>5. Len(queue) \in Nat /\ DOMAIN queue = 1..Len(queue) /\ \A i \in 1..Len(queue) : queue[i] # h
    BY <1>1, <1>2 DEF QueueOK
  <2>6. \A i, j \in DOMAIN queue' : queue'[i] = queue'[j] => i = j
    BY <1>1, <2>4, <2>5 DEF QueueOK
  <2>7. \A i \in DOMAIN queue' : asked'[queue'[i]] \in Under
    BY <1>1, <2>1, <2>2, <2>4, <2>5 DEF QueueOK
  <2>8. ASSUME NEW g \in Calls, asked'[g] \in Under PROVE \E i \in DOMAIN queue' : queue'[i] = g
    <3>1. CASE g = h
      BY <2>4, <2>5, <3>1
    <3>2. CASE g # h
      BY <1>1, <2>2, <2>4, <2>5, <2>8, <3>2 DEF QueueOK
    <3> QED BY <3>1, <3>2
  <2>9. QueueOK'
    BY <2>4, <2>6, <2>7, <2>8 DEF QueueOK
  <2>10. HeadHolds'
    <3> SUFFICES ASSUME NEW g \in Calls, asked'[g].pc \in Holding PROVE queue' # <<>> /\ queue'[1] = g
      BY DEF HeadHolds
    <3>1. asked[g].pc \in Holding
      BY <2>1, <2>2
    <3>2. queue # <<>> /\ queue[1] = g
      BY <1>1, <3>1 DEF HeadHolds
    <3>3. 1 \in 1..Len(queue)
      BY <1>1, <3>2 DEF QueueOK
    <3> QED BY <2>4, <2>5, <3>2, <3>3
  <2>11. TurnsSpaced'
    BY <1>1, <2>1, <2>2 DEF TurnsSpaced, Stands, Holding, Ask
  <2> QED BY <1>3, <2>3, <2>9, <2>10, <2>11 DEF TurnInv
<1> QED BY <1>4, <1>5 DEF Ask

LEMMA LockedKeeps ==
    ASSUME TurnInv, NEW h \in Calls, Locked(h)
    PROVE  TurnInv'
<1>1. asked[h].pc = "queued" /\ asked[h] \in Under
  BY PlaceTells DEF TurnInv, Locked, Stands
<1>2. queue[1] = h
  BY DEF Locked
<1>3. CASE Goto(h, "waits") /\ UNCHANGED queue
  <2>1. TurnsTo(h, [asked[h] EXCEPT !.pc = "waits", !.step = asked[h].step, !.tries = asked[h].tries])
    BY <1>1, <1>3 DEF Goto, Under
  <2>2. asked[h].step \in {"page", "availability"} /\ asked[h].tries \in Nat
    BY <1>1 DEF Under
  <2>3. "waits" \in Holding \ {"sleeps"}
    BY DEF Holding
  <2>4. UNCHANGED <<clock, lastStarted, queue>>
    BY <1>3 DEF Locked
  <2> QED BY <1>1, <1>2, <2>1, <2>2, <2>3, <2>4, GotoKeeps
<1>4. CASE Leave(h) /\ \E n : Return(h, n)
  <2>1. PICK r : r.pc \in Away /\ TurnsTo(h, r)
    BY <1>4 DEF Return, Returned, Away
  <2> QED BY <1>1, <1>4, <2>1, CallEnds DEF Locked
<1> QED BY <1>3, <1>4 DEF Locked

LEMMA WaitTurnKeeps ==
    ASSUME TurnInv, NEW h \in Calls, WaitTurn(h)
    PROVE  TurnInv'
<1> DEFINE r == [asked[h] EXCEPT !.pc = "sleeps", !.wake = Wakes]
<1>1. asked[h].pc \in Holding
  BY DEF WaitTurn, Stands, Holding
<1>2. asked[h] \in Under /\ queue[1] = h /\ \A g \in Calls : asked[g].pc \in Holding => g = h
  BY <1>1, Holder
<1>3. ClockOK /\ ClockOK'
  BY DEF TurnInv, ClockOK, WaitTurn
<1>4. Wakes \in Int /\ Wakes >= lastStarted + MinInterval
  BY <1>3 DEF Wakes, ClockOK
<1>5. r \in Under /\ r.wake = Wakes
  BY <1>2, <1>4 DEF Under, Holding
<1>6. TurnsTo(h, r) /\ UNCHANGED <<lastStarted, queue>>
  BY DEF WaitTurn
<1> HIDE DEF r
<1>7. \A g \in Calls : asked'[g].pc = "sleeps" => asked'[g].wake >= lastStarted' + MinInterval
  <2> SUFFICES ASSUME NEW g \in Calls, asked'[g].pc = "sleeps"
               PROVE  asked'[g].wake >= lastStarted' + MinInterval
    OBVIOUS
  <2>1. asked'[g] = IF g = h THEN r ELSE asked[g]
    BY <1>6 DEF TurnInv, CallsOK, TurnsTo
  <2>2. g = h
    BY <1>2, <2>1 DEF Holding
  <2> QED BY <1>4, <1>5, <1>6, <2>1, <2>2
<1> QED BY <1>2, <1>3, <1>5, <1>6, <1>7, GoesOn

LEMMA StartedKeeps ==
    ASSUME TurnInv, NEW h \in Calls, Started(h)
    PROVE  TurnInv'
<1> DEFINE r == [asked[h] EXCEPT !.pc = asked[h].step]
<1>1. asked[h].pc \in Holding
  BY DEF Started, Stands, Holding
<1>2. asked[h] \in Under /\ queue[1] = h /\ \A g \in Calls : asked[g].pc \in Holding => g = h
  BY <1>1, Holder
<1>3. ClockOK'
  BY DEF TurnInv, ClockOK, Started
<1>4. r \in Under /\ r.pc # "sleeps"
  BY <1>2 DEF Under, Holding
<1>5. TurnsTo(h, r) /\ UNCHANGED queue
  BY DEF Started, Goto
<1> HIDE DEF r
<1>6. \A g \in Calls : asked'[g].pc = "sleeps" => asked'[g].wake >= lastStarted' + MinInterval
  <2> SUFFICES ASSUME NEW g \in Calls, asked'[g].pc = "sleeps" PROVE FALSE
    OBVIOUS
  <2>1. asked'[g] = IF g = h THEN r ELSE asked[g]
    BY <1>5 DEF TurnInv, CallsOK, TurnsTo
  <2> QED BY <1>2, <1>4, <2>1 DEF Holding
<1> QED BY <1>2, <1>3, <1>4, <1>5, <1>6, GoesOn

\* What may happen at the site.
LEMMA SiteKeeps ==
    ASSUME TurnInv, NEW h \in Calls, asked[h].pc \in Holding,
           Proceed(h) \/ Again(h) \/ Known(h) \/ Unavailable(h)
    PROVE  TurnInv'
<1>1. asked[h] \in Under /\ queue[1] = h
  BY Holder
<1>2. CASE Proceed(h)
  <2>1. "availability" \in Holding \ {"sleeps"}
    BY DEF Holding
  <2> QED BY <1>1, <1>2, <2>1, GotoKeeps DEF Proceed
<1>3. CASE Again(h)
  <2>1. "waits" \in Holding \ {"sleeps"} /\ asked[h].step \in {"page", "availability"}
    BY <1>1 DEF Holding, Under
  <2>2. TurnsTo(h, [asked[h] EXCEPT !.pc = "waits", !.step = asked[h].step, !.tries = 1])
    BY <1>1, <1>3 DEF Again, Under
  <2> QED BY <1>1, <1>3, <2>1, <2>2, GotoKeeps DEF Again
<1>4. CASE Known(h) \/ Unavailable(h)
  <2>1. PICK r : r.pc \in Away /\ TurnsTo(h, r)
    BY <1>4 DEF Known, Unavailable, Return, Returned, Away
  <2>2. Leave(h) /\ UNCHANGED <<clock, lastStarted>>
    BY <1>4 DEF Known, Unavailable
  <2> QED BY <1>1, <2>1, <2>2, CallEnds
<1> QED BY <1>2, <1>3, <1>4

LEMMA CancelledKeeps ==
    ASSUME TurnInv, NEW h \in Calls, Cancelled(h)
    PROVE  TurnInv'
<1>1. asked[h] \in Under
  BY PlaceTells DEF TurnInv, Cancelled
<1>2. PICK r : r.pc \in Away /\ TurnsTo(h, r)
  BY DEF Cancelled, Away
<1> QED BY <1>1, <1>2, CallEnds DEF Cancelled

LEMMA NextTurnInv == TurnInv /\ [OpacNext]_opacVars => TurnInv'
<1> SUFFICES ASSUME TurnInv, [OpacNext]_opacVars PROVE TurnInv'
  OBVIOUS
<1>1. ASSUME NEW h \in Calls, NEW key \in Keys, Ask(h, key) PROVE TurnInv'
  BY <1>1, AskKeeps
<1>2. ASSUME NEW h \in Calls, Locked(h) PROVE TurnInv'
  BY <1>2, LockedKeeps
<1>3. ASSUME NEW h \in Calls, WaitTurn(h) PROVE TurnInv'
  BY <1>3, WaitTurnKeeps
<1>4. ASSUME NEW h \in Calls, Started(h) PROVE TurnInv'
  BY <1>4, StartedKeeps
<1>5. ASSUME NEW h \in Calls, SearchPage(h) \/ GetPage(h) \/ Availability(h) PROVE TurnInv'
  <2>1. asked[h].pc \in Holding
    BY <1>5 DEF SearchPage, GetPage, Availability, Stands, Holding
  <2>2. Proceed(h) \/ Again(h) \/ Known(h) \/ Unavailable(h)
    BY <1>5 DEF SearchPage, GetPage, Availability
  <2> QED BY <2>1, <2>2, SiteKeeps
<1>6. ASSUME NEW h \in Calls, Cancelled(h) PROVE TurnInv'
  BY <1>6, CancelledKeeps
<1>7. CASE Passes
  <2>1. ClockOK' /\ UNCHANGED <<lastStarted, queue, asked>>
    BY <1>7 DEF Passes, TurnInv, ClockOK
  <2> QED BY <2>1 DEF TurnInv, CallsOK, ClockOK, QueueOK, HeadHolds, TurnsSpaced, Stands
<1>8. CASE UNCHANGED opacVars
  BY <1>8 DEF opacVars, TurnInv, CallsOK, ClockOK, QueueOK, HeadHolds, TurnsSpaced, Stands
<1> QED BY <1>1, <1>2, <1>3, <1>4, <1>5, <1>6, <1>7, <1>8 DEF OpacNext

LEMMA TurnInvariant == OpacSpec => []TurnInv
BY InitTurnInv, NextTurnInv, PTL DEF OpacSpec

-----------------------------------------------------------------------------
(* The cache, and what is answered *)

Kept == [key : Keys, at : Int]
AnswerInv == TurnInv /\ cache \in Seq(Kept) /\ AskedOnce /\ FreshAnswers

\* Taking out the entry of a key leaves entries that were there.
LEMMA OthersWereThere ==
    ASSUME cache \in Seq(Kept), NEW key
    PROVE  Others(key) \in Seq(Kept) /\ ToSet(Others(key)) \subseteq ToSet(cache)
<1>1. CASE ~Stored(key)
  BY <1>1 DEF Others
<1>2. CASE Stored(key)
  <2> DEFINE i == Place(key)
             rest == RemoveAt(cache, i)
  <2>1. i \in 1..Len(cache)
    BY <1>2 DEF Stored, Place
  <2> HIDE DEF i
  <2>2. /\ rest \in Seq(Kept) /\ Len(rest) = Len(cache) - 1
        /\ \A k \in 1..Len(rest) : rest[k] = IF k < i THEN cache[k] ELSE cache[k + 1]
    BY <2>1, RemovedFromQueue
  <2>3. Others(key) = rest
    BY <1>2 DEF Others, i
  <2> HIDE DEF rest
  <2>4. \A k \in 1..Len(rest) : \E j \in 1..Len(cache) : rest[k] = cache[j]
    BY <2>1, <2>2
  <2>5. DOMAIN rest = 1..Len(rest) /\ DOMAIN cache = 1..Len(cache)
    BY <2>2
  <2>6. ToSet(rest) \subseteq ToSet(cache)
    BY <2>4, <2>5 DEF ToSet
  <2> QED BY <2>2, <2>3, <2>6
<1> QED BY <1>1, <1>2

LEMMA AppendedElements ==
    ASSUME NEW S, NEW s \in Seq(S), NEW e \in S
    PROVE  Append(s, e) \in Seq(S) /\ ToSet(Append(s, e)) \subseteq ToSet(s) \union {e}
BY DEF ToSet

\* Looking into the cache brings nothing into it.
LEMMA GotWasThere ==
    ASSUME cache \in Seq(Kept), NEW key
    PROVE  Got(key) \in Seq(Kept) /\ ToSet(Got(key)) \subseteq ToSet(cache)
<1>1. Others(key) \in Seq(Kept) /\ ToSet(Others(key)) \subseteq ToSet(cache)
  BY OthersWereThere
<1>2. CASE TTL(key) <= 0 \/ Live(key) = {}
  BY <1>1, <1>2 DEF Got
<1>3. CASE ~(TTL(key) <= 0) /\ Live(key) # {}
  <2> DEFINE i == Place(key)
  <2>1. Got(key) = Append(Others(key), cache[i])
    BY <1>3 DEF Got
  <2>2. i \in DOMAIN cache
    BY <1>3 DEF Live, ToSet, Place
  <2> HIDE DEF i
  <2>3. cache[i] \in Kept /\ cache[i] \in ToSet(cache)
    BY <2>2 DEF ToSet
  <2> QED BY <1>1, <2>1, <2>3, AppendedElements
<1> QED BY <1>2, <1>3

LEMMA PutIsKept ==
    ASSUME cache \in Seq(Kept), clock \in Int, NEW key \in Keys
    PROVE  Put(key) \in Seq(Kept)
<1> DEFINE all == Append(Others(key), [key |-> key, at |-> clock])
           first == IF Len(all) > CacheLimit THEN Len(all) - CacheLimit + 1 ELSE 1
<1>1. all \in Seq(Kept)
  <2>1. Others(key) \in Seq(Kept)
    BY OthersWereThere
  <2>2. [key |-> key, at |-> clock] \in Kept
    BY DEF Kept
  <2> QED BY <2>1, <2>2
<1> HIDE DEF all
<1>2. first \in Nat /\ first >= 1
  BY <1>1
<1> HIDE DEF first
<1>3. SubSeq(all, first, Len(all)) \in Seq(Kept)
  BY <1>1, <1>2
<1> QED BY <1>3 DEF Put, all, first

\* An answer that is fresh when it is given stays what it is.
LEMMA AnswersStay ==
    ASSUME CallsOK, FreshAnswers, NEW h \in Calls, NEW r, TurnsTo(h, r),
           r.pc = "answered" => (r.read >= 0 => r.at - r.read <= TTL(r.key))
    PROVE  FreshAnswers'
<1>1. \A g \in Calls : asked'[g] = IF g = h THEN r ELSE asked[g]
  BY DEF CallsOK, TurnsTo
<1> QED BY <1>1 DEF FreshAnswers, Stands, TTL

\* A step that brings nothing into the cache, of a call that finds nothing there.
LEMMA NothingAdded ==
    ASSUME CallsOK, AskedOnce, NEW h \in Calls, NEW r, TurnsTo(h, r),
           ToSet(cache') \subseteq ToSet(cache), clock' = clock,
           r.pc \in Holding /\ r.key[1] = "search" => Live(r.key) = {}
    PROVE  AskedOnce'
<1>1. \A g \in Calls : asked'[g] = IF g = h THEN r ELSE asked[g]
  BY DEF CallsOK, TurnsTo
<1>2. \A key : Live(key)' \subseteq Live(key)
  BY DEF Live, TTL
<1> QED BY <1>1, <1>2 DEF AskedOnce

\* The holder of the lock ends: no other call holds it.
LEMMA NobodyAsks ==
    ASSUME TurnInv, NEW h \in Calls, asked[h].pc \in Holding, NEW r, TurnsTo(h, r), r.pc \notin Holding
    PROVE  AskedOnce'
<1>1. \A g \in Calls : asked'[g] = IF g = h THEN r ELSE asked[g]
  BY DEF TurnInv, CallsOK, TurnsTo
<1>2. \A g \in Calls : asked[g].pc \in Holding => g = h
  BY Holder
<1> QED BY <1>1, <1>2 DEF AskedOnce

LEMMA AskAnswers ==
    ASSUME AnswerInv, NEW h \in Calls, NEW key \in Keys, Ask(h, key)
    PROVE  cache' \in Seq(Kept) /\ AskedOnce' /\ FreshAnswers'
<1>1. CallsOK /\ cache \in Seq(Kept) /\ AskedOnce /\ FreshAnswers
  BY DEF AnswerInv, TurnInv
<1>2. cache' \in Seq(Kept) /\ ToSet(cache') \subseteq ToSet(cache) /\ clock' = clock
  BY <1>1, GotWasThere DEF Ask
<1>3. PICK r : /\ TurnsTo(h, r) /\ r.pc \notin Holding
               /\ r.pc = "answered" => (r.read >= 0 => r.at - r.read <= TTL(r.key))
  <2>1. CASE \E e \in Live(key) : TurnsTo(h, Returned(key, e.at))
    <3>1. PICK e \in Live(key) : TurnsTo(h, Returned(key, e.at))
      BY <2>1
    <3>2. clock - e.at <= TTL(key)
      BY DEF Live
    <3> QED BY <3>1, <3>2 DEF Returned, Holding
  <2>2. CASE TurnsTo(h, [pc |-> "queued", key |-> key, step |-> "page", tries |-> 0, wake |-> 0])
    BY <2>2 DEF Holding
  <2> QED BY <2>1, <2>2 DEF Ask
<1> QED BY <1>1, <1>2, <1>3, NothingAdded, AnswersStay

LEMMA LockedAnswers ==
    ASSUME AnswerInv, NEW h \in Calls, Locked(h)
    PROVE  cache' \in Seq(Kept) /\ AskedOnce' /\ FreshAnswers'
<1> DEFINE key == asked[h].key
           found == IF key[1] = "search" THEN Live(key) ELSE {}
<1>1. CallsOK /\ cache \in Seq(Kept) /\ AskedOnce /\ FreshAnswers
  BY DEF AnswerInv, TurnInv
<1>2. cache' \in Seq(Kept) /\ ToSet(cache') \subseteq ToSet(cache) /\ clock' = clock
  BY <1>1, GotWasThere DEF Locked
<1>3. PICK r : /\ TurnsTo(h, r)
               /\ r.pc \in Holding /\ r.key[1] = "search" => Live(r.key) = {}
               /\ r.pc = "answered" => (r.read >= 0 => r.at - r.read <= TTL(r.key))
  <2>1. CASE found = {}
    <3> DEFINE n == [asked[h] EXCEPT !.pc = "waits"]
    <3>1. asked[h] \in Under
      BY <1>1, PlaceTells DEF Locked, Stands
    <3>2. n.pc = "waits" /\ n.key = key
      BY <3>1 DEF Under
    <3>3. TurnsTo(h, n)
      BY <2>1 DEF Locked, Goto
    <3> HIDE DEF n
    <3> QED BY <2>1, <3>2, <3>3
  <2>2. CASE found # {}
    <3>1. PICK e \in found : Return(h, e.at)
      BY <2>2 DEF Locked
    <3>2. clock - e.at <= TTL(key)
      BY <3>1 DEF Live
    <3> QED BY <3>1, <3>2 DEF Return, Returned, Holding
  <2> QED BY <2>1, <2>2
<1> QED BY <1>1, <1>2, <1>3, NothingAdded, AnswersStay

\* What the holder of the lock does, and what the site answers it.
LEMMA OwnTurnAnswers ==
    ASSUME AnswerInv, NEW h \in Calls,
           WaitTurn(h) \/ Started(h) \/ SearchPage(h) \/ GetPage(h) \/ Availability(h)
    PROVE  cache' \in Seq(Kept) /\ AskedOnce' /\ FreshAnswers'
<1>1. CallsOK /\ cache \in Seq(Kept) /\ AskedOnce /\ FreshAnswers /\ TurnInv /\ clock \in Int
  BY DEF AnswerInv, TurnInv, ClockOK
<1>2. asked[h].pc \in Holding
  BY DEF WaitTurn, Started, SearchPage, GetPage, Availability, Stands, Holding
<1>3. asked[h] \in Under /\ asked[h].key \in Keys
  BY <1>1, <1>2, PlaceTells
<1>4. CASE Known(h)
  <2>1. TurnsTo(h, Returned(asked[h].key, clock)) /\ cache' = Put(asked[h].key)
    BY <1>4 DEF Known, Return
  <2> DEFINE r == Returned(asked[h].key, clock)
  <2>2. r.pc = "answered" /\ r.pc \notin Holding /\ r.at - r.read <= TTL(r.key)
    BY <1>1 DEF Returned, Holding, TTL
  <2> HIDE DEF r
  <2>3. cache' \in Seq(Kept)
    BY <1>1, <1>3, <2>1, PutIsKept
  <2>4. TurnsTo(h, r)
    BY <2>1 DEF r
  <2> QED BY <1>1, <1>2, <2>2, <2>3, <2>4, NobodyAsks, AnswersStay
<1>5. CASE Unavailable(h)
  <2> DEFINE r == Returned(asked[h].key, -1)
  <2>1. TurnsTo(h, r) /\ cache' = cache
    BY <1>5 DEF Unavailable, Return
  <2>2. r.pc \notin Holding /\ ~(r.read >= 0)
    BY DEF Returned, Holding
  <2> HIDE DEF r
  <2> QED BY <1>1, <1>2, <2>1, <2>2, NobodyAsks, AnswersStay
<1>6. CASE \E r \in Under : TurnsTo(h, r) /\ r.key = asked[h].key /\ UNCHANGED <<clock, cache>>
  <2>1. PICK r \in Under : TurnsTo(h, r) /\ r.key = asked[h].key /\ UNCHANGED <<clock, cache>>
    BY <1>6
  <2>2. r.key[1] = "search" => Live(r.key) = {}
    BY <1>1, <1>2, <2>1 DEF AskedOnce
  <2>3. r.pc # "answered"
    BY <2>1 DEF Under, Holding
  <2> QED BY <1>1, <2>1, <2>2, <2>3, NothingAdded, AnswersStay
<1>7. ASSUME WaitTurn(h) PROVE \E r \in Under : TurnsTo(h, r) /\ r.key = asked[h].key /\ UNCHANGED <<clock, cache>>
  <2>1. Wakes \in Int
    BY <1>1 DEF Wakes, TurnInv, ClockOK
  <2>2. [asked[h] EXCEPT !.pc = "sleeps", !.wake = Wakes] \in Under
    BY <1>3, <2>1 DEF Under, Holding
  <2> QED BY <1>3, <1>7, <2>2 DEF WaitTurn, Under
<1>8. ASSUME Started(h) PROVE \E r \in Under : TurnsTo(h, r) /\ r.key = asked[h].key /\ UNCHANGED <<clock, cache>>
  <2>1. [asked[h] EXCEPT !.pc = asked[h].step] \in Under
    BY <1>3 DEF Under, Holding
  <2> QED BY <1>3, <1>8, <2>1 DEF Started, Goto, Under
<1>9. ASSUME Again(h) PROVE \E r \in Under : TurnsTo(h, r) /\ r.key = asked[h].key /\ UNCHANGED <<clock, cache>>
  <2>1. [asked[h] EXCEPT !.pc = "waits", !.tries = 1] \in Under
    BY <1>3 DEF Under, Holding
  <2> QED BY <1>3, <1>9, <2>1 DEF Again, Under
<1>10. ASSUME Proceed(h) PROVE \E r \in Under : TurnsTo(h, r) /\ r.key = asked[h].key /\ UNCHANGED <<clock, cache>>
  <2>1. [asked[h] EXCEPT !.pc = "availability", !.step = "availability", !.tries = 0] \in Under
    BY <1>3 DEF Under, Holding
  <2> QED BY <1>3, <1>10, <2>1 DEF Proceed, Under
<1> QED BY <1>4, <1>5, <1>6, <1>7, <1>8, <1>9, <1>10 DEF SearchPage, GetPage, Availability

LEMMA CancelledAnswers ==
    ASSUME AnswerInv, NEW h \in Calls, Cancelled(h)
    PROVE  cache' \in Seq(Kept) /\ AskedOnce' /\ FreshAnswers'
<1>1. CallsOK /\ cache \in Seq(Kept) /\ AskedOnce /\ FreshAnswers
  BY DEF AnswerInv, TurnInv
<1> DEFINE r == [pc |-> "cancelled"]
<1>2. TurnsTo(h, r) /\ UNCHANGED <<clock, cache>>
  BY DEF Cancelled
<1>3. r.pc # "answered" /\ r.pc \notin Holding
  BY DEF Holding
<1> HIDE DEF r
<1> QED BY <1>1, <1>2, <1>3, NothingAdded, AnswersStay

\* With time entries only become too old.
LEMMA PassesAnswers ==
    ASSUME AnswerInv, Passes
    PROVE  cache' \in Seq(Kept) /\ AskedOnce' /\ FreshAnswers'
<1>1. cache \in Seq(Kept) /\ AskedOnce /\ FreshAnswers /\ clock \in Int
  BY DEF AnswerInv, TurnInv, ClockOK
<1>2. ASSUME NEW key, NEW e \in Live(key)' PROVE e \in Live(key)
  <2>1. clock' = clock + 1 /\ cache' = cache
    BY DEF Passes
  <2>2. e \in ToSet(cache) /\ e.key = key /\ TTL(key) > 0 /\ clock' - e.at <= TTL(key)
    <3>1. Live(key)' = {x \in ToSet(cache') : x.key = key /\ TTL(key) > 0 /\ clock' - x.at <= TTL(key)}
      BY DEF Live, TTL
    <3>2. e \in ToSet(cache') /\ e.key = key /\ TTL(key) > 0 /\ clock' - e.at <= TTL(key)
      BY <3>1
    <3> QED BY <2>1, <3>2 DEF ToSet
  <2>3. e.at \in Int
    <3>1. PICK k \in DOMAIN cache : e = cache[k]
      BY <2>2 DEF ToSet
    <3>2. e \in Kept
      BY <1>1, <3>1
    <3> QED BY <3>2 DEF Kept
  <2>4. TTL(key) \in Int
    BY DEF TTL
  <2>5. clock - e.at <= TTL(key)
    BY <1>1, <2>1, <2>2, <2>3, <2>4
  <2> QED BY <2>2, <2>5 DEF Live
<1> QED BY <1>1, <1>2 DEF Passes, AskedOnce, FreshAnswers, Stands

LEMMA AnswerInvariant == OpacSpec => []AnswerInv
<1>1. OpacInit => AnswerInv
  <2> SUFFICES ASSUME OpacInit PROVE AnswerInv
    OBVIOUS
  <2>1. \A h \in Calls : asked[h].pc = "idle"
    BY DEF OpacInit, NotAsked
  <2>2. TurnInv
    BY InitTurnInv
  <2>3. cache \in Seq(Kept)
    BY DEF OpacInit
  <2> QED BY <2>1, <2>2, <2>3 DEF AnswerInv, AskedOnce, FreshAnswers, Holding, Stands
<1>2. AnswerInv /\ [OpacNext]_opacVars => AnswerInv'
  <2> SUFFICES ASSUME AnswerInv, [OpacNext]_opacVars PROVE cache' \in Seq(Kept) /\ AskedOnce' /\ FreshAnswers'
    BY NextTurnInv DEF AnswerInv
  <2>1. CASE UNCHANGED opacVars
    BY <2>1 DEF opacVars, AnswerInv, AskedOnce, FreshAnswers, Live, TTL, Stands
  <2> QED BY <2>1, AskAnswers, LockedAnswers, OwnTurnAnswers, CancelledAnswers, PassesAnswers DEF OpacNext
<1> QED BY <1>1, <1>2, PTL DEF OpacSpec

-----------------------------------------------------------------------------
(* The theorems *)

\* One call at a time has the lock and talks to the site, however many wait, fail or are cancelled.
THEOREM CallsTakeTurns == OpacSpec => []OneAtATime
<1>1. TurnInv => OneAtATime
  BY DEF TurnInv, HeadHolds, OneAtATime
<1> QED BY <1>1, TurnInvariant, PTL

\* Who sleeps until its page may start wakes no earlier than an interval after the last page.
THEOREM SleepsLongEnough == OpacSpec => []TurnsSpaced
<1>1. TurnInv => TurnsSpaced
  BY DEF TurnInv
<1> QED BY <1>1, TurnInvariant, PTL

\* Pages of the site start min_interval apart.
PagesApart == [][lastStarted' # lastStarted => lastStarted' >= lastStarted + MinInterval]_opacVars
THEOREM PagesStartApart == OpacSpec => PagesApart
<1>1. ASSUME TurnInv, [OpacNext]_opacVars
      PROVE  [lastStarted' # lastStarted => lastStarted' >= lastStarted + MinInterval]_opacVars
  <2> SUFFICES ASSUME OpacNext, lastStarted' # lastStarted
               PROVE  lastStarted' >= lastStarted + MinInterval
    BY <1>1
  <2>1. PICK h \in Calls : Started(h)
    BY DEF OpacNext, Ask, Locked, WaitTurn, SearchPage, GetPage, Availability, Cancelled, Passes,
           Proceed, Again, Known, Unavailable
  <2>2. asked[h].wake >= lastStarted + MinInterval /\ clock >= asked[h].wake /\ lastStarted' = clock
    BY <1>1, <2>1 DEF TurnInv, TurnsSpaced, Started, Stands
  <2>3. asked[h].wake \in Int /\ clock \in Int /\ lastStarted \in Int
    <3>1. CallsOK /\ ClockOK
      BY <1>1 DEF TurnInv
    <3>2. asked[h] \in Under
      BY <2>1, <3>1, PlaceTells DEF Started, Stands, Holding
    <3> QED BY <3>1, <3>2 DEF ClockOK, Under
  <2> QED BY <1>1, <2>2, <2>3
<1> QED BY <1>1, TurnInvariant, PTL DEF OpacSpec, PagesApart

\* The service asks the catalogue in turn: one call at a time, its pages an interval apart, no search for
\* what the cache still has, and no answer from a state of the catalogue older than its kind may be.
THEOREM AskedAndAnsweredInTurn == OpacSpec => []AskedInTurn
<1>1. TurnInv => OneAtATime /\ TurnsSpaced
  BY DEF TurnInv, HeadHolds, OneAtATime
<1>2. AnswerInv => AskedInTurn
  BY <1>1 DEF AnswerInv, AskedInTurn
<1> QED BY <1>2, AnswerInvariant, PTL

(***************************************************************************)
(* Reads in background tabs (OfficialReads).                               *)
(***************************************************************************)

ReadState ==
    [kind : {"none", "search", "item", "browse", "discovery", "browser", "section", "both", "support",
             "moodle", "cast", "alumni", "castSearch", "career"},
     pc : {"idle", "ready", "shown", "submit", "wait", "read", "find", "again", "inject"},
     target : Targets \cup {"none"}, left : {0, 1}]
TabPages == Targets \cup {"none", "gone", "blank", "entry", "login", "other"}
TabState == [page : TabPages, loading : BOOLEAN, next : TabPages]
AnswerState ==
    [kind : {"none", "search", "item", "browse", "discovery", "browser", "section", "both", "support",
             "moodle", "cast", "alumni", "castSearch", "career"},
     target : Targets \cup {"none", "target"}, page : TabPages \cup {"target"}]

OfficialTypeOK ==
    /\ read \in [Readers -> ReadState]
    /\ readTab \in [Readers -> TabState]
    /\ student \in [Sites -> {"none", "login", "other", "target"}]
    /\ reads \in Nat
    /\ answers \in [Readers -> AnswerState]

\* The reads that wait for the address of what they were asked for.
Awaited == {"search", "item", "section", "both"}

\* A read that waits for its address, its tab and its last answer.  Once a page other than the
\* entry page is complete there, no navigation is outstanding, so the one that was waited for stays.
OnItsWay(x, y) ==
    x.kind \in Awaited /\ x.target # "entry" =>
        /\ x.pc \in {"ready", "submit", "wait", "read"}
        /\ x.kind = "item" => x.pc \in {"wait", "read"} /\ x.left = 0
        /\ x.pc = "wait" /\ ~y.loading /\ y.page # "entry" => y.next = "none"
        /\ x.pc = "read" => ~y.loading /\ y.next = "none" /\ y.page # "entry"
AsAsked(z) == z.kind \in Awaited => z.page = z.target

OfficialInv ==
    /\ OfficialTypeOK
    /\ \A r \in Readers : OnItsWay(read[r], readTab[r]) /\ AsAsked(answers[r])

\* A step of one request, or of its tab.
LEMMA OneReader ==
    ASSUME OfficialInv, NEW r \in Readers,
           NEW x \in ReadState, NEW y \in TabState, NEW z \in AnswerState, OnItsWay(x, y), AsAsked(z),
           read' = [read EXCEPT ![r] = x], readTab' = [readTab EXCEPT ![r] = y],
           answers' = [answers EXCEPT ![r] = z], reads' \in Nat,
           student' \in [Sites -> {"none", "login", "other", "target"}]
    PROVE  OfficialInv'
<1>1. OfficialTypeOK'
    BY DEF OfficialInv, OfficialTypeOK
<1>2. ASSUME NEW s \in Readers
      PROVE  (OnItsWay(read[s], readTab[s]) /\ AsAsked(answers[s]))'
    <2>1. CASE s = r
        <3>1. read'[s] = x /\ readTab'[s] = y /\ answers'[s] = z
            BY <2>1 DEF OfficialInv, OfficialTypeOK
        <3>. QED BY <3>1 DEF OnItsWay, AsAsked
    <2>2. CASE s # r
        <3>1. read'[s] = read[s] /\ readTab'[s] = readTab[s] /\ answers'[s] = answers[s]
            BY <2>2 DEF OfficialInv, OfficialTypeOK
        <3>. QED BY <3>1 DEF OfficialInv, OnItsWay, AsAsked
    <2>. QED BY <2>1, <2>2
<1>. QED BY <1>1, <1>2 DEF OfficialInv

\* What the invariant says of one request, for a step that may leave parts of it alone.
LEMMA ReaderFacts ==
    ASSUME OfficialInv, NEW r \in Readers
    PROVE  /\ read[r] \in ReadState /\ readTab[r] \in TabState /\ answers[r] \in AnswerState
           /\ OnItsWay(read[r], readTab[r]) /\ AsAsked(answers[r])
           /\ read = [read EXCEPT ![r] = read[r]] /\ readTab = [readTab EXCEPT ![r] = readTab[r]]
           /\ answers = [answers EXCEPT ![r] = answers[r]]
           /\ reads \in Nat /\ student \in [Sites -> {"none", "login", "other", "target"}]
BY DEF OfficialInv, OfficialTypeOK

\* A read that is over leaves nothing to say of it.
LEMMA OverStep ==
    ASSUME OfficialInv, NEW r \in Readers, NEW z \in AnswerState, AsAsked(z), Over(r),
           answers' = [answers EXCEPT ![r] = z], reads' \in Nat,
           student' \in [Sites -> {"none", "login", "other", "target"}]
    PROVE  OfficialInv'
<1>1. NoRead \in ReadState /\ NoTab \in TabState
    BY DEF NoRead, NoTab, ReadState, TabState, TabPages
<1>2. OnItsWay(NoRead, NoTab)
    BY DEF NoRead, OnItsWay, Awaited
<1>. QED BY <1>1, <1>2, OneReader DEF Over

\* The browser and the student.
LEMMA BrowserStep ==
    ASSUME OfficialInv, NEW r \in Readers, TabArrives(r) \/ TabLeaves(r) \/ TabCloses(r)
    PROVE  OfficialInv'
<1>0. /\ read[r] \in ReadState /\ readTab[r] \in TabState /\ answers[r] \in AnswerState
      /\ OnItsWay(read[r], readTab[r]) /\ AsAsked(answers[r])
      /\ read = [read EXCEPT ![r] = read[r]] /\ answers = [answers EXCEPT ![r] = answers[r]]
      /\ reads \in Nat /\ student \in [Sites -> {"none", "login", "other", "target"}]
    BY ReaderFacts
<1>1. /\ read' = [read EXCEPT ![r] = read[r]] /\ answers' = [answers EXCEPT ![r] = answers[r]]
      /\ reads' \in Nat /\ student' \in [Sites -> {"none", "login", "other", "target"}]
    BY <1>0 DEF TabArrives, TabLeaves, TabCloses
<1>2. ASSUME NEW y \in TabState, readTab' = [readTab EXCEPT ![r] = y], OnItsWay(read[r], y)
      PROVE  OfficialInv'
    BY <1>0, <1>1, <1>2, OneReader
<1>3. CASE TabArrives(r)
    <2>1. PICK shown \in {readTab[r].next, "login", "other"} :
              readTab' = [readTab EXCEPT ![r] = [page |-> shown, loading |-> FALSE, next |-> "none"]]
        BY <1>3 DEF TabArrives
    <2>2. PICK y : y = [page |-> shown, loading |-> FALSE, next |-> "none"]
        OBVIOUS
    <2>3. y \in TabState
        BY <1>0, <2>2 DEF TabState, TabPages
    <2>4. OnItsWay(read[r], y)
        BY <1>0, <1>3, <2>2 DEF OnItsWay, TabArrives
    <2>. QED BY <1>2, <2>1, <2>2, <2>3, <2>4
<1>4. CASE TabLeaves(r)
    <2>1. PICK y : y = [readTab[r] EXCEPT !.loading = TRUE]
        OBVIOUS
    <2>2. y \in TabState /\ y.loading /\ y.page = readTab[r].page /\ y.next = readTab[r].next
        BY <1>0, <2>1 DEF TabState
    <2>3. readTab' = [readTab EXCEPT ![r] = y]
        BY <1>4, <2>1 DEF TabLeaves
    <2>4. OnItsWay(read[r], y)
        BY <1>0, <1>4, <2>2 DEF OnItsWay, TabLeaves
    <2>. QED BY <1>2, <2>2, <2>3, <2>4
<1>5. CASE TabCloses(r)
    <2>1. PICK y : y = [NoTab EXCEPT !.page = "gone"]
        OBVIOUS
    <2>2. y \in TabState /\ ~y.loading /\ y.page = "gone" /\ y.next = "none"
        BY <2>1 DEF NoTab, TabState, TabPages
    <2>3. readTab' = [readTab EXCEPT ![r] = y]
        BY <1>5, <2>1 DEF TabCloses
    <2>4. OnItsWay(read[r], y)
        BY <1>0, <2>2 DEF OnItsWay
    <2>. QED BY <1>2, <2>2, <2>3, <2>4
<1>. QED BY <1>3, <1>4, <1>5

\* A new tab, on its way to the first page of a read.
LEMMA OpenedFacts ==
    ASSUME NEW kind, NEW t \in Targets
    PROVE  /\ OpenedAt(kind, t) \in TabState
           /\ OpenedAt(kind, t).loading /\ OpenedAt(kind, t).page = "blank"
BY DEF OpenedAt, First, TabState, TabPages

LEMMA OpenStep ==
    ASSUME OfficialInv, NEW r \in Readers, NEW t \in Targets,
           NEW kind \in {"search", "item", "browse", "discovery", "browser", "section", "both"},
           Open(r, kind, t)
    PROVE  OfficialInv'
<1>0. /\ answers[r] \in AnswerState /\ AsAsked(answers[r]) /\ answers = [answers EXCEPT ![r] = answers[r]]
      /\ reads \in Nat /\ student \in [Sites -> {"none", "login", "other", "target"}]
    BY ReaderFacts
<1>1. PICK x : x = [kind |-> kind, pc |-> IF kind = "item" THEN "wait" ELSE "ready", target |-> t,
                    left |-> IF kind = "both" THEN 1 ELSE 0]
    OBVIOUS
<1>2. /\ x \in ReadState /\ x.kind = kind /\ x.pc = (IF kind = "item" THEN "wait" ELSE "ready")
      /\ x.left = (IF kind = "both" THEN 1 ELSE 0)
    BY <1>1 DEF ReadState
<1>3. PICK y : y = OpenedAt(kind, t)
    OBVIOUS
<1>4. y \in TabState /\ y.loading
    BY <1>3, OpenedFacts
<1>5. OnItsWay(x, y)
    BY <1>2, <1>4 DEF OnItsWay, Awaited
<1>6. /\ read' = [read EXCEPT ![r] = x] /\ readTab' = [readTab EXCEPT ![r] = y]
      /\ answers' = [answers EXCEPT ![r] = answers[r]] /\ reads' \in Nat
      /\ student' \in [Sites -> {"none", "login", "other", "target"}]
    BY <1>0, <1>1, <1>3 DEF Open
<1>. QED BY <1>0, <1>2, <1>4, <1>5, <1>6, OneReader

\* A request goes on to its next step.
LEMMA GoesStep ==
    ASSUME OfficialInv, NEW r \in Readers, NEW y \in TabState,
           NEW pc \in {"ready", "shown", "submit", "wait", "read", "find", "again", "inject"},
           ReadGoes(r, pc), readTab' = [readTab EXCEPT ![r] = y], reads' = reads, answers' = answers,
           student' \in [Sites -> {"none", "login", "other", "target"}],
           \A x \in ReadState :
               (x.kind = read[r].kind /\ x.target = read[r].target /\ x.left = read[r].left /\ x.pc = pc)
                   => OnItsWay(x, y)
    PROVE  OfficialInv'
<1>1. PICK x : x = [read[r] EXCEPT !.pc = pc]
    OBVIOUS
<1>2. /\ x \in ReadState /\ x.kind = read[r].kind /\ x.target = read[r].target
      /\ x.left = read[r].left /\ x.pc = pc
    BY <1>1, ReaderFacts DEF ReadState
<1>3. read' = [read EXCEPT ![r] = x]
    BY <1>1 DEF ReadGoes
<1>4. /\ answers[r] \in AnswerState /\ AsAsked(answers[r]) /\ reads' \in Nat
      /\ answers' = [answers EXCEPT ![r] = answers[r]]
    BY ReaderFacts
<1>. QED BY <1>2, <1>3, <1>4, OneReader

LEMMA TabReadyStep ==
    ASSUME OfficialInv, NEW r \in Readers, TabReady(r)
    PROVE  OfficialInv'
<1>0. /\ read[r] \in ReadState /\ readTab[r] \in TabState /\ OnItsWay(read[r], readTab[r])
      /\ readTab = [readTab EXCEPT ![r] = readTab[r]]
      /\ student \in [Sites -> {"none", "login", "other", "target"}]
    BY ReaderFacts
<1>1. PICK pc : pc = IF read[r].pc = "ready" /\ read[r].kind \in FormKinds THEN "submit" ELSE "read"
    OBVIOUS
<1>2. ASSUME NEW x \in ReadState, x.kind = read[r].kind, x.target = read[r].target, x.left = read[r].left, x.pc = pc
      PROVE  OnItsWay(x, readTab[r])
    BY <1>0, <1>1, <1>2 DEF TabReady, OnItsWay, Awaited, FormKinds
<1>3. /\ ReadGoes(r, pc) /\ pc \in {"submit", "read"} /\ readTab' = readTab /\ reads' = reads /\ answers' = answers
      /\ student' = student
    BY <1>1 DEF TabReady
<1>. QED BY <1>0, <1>2, <1>3, GoesStep

LEMMA SubmitFormStep ==
    ASSUME OfficialInv, NEW r \in Readers, SubmitForm(r)
    PROVE  OfficialInv'
<1>0. /\ read[r] \in ReadState /\ readTab[r] \in TabState /\ OnItsWay(read[r], readTab[r])
      /\ student \in [Sites -> {"none", "login", "other", "target"}]
    BY ReaderFacts
<1>1. PICK pc : pc = IF read[r].kind = "discovery" THEN "shown" ELSE "wait"
    OBVIOUS
<1>2. PICK y : y = [readTab[r] EXCEPT !.next = read[r].target]
    OBVIOUS
<1>3. y \in TabState /\ y.page = "entry" /\ readTab' = [readTab EXCEPT ![r] = y]
    <2>1. read[r].target \in TabPages /\ readTab[r].page = "entry"
        BY <1>0 DEF SubmitForm, ReadState, TabPages
    <2>2. readTab' = [readTab EXCEPT ![r] = y]
        BY <1>2 DEF SubmitForm
    <2>. QED BY <1>0, <1>2, <2>1, <2>2 DEF TabState
<1>4. ASSUME NEW x \in ReadState, x.kind = read[r].kind, x.target = read[r].target, x.left = read[r].left, x.pc = pc
      PROVE  OnItsWay(x, y)
    BY <1>0, <1>1, <1>3, <1>4 DEF SubmitForm, OnItsWay, Awaited
<1>5. ReadGoes(r, pc) /\ pc \in {"shown", "wait"} /\ reads' = reads /\ answers' = answers /\ student' = student
    BY <1>1 DEF SubmitForm
<1>6. student' \in [Sites -> {"none", "login", "other", "target"}]
    BY <1>0, <1>5
<1>7. \A x \in ReadState :
          (x.kind = read[r].kind /\ x.target = read[r].target /\ x.left = read[r].left /\ x.pc = pc)
              => OnItsWay(x, y)
    BY <1>4
<1>8. CASE pc = "shown"
    BY <1>3, <1>5, <1>6, <1>7, <1>8, GoesStep
<1>9. CASE pc = "wait"
    BY <1>3, <1>5, <1>6, <1>7, <1>9, GoesStep
<1>. QED BY <1>5, <1>8, <1>9

LEMMA NavigatedStep ==
    ASSUME OfficialInv, NEW r \in Readers, Navigated(r)
    PROVE  OfficialInv'
<1>0. /\ read[r] \in ReadState /\ readTab[r] \in TabState /\ OnItsWay(read[r], readTab[r])
      /\ readTab = [readTab EXCEPT ![r] = readTab[r]]
      /\ student \in [Sites -> {"none", "login", "other", "target"}]
    BY ReaderFacts
<1>1. ASSUME NEW x \in ReadState, x.kind = read[r].kind, x.target = read[r].target, x.left = read[r].left, x.pc = "read"
      PROVE  OnItsWay(x, readTab[r])
    BY <1>0, <1>1 DEF Navigated, OnItsWay, Awaited
<1>2. ReadGoes(r, "read") /\ readTab' = readTab /\ reads' = reads /\ answers' = answers /\ student' = student
    BY DEF Navigated
<1>. QED BY <1>0, <1>1, <1>2, GoesStep

\* What a read of an awaited kind accepts is the page of its target.
LEMMA ReadPageStep ==
    ASSUME OfficialInv, NEW r \in Readers, ReadPage(r)
    PROVE  OfficialInv'
<1>0. /\ read[r] \in ReadState /\ readTab[r] \in TabState /\ OnItsWay(read[r], readTab[r])
      /\ reads \in Nat /\ student \in [Sites -> {"none", "login", "other", "target"}]
    BY ReaderFacts
<1>1. PICK z : z = [kind |-> read[r].kind, target |-> read[r].target, page |-> readTab[r].page]
    OBVIOUS
<1>2. z \in AnswerState /\ z.kind = read[r].kind /\ z.target = read[r].target /\ z.page = readTab[r].page
    BY <1>0, <1>1 DEF AnswerState, ReadState, TabState
<1>3. AsAsked(z)
    BY <1>0, <1>2 DEF ReadPage, Readable, OnItsWay, AsAsked, Awaited
<1>4. /\ answers' = [answers EXCEPT ![r] = z] /\ reads' \in Nat
      /\ student' \in [Sites -> {"none", "login", "other", "target"}]
    BY <1>0, <1>1 DEF ReadPage
<1>5. CASE read[r].left = 0
    BY <1>2, <1>3, <1>4, <1>5, OverStep DEF ReadPage
<1>6. CASE read[r].left # 0
    <2>1. PICK x : x = [read[r] EXCEPT !.pc = "ready", !.left = @ - 1]
        OBVIOUS
    <2>2. x \in ReadState /\ x.pc = "ready" /\ x.kind = read[r].kind /\ x.target = read[r].target
        <3>1. read[r].left = 1 /\ read[r].left - 1 = 0
            BY <1>0, <1>6 DEF ReadState
        <3>2. x = [read[r] EXCEPT !.pc = "ready", !.left = 0]
            BY <2>1, <3>1
        <3>. QED BY <1>0, <3>2 DEF ReadState
    <2>3. PICK y : y = OpenedAt(read[r].kind, read[r].target)
        OBVIOUS
    <2>4. y \in TabState
        BY <1>0, <2>3 DEF OpenedAt, First, TabState, TabPages, ReadState
    <2>5. OnItsWay(x, y)
        BY <1>0, <1>6, <2>2 DEF OnItsWay
    <2>6. read' = [read EXCEPT ![r] = x] /\ readTab' = [readTab EXCEPT ![r] = y]
        BY <1>6, <2>1, <2>3 DEF ReadPage
    <2>. QED BY <1>2, <1>3, <1>4, <2>2, <2>4, <2>5, <2>6, OneReader
<1>. QED BY <1>5, <1>6

\* Reads in the student's own tab, which wait for no address.
LEMMA AskOwnStep ==
    ASSUME OfficialInv, NEW r \in Readers,
           NEW kind \in {"moodle", "cast", "alumni", "castSearch", "career"}, AskOwn(r, kind)
    PROVE  OfficialInv'
<1>0. /\ readTab[r] \in TabState /\ readTab = [readTab EXCEPT ![r] = readTab[r]]
      /\ answers[r] \in AnswerState /\ AsAsked(answers[r]) /\ answers = [answers EXCEPT ![r] = answers[r]]
      /\ reads \in Nat /\ student \in [Sites -> {"none", "login", "other", "target"}]
    BY ReaderFacts
<1>1. PICK x : x = [NoRead EXCEPT !.kind = kind, !.pc = "find"]
    OBVIOUS
<1>2. x \in ReadState /\ x.kind = kind
    BY <1>1 DEF NoRead, ReadState
<1>3. OnItsWay(x, readTab[r])
    BY <1>2 DEF OnItsWay, Awaited
<1>4. /\ read' = [read EXCEPT ![r] = x] /\ readTab' = [readTab EXCEPT ![r] = readTab[r]]
      /\ answers' = [answers EXCEPT ![r] = answers[r]] /\ reads' \in Nat
      /\ student' \in [Sites -> {"none", "login", "other", "target"}]
    BY <1>0, <1>1 DEF AskOwn
<1>. QED BY <1>0, <1>2, <1>3, <1>4, OneReader

\* A request in the student's tab is of none of the awaited kinds.
LEMMA NotAwaited ==
    ASSUME OfficialInv, NEW r \in Readers, read[r].pc \in {"find", "again", "inject"}
    PROVE  read[r].kind \in Awaited => read[r].target = "entry"
BY ReaderFacts DEF OnItsWay

LEMMA OwnTabStep ==
    ASSUME OfficialInv, NEW r \in Readers, FindOwnTab(r) \/ OpenEntry(r)
    PROVE  OfficialInv'
<1>0. /\ readTab[r] \in TabState /\ readTab = [readTab EXCEPT ![r] = readTab[r]]
      /\ answers[r] \in AnswerState /\ AsAsked(answers[r]) /\ answers = [answers EXCEPT ![r] = answers[r]]
      /\ reads \in Nat /\ student \in [Sites -> {"none", "login", "other", "target"}]
    BY ReaderFacts
<1>1. ASSUME NEW x \in ReadState, x.kind = read[r].kind, x.target = read[r].target
      PROVE  OnItsWay(x, readTab[r])
    BY <1>1, NotAwaited DEF FindOwnTab, OpenEntry, OnItsWay
<1>2. CASE FindOwnTab(r)
    <2>1. ReadGoes(r, "inject") /\ readTab' = readTab /\ reads' = reads /\ answers' = answers /\ student' = student
        BY <1>2 DEF FindOwnTab
    <2>. QED BY <1>0, <1>1, <2>1, GoesStep
<1>3. CASE OpenEntry(r)
    <2>1. /\ reads' = reads /\ answers' = answers /\ reads' \in Nat /\ answers' = [answers EXCEPT ![r] = answers[r]]
          /\ student' \in [Sites -> {"none", "login", "other", "target"}]
        BY <1>0, <1>3 DEF OpenEntry
    <2>2. CASE ReadGoes(r, "again") /\ UNCHANGED readTab
        BY <1>0, <1>1, <2>1, <2>2, GoesStep
    <2>3. CASE Over(r)
        BY <1>0, <2>1, <2>3, OverStep
    <2>. QED BY <1>3, <2>2, <2>3 DEF OpenEntry
<1>. QED BY <1>2, <1>3

LEMMA InjectReaderStep ==
    ASSUME OfficialInv, NEW r \in Readers, InjectReader(r)
    PROVE  OfficialInv'
<1>0. /\ read[r] \in ReadState /\ answers[r] \in AnswerState /\ AsAsked(answers[r])
      /\ answers = [answers EXCEPT ![r] = answers[r]]
      /\ reads \in Nat /\ student \in [Sites -> {"none", "login", "other", "target"}]
    BY ReaderFacts
<1>1. reads' \in Nat /\ student' \in [Sites -> {"none", "login", "other", "target"}]
    BY <1>0 DEF InjectReader
<1>2. CASE answers' = answers /\ Over(r)
    BY <1>0, <1>1, <1>2, OverStep
<1>3. CASE answers' = [answers EXCEPT ![r] = [kind |-> read[r].kind, target |-> "target", page |-> "target"]]
    <2>1. PICK z : z = [kind |-> read[r].kind, target |-> "target", page |-> "target"]
        OBVIOUS
    <2>2. z \in AnswerState /\ AsAsked(z) /\ answers' = [answers EXCEPT ![r] = z]
        BY <1>0, <1>3, <2>1 DEF AnswerState, ReadState, AsAsked
    <2>3. CASE Over(r)
        BY <1>1, <2>2, <2>3, OverStep
    <2>4. ASSUME NEW t \in Targets,
                 read' = [read EXCEPT ![r] = [kind |-> "support", pc |-> "ready", target |-> t, left |-> 0]],
                 readTab' = [readTab EXCEPT ![r] = OpenedAt("support", t)]
          PROVE  OfficialInv'
        <3>1. PICK x : x = [kind |-> "support", pc |-> "ready", target |-> t, left |-> 0]
            OBVIOUS
        <3>2. x \in ReadState /\ x.kind = "support"
            BY <3>1 DEF ReadState
        <3>3. PICK y : y = OpenedAt("support", t)
            OBVIOUS
        <3>4. y \in TabState
            BY <3>3, OpenedFacts
        <3>5. OnItsWay(x, y)
            BY <3>2 DEF OnItsWay, Awaited
        <3>. QED BY <1>1, <2>2, <2>4, <3>1, <3>2, <3>3, <3>4, <3>5, OneReader
    <2>. QED BY <1>2, <2>3, <2>4 DEF InjectReader
<1>. QED BY <1>2, <1>3 DEF InjectReader

LEMMA OfficialInductive == OfficialSpec => []OfficialInv
<1>1. OfficialInit => OfficialInv
    <2>1. NoRead \in ReadState /\ NoTab \in TabState /\ NoAnswer \in AnswerState
        BY DEF NoRead, NoTab, NoAnswer, ReadState, TabState, AnswerState, TabPages
    <2>2. OnItsWay(NoRead, NoTab) /\ AsAsked(NoAnswer)
        BY DEF NoRead, NoAnswer, OnItsWay, AsAsked, Awaited
    <2>. QED BY <2>1, <2>2 DEF OfficialInit, OfficialInv, OfficialTypeOK
<1>2. OfficialInv /\ [OfficialNext]_officialVars => OfficialInv'
    <2> SUFFICES ASSUME OfficialInv, [OfficialNext]_officialVars PROVE OfficialInv'
        OBVIOUS
    <2>1. CASE UNCHANGED officialVars
        BY <2>1 DEF officialVars, OfficialInv, OfficialTypeOK, OnItsWay, AsAsked
    <2>2. ASSUME NEW s \in Sites, StudentMoves(s)
          PROVE  OfficialInv'
        <3>1. student' \in [Sites -> {"none", "login", "other", "target"}]
            BY <2>2 DEF StudentMoves, OfficialInv, OfficialTypeOK
        <3>. QED BY <2>2, <3>1 DEF StudentMoves, OfficialInv, OfficialTypeOK, OnItsWay, AsAsked
    <2>3. ASSUME NEW r \in Readers,
                 \/ TabArrives(r) \/ TabLeaves(r) \/ TabCloses(r) \/ TabReady(r) \/ SubmitForm(r) \/ KeepForLogin(r)
                 \/ Navigated(r) \/ GiveUp(r) \/ ReadPage(r) \/ FindOwnTab(r) \/ OpenEntry(r) \/ InjectReader(r)
          PROVE  OfficialInv'
        <3>1. CASE KeepForLogin(r) \/ GiveUp(r)
            <4>1. Over(r) /\ student' = student /\ reads' = reads /\ answers' = answers
                BY <3>1 DEF KeepForLogin, GiveUp
            <4>2. /\ answers[r] \in AnswerState /\ AsAsked(answers[r])
                  /\ answers' = [answers EXCEPT ![r] = answers[r]]
                  /\ reads' \in Nat /\ student' \in [Sites -> {"none", "login", "other", "target"}]
                BY <4>1, ReaderFacts
            <4>. QED BY <4>1, <4>2, OverStep
        <3>. QED BY <2>3, <3>1, BrowserStep, TabReadyStep, SubmitFormStep, NavigatedStep, ReadPageStep,
                    OwnTabStep, InjectReaderStep
    <2>4. ASSUME NEW r \in Readers, NEW t \in Targets,
                 \/ CatalogSearch(r, t) \/ ItemRead(r, t) \/ CatalogBrowse(r, t) \/ DiscoverySearch(r, t)
                 \/ BrowserRead(r, t) \/ MyLibraryRead(r, t)
          PROVE  OfficialInv'
        BY <2>4, OpenStep DEF CatalogSearch, ItemRead, CatalogBrowse, DiscoverySearch, BrowserRead, MyLibraryRead
    <2>5. ASSUME NEW r \in Readers,
                 MoodleRead(r) \/ CastRead(r) \/ CastAlumniRead(r) \/ CastSearch(r) \/ CastCareerSearch(r)
          PROVE  OfficialInv'
        BY <2>5, AskOwnStep DEF MoodleRead, CastRead, CastAlumniRead, CastSearch, CastCareerSearch
    <2>6. CASE OfficialNext
        BY <2>2, <2>3, <2>4, <2>5, <2>6 DEF OfficialNext
    <2>. QED BY <2>1, <2>6
<1>. QED BY <1>1, <1>2, PTL DEF OfficialSpec

\* Every read is at a step of its kind, and every tab and answer is of its type.
THEOREM OfficialTypeCorrect == OfficialSpec => []OfficialTypeOK
<1>1. OfficialInv => OfficialTypeOK
    BY DEF OfficialInv
<1>. QED BY <1>1, OfficialInductive, PTL

\* Whatever the tabs show in between, the answer to a catalogue search, a record or a section of
\* My Library was read from the page of that query, record or section.
THEOREM TargetsAnswered == OfficialSpec => []AnswersItsTarget
<1>1. OfficialInv => AnswersItsTarget
    BY DEF OfficialInv, AnswersItsTarget, AsAsked, Awaited
<1>. QED BY <1>1, OfficialInductive, PTL

(***************************************************************************)
(* Reads in the tab a conversation is pinned to (ScombzReads).             *)
(***************************************************************************)

\* A call's local variables, and what a conversation is pinned to.
CallState ==
    [pc : {"idle", "identity", "pin", "tab", "page", "search"}, tab : ScombzTabs \cup {"none"}, gen : Nat,
     action : {"none", "list", "course", "search"}, at : Nat, end : Nat, hits : Nat, missed : Nat,
     partial : BOOLEAN]
PinState == [tab : ScombzTabs, gen : Nat] \cup {Unpinned}
PageState == [at : {"closed", "bare", "elsewhere", "scombz"}, gen : Nat, in : BOOLEAN]

\* A search is at a file of the course, or past the last of its batch.
InCourse(k) == 0 < k.at /\ k.end <= Cardinality(Links)

ScombzTypeOK ==
    /\ tabs \in [ScombzTabs -> PageState]
    /\ loads \in Nat
    /\ binding \in [ScombzConvs -> PinState]
    /\ call \in [ScombzConvs -> CallState]
    /\ \A c \in ScombzConvs :
        /\ call[c].pc # "idle" => call[c].tab \in ScombzTabs
        /\ call[c].pc = "search" => InCourse(call[c])
    /\ sources \in [ScombzConvs -> SUBSET Nat]

\* A pinned conversation has read of that generation only; a call that reads is about the generation
\* it found pinned, and there is no other as long as it goes on; and what was read since the last
\* pin is of one generation, pinned still or not.
SamePage(k, b, from) ==
    /\ b # Unpinned => from \subseteq {b.gen}
    /\ k.pc \in {"tab", "page", "search"} => from \subseteq {k.gen} /\ (b # Unpinned => b.gen = k.gen)
    /\ \E g : from \subseteq {g}

ScombzInv == ScombzTypeOK /\ \A c \in ScombzConvs : SamePage(call[c], binding[c], sources[c])

LEMMA PinnedTab ==
    ASSUME ScombzInv, NEW c \in ScombzConvs
    PROVE  /\ call[c] \in CallState /\ binding[c] \in PinState /\ sources[c] \in SUBSET Nat
           /\ SamePage(call[c], binding[c], sources[c])
           /\ call[c].pc # "idle"
                => call[c].tab \in ScombzTabs /\ tabs[call[c].tab] \in PageState
           /\ call[c].pc = "search" => InCourse(call[c])
BY DEF ScombzInv, ScombzTypeOK

LEMMA NothingCalled == NoCall \in CallState /\ NoCall.pc = "idle" /\ Unpinned \in PinState
BY DEF NoCall, CallState, Unpinned, PinState

\* One conversation's call, pin and reads change, and its tab may get a script.
LEMMA CallStep ==
    ASSUME ScombzInv, NEW c \in ScombzConvs, NEW k \in CallState, NEW b \in PinState,
           NEW from \in SUBSET Nat, SamePage(k, b, from),
           k.pc # "idle" => k.tab \in ScombzTabs, k.pc = "search" => InCourse(k),
           call' = [call EXCEPT ![c] = k], binding' = [binding EXCEPT ![c] = b],
           sources' = [sources EXCEPT ![c] = from],
           loads' \in Nat, tabs' \in [ScombzTabs -> PageState]
    PROVE  ScombzInv'
<1>1. /\ call' \in [ScombzConvs -> CallState] /\ binding' \in [ScombzConvs -> PinState]
      /\ sources' \in [ScombzConvs -> SUBSET Nat]
    BY DEF ScombzInv, ScombzTypeOK
<1>2. call'[c] = k /\ binding'[c] = b /\ sources'[c] = from
    BY DEF ScombzInv, ScombzTypeOK
<1>3. ASSUME NEW d \in ScombzConvs \ {c}
      PROVE  call'[d] = call[d] /\ binding'[d] = binding[d] /\ sources'[d] = sources[d]
    BY DEF ScombzInv, ScombzTypeOK
<1>4. ASSUME NEW d \in ScombzConvs
      PROVE  /\ SamePage(call'[d], binding'[d], sources'[d])
             /\ call'[d].pc # "idle" => call'[d].tab \in ScombzTabs
             /\ call'[d].pc = "search" => InCourse(call'[d])
    BY <1>2, <1>3, PinnedTab
<1>. QED BY <1>1, <1>4 DEF ScombzInv, ScombzTypeOK

\* The call alone changes.
LEMMA OnlyCall ==
    ASSUME ScombzInv, NEW c \in ScombzConvs, NEW k \in CallState,
           k.pc \in {"tab", "page", "search"} => SamePage(k, binding[c], sources[c]),
           k.pc # "idle" => k.tab \in ScombzTabs, k.pc = "search" => InCourse(k),
           call' = [call EXCEPT ![c] = k], binding' = binding, sources' = sources,
           loads' \in Nat, tabs' \in [ScombzTabs -> PageState]
    PROVE  ScombzInv'
<1>1. SamePage(k, binding[c], sources[c])
    BY PinnedTab DEF SamePage
<1>2. binding' = [binding EXCEPT ![c] = binding[c]] /\ sources' = [sources EXCEPT ![c] = sources[c]]
    BY DEF ScombzInv, ScombzTypeOK
<1>. QED BY <1>1, <1>2, PinnedTab, CallStep

\* What Bound does to a conversation: a new pin starts with nothing read.
LEMMA BoundFacts ==
    ASSUME ScombzInv, NEW c \in ScombzConvs, NEW b \in PinState, Bound(c, b)
    PROVE  \E from \in SUBSET Nat :
             /\ sources' = [sources EXCEPT ![c] = from] /\ binding' = [binding EXCEPT ![c] = b]
             /\ b \in {binding[c], Unpinned} => from = sources[c]
             /\ b \notin {binding[c], Unpinned} => from = {}
BY PinnedTab DEF Bound, ScombzInv, ScombzTypeOK

\* A pin kept, lost or made anew, at the end of a call or without one under way in its reads.
LEMMA PinStep ==
    ASSUME ScombzInv, NEW c \in ScombzConvs, NEW b \in PinState, Bound(c, b),
           NEW k \in CallState, call' = [call EXCEPT ![c] = k],
           \/ k = call[c] /\ b = Unpinned
           \/ k = NoCall,
           loads' = loads, tabs' = tabs
    PROVE  ScombzInv'
<1>1. PICK from \in SUBSET Nat :
          /\ sources' = [sources EXCEPT ![c] = from] /\ binding' = [binding EXCEPT ![c] = b]
          /\ b \in {binding[c], Unpinned} => from = sources[c]
          /\ b \notin {binding[c], Unpinned} => from = {}
    BY BoundFacts
<1>2. SamePage(k, b, from)
    BY <1>1, PinnedTab, NothingCalled DEF SamePage
<1>3. loads' \in Nat /\ tabs' \in [ScombzTabs -> PageState]
    BY DEF ScombzInv, ScombzTypeOK
<1>. QED BY <1>1, <1>2, <1>3, PinnedTab, NothingCalled, CallStep

\* The call answers from the page it asked: its generation is the one being read.
LEMMA AnsweredStep ==
    ASSUME ScombzInv, NEW c \in ScombzConvs, call[c].pc \in {"page", "search"}, PageAnswers(c),
           PageAnswered(c), ReturnCall(c), binding' = binding, loads' = loads, tabs' = tabs
    PROVE  ScombzInv'
<1>. DEFINE from == sources[c] \cup {call[c].gen}
<1>1. call[c].gen \in Nat /\ from \in SUBSET Nat /\ from \subseteq {call[c].gen}
    BY PinnedTab DEF CallState, SamePage
<1>2. sources' = [sources EXCEPT ![c] = from]
    BY DEF PageAnswered, PageAnswers
<1>3. SamePage(NoCall, binding[c], from)
    BY <1>1, PinnedTab, NothingCalled DEF SamePage
<1>4. binding' = [binding EXCEPT ![c] = binding[c]] /\ loads' \in Nat /\ tabs' \in [ScombzTabs -> PageState]
    BY DEF ScombzInv, ScombzTypeOK
<1>. QED BY <1>1, <1>2, <1>3, <1>4, PinnedTab, NothingCalled, CallStep DEF ReturnCall

\* The files of a course, and the hits in one that find room.
LEMMA FileFacts ==
    \E files \in Nat :
        /\ Cardinality(Links) = files
        /\ \A n \in Links : n \in Nat
        /\ \A n \in Nat : 0 < n /\ n <= files => FileHits[n] \in Nat
<1>. USE ScombzAssumption
<1>1. PICK files \in Nat : files = Len(FileHits)
    OBVIOUS
<1>2. Links = 1 .. files
    BY <1>1 DEF Links
<1>3. Cardinality(1 .. files) = files
    BY FS_Interval
<1>4. \A n \in Nat : 0 < n /\ n <= files => FileHits[n] \in Nat
    BY <1>1
<1>. QED BY <1>2, <1>3, <1>4

LEMMA LeastFacts ==
    ASSUME NEW a \in Nat, NEW b \in Nat
    PROVE  Least(a, b) \in Nat /\ Least(a, b) <= a /\ Least(a, b) <= b
BY DEF Least

LEMMA CallFields ==
    ASSUME ScombzInv, NEW c \in ScombzConvs
    PROVE  /\ call[c] \in CallState
           /\ call[c].at \in Nat /\ call[c].end \in Nat /\ call[c].hits \in Nat /\ call[c].gen \in Nat
BY DEF ScombzInv, ScombzTypeOK, CallState

\* The browser's own steps leave calls, pins and what was read alone.
LEMMA TabsStep ==
    ASSUME ScombzInv, NEW t \in ScombzTabs,
           Load(t) \/ LeavePage(t, "closed") \/ LeavePage(t, "elsewhere")
    PROVE  ScombzInv'
<1>1. PICK p : tabs' = [tabs EXCEPT ![t] = p] /\ p \in PageState
    <2>1. CASE Load(t)
        <3>1. PICK in \in BOOLEAN : tabs' = [tabs EXCEPT ![t] = [at |-> "scombz", gen |-> loads + 1, in |-> in]]
            BY <2>1 DEF Load, Shows
        <3>2. [at |-> "scombz", gen |-> loads + 1, in |-> in] \in PageState
            BY DEF ScombzInv, ScombzTypeOK, PageState
        <3>. QED BY <3>1, <3>2
    <2>2. CASE LeavePage(t, "closed") \/ LeavePage(t, "elsewhere")
        <3>1. PICK place \in {"closed", "elsewhere"} :
                  tabs' = [tabs EXCEPT ![t] = [at |-> place, gen |-> 0, in |-> FALSE]]
            BY <2>2 DEF LeavePage, Shows
        <3>2. [at |-> place, gen |-> 0, in |-> FALSE] \in PageState
            BY DEF PageState
        <3>. QED BY <3>1, <3>2
    <2>. QED BY <2>1, <2>2
<1>2. UNCHANGED <<binding, call, sources>> /\ loads' \in Nat
    BY DEF Load, LeavePage, ScombzInv, ScombzTypeOK
<1>. QED BY <1>1, <1>2 DEF ScombzInv, ScombzTypeOK

\* Pins go with their tab, or all of them with the worker.
LEMMA PinsLost ==
    ASSUME ScombzInv, (\E t \in ScombzTabs : Invalidate(t)) \/ WorkerRestart
    PROVE  ScombzInv'
<1>1. /\ binding' \in [ScombzConvs -> PinState] /\ call' \in [ScombzConvs -> CallState]
      /\ \A c \in ScombzConvs : binding'[c] \in {binding[c], Unpinned} /\ call'[c] \in {call[c], NoCall}
      /\ UNCHANGED <<tabs, loads, sources>>
    <2>1. CASE \E t \in ScombzTabs : Invalidate(t)
        BY <2>1, NothingCalled DEF Invalidate, ScombzInv, ScombzTypeOK
    <2>2. CASE WorkerRestart
        BY <2>2, NothingCalled DEF WorkerRestart, ScombzInv, ScombzTypeOK
    <2>. QED BY <2>1, <2>2
<1>2. \A c \in ScombzConvs :
          /\ SamePage(call'[c], binding'[c], sources[c])
          /\ call'[c].pc # "idle" => call'[c].tab \in ScombzTabs
          /\ call'[c].pc = "search" => InCourse(call'[c])
    BY <1>1, NothingCalled, PinnedTab DEF SamePage
<1>. QED BY <1>1, <1>2 DEF ScombzInv, ScombzTypeOK

\* Pinning: the tab is chosen, asked who it is, and stored.
LEMMA PinningStep ==
    ASSUME ScombzInv, NEW c \in ScombzConvs,
           \/ \E t \in ScombzTabs : Pin(c, t)
           \/ InjectScript(c) \/ Identity(c) \/ PinStore(c) \/ Unbind(c)
    PROVE  ScombzInv'
<1>1. ASSUME NEW t \in ScombzTabs, Pin(c, t)
      PROVE  ScombzInv'
    <2>. DEFINE k == [NoCall EXCEPT !.pc = "identity", !.tab = t]
    <2>1. k \in CallState /\ k.pc = "identity" /\ k.tab = t
        BY DEF NoCall, CallState
    <2>2. call' = [call EXCEPT ![c] = k] /\ UNCHANGED <<tabs, binding, loads, sources>>
        BY <1>1 DEF Pin
    <2>. HIDE DEF k
    <2>. QED BY <2>1, <2>2, OnlyCall DEF ScombzInv, ScombzTypeOK
<1>2. CASE InjectScript(c)
    <2>. DEFINE p == [tabs[call[c].tab] EXCEPT !.at = "scombz", !.gen = loads + 1]
    <2>1. /\ tabs' = [tabs EXCEPT ![call[c].tab] = p] /\ loads' = loads + 1
          /\ UNCHANGED <<binding, call, sources>>
        BY <1>2, PinnedTab DEF InjectScript, ScombzInv, ScombzTypeOK
    <2>2. p \in PageState /\ loads' \in Nat
        BY <1>2, <2>1, PinnedTab DEF InjectScript, PageState, ScombzInv, ScombzTypeOK
    <2>. HIDE DEF p
    <2>. QED BY <2>1, <2>2 DEF ScombzInv, ScombzTypeOK
<1>3. CASE Identity(c)
    <2>1. UNCHANGED <<tabs, binding, loads, sources>> /\ loads \in Nat /\ tabs \in [ScombzTabs -> PageState]
        BY <1>3 DEF Identity, ScombzInv, ScombzTypeOK
    <2>2. CASE ReturnCall(c)
        BY <2>1, <2>2, NothingCalled, OnlyCall DEF ReturnCall
    <2>3. CASE call' = [call EXCEPT ![c].pc = "pin", ![c].gen = tabs[call[c].tab].gen]
        <3>. DEFINE k == [call[c] EXCEPT !.pc = "pin", !.gen = tabs[call[c].tab].gen]
        <3>1. k \in CallState /\ k.pc = "pin" /\ k.tab \in ScombzTabs
            BY <1>3, PinnedTab DEF Identity, CallState, PageState
        <3>2. call' = [call EXCEPT ![c] = k]
            BY <2>3 DEF ScombzInv, ScombzTypeOK
        <3>. HIDE DEF k
        <3>. QED BY <2>1, <3>1, <3>2, OnlyCall
    <2>. QED BY <1>3, <2>2, <2>3 DEF Identity
<1>4. CASE PinStore(c)
    <2>1. PICK b \in PinState : Bound(c, b)
        <3>1. [tab |-> call[c].tab, gen |-> call[c].gen] \in PinState
            BY <1>4, PinnedTab DEF PinStore, CallState, PinState
        <3>. QED BY <1>4, <3>1, PinnedTab, NothingCalled DEF PinStore
    <2>. QED BY <1>4, <2>1, NothingCalled, PinStep DEF PinStore, ReturnCall
<1>5. CASE Unbind(c)
    <2>1. call' = [call EXCEPT ![c] = call[c]]
        BY <1>5 DEF Unbind, ScombzInv, ScombzTypeOK
    <2>. QED BY <1>5, <2>1, NothingCalled, PinnedTab, PinStep DEF Unbind
<1>. QED BY <1>1, <1>2, <1>3, <1>4, <1>5

\* A read begins with the pin it finds, and goes to the tab it names.
LEMMA ReadingStep ==
    ASSUME ScombzInv, NEW c \in ScombzConvs,
           \/ \E action \in {"list", "course", "search"} : Read(c, action)
           \/ FindPinned(c) \/ RefuseRead(c)
    PROVE  ScombzInv'
<1>0. loads \in Nat /\ tabs \in [ScombzTabs -> PageState]
    BY DEF ScombzInv, ScombzTypeOK
<1>1. ASSUME NEW action \in {"list", "course", "search"}, Read(c, action)
      PROVE  ScombzInv'
    <2>. DEFINE k == [NoCall EXCEPT !.pc = "tab", !.tab = binding[c].tab, !.gen = binding[c].gen,
                                    !.action = action]
    <2>0. binding[c] \in [tab : ScombzTabs, gen : Nat]
        BY <1>1, PinnedTab DEF Read, PinState
    <2>1. /\ k \in CallState /\ k.pc = "tab" /\ k.gen = binding[c].gen /\ k.tab = binding[c].tab
          /\ k.tab \in ScombzTabs
        BY <2>0 DEF NoCall, CallState
    <2>2. call' = [call EXCEPT ![c] = k] /\ UNCHANGED <<tabs, binding, loads, sources>> /\ binding[c] # Unpinned
        BY <1>1 DEF Read
    <2>. HIDE DEF k
    <2>3. SamePage(k, binding[c], sources[c])
        BY <2>1, <2>2, PinnedTab DEF SamePage
    <2>. QED BY <1>0, <2>1, <2>2, <2>3, OnlyCall
<1>2. CASE FindPinned(c)
    <2>1. CASE ReturnCall(c) /\ Bound(c, Unpinned)
        BY <1>2, <2>1, NothingCalled, PinStep DEF FindPinned, ReturnCall
    <2>2. CASE ReturnCall(c) /\ UNCHANGED <<binding, sources>>
        BY <1>0, <1>2, <2>2, NothingCalled, OnlyCall DEF FindPinned, ReturnCall
    <2>3. CASE call' = [call EXCEPT ![c].pc = "page"] /\ UNCHANGED <<binding, sources>>
        <3>. DEFINE k == [call[c] EXCEPT !.pc = "page"]
        <3>1. k \in CallState /\ k.pc = "page" /\ k.gen = call[c].gen /\ k.tab = call[c].tab
            BY PinnedTab DEF CallState
        <3>2. call' = [call EXCEPT ![c] = k] /\ UNCHANGED <<tabs, loads>>
            BY <1>2, <2>3 DEF FindPinned, ScombzInv, ScombzTypeOK
        <3>. HIDE DEF k
        <3>3. SamePage(k, binding[c], sources[c]) /\ k.tab \in ScombzTabs
            BY <1>2, <3>1, PinnedTab DEF FindPinned, SamePage
        <3>. QED BY <1>0, <2>3, <3>1, <3>2, <3>3, OnlyCall
    <2>. QED BY <1>2, <2>1, <2>2, <2>3 DEF FindPinned
<1>3. CASE RefuseRead(c)
    BY <1>0, <1>3, NothingCalled, OnlyCall DEF RefuseRead, ReturnCall
<1>. QED BY <1>1, <1>2, <1>3

\* A call in the page goes on with other counts: the same pin, generation and tab.
LEMMA SearchingStep ==
    ASSUME ScombzInv, NEW c \in ScombzConvs, call[c].pc \in {"page", "search"},
           NEW k \in CallState, k.pc = "search", k.gen = call[c].gen, k.tab = call[c].tab, InCourse(k),
           call' = [call EXCEPT ![c] = k], UNCHANGED <<tabs, binding, loads, sources>>
    PROVE  ScombzInv'
<1>1. SamePage(k, binding[c], sources[c]) /\ k.tab \in ScombzTabs
    BY PinnedTab DEF SamePage
<1>2. loads' \in Nat /\ tabs' \in [ScombzTabs -> PageState]
    BY DEF ScombzInv, ScombzTypeOK
<1>. QED BY <1>1, <1>2, OnlyCall

LEMMA FinishStep ==
    ASSUME ScombzInv, NEW c \in ScombzConvs, call[c].pc = "search", PageAnswers(c),
           NEW status, NEW offset, NEW missed, FinishSearch(c, status, offset, missed)
    PROVE  ScombzInv'
BY AnsweredStep DEF FinishSearch

\* A page answers a list or a course, and a search starts, ends or leaves a file out.
LEMMA AskedPageStep ==
    ASSUME ScombzInv, NEW c \in ScombzConvs,
           \/ ListPage(c) \/ CoursePage(c) \/ FileTooLarge(c) \/ SearchEnds(c)
           \/ \E offset \in {0} \cup Links : SearchStart(c, offset)
    PROVE  ScombzInv'
<1>1. CASE ListPage(c) \/ CoursePage(c)
    BY <1>1, AnsweredStep DEF ListPage, CoursePage
<1>2. CASE FileTooLarge(c) \/ SearchEnds(c)
    BY <1>2, FinishStep DEF FileTooLarge, SearchEnds, Searching
<1>3. ASSUME NEW offset \in {0} \cup Links, SearchStart(c, offset)
      PROVE  ScombzInv'
    <2>1. PICK files \in Nat : Cardinality(Links) = files /\ (\A n \in Links : n \in Nat)
        BY FileFacts
    <2>2. PICK from \in Nat : from = offset
        BY <2>1
    <2>3. PICK last \in Nat : last = Least(files, from + MaxFiles) /\ last <= files
        <3>1. from + MaxFiles \in Nat
            BY ScombzAssumption
        <3>. QED BY <3>1, LeastFacts
    <2>0. PICK start \in Nat : start = from + 1 /\ 0 < start
        OBVIOUS
    <2>. DEFINE k == [call[c] EXCEPT !.pc = "search", !.at = start, !.end = last]
    <2>4. /\ k \in CallState /\ k.pc = "search" /\ k.gen = call[c].gen /\ k.tab = call[c].tab
          /\ k.at = start /\ k.end = last
        BY CallFields DEF CallState
    <2>5. call' = [call EXCEPT ![c] = k] /\ UNCHANGED <<tabs, binding, loads, sources>>
        BY <1>3, <2>0, <2>1, <2>2, <2>3 DEF SearchStart, ScombzInv, ScombzTypeOK
    <2>. HIDE DEF k
    <2>6. InCourse(k)
        BY <2>0, <2>1, <2>3, <2>4 DEF InCourse
    <2>. QED BY <1>3, <2>4, <2>5, <2>6, SearchingStep DEF SearchStart
<1>. QED BY <1>1, <1>2, <1>3

\* A search goes on to the next file, with what it found in this one.
LEMMA NextFileStep ==
    ASSUME ScombzInv, NEW c \in ScombzConvs, Searching(c), NEW hits \in Nat, NEW left \in BOOLEAN,
           call' = [call EXCEPT ![c] = [call[c] EXCEPT !.at = @ + 1, !.hits = hits, !.partial = left]],
           UNCHANGED <<tabs, binding, loads, sources>>
    PROVE  ScombzInv'
<1>1. PICK at \in Nat : at = call[c].at
    BY CallFields
<1>2. PICK next \in Nat : next = at + 1
    OBVIOUS
<1>. DEFINE k == [call[c] EXCEPT !.at = next, !.hits = hits, !.partial = left]
<1>3. /\ k \in CallState /\ k.pc = call[c].pc /\ k.gen = call[c].gen /\ k.tab = call[c].tab
      /\ k.at = next /\ k.end = call[c].end
    BY CallFields DEF CallState
<1>4. call' = [call EXCEPT ![c] = k]
    BY <1>1, <1>2
<1>. HIDE DEF k
<1>5. InCourse(k)
    BY <1>1, <1>2, <1>3, PinnedTab DEF Searching, InCourse
<1>. QED BY <1>3, <1>4, <1>5, SearchingStep DEF Searching

LEMMA FileStep ==
    ASSUME ScombzInv, NEW c \in ScombzConvs,
           FileFails(c) \/ \E room \in {MaxHits, QuoteHits} : FileSearched(c, room)
    PROVE  ScombzInv'
<1>1. CASE FileFails(c)
    <2>0. PICK at \in Nat : at = call[c].at
        BY CallFields
    <2>1. PICK hits \in Nat, next \in Nat : hits = call[c].hits /\ next = call[c].at + 1
        <3>1. at + 1 \in Nat
            OBVIOUS
        <3>. QED BY <2>0, <3>1, CallFields
    <2>2. [call[c] EXCEPT !.at = next, !.hits = hits, !.partial = TRUE]
            = [call[c] EXCEPT !.at = next, !.partial = TRUE]
        BY <2>1, CallFields DEF CallState
    <2>3. call' = [call EXCEPT ![c] = [call[c] EXCEPT !.at = @ + 1, !.hits = hits, !.partial = TRUE]]
        BY <1>1, <2>1, <2>2 DEF FileFails, ScombzInv, ScombzTypeOK
    <2>. QED BY <1>1, <2>3, NextFileStep DEF FileFails
<1>2. ASSUME NEW room \in {MaxHits, QuoteHits}, FileSearched(c, room)
      PROVE  ScombzInv'
    <2>. DEFINE found == Least(FileHits[call[c].at], room - call[c].hits)
    <2>1. Searching(c) /\ call[c].pc = "search" /\ PageAnswers(c) /\ call[c].hits <= room
        BY <1>2 DEF FileSearched, Searching
    <2>2. CASE \E status, offset, missed : FinishSearch(c, status, offset, missed)
        BY <2>1, <2>2, FinishStep
    <2>3. CASE /\ call' = [call EXCEPT ![c].at = @ + 1, ![c].hits = @ + found]
               /\ UNCHANGED <<tabs, loading, binding, handles, loads, sources, outcome>>
        <3>1. PICK at \in Nat, end \in Nat, hits \in Nat, most \in Nat :
                  at = call[c].at /\ end = call[c].end /\ hits = call[c].hits /\ most = room
            BY CallFields, ScombzAssumption
        <3>2. PICK files \in Nat :
                  /\ Cardinality(Links) = files
                  /\ \A n \in Nat : 0 < n /\ n <= files => FileHits[n] \in Nat
            BY FileFacts
        <3>3. 0 < at /\ at <= files
            BY <2>1, <3>1, <3>2, PinnedTab DEF Searching, InCourse
        <3>4. PICK inFile \in Nat : inFile = FileHits[at]
            BY <3>2, <3>3
        <3>5. PICK more \in Nat : more = most - hits
            BY <2>1, <3>1
        <3>6. found \in Nat
            BY <3>1, <3>4, <3>5, LeastFacts
        <3>. HIDE DEF found
        <3>7. PICK sum \in Nat, next \in Nat : sum = call[c].hits + found /\ next = call[c].at + 1
            <4>1. PICK add \in Nat : add = found
                BY <3>6
            <4>2. hits + add \in Nat /\ at + 1 \in Nat
                OBVIOUS
            <4>. QED BY <3>1, <4>1, <4>2
        <3>9. [call[c] EXCEPT !.at = next, !.hits = sum, !.partial = call[c].partial]
                = [call[c] EXCEPT !.at = next, !.hits = sum]
            BY CallFields DEF CallState
        <3>10. call' = [call EXCEPT ![c] = [call[c] EXCEPT !.at = @ + 1, !.hits = sum,
                                                           !.partial = call[c].partial]]
            BY <2>3, <3>7, <3>9 DEF ScombzInv, ScombzTypeOK
        <3>8. call[c].partial \in BOOLEAN
            BY CallFields DEF CallState
        <3>. QED BY <2>1, <2>3, <3>8, <3>10, NextFileStep
    <2>. QED BY <1>2, <2>2, <2>3 DEF FileSearched
<1>. QED BY <1>1, <1>2

LEMMA ScombzInductive == ScombzSpec => []ScombzInv
<1>1. ScombzInit => ScombzInv
    <2>. SUFFICES ASSUME ScombzInit PROVE ScombzInv
        OBVIOUS
    <2>1. tabs \in [ScombzTabs -> PageState]
        <3>1. [at : {"closed", "bare"}, gen : {0}, in : {TRUE}] \subseteq PageState
            <4>. SUFFICES ASSUME NEW p \in [at : {"closed", "bare"}, gen : {0}, in : {TRUE}] PROVE p \in PageState
                OBVIOUS
            <4>1. p.at \in {"closed", "bare"} /\ p.gen \in {0} /\ p.in \in {TRUE}
                BY Zenon
            <4>2. p = [at |-> p.at, gen |-> p.gen, in |-> p.in]
                OBVIOUS
            <4>3. [at |-> p.at, gen |-> 0, in |-> TRUE] \in PageState
                BY <4>1 DEF PageState
            <4>4. p.gen = 0 /\ p.in = TRUE
                BY <4>1
            <4>. QED BY <4>2, <4>3, <4>4
        <3>. QED BY <3>1 DEF ScombzInit
    <2>2. /\ binding \in [ScombzConvs -> PinState] /\ call \in [ScombzConvs -> CallState]
          /\ sources \in [ScombzConvs -> SUBSET Nat] /\ loads \in Nat
          /\ \A c \in ScombzConvs : call[c] = NoCall /\ binding[c] = Unpinned /\ sources[c] = {}
        BY NothingCalled DEF ScombzInit
    <2>. QED BY <2>1, <2>2, NothingCalled DEF ScombzInv, ScombzTypeOK, SamePage
<1>2. ScombzInv /\ [ScombzNext]_scombzVars => ScombzInv'
    <2>. SUFFICES ASSUME ScombzInv, [ScombzNext]_scombzVars PROVE ScombzInv'
        OBVIOUS
    <2>1. CASE UNCHANGED scombzVars
        BY <2>1 DEF scombzVars, ScombzInv, ScombzTypeOK
    <2>2. ASSUME NEW h \in handles, HandleExpires(h)
          PROVE  ScombzInv'
        BY <2>2 DEF HandleExpires, ScombzInv, ScombzTypeOK
    <2>3. CASE ScombzNext
        BY <2>2, <2>3, TabsStep, PinsLost, PinningStep, ReadingStep, AskedPageStep, FileStep DEF ScombzNext
    <2>. QED BY <2>1, <2>3
<1>. QED BY <1>1, <1>2, PTL DEF ScombzSpec

\* The pins, calls and pages of the conversations are of their types, and a search is inside its course.
THEOREM ScombzTypeCorrect == ScombzSpec => []ScombzTypeOK
<1>1. ScombzInv => ScombzTypeOK
    BY DEF ScombzInv
<1>. QED BY <1>1, ScombzInductive, PTL

\* Whatever is reloaded, closed or restarted, what a conversation reads until it is pinned anew
\* comes from one instance of the page.
THEOREM PagesPinned == ScombzSpec => []OnePage
<1>1. ScombzInv => OnePage
    <2>. SUFFICES ASSUME ScombzInv, NEW c \in ScombzConvs PROVE Cardinality(sources[c]) <= 1
        BY DEF OnePage
    <2>1. PICK g : sources[c] \subseteq {g}
        BY PinnedTab DEF SamePage
    <2>2. IsFiniteSet({g}) /\ Cardinality({g}) = 1
        BY FS_Singleton
    <2>. QED BY <2>1, <2>2, FS_Subset
<1>. QED BY <1>1, ScombzInductive, PTL

\* Each read of the official sites is answered with what it was asked for: the right page of a
\* background tab, and one instance of the student's own ScombZ page.
THEOREM ReadsAnswered == SitesSpec => []ReadsAsAsked
<1>1. SitesInit => OfficialInit /\ ScombzInit
    BY DEF SitesInit
<1>2. [SitesNext]_<<part, vars, officialVars, scombzVars, pagesVars, opacVars>>
        => [OfficialNext]_officialVars /\ [ScombzNext]_scombzVars
    BY DEF SitesNext
<1>3. SitesSpec => OfficialSpec /\ ScombzSpec
    BY <1>1, <1>2, PTL DEF SitesSpec, OfficialSpec, ScombzSpec
<1>4. AnswersItsTarget /\ OnePage => ReadsAsAsked
    BY DEF ReadsAsAsked
<1>. QED BY <1>3, <1>4, TargetsAnswered, PagesPinned, PTL
=============================================================================
