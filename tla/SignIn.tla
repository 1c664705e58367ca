------------------------------- MODULE SignIn -------------------------------
(***************************************************************************)
(* Sign-in of the extension to its agent API, the requests that carry the  *)
(* session, and the first-use setup                                        *)
(* (apps/extension/src/auth/managed-agent-auth.ts, first-use-setup.ts,     *)
(* api/client.ts, the setup part of sidepanel/App.tsx).                    *)
(*                                                                         *)
(* Every page of the extension has a session provider with a session in    *)
(* memory; they share one in chrome.storage.session.  A provider without a *)
(* usable session, or one forced by a refusal, sends the student to Google *)
(* and exchanges the code at the API.  A request waits for the provider,   *)
(* is sent, and is sent once more when it is answered with 401.  The       *)
(* student may stop it at any time.  The server keeps its sessions in      *)
(* memory: a restart forgets them while the extension still trusts them.   *)
(*                                                                         *)
(* Sessions are numbered as they are issued.  A session is usable until    *)
(* thirty seconds before it expires; the clock is two steps, Age and       *)
(* Expire.  PKCE, the state parameter and the identity check are           *)
(* outcomes: the code is obtained and accepted, or not.                    *)
(***************************************************************************)
EXTENDS Naturals

CONSTANTS
    Pages,       \* pages of the extension with a provider of their own
    ApiRequests, \* requests that may be under way at once
    MaxIssued,   \* bound on the sessions issued (model checking only)
    MaxStarted   \* bound on the requests made (model checking only)

VARIABLES
    memory,   \* the session each provider holds, 0 when none
    kept,     \* the session in chrome.storage.session
    sessions, \* issued: how many; good: those the server knows; aged: no longer usable for the extension
    request,  \* the local variables of each request
    setup,    \* the first-use record in chrome.storage.local
    screen,   \* the setup screen of each page
    started   \* how many requests have been made

signInVars == <<memory, kept, sessions, request, setup, screen, started>>

NoRequest == [pc |-> "idle", for |-> "api", page |-> "none", force |-> FALSE, token |-> 0, stopped |-> FALSE, effects |-> 0]

SignInInit ==
    /\ memory = [p \in Pages |-> 0]
    /\ kept = 0
    /\ sessions = [issued |-> 0, good |-> {}, aged |-> {}]
    /\ request = [r \in ApiRequests |-> NoRequest]
    /\ setup \in {"none", "completed"}
    /\ screen = [p \in Pages |-> IF setup = "none" THEN "needs_start" ELSE "ready"]
    /\ started = 0

Usable(s) == s # 0 /\ s \notin sessions.aged
RequestAt(r, pc) == request' = [request EXCEPT ![r].pc = pc]
\* A request that is over is forgotten.
End(r) == request' = [request EXCEPT ![r] = NoRequest]
\* A request that fails or is abandoned; a step of the setup then shows its error.
Give(r) ==
    /\ End(r)
    /\ screen' = IF request[r].for = "api" THEN screen ELSE [screen EXCEPT ![request[r].page] = "error"]

-----------------------------------------------------------------------------
(* The provider *)

\* An API request, once the page is ready; before that a step of the setup, one at a time.
Make(r, p, for) ==
    /\ request[r].pc = "idle" /\ started < MaxStarted
    /\ for # "api" => \A q \in ApiRequests : request[q].page # p \/ request[q].for = "api"
    /\ for = "api" => screen[p] = "ready"
    /\ for = "start" => screen[p] \in {"needs_start", "error"}
    /\ for = "complete" => screen[p] = "awaiting_user"
    /\ request' = [request EXCEPT ![r] = [NoRequest EXCEPT !.pc = IF for = "start" THEN "mark" ELSE "provide",
                                                           !.for = for, !.page = p]]
    /\ started' = started + 1
    /\ UNCHANGED <<memory, kept, sessions, setup, screen>>

\* headers: the session in memory, else the one kept, else a new one.
Provide(r) ==
    LET q == request[r]
    IN /\ q.pc = "provide"
       /\ IF q.stopped THEN Give(r)
          ELSE /\ request' = [request EXCEPT ![r] =
                     IF q.force THEN [q EXCEPT !.pc = "prompt"]
                     ELSE IF Usable(memory[q.page]) THEN [q EXCEPT !.pc = "send", !.token = memory[q.page]]
                     ELSE [q EXCEPT !.pc = "read"]]
               /\ UNCHANGED screen
       /\ UNCHANGED <<memory, kept, sessions, setup, started>>
ReadStored(r) ==
    LET q == request[r]
    IN /\ q.pc = "read"
       /\ IF Usable(kept)
          THEN /\ memory' = [memory EXCEPT ![q.page] = kept]
               /\ request' = [request EXCEPT ![r] = [q EXCEPT !.pc = "send", !.token = kept]]
          ELSE RequestAt(r, "prompt") /\ UNCHANGED memory
       /\ UNCHANGED <<kept, sessions, setup, screen, started>>
\* The student signs in at Google and the code is exchanged, or one of both fails.
RequestAuthorizationCode(r) ==
    /\ request[r].pc = "prompt"
    /\ \/ RequestAt(r, "exchange") /\ UNCHANGED screen
       \/ Give(r)
    /\ UNCHANGED <<memory, kept, sessions, setup, started>>
CreateSession(r) ==
    LET s == sessions.issued + 1
    IN /\ request[r].pc = "exchange"
       /\ \/ /\ s <= MaxIssued
             /\ sessions' = [sessions EXCEPT !.issued = s, !.good = @ \union {s}]
             /\ memory' = [memory EXCEPT ![request[r].page] = s]
             /\ request' = [request EXCEPT ![r].pc = "keep", ![r].token = s]
             /\ UNCHANGED screen
          \/ Give(r) /\ UNCHANGED <<sessions, memory>>
       /\ UNCHANGED <<kept, setup, started>>
WriteStored(r) ==
    /\ request[r].pc = "keep"
    /\ kept' = request[r].token
    /\ RequestAt(r, "send")
    /\ UNCHANGED <<memory, sessions, setup, screen, started>>

-----------------------------------------------------------------------------
(* The request *)

\* authorizedFetch: not after a stop, which may have come while the student signed in.
SendRequest(r) ==
    LET q == request[r]
    IN /\ q.pc = "send" /\ q.for = "api"
       /\ IF q.stopped THEN Give(r) ELSE RequestAt(r, "sent") /\ UNCHANGED screen
       /\ UNCHANGED <<memory, kept, sessions, setup, started>>

\* The server looks at the session before anything else; the answer may be lost.
Serve(r) ==
    LET q == request[r]
    IN /\ q.pc = "sent"
       /\ IF q.token \in sessions.good
          THEN request' = [request EXCEPT ![r].effects = @ + 1, ![r].pc = "answered"]
          ELSE RequestAt(r, "refused")
       /\ UNCHANGED <<memory, kept, sessions, setup, screen, started>>
\* The network fails before or after the server has seen the request.
LoseReach(r) == request[r].pc \in {"sent", "answered", "refused"}
\* fault: a request whose answer was lost is sent again.
LoseRetried(r) ==
    /\ LoseReach(r)
    /\ request' = [request EXCEPT ![r].pc = "provide", ![r].force = TRUE]
    /\ UNCHANGED <<memory, kept, sessions, setup, screen, started>>
Lose(r) ==
    /\ LoseReach(r)
    /\ Give(r)
    /\ UNCHANGED <<memory, kept, sessions, setup, started>>
\* post: an answer is taken unless the request was stopped.
AnswerRequest(r) ==
    /\ request[r].pc = "answered"
    /\ IF request[r].stopped THEN Give(r) ELSE End(r) /\ UNCHANGED screen
    /\ UNCHANGED <<memory, kept, sessions, setup, started>>
\* post: a refusal is tried once more, with a session asked for anew.
Retry(r) ==
    LET q == request[r]
    IN /\ q.pc = "refused"
       /\ IF q.force \/ q.stopped THEN Give(r)
          ELSE request' = [request EXCEPT ![r].pc = "provide", ![r].force = TRUE] /\ UNCHANGED screen
       /\ UNCHANGED <<memory, kept, sessions, setup, started>>
\* The signal of a request is aborted.
StopRequest(r) ==
    /\ request[r].for = "api" /\ request[r].pc # "idle" /\ ~request[r].stopped
    /\ request' = [request EXCEPT ![r].stopped = TRUE]
    /\ UNCHANGED <<memory, kept, sessions, setup, screen, started>>

-----------------------------------------------------------------------------
(* The first-use setup *)

\* startFirstUseSetup writes its record first, even over a completed one, and reads it back.
MarkStarted(r) ==
    /\ request[r].pc = "mark"
    /\ \/ setup' = "started" /\ RequestAt(r, "provide") /\ UNCHANGED screen
       \/ setup' \in {setup, "started"} /\ Give(r)
    /\ UNCHANGED <<memory, kept, sessions, started>>
\* With a session, openCampusLoginTabs opens what it can.
OpenCampusLoginTabs(r) ==
    LET q == request[r]
    IN /\ q.pc = "send" /\ q.for = "start"
       /\ \/ End(r) /\ screen' = [screen EXCEPT ![q.page] = "awaiting_user"]
          \/ Give(r)
       /\ UNCHANGED <<memory, kept, sessions, setup, started>>
\* completeFirstUseSetup: with a session, the record is written and read back.
MarkCompleted(r) ==
    LET q == request[r]
    IN /\ q.pc = "send" /\ q.for = "complete"
       /\ \/ /\ setup' = "completed"
             /\ End(r) /\ screen' = [screen EXCEPT ![q.page] = "ready"]
          \/ setup' \in {setup, "completed"} /\ Give(r)
       /\ UNCHANGED <<memory, kept, sessions, started>>
\* restartFirstUseSetup, from the settings; a page opened anew has no memory and reads the record.
RestartSetup(p) ==
    /\ screen[p] = "ready"
    /\ setup' = "none"
    /\ screen' = [screen EXCEPT ![p] = "needs_start"]
    /\ UNCHANGED <<memory, kept, sessions, request, started>>
OpenPage(p) ==
    /\ memory' = [memory EXCEPT ![p] = 0]
    /\ request' = [r \in ApiRequests |-> IF request[r].page = p THEN NoRequest ELSE request[r]]
    /\ screen' = [screen EXCEPT ![p] = CASE setup = "completed" -> "ready"
                                         [] setup = "started" -> "awaiting_user"
                                         [] OTHER -> "needs_start"]
    /\ UNCHANGED <<kept, sessions, setup, started>>

\* The clock, and the server.
Age(s) ==
    /\ sessions' = [sessions EXCEPT !.aged = @ \union {s}]
    /\ UNCHANGED <<memory, kept, request, setup, screen, started>>
Expire(s) ==
    /\ s \in sessions.aged
    /\ sessions' = [sessions EXCEPT !.good = @ \ {s}]
    /\ UNCHANGED <<memory, kept, request, setup, screen, started>>
ServerRestarts ==
    /\ sessions' = [sessions EXCEPT !.good = {}]
    /\ UNCHANGED <<memory, kept, request, setup, screen, started>>

Advance(r) ==
    \/ Provide(r) \/ ReadStored(r) \/ RequestAuthorizationCode(r) \/ CreateSession(r) \/ WriteStored(r)
    \/ SendRequest(r) \/ Serve(r) \/ Lose(r) \/ AnswerRequest(r) \/ Retry(r) \/ StopRequest(r)
    \/ MarkStarted(r) \/ OpenCampusLoginTabs(r) \/ MarkCompleted(r)

SignInNext ==
    \/ \E r \in ApiRequests : Advance(r) \/ \E p \in Pages, for \in {"api", "start", "complete"} : Make(r, p, for)
    \/ \E p \in Pages : RestartSetup(p) \/ OpenPage(p)
    \/ \E s \in 1..sessions.issued : Age(s) \/ Expire(s)
    \/ ServerRestarts

SignInSpec == SignInInit /\ [][SignInNext]_signInVars

-----------------------------------------------------------------------------
(* Properties *)

\* Whatever is refused, retried or lost, one request takes effect at most once: the
\* retry is for a refusal only, which the server gives before it acts.  And one the
\* student has stopped does not leave the extension any more, not even when the
\* sign-in it was waiting for succeeds (authorizedFetch looks at the signal again
\* after it has the session).
OneEffect ==
    [][\A r \in ApiRequests :
        /\ request'[r].effects <= 1
        /\ request[r].stopped /\ request'[r].pc = "sent" => request[r].pc = "sent"]_signInVars

\* The setup is not recorded as completed without a session of the API, whatever
\* two pages do to the record at once.
CompletedWithSession ==
    [][setup # "completed" /\ setup' = "completed" =>
        \E r \in ApiRequests : request[r].for = "complete" /\ request[r].token \in 1..sessions.issued]_signInVars
=============================================================================
