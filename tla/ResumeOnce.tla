---------------------------- MODULE ResumeOnce ----------------------------
(***************************************************************************)
(* What the resumable runs promise (agent/runs.py, module comment: "at-    *)
(* most-once resume semantics"), whatever the store, its sweeps and its    *)
(* tombstones look like.                                                   *)
(*                                                                         *)
(* A run waits for the answer to one call at a time.  An answer is handed  *)
(* to the provider once; the provider then asks something else, or the run *)
(* is over for good.  Any step may also end other runs, since runs expire. *)
(***************************************************************************)
CONSTANTS RunIds, CallIds

VARIABLES
    stage,    \* "new", "waiting" for an answer, "running" in the provider, "over"
    answered  \* the calls whose answer the provider was given, per run

vars == <<stage, answered>>

TypeOK ==
    /\ stage \in [RunIds -> {"new", "waiting", "running", "over"}]
    /\ answered \in [RunIds -> SUBSET CallIds]

Init ==
    /\ stage = [r \in RunIds |-> "new"]
    /\ answered = [r \in RunIds |-> {}]

\* Run r moves on, and the runs of X end on the way.
Move(r, s, X) ==
    stage' = [q \in RunIds |-> IF q = r THEN s ELSE IF q \in X THEN "over" ELSE stage[q]]

Begun == {r \in RunIds : stage[r] # "new"}

Open(r, X) == stage[r] = "new" /\ Move(r, "waiting", X) /\ UNCHANGED answered

Answer(r, c, X) ==
    /\ stage[r] = "waiting"
    /\ c \notin answered[r]
    /\ Move(r, "running", X)
    /\ answered' = [answered EXCEPT ![r] = @ \cup {c}]

AskAgain(r, X) == stage[r] = "running" /\ Move(r, "waiting", X) /\ UNCHANGED answered

End(X) ==
    /\ stage' = [q \in RunIds |-> IF q \in X THEN "over" ELSE stage[q]]
    /\ UNCHANGED answered

Next ==
    \E X \in SUBSET Begun :
        \/ End(X)
        \/ \E r \in RunIds \ X :
             \/ Open(r, X)
             \/ AskAgain(r, X)
             \/ \E c \in CallIds : Answer(r, c, X)

Spec == Init /\ [][Next]_vars
=============================================================================
