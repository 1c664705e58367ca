-------------------------- MODULE MCChatPages --------------------------
(***************************************************************************)
(* Chats outside of a turn, on small instances: the pages that show and    *)
(* store conversations (Conversations), and the runs in the background     *)
(* with their streams (ChatBackground).  The two share no variable: part,  *)
(* chosen at the start, says which one a behaviour is about, and the other *)
(* stays as it is.  Each keeps the fairness its own module states.         *)
(***************************************************************************)
EXTENDS ChatBackground, Conversations

\* A write may succeed.
ASSUME PagesAssumption == TRUE \in StoreOutcomes

VARIABLE part

allVars == <<part, backgroundVars, pagesVars>>

ChatsInit == part \in {"pages", "background"} /\ BackgroundInit /\ PagesInit

ChatsNext ==
    /\ UNCHANGED part
    /\ \/ part = "pages" /\ PagesNext /\ UNCHANGED backgroundVars
       \/ part = "background" /\ BackgroundNext /\ UNCHANGED pagesVars

\* The fairness of the two modules, each of the steps of its own part.
ChatsFairness ==
    /\ WF_backgroundVars(part = "background" /\ Tick)
    /\ \A r \in RunIds :
          /\ WF_backgroundVars(part = "background" /\ Timer(r))
          /\ WF_backgroundVars(part = "background" /\ Cancelled(r))
    /\ \A s \in Streams :
          /\ WF_backgroundVars(part = "background" /\ BeginStream(s))
          /\ WF_backgroundVars(part = "background" /\ Read(s))
    /\ \A r \in 1 .. MaxSends : WF_pagesVars(part = "pages" /\ TurnStep(r))
    /\ \A p \in Pages : WF_pagesVars(part = "pages" /\ \E h \in handlers : h.page = p /\ HistoryStep(h))

ChatsSpec == ChatsInit /\ [][ChatsNext]_allVars /\ ChatsFairness

\* Every background run and every stream of one ends, whoever asks or goes away (ChatBackground).
BackgroundEnds == EveryRunEnds /\ EveryStreamEnds
=============================================================================
