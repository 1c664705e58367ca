------------------------ MODULE MCOfficialSites ------------------------
(***************************************************************************)
(* The pages the extension works with, on small instances: the reservation *)
(* form of the library, reads in background tabs, reads in the student's   *)
(* ScombZ tab, and a panel's conversations through two turns; beside them  *)
(* the service's own client of the library catalogue.  The components      *)
(* share no variable, so each can be checked alone: part, chosen at the    *)
(* start, says which one a behaviour is about, and the others stay as they *)
(* are.                                                                    *)
(***************************************************************************)
EXTENDS LibraryPreview, OpacGateway, Conversations, OfficialReads, ScombzReads

VARIABLE part

\* TitleOf: all previews are of one title.  The student has reserved one that has nothing to do
\* with it, or one that is part of it.
OneTitle == [p \in Previews |-> {"name", "volume"}]
Earlier == {{{"other"}}, {{"name"}}}

\* FileHits: the first file of the course has one page that matches, the second three.
CourseFiles == <<1, 3>>

SitesInit ==
    /\ part \in {"reservation", "reads", "scombz", "turns", "opac"}
    /\ Init /\ OfficialInit /\ ScombzInit /\ PagesInit /\ OpacInit
    \* what the other components find at the start does not matter
    /\ IF part = "reservation" THEN booked \in Earlier ELSE booked = {}
    /\ part # "reads" => \A s \in DOMAIN student : student[s] = "none"
    /\ part # "scombz" => \A t \in ScombzTabs : tabs[t].at = "closed"

SitesNext ==
    /\ UNCHANGED part
    /\ \/ part = "reservation" /\ Next /\ UNCHANGED <<officialVars, scombzVars, pagesVars, opacVars>>
       \/ part = "reads" /\ OfficialNext /\ UNCHANGED <<vars, scombzVars, pagesVars, opacVars>>
       \/ part = "scombz" /\ ScombzNext /\ UNCHANGED <<vars, officialVars, pagesVars, opacVars>>
       \/ part = "turns" /\ PagesNext /\ UNCHANGED <<vars, officialVars, scombzVars, opacVars>>
       \/ part = "opac" /\ OpacNext /\ UNCHANGED <<vars, officialVars, scombzVars, pagesVars>>

SitesSpec == SitesInit /\ [][SitesNext]_<<part, vars, officialVars, scombzVars, pagesVars, opacVars>>

\* A read answers with what it was asked for, whatever else its site's tabs show (OfficialReads), and
\* a conversation's reads come from one ScombZ page until it is pinned anew (ScombzReads).
ReadsAsAsked == AnswersItsTarget /\ OnePage
=============================================================================
