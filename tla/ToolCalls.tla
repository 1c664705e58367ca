----------------------------- MODULE ToolCalls -----------------------------
(***************************************************************************)
(* The arguments of a tool call on their way from the provider to the      *)
(* handler in the service worker.  Four places look at them, each with its *)
(* own rules: the service before it asks the extension                     *)
(* (agent/pydantic_ai_backend.py), the tool registry of the extension      *)
(* (chat/tool-registry.ts), the panel (chat/ChatPanel.tsx), and the        *)
(* worker's guard of the message the panel sends (shared/messages.ts).     *)
(*                                                                         *)
(* A value is one of a few classes: "null"; of another type ("mistyped");  *)
(* blank text, or an empty list or object ("least"); an object with a      *)
(* blank text in it ("hollow"); what its documentation allows ("fits");    *)
(* and what is too long, out of its range or of another form ("outside").  *)
(* A key that is not given is "absent"; "unknown" stands for the keys a    *)
(* tool does not have.                                                     *)
(***************************************************************************)
EXTENDS Naturals, FiniteSets

CONSTANT MaxOdd  \* bound on the arguments of a call that do not fit (model checking only)

VARIABLES
    call,     \* the tool and its arguments as they are now
    at,       \* the place that looks at them next; "handler" once all did
    refusedBy

callVars == <<call, at, refusedBy>>

Odd == {"null", "mistyped", "least", "hollow", "outside"}
Anything == Odd \union {"absent", "fits"}
Must == {"fits"}
Plain == {"absent", "fits"}
OptValue == {"absent", "null", "fits"}
OptText == {"absent", "null", "least", "fits"}

\* ARGUMENT_KEYS
ArgumentKeys ==
    [syllabus_search |-> {"query", "year", "faculty"}, syllabus_read |-> {"syllabus_ref"}, browser_read_url |-> {"url"},
     scombz_course_list |-> {"query", "academic_year", "term", "cursor"},
     scombz_portal_read |-> {"sections", "query", "cursor"},
     scombz_course_read |-> {"course_refs", "sections", "query", "cursor", "include_own_submission"},
     scombz_material_search |-> {"course_ref", "query", "cursor"},
     sitrus_read |-> {}, moodle_read |-> {}, cast_read |-> {}, cast_alumni_read |-> {},
     my_library_read |-> {"scope", "query", "offset", "limit"},
     cast_search |-> {"kind", "filters", "sort", "cursor", "exhaustive"},
     cast_career_search |-> {"query", "surfaces", "filters", "limit", "exhaustive"},
     library_catalog_search |-> {"query", "author", "subject", "isbn", "pub_year", "campus", "format", "limit"},
     library_item_read |-> {"resource_ref", "presentation"},
     library_catalog_browse |-> {"kind", "campus", "limit"}, library_discovery_search |-> {"query", "limit"},
     library_action_options |-> {"resource_ref"}]
Joined(f, g) == [x \in DOMAIN f \union DOMAIN g |-> IF x \in DOMAIN f THEN f[x] ELSE g[x]]
Tools == DOMAIN ArgumentKeys
CastTools == {"cast_search", "cast_career_search"}
LibraryTools == {"my_library_read", "library_catalog_search", "library_item_read", "library_catalog_browse",
                 "library_discovery_search", "library_action_options"}
\* A call with at most MaxOdd arguments that are not what they should be.
Calls(tool) ==
    LET keys == ArgumentKeys[tool]
        odd == {K \in SUBSET keys : Cardinality(K) <= MaxOdd}
    IN {[tool |-> tool, args |-> Joined(a, Joined(b, [unknown |-> u]))] :
            a \in UNION {[K -> Odd] : K \in odd}, b \in [keys -> Plain], u \in Plain}

\* What a table says of a tool's arguments; a key it does not name may have any value.
Accepts(rules, args) == \A key \in DOMAIN rules : args[key] \in rules[key]
\* The rules, and that no other key is given.
Only(rules) == Joined(rules, [unknown |-> {"absent"}])
None == [unknown |-> {"absent"}]

-----------------------------------------------------------------------------
(* The service *)

ServiceScombz ==
    [scombz_course_list |-> None, scombz_portal_read |-> None,
     scombz_course_read |-> Only([course_refs |-> {"fits", "outside"}, include_own_submission |-> Plain]),
     scombz_material_search |-> [course_ref |-> Must, query |-> {"least", "fits", "outside"}]]
ServiceWeb ==
    [syllabus_search |-> Only([query |-> Must, year |-> OptValue, faculty |-> OptText]),
     syllabus_read |-> Only([syllabus_ref |-> Must]),
     browser_read_url |-> Only([url |-> {"least", "fits", "outside"}]),
     sitrus_read |-> None, moodle_read |-> None, cast_read |-> None, cast_alumni_read |-> None]
ServiceCastSearch ==
    Only([kind |-> Must, filters |-> {"absent", "null", "least", "fits"}, sort |-> OptValue, cursor |-> OptValue,
             exhaustive |-> Plain])
ServiceCareerSearch ==
    Only([query |-> Must, surfaces |-> Must, filters |-> {"absent", "null", "least", "fits"}, limit |-> Plain,
             exhaustive |-> Plain])
ServiceLibrary ==
    [my_library_read |-> Only([scope |-> Must, query |-> OptText, offset |-> Plain, limit |-> Plain]),
     library_catalog_search |->
        Only([query |-> Must, author |-> OptText, subject |-> OptText, isbn |-> OptText, pub_year |-> OptValue,
                 campus |-> Plain, format |-> Plain, limit |-> Plain]),
     library_item_read |-> Only([resource_ref |-> Must, presentation |-> Plain]),
     library_catalog_browse |-> Only([kind |-> Must, campus |-> Plain, limit |-> Plain]),
     library_discovery_search |-> Only([query |-> Must, limit |-> Plain]),
     library_action_options |-> Only([resource_ref |-> Must])]
ServiceRules ==
    Joined(Joined(ServiceScombz, ServiceWeb),
           Joined(ServiceLibrary, [cast_search |-> ServiceCastSearch, cast_career_search |-> ServiceCareerSearch]))
\* Blank filters of the career search are dropped; an empty call of My Library asks for the loans.
Normalized(tool, args) ==
    IF tool = "cast_career_search" /\ args.filters = "hollow" THEN [args EXCEPT !.filters = "least"]
    ELSE IF tool = "my_library_read" /\ \A key \in DOMAIN args : args[key] = "absent" THEN [args EXCEPT !.scope = "fits"]
    ELSE args

-----------------------------------------------------------------------------
(* The registry: validateChatToolArguments *)

\* isCastSearchRequest, isCastCareerSearchRequest
CastSearchRequest ==
    Only([kind |-> Must, filters |-> {"least", "fits"}, sort |-> OptValue, cursor |-> OptValue, exhaustive |-> Plain])
CareerSearchRequest ==
    Only([query |-> Must, surfaces |-> Must, filters |-> {"least", "fits"}, limit |-> Must, exhaustive |-> Plain])
RegistryCourseList == Only([query |-> OptText, academic_year |-> OptValue, term |-> OptValue, cursor |-> OptValue])
RegistryCourseRead ==
    Only([course_refs |-> Must, sections |-> OptText, query |-> OptText, cursor |-> OptValue,
             include_own_submission |-> Plain])
RegistryPortal == Only([sections |-> OptText, query |-> OptText, cursor |-> OptValue])
RegistryMaterials == Only([course_ref |-> Must, query |-> Must, cursor |-> OptValue])
RegistrySyllabusSearch == Only([query |-> Must, year |-> OptValue, faculty |-> OptText])
RegistryBrowser == Only([url |-> Must])
RegistryMyLibrary == Only([scope |-> Plain, query |-> OptText, offset |-> OptValue, limit |-> OptValue])
\* fault: a catalogue search has to say how many records it wants.
RegistryCatalogLimited ==
    Only([query |-> Must, author |-> OptText, subject |-> OptText, isbn |-> OptText, pub_year |-> OptValue,
             campus |-> Plain, format |-> Plain, limit |-> Must])
RegistryCatalog ==
    Only([query |-> Must, author |-> OptText, subject |-> OptText, isbn |-> OptText, pub_year |-> OptValue,
             campus |-> Plain, format |-> Plain, limit |-> OptValue])
RegistryItem == Only([resource_ref |-> Must, presentation |-> Plain])
RegistryBrowse == Only([kind |-> Must, campus |-> Plain, limit |-> OptValue])
RegistryDiscovery == Only([query |-> Must, limit |-> OptValue])
RegistryRules ==
    [scombz_course_list |-> RegistryCourseList, scombz_course_read |-> RegistryCourseRead,
     scombz_portal_read |-> RegistryPortal, scombz_material_search |-> RegistryMaterials,
     syllabus_search |-> RegistrySyllabusSearch, syllabus_read |-> Only([syllabus_ref |-> Must]),
     browser_read_url |-> RegistryBrowser, my_library_read |-> RegistryMyLibrary,
     sitrus_read |-> None, moodle_read |-> None, cast_read |-> None, cast_alumni_read |-> None,
     cast_search |-> CastSearchRequest, cast_career_search |-> CareerSearchRequest,
     library_catalog_search |-> RegistryCatalog, library_item_read |-> RegistryItem,
     library_catalog_browse |-> RegistryBrowse, library_discovery_search |-> RegistryDiscovery,
     library_action_options |-> Only([resource_ref |-> Must])]
\* My Library takes no argument at all, or its scope with them.
ScopeGiven(tool, args) ==
    tool = "my_library_read" /\ args.scope = "absent" => \A key \in DOMAIN args : args[key] = "absent"

-----------------------------------------------------------------------------
(* The panel: the checks of runTool, and the message it sends *)

PanelScombz ==
    [scombz_course_list |-> None, scombz_portal_read |-> None,
     scombz_course_read |-> Only([course_refs |-> Must, include_own_submission |-> Plain]),
     scombz_material_search |-> [key \in {"course_ref", "query"} |-> {"least", "fits", "outside"}]]
PanelWeb ==
    [syllabus_search |-> Only([query |-> Must, year |-> OptValue, faculty |-> OptText]),
     syllabus_read |-> Only([syllabus_ref |-> Must]),
     browser_read_url |-> Only([url |-> {"least", "fits", "outside"}]),
     sitrus_read |-> None, moodle_read |-> None, cast_read |-> None, cast_alumni_read |-> None,
     cast_search |-> CastSearchRequest, cast_career_search |-> CareerSearchRequest]
PanelMyLibrary == Only([scope |-> Plain, query |-> OptText, offset |-> Plain, limit |-> Plain])
PanelCatalog ==
    Only([query |-> Must, author |-> OptText, subject |-> OptText, isbn |-> OptText, pub_year |-> OptValue,
             campus |-> Plain, format |-> Plain, limit |-> Plain])
PanelLibrary ==
    [library_item_read |-> Only([resource_ref |-> Must, presentation |-> Plain]),
     library_catalog_browse |-> Only([kind |-> Must, campus |-> Plain, limit |-> Plain]),
     library_discovery_search |-> Only([query |-> Must, limit |-> Plain]),
     library_action_options |-> Only([resource_ref |-> Must])]
PanelRules ==
    Joined(Joined(PanelScombz, PanelWeb),
           Joined(PanelLibrary, [my_library_read |-> PanelMyLibrary, library_catalog_search |-> PanelCatalog]))

\* What is not given is sent as null, or as the value it stands for.
OrNull(v) == IF v \in {"absent", "mistyped"} THEN "null" ELSE v
OrDefault(v) == IF v \in {"absent", "null", "mistyped"} THEN "fits" ELSE v
SentFields(tool, args) ==
    [key \in ArgumentKeys[tool] |->
        IF key \in {"scope", "offset", "campus", "format", "presentation", "limit"} THEN OrDefault(args[key])
        ELSE IF key \in {"year", "faculty", "author", "subject", "isbn", "pub_year", "query"} THEN OrNull(args[key]) ELSE args[key]]
\* ScombZ and CAST get the arguments themselves; a syllabus is read at the address its reference stands for.
Message(tool, args) ==
    IF tool \in {"scombz_course_list", "scombz_portal_read", "scombz_course_read", "scombz_material_search"} \union CastTools
    THEN args
    ELSE IF tool = "syllabus_read" THEN [url |-> "fits"] ELSE SentFields(tool, args)

-----------------------------------------------------------------------------
(* The worker: the guard of each message *)

NothingAsked == [key \in {} |-> Anything]
ScombzMessage == NothingAsked
BrowserMessage == [url |-> {"least", "fits", "outside"}]
SyllabusMessage ==
    [query |-> {"fits", "outside"}, year |-> {"absent", "null", "fits", "outside"},
     faculty |-> {"absent", "null", "least", "fits", "outside"}]
MyLibraryMessage == [scope |-> Plain, query |-> OptText, offset |-> Plain, limit |-> Plain]
CastSearchMessage == CastSearchRequest
CareerSearchMessage == CareerSearchRequest
CatalogMessage ==
    [query |-> Must, author |-> OptText, subject |-> OptText, isbn |-> OptText, pub_year |-> OptValue,
     campus |-> Plain, format |-> Plain, limit |-> Plain]
ItemMessage == [resource_ref |-> Must, presentation |-> Plain]
BrowseMessage == [kind |-> Must, campus |-> Plain, limit |-> Plain]
DiscoveryMessage == [query |-> Must, limit |-> Plain]
ActionOptionsMessage == [resource_ref |-> Must]
MessageRules ==
    [scombz_course_list |-> ScombzMessage, scombz_course_read |-> ScombzMessage,
     scombz_portal_read |-> ScombzMessage, scombz_material_search |-> ScombzMessage,
     sitrus_read |-> NothingAsked, moodle_read |-> NothingAsked, cast_read |-> NothingAsked,
     cast_alumni_read |-> NothingAsked, browser_read_url |-> BrowserMessage, syllabus_read |-> BrowserMessage,
     syllabus_search |-> SyllabusMessage, my_library_read |-> MyLibraryMessage,
     cast_search |-> CastSearchMessage, cast_career_search |-> CareerSearchMessage,
     library_catalog_search |-> CatalogMessage, library_item_read |-> ItemMessage,
     library_catalog_browse |-> BrowseMessage, library_discovery_search |-> DiscoveryMessage,
     library_action_options |-> ActionOptionsMessage]

-----------------------------------------------------------------------------
(* A call on its way *)

Passes(next, args) == at' = next /\ call' = [call EXCEPT !.args = args] /\ UNCHANGED refusedBy
Refuses == at' = "refused" /\ refusedBy' = at /\ UNCHANGED call

\* The service asks for the tool, or ends the run.
ServiceChecks ==
    /\ at = "service"
    /\ LET args == Normalized(call.tool, call.args)
       IN IF Accepts(ServiceRules[call.tool], args) THEN Passes("registry", args) ELSE Refuses
\* The panel, or the audit tool's executor, ends the turn where the registry refuses.
RegistryChecks ==
    /\ at = "registry"
    /\ IF Accepts(RegistryRules[call.tool], call.args) /\ ScopeGiven(call.tool, call.args)
       THEN Passes("panel", call.args) ELSE Refuses
PanelChecks ==
    /\ at = "panel"
    /\ IF Accepts(PanelRules[call.tool], call.args) /\ ScopeGiven(call.tool, call.args)
       THEN Passes("worker", Message(call.tool, call.args)) ELSE Refuses
\* A message no guard knows has no answer but the browser's own, undefined.
WorkerChecks ==
    /\ at = "worker"
    /\ IF Accepts(MessageRules[call.tool], call.args) THEN Passes("handler", call.args) ELSE Refuses

CallsInit ==
    /\ call \in UNION {Calls(tool) : tool \in Tools}
    /\ at = "service"
    /\ refusedBy = "nobody"
CallsNext == ServiceChecks \/ RegistryChecks \/ PanelChecks \/ WorkerChecks
CallsSpec == CallsInit /\ [][CallsNext]_callVars

-----------------------------------------------------------------------------
(* Properties *)

\* Whatever the provider asked for, a handler gets values of the kind and in the range
\* its tool documents, or none: each of the four places checks only some of them, and
\* the worker nothing of the ScombZ arguments (validateChatToolArguments, runTool,
\* isScombzStudentReadMessage).
WithinBounds == at = "handler" => \A key \in DOMAIN call.args : call.args[key] \in OptText

\* A call the panel accepted is not lost for want of a guard that knows its message:
\* it would end the turn with the browser's undefined answer (runTool, messages.ts).
NotLost == refusedBy # "worker"

\* The service and the extension agree on the calls of the library tools: what the one
\* lets through, the other does not refuse (_validate_library_tool_arguments).
LibraryCallsServed == call.tool \in LibraryTools => refusedBy \in {"nobody", "service"}

\* The same of the two searches of CAST, whose limit and filters have a default value
\* in the service (cast_search, cast_career_search).
CastCallsServed == call.tool \in CastTools => refusedBy \in {"nobody", "service"}
=============================================================================
