------------------------------ MODULE ToolCatalog ------------------------------
(***************************************************************************)
(* The tools that commands are served with: table tool_manifests, the      *)
(* vector index that finds them by meaning, table command_tool_mappings    *)
(* that assigns one to a command, the admins' calls that change the three, *)
(* and the conversations that select a tool and build with it.             *)
(*                                                                         *)
(* A call is a process of its own: between two of its awaits any other may *)
(* run, and there it may end, because the database throws, the process     *)
(* stops, or the index cannot be reached.                                  *)
(*                                                                         *)
(* Environment: which tools a text resembles and how much, which it names, *)
(* which contain it word for word.                                         *)
(***************************************************************************)
EXTENDS FiniteSets, Integers

CONSTANTS Tools,        \* tool ids
          Category,     \* tool id -> category
          Priority,     \* tool id -> priority
          Defaults,     \* the tools whose manifest says isDefault
          Commands, NoTool,
          Admins,       \* calls of admins that run at the same time
          Chats,        \* conversations
          TopK,         \* hits of a search, 20 in the code
          Scores,       \* bound: how much a text resembles a tool
          HasIndex,     \* Pinecone and the embeddings are configured
          MaxFaults     \* bound: calls that end half-way

ASSUME ToolAssumption ==
    /\ Priority \in [Tools -> Nat] /\ Defaults \subseteq Tools /\ NoTool \notin Tools
ASSUME SearchAssumption == TopK \in Nat /\ Scores \subseteq Nat /\ HasIndex \in BOOLEAN
ASSUME FaultAssumption == MaxFaults \in Nat

VARIABLES table,      \* tool_manifests: the tools it has, and whether isActive
          indexed,    \* the tools that the index has a vector of
          mapping,    \* command_tool_mappings
          admin,      \* the admins' calls
          select,     \* selectTool and buildRequestBody of each conversation
          gone,       \* history: the tools inactive when a conversation began
          drift,      \* history: the tools whose index entry was left behind
          faults

vars == <<table, indexed, mapping, admin, select, gone, drift, faults>>

AdminIdle == [at |-> "idle", tool |-> NoTool, command |-> NoTool]
NoHits == [t \in {} |-> 0]
SelectIdle == [at |-> "idle", tool |-> NoTool, hits |-> NoHits]

Init ==
    /\ table = [t \in Tools |-> "none"] /\ indexed = {}
    /\ mapping = [c \in Commands |-> NoTool]
    /\ admin = [a \in Admins |-> AdminIdle]
    /\ select = [s \in Chats |-> SelectIdle]
    /\ gone = [s \in Chats |-> {}] /\ drift = {} /\ faults = 0

Active == {t \in Tools : table[t] = "active"}

-----------------------------------------------------------------------------
(* The admins' calls *)

AdminAt(a, at, t, c) == admin' = [admin EXCEPT ![a] = [at |-> at, tool |-> t, command |-> c]]
AdminEnds(a) == admin' = [admin EXCEPT ![a] = AdminIdle]

\* An id that the table has is taken for good, whether its tool is active or not.
Register(a, t) ==
    /\ table[t] = "none"
    /\ AdminAt(a, "insert", t, NoTool)
    /\ UNCHANGED <<table, indexed, mapping, select, gone, drift, faults>>

\* The id is unique in the table: the second of two inserts throws.
Create(a) ==
    LET t == admin[a].tool IN
    /\ admin[a].at = "insert"
    /\ table' = IF table[t] = "none" THEN [table EXCEPT ![t] = "active"] ELSE table
    /\ IF table[t] = "none" /\ HasIndex THEN AdminAt(a, "index", t, NoTool) ELSE AdminEnds(a)
    /\ UNCHANGED <<indexed, mapping, select, gone, drift, faults>>

\* The vector arrives even if the tool was deactivated meanwhile.
Index(a) ==
    LET t == admin[a].tool IN
    /\ admin[a].at = "index"
    /\ indexed' = indexed \cup {t}
    /\ drift' = IF table[t] = "inactive" THEN drift \cup {t} ELSE drift
    /\ AdminEnds(a)
    /\ UNCHANGED <<table, mapping, select, gone, faults>>

DeactivateTool(a, t) ==
    /\ table[t] # "none"
    /\ AdminAt(a, "deactivate", t, NoTool)
    /\ UNCHANGED <<table, indexed, mapping, select, gone, drift, faults>>

\* Mutant: the vector of the tool is left where it is.
DeactivateTableOnly(a) ==
    LET t == admin[a].tool IN
    /\ admin[a].at = "deactivate"
    /\ table' = [table EXCEPT ![t] = "inactive"]
    /\ AdminEnds(a)
    /\ UNCHANGED <<indexed, mapping, select, gone, drift, faults>>

\* The table first: "if vector delete fails, the tool is already inactive".
Deactivate(a) ==
    LET t == admin[a].tool IN
    /\ admin[a].at = "deactivate"
    /\ table' = [table EXCEPT ![t] = "inactive"]
    /\ IF HasIndex THEN AdminAt(a, "unindex", t, NoTool) ELSE AdminEnds(a)
    /\ UNCHANGED <<indexed, mapping, select, gone, drift, faults>>

Unindex(a) ==
    LET t == admin[a].tool IN
    /\ admin[a].at = "unindex"
    /\ indexed' = indexed \ {t} /\ drift' = drift \ {t}
    /\ AdminEnds(a)
    /\ UNCHANGED <<table, mapping, select, gone, faults>>

SetMapping(a, c, t) ==
    /\ table[t] = "active"
    /\ AdminAt(a, "upsert", t, c)
    /\ UNCHANGED <<table, indexed, mapping, select, gone, drift, faults>>

\* By now the tool may be inactive.
Upsert(a) ==
    /\ admin[a].at = "upsert"
    /\ mapping' = [mapping EXCEPT ![admin[a].command] = admin[a].tool]
    /\ AdminEnds(a)
    /\ UNCHANGED <<table, indexed, select, gone, drift, faults>>

DeleteMapping(a, c) ==
    /\ mapping[c] # NoTool
    /\ mapping' = [mapping EXCEPT ![c] = NoTool]
    /\ UNCHANGED <<table, indexed, admin, select, gone, drift, faults>>

\* A call ends half-way.  What fails at the index is only logged: the call answers as
\* if it had worked, and the id cannot be registered again.
AdminBreaks(a) ==
    /\ admin[a].at # "idle"
    /\ faults < MaxFaults /\ faults' = faults + 1
    /\ drift' = IF admin[a].at \in {"index", "unindex"} THEN drift \cup {admin[a].tool}
                ELSE drift
    /\ AdminEnds(a)
    /\ UNCHANGED <<table, indexed, mapping, select, gone>>

-----------------------------------------------------------------------------
(* Choosing among the tools found *)

Best(S, rank) == {t \in S : \A u \in S : rank[u] <= rank[t]}

\* resolveConflicts: of the tools of one category, the first whose protocol the text
\* names, or the first default, or the first.
Winners(S, rank, named) ==
    IF S \cap named # {} THEN Best(S \cap named, rank)
    ELSE IF S \cap Defaults # {} THEN Best(S \cap Defaults, rank)
    ELSE Best(S, rank)

\* manifests[0]: the winner of the category of the first tool found.  Tools of equal
\* rank come in any order.
Chosen(found, rank, named) ==
    UNION {Winners({u \in found : Category[u] = Category[t]}, rank, named) :
              t \in Best(found, rank)}

\* What the vector search may return: at most TopK of the vectors, with their scores.
Hits == UNION {[S -> Scores] : S \in {T \in SUBSET indexed : Cardinality(T) <= TopK}}

\* search: by priority, defaults first among equals.
KeywordRank == [t \in Tools |-> 2 * Priority[t] + (IF t \in Defaults THEN 1 ELSE 0)]

-----------------------------------------------------------------------------
(* selectTool and buildRequestBody *)

SelectAt(s, at, t) == select' = [select EXCEPT ![s].at = at, ![s].tool = t, ![s].hits = NoHits]
SelectEnds(s) == select' = [select EXCEPT ![s] = SelectIdle]

\* Where the search begins: without an index the table is searched for the words.
Discover == IF HasIndex THEN "search" ELSE "keyword"

\* A message with a command: the mapping is looked up first.
SelectTool(s, c) ==
    /\ select[s].at = "idle"
    /\ select' = [select EXCEPT ![s] = [SelectIdle EXCEPT
                    !.at = IF mapping[c] # NoTool THEN "record" ELSE Discover,
                    !.tool = mapping[c]]]
    /\ gone' = [gone EXCEPT ![s] = {t \in Tools : table[t] = "inactive"}]
    /\ UNCHANGED <<table, indexed, mapping, admin, drift, faults>>

\* The tool of the mapping, if it is active; otherwise the search decides.
ReadRecord(s) ==
    /\ select[s].at = "record"
    /\ IF select[s].tool \in Active THEN SelectAt(s, "chosen", select[s].tool)
       ELSE SelectAt(s, Discover, NoTool)
    /\ UNCHANGED <<table, indexed, mapping, admin, gone, drift, faults>>

\* The index answers.  No hit at all means no tool.
Search(s) ==
    /\ select[s].at = "search"
    /\ \E h \in Hits :
         select' = [select EXCEPT ![s] = IF DOMAIN h = {} THEN SelectIdle
                                         ELSE [@ EXCEPT !.at = "manifests", !.hits = h]]
    /\ UNCHANGED <<table, indexed, mapping, admin, gone, drift, faults>>

\* Mutant: whatever the index still knows.
FindByToolIdsAny(hits) == DOMAIN hits

\* findByToolIds: the active ones among the hits; none of them means no tool.
FindByToolIds(hits) == DOMAIN hits \cap Active

ChooseAmong(s, found, rank) ==
    IF found = {} THEN SelectEnds(s)
    ELSE \E named \in SUBSET found : \E t \in Chosen(found, rank, named) : SelectAt(s, "chosen", t)

ReadManifests(s) ==
    /\ select[s].at = "manifests"
    /\ ChooseAmong(s, FindByToolIds(select[s].hits), select[s].hits)
    /\ UNCHANGED <<table, indexed, mapping, admin, gone, drift, faults>>

\* The search of the index or the read of the manifests throws.
SearchFails(s) ==
    /\ select[s].at \in {"search", "manifests"}
    /\ faults < MaxFaults /\ faults' = faults + 1
    /\ SelectAt(s, "keyword", NoTool)
    /\ UNCHANGED <<table, indexed, mapping, admin, gone, drift>>

\* The active tools that contain the text.
Keyword(s) ==
    /\ select[s].at = "keyword"
    /\ \E found \in SUBSET Active : ChooseAmong(s, found, KeywordRank)
    /\ UNCHANGED <<table, indexed, mapping, admin, gone, drift, faults>>

\* getSolverAsync: a tool that the table has as active can be built with.
HasSolver(t) == t \in Active

\* The command runs: the solver registry reads the tool once more and refuses an inactive one.
BuildRequestBody(s) ==
    /\ select[s].at = "chosen"
    /\ IF HasSolver(select[s].tool) THEN SelectAt(s, "built", select[s].tool)
       ELSE SelectEnds(s)
    /\ UNCHANGED <<table, indexed, mapping, admin, gone, drift, faults>>

\* The conversation ends, by the request that was built or unfinished.
Leave(s) ==
    /\ select[s].at \in {"chosen", "built"}
    /\ SelectEnds(s)
    /\ UNCHANGED <<table, indexed, mapping, admin, gone, drift, faults>>

-----------------------------------------------------------------------------
\* The routes; a request that is refused at once changes nothing.
HandlePostTools(a, t) == admin[a].at = "idle" /\ Register(a, t)
HandleDeleteTool(a, t) == admin[a].at = "idle" /\ DeactivateTool(a, t)
HandlePostCommandMapping(a, c, t) == admin[a].at = "idle" /\ SetMapping(a, c, t)
HandleDeleteCommandMapping(a, c) == admin[a].at = "idle" /\ DeleteMapping(a, c)

AdminNext(a) ==
    \/ \E t \in Tools : HandlePostTools(a, t) \/ HandleDeleteTool(a, t)
    \/ \E c \in Commands, t \in Tools : HandlePostCommandMapping(a, c, t)
    \/ \E c \in Commands : HandleDeleteCommandMapping(a, c)
    \/ Create(a) \/ Index(a) \/ Deactivate(a) \/ Unindex(a) \/ Upsert(a) \/ AdminBreaks(a)

SelectNext(s) ==
    \/ \E c \in Commands : SelectTool(s, c)
    \/ ReadRecord(s) \/ Search(s) \/ ReadManifests(s) \/ SearchFails(s) \/ Keyword(s)
    \/ BuildRequestBody(s) \/ Leave(s)

Next == (\E a \in Admins : AdminNext(a)) \/ (\E s \in Chats : SelectNext(s))

Spec == Init /\ [][Next]_vars

-----------------------------------------------------------------------------
(* Properties *)

CatalogType ==
    /\ table \in [Tools -> {"none", "active", "inactive"}]
    /\ indexed \subseteq Tools /\ drift \subseteq Tools /\ faults \in 0..MaxFaults
    /\ mapping \in [Commands -> Tools \cup {NoTool}]
    /\ admin \in [Admins ->
         [at: {"idle", "insert", "index", "deactivate", "unindex", "upsert"},
          tool: Tools \cup {NoTool}, command: Commands \cup {NoTool}]]
    /\ \A a \in Admins : admin[a].at # "idle" => admin[a].tool \in Tools
    /\ \A a \in Admins : admin[a].at = "upsert" => admin[a].command \in Commands

HitType == UNION {[S -> Scores] : S \in SUBSET Tools}

SelectType ==
    /\ select \in [Chats ->
         [at: {"idle", "record", "search", "manifests", "keyword", "chosen", "built"},
          tool: Tools \cup {NoTool}, hits: HitType]]
    /\ \A s \in Chats :
         select[s].at \in {"record", "chosen", "built"} => select[s].tool \in Tools
    /\ gone \in [Chats -> SUBSET Tools]

\* Every variable has its type; calls under way have their tool.
TypeOK == CatalogType /\ SelectType

\* A tool that was deactivated before the message came is never chosen for it, though
\* mappings and vectors of it may be left: "filtered out by findByToolIds (isActive=true
\* guard)" (toolRegistration.usecase.ts:101, intent.usecase.ts:240).
SelectedWasActive ==
    \A s \in Chats : select[s].at \in {"chosen", "built"} => select[s].tool \notin gone[s]

\* While no admin works on a tool, the index has it if and only if it is active, unless a
\* call about it ended at the index or it was deactivated before its vector arrived
\* (toolRegistration.usecase.ts:85-111).
IndexFollowsTable ==
    \A t \in Tools \ drift :
      (\A a \in Admins : admin[a].tool # t) => (t \in indexed <=> HasIndex /\ t \in Active)
================================================================================
