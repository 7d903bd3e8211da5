--------------------------- MODULE ToolCatalogProofs ---------------------------
(***************************************************************************)
(* What holds of the tool catalog for every set of tools, admins and       *)
(* conversations.                                                          *)
(***************************************************************************)
EXTENDS ToolCatalog, TLAPS

-----------------------------------------------------------------------------
(* Choosing among the tools found *)

LEMMA WinnersFound ==
    ASSUME NEW S, NEW rank, NEW named
    PROVE  Winners(S, rank, named) \subseteq S
  BY DEF Winners, Best

(***************************************************************************)
(* The chosen tool is one of those found; of its category it is one that   *)
(* the text names if there is any, and otherwise a default if there is     *)
(* any (resolveConflicts, intent.usecase.ts:382-413).                      *)
(***************************************************************************)
THEOREM ChosenSound ==
    ASSUME NEW found \in SUBSET Tools, NEW rank, NEW named \in SUBSET Tools,
           NEW t \in Chosen(found, rank, named)
    PROVE  LET rivals == {u \in found : Category[u] = Category[t]}
           IN  /\ t \in found
               /\ rivals \cap named # {} => t \in named
               /\ rivals \cap named = {} /\ rivals \cap Defaults # {} => t \in Defaults
  <1>1. PICK b \in Best(found, rank) :
            t \in Winners({u \in found : Category[u] = Category[b]}, rank, named)
    BY DEF Chosen
  <1> DEFINE S == {u \in found : Category[u] = Category[b]}
  <1>2. t \in S
    BY <1>1, WinnersFound
  <1>3. S = {u \in found : Category[u] = Category[t]}
    BY <1>2
  <1>4. S \cap named # {} => t \in named
    BY <1>1 DEF Winners, Best
  <1>5. S \cap named = {} /\ S \cap Defaults # {} => t \in Defaults
    BY <1>1 DEF Winners, Best
  <1> QED
    BY <1>2, <1>3, <1>4, <1>5

LEMMA ChosenFound ==
    ASSUME NEW found \in SUBSET Tools, NEW rank, NEW named \in SUBSET Tools
    PROVE  Chosen(found, rank, named) \subseteq found
  BY ChosenSound

-----------------------------------------------------------------------------
(* The invariant *)

\* The calls that are at the index or about to be.
AdminInv ==
    \A a \in Admins :
      /\ admin[a].at = "index" => HasIndex /\ table[admin[a].tool] # "none"
      /\ admin[a].at = "unindex" => table[admin[a].tool] = "inactive"
      /\ admin[a].at = "deactivate" => table[admin[a].tool] # "none"

\* What was inactive when a conversation began still is.
GoneInv == \A s \in Chats : \A t \in gone[s] : table[t] = "inactive"

\* Apart from drift, what the index lacks or has too much some call is about to mend.
DriftInv ==
    \A t \in Tools \ drift :
      /\ t \in Active /\ HasIndex /\ t \notin indexed
           => \E a \in Admins : admin[a].at = "index" /\ admin[a].tool = t
      /\ t \in indexed /\ t \notin Active
           => \E a \in Admins : admin[a].at = "unindex" /\ admin[a].tool = t
      /\ t \in indexed => HasIndex

IInv == TypeOK /\ AdminInv /\ GoneInv /\ SelectedWasActive /\ DriftInv

LEMMA InitInv == Init => IInv
  <1> SUFFICES ASSUME Init PROVE IInv
    OBVIOUS
  <1>1. NoHits \in HitType
    <2>1. NoHits \in [{} -> Scores]
      BY DEF NoHits
    <2> QED
      BY <2>1 DEF HitType
  <1>2. TypeOK
    BY <1>1, FaultAssumption
       DEF Init, TypeOK, CatalogType, SelectType, AdminIdle, SelectIdle
  <1>3. AdminInv /\ GoneInv /\ SelectedWasActive /\ DriftInv
    BY DEF Init, AdminInv, GoneInv, SelectedWasActive, DriftInv, AdminIdle, SelectIdle, Active
  <1> QED
    BY <1>2, <1>3 DEF IInv

-----------------------------------------------------------------------------
(* The steps of an admin's call *)

LEMMA AdminType ==
    ASSUME CatalogType, NEW a \in Admins, AdminNext(a)
    PROVE  CatalogType'
  <1> USE ToolAssumption, FaultAssumption DEF CatalogType, AdminAt, AdminEnds, AdminIdle
  <1>1. ASSUME NEW t \in Tools, HandlePostTools(a, t) \/ HandleDeleteTool(a, t)
        PROVE  CatalogType'
    BY <1>1 DEF HandlePostTools, HandleDeleteTool, Register, DeactivateTool
  <1>2. ASSUME NEW c \in Commands, HandleDeleteCommandMapping(a, c)
        PROVE  CatalogType'
    BY <1>2 DEF HandleDeleteCommandMapping, DeleteMapping
  <1>3. ASSUME NEW c \in Commands, NEW t \in Tools, HandlePostCommandMapping(a, c, t)
        PROVE  CatalogType'
    BY <1>3 DEF HandlePostCommandMapping, SetMapping
  <1>4. CASE Create(a)
    BY <1>4 DEF Create
  <1>5. CASE Index(a)
    BY <1>5 DEF Index
  <1>6. CASE Deactivate(a)
    BY <1>6 DEF Deactivate
  <1>7. CASE Unindex(a)
    BY <1>7 DEF Unindex
  <1>8. CASE Upsert(a)
    BY <1>8 DEF Upsert
  <1>9. CASE AdminBreaks(a)
    BY <1>9 DEF AdminBreaks
  <1> QED
    BY <1>1, <1>2, <1>3, <1>4, <1>5, <1>6, <1>7, <1>8, <1>9 DEF AdminNext

\* A tool once inactive stays inactive, and what conversations do is left alone.
LEMMA AdminFrame ==
    ASSUME CatalogType, NEW a \in Admins, AdminNext(a)
    PROVE  /\ \A t \in Tools : table[t] = "inactive" => table'[t] = "inactive"
           /\ UNCHANGED <<select, gone>>
  BY DEF CatalogType, AdminNext, HandlePostTools, HandleDeleteTool,
         HandlePostCommandMapping, HandleDeleteCommandMapping, Register, DeactivateTool,
         SetMapping, DeleteMapping, Create,
         Index, Deactivate, Unindex, Upsert, AdminBreaks

\* A step of one call leaves every other call where it is.
LEMMA OtherCalls ==
    ASSUME CatalogType, NEW a \in Admins, AdminNext(a), NEW b \in Admins \ {a}
    PROVE  admin'[b] = admin[b]
  BY DEF CatalogType, AdminNext, HandlePostTools, HandleDeleteTool,
         HandlePostCommandMapping, HandleDeleteCommandMapping, Register, DeactivateTool,
         SetMapping, DeleteMapping, Create,
         Index, Deactivate, Unindex, Upsert, AdminBreaks, AdminAt, AdminEnds

LEMMA AdminKeepsCalls ==
    ASSUME CatalogType, AdminInv, NEW a \in Admins, AdminNext(a)
    PROVE  AdminInv'
  <1>1. /\ \A t \in Tools : table[t] = "inactive" => table'[t] = "inactive"
        /\ \A t \in Tools : table[t] # "none" => table'[t] # "none"
    BY DEF CatalogType, AdminNext, HandlePostTools, HandleDeleteTool,
           HandlePostCommandMapping, HandleDeleteCommandMapping, Register, DeactivateTool,
           SetMapping, DeleteMapping, Create,
           Index, Deactivate, Unindex, Upsert, AdminBreaks
  <1>2. ASSUME NEW b \in Admins \ {a}
        PROVE  /\ admin'[b].at = "index" => HasIndex /\ table'[admin'[b].tool] # "none"
               /\ admin'[b].at = "unindex" => table'[admin'[b].tool] = "inactive"
               /\ admin'[b].at = "deactivate" => table'[admin'[b].tool] # "none"
    BY <1>1, <1>2, OtherCalls DEF AdminInv, CatalogType
  <1>3. /\ admin'[a].at = "index" => HasIndex /\ table'[admin'[a].tool] # "none"
        /\ admin'[a].at = "unindex" => table'[admin'[a].tool] = "inactive"
        /\ admin'[a].at = "deactivate" => table'[admin'[a].tool] # "none"
    <2> USE DEF AdminInv, CatalogType, AdminAt, AdminEnds, AdminIdle
    <2>1. ASSUME NEW t \in Tools, HandlePostTools(a, t) \/ HandleDeleteTool(a, t)
          PROVE  <1>3!1 /\ <1>3!2 /\ <1>3!3
      BY <2>1 DEF HandlePostTools, HandleDeleteTool, Register, DeactivateTool
    <2>2. ASSUME NEW c \in Commands, HandleDeleteCommandMapping(a, c)
          PROVE  <1>3!1 /\ <1>3!2 /\ <1>3!3
      BY <2>2 DEF HandleDeleteCommandMapping, DeleteMapping
    <2>3. ASSUME NEW c \in Commands, NEW t \in Tools, HandlePostCommandMapping(a, c, t)
          PROVE  <1>3!1 /\ <1>3!2 /\ <1>3!3
      BY <2>3 DEF HandlePostCommandMapping, SetMapping
    <2>4. CASE Create(a)
      BY <2>4 DEF Create
    <2>5. CASE Index(a)
      BY <2>5 DEF Index
    <2>6. CASE Deactivate(a)
      BY <2>6 DEF Deactivate
    <2>7. CASE Unindex(a)
      BY <2>7 DEF Unindex
    <2>8. CASE Upsert(a)
      BY <2>8 DEF Upsert
    <2>9. CASE AdminBreaks(a)
      BY <2>9 DEF AdminBreaks
    <2> QED
      BY <2>1, <2>2, <2>3, <2>4, <2>5, <2>6, <2>7, <2>8, <2>9 DEF AdminNext
  <1> QED
    BY <1>2, <1>3 DEF AdminInv

\* One tool's part of DriftInv.
Mending(t) ==
    /\ t \in Active /\ HasIndex /\ t \notin indexed
         => \E a \in Admins : admin[a].at = "index" /\ admin[a].tool = t
    /\ t \in indexed /\ t \notin Active
         => \E a \in Admins : admin[a].at = "unindex" /\ admin[a].tool = t
    /\ t \in indexed => HasIndex

\* A tool that a step does not touch needs the call it needed before.
LEMMA MendingElsewhere ==
    ASSUME CatalogType, NEW a \in Admins, AdminNext(a), NEW t \in Tools, Mending(t),
           table'[t] = table[t], t \in indexed' <=> t \in indexed,
           admin[a].at \in {"index", "unindex"} => admin[a].tool # t
    PROVE  Mending(t)'
  <1>1. ASSUME NEW b \in Admins, admin[b].at \in {"index", "unindex"}, admin[b].tool = t
        PROVE  admin'[b] = admin[b]
    BY <1>1, OtherCalls
  <1> QED
    BY <1>1 DEF Mending, Active

LEMMA AdminKeepsDrift ==
    ASSUME CatalogType, AdminInv, DriftInv, NEW a \in Admins, AdminNext(a)
    PROVE  DriftInv'
  <1> SUFFICES ASSUME NEW t \in Tools, t \notin drift' PROVE Mending(t)'
    BY DEF DriftInv, Mending
  <1> DEFINE u == admin[a].tool
  <1>1. ASSUME t \notin drift, table'[t] = table[t], t \in indexed' <=> t \in indexed,
               admin[a].at \in {"index", "unindex"} => u # t
        PROVE  Mending(t)'
    <2>1. Mending(t)
      BY <1>1 DEF DriftInv, Mending
    <2> QED
      BY <1>1, <2>1, MendingElsewhere
  <1>2. CASE \E v \in Tools : HandlePostTools(a, v) \/ HandleDeleteTool(a, v)
    BY <1>1, <1>2 DEF HandlePostTools, HandleDeleteTool, Register, DeactivateTool
  <1>3. CASE \E c \in Commands : \/ HandleDeleteCommandMapping(a, c)
                                \/ \E v \in Tools : HandlePostCommandMapping(a, c, v)
    BY <1>1, <1>3 DEF HandleDeleteCommandMapping, HandlePostCommandMapping,
                      DeleteMapping, SetMapping
  <1>4. CASE Create(a)
    <2>1. CASE t # u \/ table[u] # "none"
      BY <1>1, <1>4, <2>1 DEF Create, CatalogType
    <2>2. CASE t = u /\ table[u] = "none"
      <3>1. t \notin drift /\ indexed' = indexed /\ t \in Active'
        BY <1>4, <2>2 DEF Create, CatalogType, Active
      <3>2. t \in indexed => HasIndex
        BY <3>1 DEF DriftInv
      <3>3. HasIndex => admin'[a].at = "index" /\ admin'[a].tool = t
        BY <1>4, <2>2 DEF Create, CatalogType, AdminAt
      <3> QED
        BY <3>1, <3>2, <3>3 DEF Mending
    <2> QED
      BY <2>1, <2>2
  <1>5. CASE Index(a)
    <2>1. CASE t # u
      BY <1>1, <1>5, <2>1 DEF Index, CatalogType
    <2>2. CASE t = u
      <3>1. HasIndex /\ table'[t] = "active" /\ t \in indexed'
        BY <1>5, <2>2 DEF Index, CatalogType, AdminInv
      <3> QED
        BY <3>1 DEF Mending, Active
    <2> QED
      BY <2>1, <2>2
  <1>6. CASE Deactivate(a)
    <2>1. CASE t # u
      BY <1>1, <1>6, <2>1 DEF Deactivate, CatalogType
    <2>2. CASE t = u
      <3>1. t \notin drift /\ indexed' = indexed /\ t \notin Active'
        BY <1>6, <2>2 DEF Deactivate, CatalogType, Active
      <3>2. t \in indexed => HasIndex
        BY <3>1 DEF DriftInv
      <3>3. HasIndex => admin'[a].at = "unindex" /\ admin'[a].tool = t
        BY <1>6, <2>2 DEF Deactivate, CatalogType, AdminAt
      <3> QED
        BY <3>1, <3>2, <3>3 DEF Mending
    <2> QED
      BY <2>1, <2>2
  <1>7. CASE Unindex(a)
    <2>1. CASE t # u
      BY <1>1, <1>7, <2>1 DEF Unindex, CatalogType
    <2>2. CASE t = u
      <3>1. t \notin indexed' /\ t \notin Active'
        BY <1>7, <2>2 DEF Unindex, CatalogType, AdminInv, Active
      <3> QED
        BY <3>1 DEF Mending
    <2> QED
      BY <2>1, <2>2
  <1>8. CASE Upsert(a)
    BY <1>1, <1>8 DEF Upsert
  <1>9. CASE AdminBreaks(a)
    BY <1>1, <1>9 DEF AdminBreaks
  <1> QED
    BY <1>2, <1>3, <1>4, <1>5, <1>6, <1>7, <1>8, <1>9 DEF AdminNext

LEMMA AdminKeepsInv ==
    ASSUME IInv, NEW a \in Admins, AdminNext(a)
    PROVE  IInv'
  <1>1. CatalogType' /\ AdminInv' /\ DriftInv'
    BY AdminType, AdminKeepsCalls, AdminKeepsDrift DEF IInv, TypeOK
  <1>2. SelectType' /\ GoneInv' /\ SelectedWasActive'
    BY AdminFrame DEF IInv, TypeOK, SelectType, GoneInv, SelectedWasActive
  <1> QED
    BY <1>1, <1>2 DEF IInv, TypeOK

-----------------------------------------------------------------------------
(* The steps of a conversation *)

\* What conversations leave alone.
LEMMA SelectFrame ==
    ASSUME NEW s \in Chats, SelectNext(s)
    PROVE  UNCHANGED <<table, indexed, mapping, admin, drift>>
  BY DEF SelectNext, SelectTool, ReadRecord, Search, ReadManifests, SearchFails, Keyword,
         BuildRequestBody, Leave

\* Every set of hits is one that a conversation may keep.
LEMMA HitsType ==
    ASSUME CatalogType
    PROVE  /\ NoHits \in HitType
           /\ Hits \subseteq HitType
  <1>1. NoHits \in [{} -> Scores]
    BY DEF NoHits
  <1>2. Hits \subseteq HitType
    BY DEF Hits, HitType, CatalogType
  <1> QED
    BY <1>1, <1>2 DEF HitType

\* A conversation at rest, or at a step that needs no tool.
LEMMA SelectAtType ==
    ASSUME CatalogType, SelectType, NEW s \in Chats,
           NEW at \in {"search", "keyword", "chosen", "built"}, NEW t \in Tools \cup {NoTool},
           at \in {"chosen", "built"} => t \in Tools,
           SelectAt(s, at, t), gone' = gone
    PROVE  SelectType'
  <1> USE HitsType DEF SelectType, SelectAt
  <1>1. select' \in [Chats ->
           [at: {"idle", "record", "search", "manifests", "keyword", "chosen", "built"},
            tool: Tools \cup {NoTool}, hits: HitType]]
    OBVIOUS
  <1>2. ASSUME NEW r \in Chats, select'[r].at \in {"record", "chosen", "built"}
        PROVE  select'[r].tool \in Tools
    BY <1>2
  <1> QED
    BY <1>1, <1>2

LEMMA SelectEndsType ==
    ASSUME CatalogType, SelectType, NEW s \in Chats, SelectEnds(s), gone' = gone
    PROVE  SelectType'
  BY HitsType DEF SelectType, SelectEnds, SelectIdle

LEMMA ChooseAmongSteps ==
    ASSUME CatalogType, SelectType, NEW s \in Chats, NEW found \in SUBSET Active, NEW rank,
           ChooseAmong(s, found, rank), gone' = gone
    PROVE  /\ SelectType'
           /\ select'[s].at \in {"chosen", "built"} => select'[s].tool \in Active
  <1>1. CASE found = {}
    BY <1>1, SelectEndsType DEF ChooseAmong, SelectEnds, SelectIdle, SelectType
  <1>2. CASE found # {}
    <2>1. PICK named \in SUBSET found :
              \E t \in Chosen(found, rank, named) : SelectAt(s, "chosen", t)
      BY <1>2 DEF ChooseAmong
    <2> PICK t \in Chosen(found, rank, named) : SelectAt(s, "chosen", t)
      BY <2>1
    <2>2. t \in Active /\ t \in Tools
      BY ChosenFound DEF Active
    <2>3. SelectType'
      BY <2>2, SelectAtType
    <2>4. select'[s].tool = t
      BY DEF SelectAt, SelectType
    <2> QED
      BY <2>2, <2>3, <2>4
  <1> QED
    BY <1>1, <1>2

\* What a step of a conversation leads to.
SelectStep(s) ==
    /\ SelectType' /\ faults' \in 0..MaxFaults
    /\ \A r \in Chats \ {s} : select'[r] = select[r] /\ gone'[r] = gone[r]
    /\ \A r \in Chats : gone'[r] = gone[r] \/ gone'[r] = {t \in Tools : table[t] = "inactive"}
    /\ select'[s].at \in {"chosen", "built"} => gone'[s] = gone[s] /\ select'[s].tool \in Active

LEMMA SelectSteps ==
    ASSUME TypeOK, NEW s \in Chats, SelectNext(s)
    PROVE  SelectStep(s)
  <1> USE DEF TypeOK
  <1>1. ASSUME NEW c \in Commands, SelectTool(s, c)
        PROVE  SelectStep(s)
    <2>1. mapping[c] \in Tools \cup {NoTool} /\ Discover \in {"search", "keyword"}
      BY DEF CatalogType, Discover
    <2>2. SelectType'
      BY <1>1, <2>1, HitsType DEF SelectTool, SelectIdle, SelectType
    <2> QED
      BY <1>1, <2>1, <2>2 DEF SelectTool, SelectIdle, SelectStep, SelectType, CatalogType
  <1>2. CASE ReadRecord(s)
    <2>1. Discover \in {"search", "keyword"} /\ Active \subseteq Tools
      BY DEF Discover, Active
    <2>2. SelectType'
      BY <1>2, <2>1, SelectAtType DEF ReadRecord
    <2> QED
      BY <1>2, <2>1, <2>2 DEF ReadRecord, SelectAt, SelectStep, SelectType, CatalogType
  <1>3. CASE Search(s)
    <2>1. PICK h \in Hits :
              select' = [select EXCEPT ![s] = IF DOMAIN h = {} THEN SelectIdle
                                              ELSE [@ EXCEPT !.at = "manifests", !.hits = h]]
      BY <1>3 DEF Search
    <2>2. h \in HitType
      BY HitsType
    <2>3. gone' = gone /\ faults' = faults
      BY <1>3 DEF Search
    <2>4. SelectType'
      BY <2>1, <2>2, <2>3, HitsType DEF SelectType, SelectIdle
    <2>5. select'[s].at \in {"idle", "manifests"}
      BY <2>1 DEF SelectIdle, SelectType
    <2>6. \A r \in Chats \ {s} : select'[r] = select[r]
      BY <2>1 DEF SelectType
    <2> QED
      BY <2>3, <2>4, <2>5, <2>6 DEF SelectStep, CatalogType
  <1>4. CASE ReadManifests(s)
    <2>1. FindByToolIds(select[s].hits) \in SUBSET Active
      BY DEF FindByToolIds
    <2>2. /\ SelectType'
          /\ select'[s].at \in {"chosen", "built"} => select'[s].tool \in Active
      BY <1>4, <2>1, ChooseAmongSteps DEF ReadManifests
    <2> QED
      BY <1>4, <2>2 DEF ReadManifests, ChooseAmong, SelectAt, SelectEnds, SelectStep,
                        SelectType, CatalogType
  <1>5. CASE SearchFails(s)
    <2>1. SelectType'
      BY <1>5, SelectAtType DEF SearchFails
    <2> QED
      BY <1>5, <2>1, FaultAssumption
         DEF SearchFails, SelectAt, SelectStep, SelectType, CatalogType
  <1>6. CASE Keyword(s)
    <2>1. PICK found \in SUBSET Active : ChooseAmong(s, found, KeywordRank)
      BY <1>6 DEF Keyword
    <2>2. gone' = gone /\ faults' = faults
      BY <1>6 DEF Keyword
    <2>3. /\ SelectType'
          /\ select'[s].at \in {"chosen", "built"} => select'[s].tool \in Active
      BY <2>1, <2>2, ChooseAmongSteps
    <2> QED
      BY <2>1, <2>2, <2>3 DEF ChooseAmong, SelectAt, SelectEnds, SelectStep,
                              SelectType, CatalogType
  <1>7. CASE BuildRequestBody(s)
    <2>1. SelectType'
      BY <1>7, SelectAtType, SelectEndsType DEF BuildRequestBody, HasSolver, Active
    <2> QED
      BY <1>7, <2>1 DEF BuildRequestBody, HasSolver, SelectAt, SelectEnds, SelectIdle, SelectStep,
                        SelectType, CatalogType
  <1>8. CASE Leave(s)
    <2>1. SelectType'
      BY <1>8, SelectEndsType DEF Leave
    <2> QED
      BY <1>8, <2>1 DEF Leave, SelectEnds, SelectIdle, SelectStep, SelectType, CatalogType
  <1> QED
    BY <1>1, <1>2, <1>3, <1>4, <1>5, <1>6, <1>7, <1>8 DEF SelectNext

LEMMA SelectKeepsInv ==
    ASSUME IInv, NEW s \in Chats, SelectNext(s)
    PROVE  IInv'
  <1>1. UNCHANGED <<table, indexed, mapping, admin, drift>>
    BY SelectFrame
  <1>2. SelectStep(s)
    BY SelectSteps DEF IInv
  <1>3. TypeOK'
    BY <1>1, <1>2 DEF SelectStep, IInv, TypeOK, CatalogType
  <1>4. AdminInv' /\ DriftInv'
    BY <1>1 DEF IInv, AdminInv, DriftInv, Active
  <1>5. GoneInv'
    BY <1>1, <1>2 DEF SelectStep, IInv, GoneInv
  <1>6. SelectedWasActive'
    <2> SUFFICES ASSUME NEW r \in Chats, select'[r].at \in {"chosen", "built"}
                 PROVE  select'[r].tool \notin gone'[r]
      BY DEF SelectedWasActive
    <2>1. CASE r = s
      BY <1>2, <2>1 DEF SelectStep, IInv, GoneInv, Active
    <2>2. CASE r # s
      BY <1>2, <2>2 DEF SelectStep, IInv, SelectedWasActive
    <2> QED
      BY <2>1, <2>2
  <1> QED
    BY <1>3, <1>4, <1>5, <1>6 DEF IInv

-----------------------------------------------------------------------------
(* The theorems *)

(***************************************************************************)
(* The invariant holds in every reachable state.                           *)
(***************************************************************************)
THEOREM Invariance == Spec => []IInv
  <1>1. Init => IInv
    BY InitInv
  <1>2. IInv /\ [Next]_vars => IInv'
    <2> SUFFICES ASSUME IInv, [Next]_vars PROVE IInv'
      OBVIOUS
    <2>1. CASE Next
      BY <2>1, AdminKeepsInv, SelectKeepsInv DEF Next
    <2>2. CASE UNCHANGED vars
      BY <2>2 DEF vars, IInv, TypeOK, CatalogType, SelectType, AdminInv, GoneInv,
                  SelectedWasActive, DriftInv, Active
    <2> QED
      BY <2>1, <2>2
  <1> QED
    BY <1>1, <1>2, PTL DEF Spec

(***************************************************************************)
(* Every variable always has its type.                                     *)
(***************************************************************************)
THEOREM TypeCorrect == Spec => []TypeOK
  <1>1. IInv => TypeOK
    BY DEF IInv
  <1> QED
    BY <1>1, Invariance, PTL

(***************************************************************************)
(* A tool that was deactivated before the message came is never chosen for *)
(* it, whatever mappings and vectors of it are left and however the calls  *)
(* of the admins run into one another.                                     *)
(***************************************************************************)
THEOREM ChosenWasActive == Spec => []SelectedWasActive
  <1>1. IInv => SelectedWasActive
    BY DEF IInv
  <1> QED
    BY <1>1, Invariance, PTL

(***************************************************************************)
(* The index agrees with the table about every tool that no admin works    *)
(* on, but for those whose entry was left behind.                          *)
(***************************************************************************)
THEOREM IndexAgrees == Spec => []IndexFollowsTable
  <1>1. IInv => IndexFollowsTable
    BY DEF IInv, DriftInv, IndexFollowsTable
  <1> QED
    BY <1>1, Invariance, PTL
================================================================================
