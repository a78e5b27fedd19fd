-------------------------------- MODULE GraphSync --------------------------------
(***************************************************************************)
(* The knowledge graph (services/graph): a sync reads the master data from *)
(* MySQL once and merges it into Neo4j statement by statement, each its    *)
(* own transaction.  Nothing is ever deleted.  The neighbours of a node    *)
(* are shown as far as the caller may see them.                            *)
(***************************************************************************)
EXTENDS Backend

CONSTANTS
    Sites, Firms, Staff, Dangers,   \* ids of projects, subcontractors, workers, hazards
    NeighborLimit,                  \* LIMIT of the neighbour query
    MaxChanges, MaxSyncs            \* changes in MySQL, syncs (bounds)

Ids == Sites \cup Firms \cup Staff \cup Dangers
StaffRows == [active : BOOLEAN, site : Sites \cup {None}, firm : Firms \cup {None}]
DangerRows == [site : Sites, firm : Firms \cup {None}, status : {"open", "closed"}]

\* Nodes of different kinds differ, by their labels.
ASSUME GraphAssumption ==
    /\ MaxChanges \in Nat /\ MaxSyncs \in Nat /\ NeighborLimit \in Nat
    /\ None \notin Ids \cup DangerRows \cup {"active", "open", "closed"}
    /\ Sites \cap (Firms \cup Staff \cup Dangers) = {}
    /\ Firms \cap (Staff \cup Dangers) = {} /\ Staff \cap Dangers = {}

VARIABLES
    site, firm, staff, danger,      \* project, subcontractor, worker and hazard rows
    nodes, edges,                   \* Neo4j: status by id, and [from, type, to]
    sync,                           \* each running sync: see StartSync
    changes, syncs,                 \* how many so far
    fresh                           \* history: a sync that read the rows of now has completed

rowVars == <<site, firm, staff, danger>>
graphVars == <<rowVars, nodes, edges, sync, changes, syncs, fresh>>

NoSync == [left |-> <<>>, row |-> None, current |-> TRUE]
Running(r) == DOMAIN sync[r].left # {}

GraphInit ==
    /\ site = [p \in Sites |-> TRUE] /\ firm = [s \in Firms |-> TRUE]
    /\ staff = [w \in Staff |-> [active |-> TRUE, site |-> None, firm |-> None]]
    /\ danger = [h \in Dangers |-> None]
    /\ nodes = [i \in Ids |-> None] /\ edges = {}
    /\ sync = [r \in Requests |-> NoSync]
    /\ changes = 0 /\ syncs = 0 /\ fresh = FALSE
-----------------------------------------------------------------------------
\* A row of MySQL changes: status (active or not), or what it refers to.
ChangeRow ==
    /\ changes < MaxChanges /\ changes' = changes + 1 /\ fresh' = FALSE
    /\ \/ /\ \E p \in Sites : site' = [site EXCEPT ![p] = ~ @]
          /\ UNCHANGED <<firm, staff, danger>>
       \/ /\ \E s \in Firms : firm' = [firm EXCEPT ![s] = ~ @]
          /\ UNCHANGED <<site, staff, danger>>
       \/ /\ \E w \in Staff : \E row \in StaffRows : staff' = [staff EXCEPT ![w] = row]
          /\ UNCHANGED <<site, firm, danger>>
       \/ /\ \E h \in Dangers : \E row \in DangerRows : danger' = [danger EXCEPT ![h] = row]
          /\ UNCHANGED <<site, firm, staff>>
    /\ sync' = [r \in Requests |-> IF Running(r) THEN [sync[r] EXCEPT !.current = FALSE] ELSE NoSync]
    /\ UNCHANGED <<nodes, edges, syncs>>

\* The Cypher statements of the sync; an edge is merged only if both ends are there.
MergeNode(id, status) == [op |-> "node", id |-> id, status |-> status]
MergeEdge(from, type, to) == [op |-> "edge", from |-> from, type |-> type, to |-> to]
IfKnown(ids, statement) == IF None \in ids THEN <<>> ELSE <<statement>>

OfStaff(w) ==
    <<MergeNode(w, "active")>>
    \o IfKnown({staff[w].site}, MergeEdge(w, "WORKS_ON", staff[w].site))
    \o IfKnown({staff[w].site, staff[w].firm}, MergeEdge(staff[w].firm, "SUBCONTRACTS", staff[w].site))
OfDanger(h) ==
    <<MergeNode(h, danger[h].status), MergeEdge(danger[h].site, "HAS_HAZARD", h)>>
    \o IfKnown({danger[h].firm}, MergeEdge(danger[h].firm, "HAS_HAZARD", h))
StatementsOf(i) ==
    CASE i \in Staff   -> OfStaff(i)
      [] i \in Dangers -> OfDanger(i)
      [] OTHER         -> <<MergeNode(i, "active")>>

\* The rows that are synced: active projects, subcontractors and workers, all hazards.
ActiveSites == {p \in Sites : site[p]}
ActiveFirms == {s \in Firms : firm[s]}
ActiveStaff == {w \in Staff : staff[w].active}
Reported == {h \in Dangers : danger[h] # None}
Synced == ActiveSites \cup ActiveFirms \cup ActiveStaff \cup Reported

PhaseMutOrder(i) ==                   \* the hazards before what they belong to
    CASE i \in Dangers -> 1 [] i \in Sites -> 2 [] i \in Firms -> 3 [] OTHER -> 4

\* sync_graph_from_mysql goes through them in this order, those of one kind in the
\* order MySQL returns them in.
Phase(i) == CASE i \in Sites -> 1 [] i \in Firms -> 2 [] i \in Staff -> 3 [] OTHER -> 4
NextRows(left) == {i \in DOMAIN left : \A j \in DOMAIN left : Phase(i) <= Phase(j)}

\* A sync is current while no row has changed since it read them, nor since a sync
\* read them that was still running then.  Of each row the statements left are kept,
\* and which row has been begun.  (With no row to sync it does nothing.)
StartSync(r) ==
    /\ ~ Running(r) /\ syncs < MaxSyncs /\ Synced # {}
    /\ sync' = [sync EXCEPT ![r] =
         [left |-> [i \in Synced |-> StatementsOf(i)], row |-> None,
          current |-> \A q \in Requests : sync[q].current]]
    /\ syncs' = syncs + 1
    /\ UNCHANGED <<rowVars, nodes, edges, changes, fresh>>

\* The next statement is run and committed by Neo4j.
RunMerge(st) ==
    IF st.op = "node"
    THEN nodes' = [nodes EXCEPT ![st.id] = st.status] /\ UNCHANGED edges
    ELSE /\ edges' = IF None \in {nodes[st.from], nodes[st.to]} THEN edges
                     ELSE edges \cup {[from |-> st.from, type |-> st.type, to |-> st.to]}
         /\ UNCHANGED nodes

\* What a sync has left once it has run the next statement of row i.
Advance(running, i) ==
    LET rest == Tail(running.left[i])
        others == DOMAIN running.left \ {i}
    IN  IF rest # <<>> THEN [running EXCEPT !.left[i] = rest, !.row = i]
        ELSE IF others # {}
        THEN [running EXCEPT !.left = [j \in others |-> running.left[j]], !.row = None]
        ELSE NoSync

RunStatement(r) ==
    /\ \E i \in NextRows(sync[r].left) :
         /\ sync[r].row \in {None, i}
         /\ RunMerge(Head(sync[r].left[i]))
         /\ sync' = [sync EXCEPT ![r] = Advance(@, i)]
         /\ fresh' = (fresh \/ (Advance(sync[r], i) = NoSync /\ sync[r].current))
    /\ UNCHANGED <<rowVars, changes, syncs>>

\* Neo4j or the process fails: the statements run so far stay.
LoseSync(r) ==
    /\ Running(r)
    /\ sync' = [sync EXCEPT ![r] = NoSync]
    /\ UNCHANGED <<rowVars, nodes, edges, changes, syncs, fresh>>

GraphNext == ChangeRow \/ \E r \in Requests : StartSync(r) \/ RunStatement(r) \/ LoseSync(r)
GraphSpec == GraphInit /\ [][GraphNext]_graphVars
-----------------------------------------------------------------------------
\* get_graph_neighbors within one tenant and branch: only project nodes carry a
\* project_id, so only they are hidden from a user of other projects.  At most
\* NeighborLimit are fetched, in an order Neo4j chooses, before the hidden are dropped.
Visible(id, projects) == id \in Sites => id \in projects
Around(id) ==
    {[relationship |-> e.type, node |-> e.to] : e \in {x \in edges : x.from = id}}
    \cup {[relationship |-> e.type, node |-> e.from] : e \in {x \in edges : x.to = id}}
Neighbors(id, projects) ==
    IF nodes[id] = None \/ ~ Visible(id, projects) THEN {}
    ELSE {[relationship |-> n.relationship, node |-> n.node, status |-> nodes[n.node]] :
            n \in {x \in Around(id) : Visible(x.node, projects)}}

\* What MySQL says of an active project: its workers, their firms, its hazards.
Workers(p) == {w \in ActiveStaff : staff[w].site = p}
Known(p) ==
    {[relationship |-> "WORKS_ON", node |-> w, status |-> "active"] : w \in Workers(p)}
    \cup {[relationship |-> "SUBCONTRACTS", node |-> s, status |-> "active"] :
            s \in {x \in ActiveFirms : \E w \in Workers(p) : staff[w].firm = x}}
    \cup {[relationship |-> "HAS_HAZARD", node |-> h, status |-> danger[h].status] :
            h \in {x \in Reported : danger[x].site = p}}

\* Once a sync has completed that read the rows as they are (whatever failed, ran
\* twice or ended half-way before and since), who asks for the neighbours of an
\* active project of theirs is shown every relation MySQL has, in its present status,
\* unless there are more than the query fetches.
SyncedProjectIsComplete ==
    fresh => \A p \in ActiveSites :
        Cardinality(Around(p)) <= NeighborLimit => Known(p) \subseteq Neighbors(p, {p})
=============================================================================
