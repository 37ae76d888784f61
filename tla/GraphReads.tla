----------------------------- MODULE GraphReads -----------------------------
(* The graph queries of AgeRepositoryImpl, get_screens_by_service and        *)
(* get_related_screens, over the graphs that Ingestion leaves at any moment. *)
(* Each is one Cypher statement, so it sees one state.  Of a node's          *)
(* properties only what the patterns test is kept: a Screen's label and the  *)
(* document it was made from, which carries its screen_name.                 *)
EXTENDS Ingestion

DocOf(s) == <<s.req, s.doc>>

(* Slip: the Service in the pattern has lost its properties.                 *)
ScreensOfAnyService(keys) == {s \in screens : s.node \in services}

(* MATCH (n)-[:BELONGS_TO]->(s:Service {name, version}), where keys are the  *)
(* services of that name, in one version or, with none given, in all.        *)
ScreensByService(keys) == {s \in screens : s.node.key \in keys}

(* MATCH (target:`label` {screen_name}), where named are the documents of    *)
(* that screen_name.                                                         *)
Targets(label, named) == {t \in screens : t.label = label /\ DocOf(t) \in named}

(* Slip: no WHERE clause.                                                    *)
RelatedOrTarget(label, named) ==
    {o \in screens : \E t \in Targets(label, named) : o.node = t.node}

(* ...-[:BELONGS_TO]->(s), (other)-[:BELONGS_TO]->(s) WHERE the ids differ:  *)
(* other's label is free, so it may be of any collection.                    *)
RelatedScreens(label, named) ==
    {o \in screens : \E t \in Targets(label, named) : o.node = t.node /\ o # t}

-----------------------------------------------------------------------------
(* ServiceListing: the two stores agree on services: the graph lists a       *)
(* searchable document under a service exactly when the metadata in the      *)
(* vector table says so, in whatever order the statements of concurrent      *)
(* uploads ran and wherever they failed.                                     *)
ServiceListing ==
    \A w \in rows : \A keys \in SUBSET Services :
        w.svc \in keys <=> \E s \in ScreensByService(keys) : ScreenFor(s, w)

(* SameServiceRelated: two documents of one service are each among the       *)
(* related screens of the other, also when racing MERGEs have split the      *)
(* service into several nodes and neither document is linked to all of them. *)
SameServiceRelated ==
    \A s, t \in screens :
        s.node.key = t.node.key /\ DocOf(s) # DocOf(t) =>
            \E o \in RelatedScreens(s.label, {DocOf(s)}) : DocOf(o) = DocOf(t)

(* RelatedThroughAnother: whichever documents bear the name asked for (named *)
(* is any set of them: a repeated upload or two shots of one screen give     *)
(* several), a screen is returned only because of a document of that name    *)
(* other than its own, in its own service.  So a name that one document      *)
(* bears never returns that document, although the query compares node ids   *)
(* and a race gives the document several Screen nodes.                       *)
RelatedThroughAnother ==
    \A label \in {s.label : s \in screens} :
        \A named \in SUBSET {DocOf(s) : s \in screens} :
            \A o \in RelatedScreens(label, named) :
                \E t \in Targets(label, named) :
                    t.node.key = o.node.key /\ DocOf(t) # DocOf(o)
=============================================================================
