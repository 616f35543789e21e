------------------------------ MODULE MCContent ------------------------------
(***************************************************************************)
(* The structures a database keeps and the queries over them, each checked *)
(* on its own: a behaviour runs one part, chosen at the start, and the     *)
(* others rest in one of their initial states.  Every part may end, so     *)
(* deadlock is no error.                                                   *)
(***************************************************************************)
EXTENDS MCStructures, MCQuery

VARIABLE part

(* The parts that do not run: the first three rest in one of their initial *)
(* states, the last three in a state of their own that has no step.        *)
ContentInit ==
    /\ part \in {"tree", "codec", "indexes", "graph", "adjacency", "rdf", "values", "query", "parser"}
    /\ ALInit /\ RDFInit /\ VCInit
    /\ BTInit /\ (part = "tree" \/ btcontent = <<>>)
    /\ IMInit /\ (part = "indexes" \/ entries = CHOOSE g \in EntryGroups : \E e \in g : e.index = "type")
    /\ GSInit /\ (part = "graph" \/ script = CHOOSE s \in Scripts : s.nodes = 0)
    /\ IF part = "values" THEN CVInit ELSE cvcase = <<>> /\ cvout = <<>> /\ cvpc = "off"
    /\ IF part = "query" THEN CQInit
       ELSE cqgraph = <<>> /\ cqleft = <<>> /\ cqop = NoPlan /\ cqrows = <<>> /\ cqpc = "off" /\ cqbefore = <<>>
    /\ IF part = "parser" THEN PRInit
       ELSE prcase = <<>> /\ prin = <<>> /\ prclauses = <<>> /\ prerrors = 0 /\ prskipped = {} /\ prpc = "off"

structurevars == <<btvars, vcvars, imvars, gsvars, alvars, rdfvars>>
queryvars == <<cvvars, cqvars, prvars>>

StructuresNext ==
    \/ part = "tree" /\ BTNext /\ UNCHANGED <<vcvars, imvars, gsvars, alvars, rdfvars>>
    \/ part = "codec" /\ VCNext /\ UNCHANGED <<btvars, imvars, gsvars, alvars, rdfvars>>
    \/ part = "indexes" /\ IMNext /\ UNCHANGED <<btvars, vcvars, gsvars, alvars, rdfvars>>
    \/ part = "graph" /\ GSNext /\ UNCHANGED <<btvars, vcvars, imvars, alvars, rdfvars>>
    \/ part = "adjacency" /\ ALNext /\ UNCHANGED <<btvars, vcvars, imvars, gsvars, rdfvars>>
    \/ part = "rdf" /\ RDFNext /\ UNCHANGED <<btvars, vcvars, imvars, gsvars, alvars>>

QueryNext ==
    \/ part = "values" /\ CVNext /\ UNCHANGED <<cqvars, prvars>>
    \/ part = "query" /\ CQNext /\ UNCHANGED <<cvvars, prvars>>
    \/ part = "parser" /\ PRNext /\ UNCHANGED <<cvvars, cqvars>>

ContentNext ==
    /\ UNCHANGED part
    /\ \/ StructuresNext /\ UNCHANGED queryvars
       \/ QueryNext /\ UNCHANGED structurevars

ContentSpec == ContentInit /\ [][ContentNext]_<<structurevars, queryvars, part>>
=============================================================================
