---------------------------- MODULE MCCatalogSync ----------------------------
EXTENDS CatalogSync

MCKindOf == [e \in Entities |-> IF e = 1 THEN 2 ELSE 1]
MCOneKind == [e \in Entities |-> 1]
=============================================================================
