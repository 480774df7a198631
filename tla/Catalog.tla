------------------------------ MODULE Catalog -------------------------------
(* Catalog (src/include/catalog/catalog.h): tables and indexes by name and by *)
(* identifier.  A catalog is a record of maps, and what changes one is an    *)
(* operator from catalogs to catalogs.  No identifier at all stands for      *)
(* nullptr.                                                                  *)
EXTENDS Naturals, TLC

TableMetadata(name, oid) == [name |-> name, oid |-> oid]
IndexInfo(name, oid, table_name, key_attrs) ==
    [name |-> name, oid |-> oid, table_name |-> table_name, key_attrs |-> key_attrs]

EmptyCatalog ==
    [names |-> <<>>, tables |-> <<>>, index_names |-> <<>>, indexes |-> <<>>,
     next_index_oid |-> 0]

\* Table identifiers come from the counter of the indexes, next_table_oid_ is not used.
CreateTable(c, table_name) ==
    LET oid == c.next_index_oid
    IN  [c EXCEPT !.names = (table_name :> oid) @@ @,
                  !.tables = (oid :> TableMetadata(table_name, oid)) @@ @,
                  !.next_index_oid = oid + 1]

GetTable(c, oid) == c.tables[oid]
GetTableByName(c, table_name) == GetTable(c, c.names[table_name])

\* the identifiers of the table's indexes, by their names
IndexNames(c, table_name) ==
    IF table_name \in DOMAIN c.index_names THEN c.index_names[table_name] ELSE <<>>

\* what CreateIndex records of an index once it is filled
NameIndex(c, info) ==
    [c EXCEPT !.index_names = (info.table_name :> ((info.name :> info.oid)
                                                   @@ IndexNames(c, info.table_name))) @@ @,
              !.indexes = (info.oid :> info) @@ @,
              !.next_index_oid = info.oid + 1]

HasIndex(c, index_name, table_name) == index_name \in DOMAIN IndexNames(c, table_name)

GetIndex(c, oid) == c.indexes[oid]
GetIndexByName(c, index_name, table_name) == GetIndex(c, IndexNames(c, table_name)[index_name])

GetTableIndexes(c, table_name) ==
    LET oids == IndexNames(c, table_name)
    IN  {GetIndex(c, oids[name]) : name \in DOMAIN oids}
=============================================================================
