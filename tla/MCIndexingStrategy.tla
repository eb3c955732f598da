------------------------- MODULE MCIndexingStrategy -------------------------
(***************************************************************************)
(* IndexingStrategy for tables of the same name in two schemas and one of  *)
(* another name, and indexes of every shape the checks tell apart.         *)
(***************************************************************************)
EXTENDS IndexingStrategy

MCRelname == [sales |-> "orders", old |-> "orders", parts |-> "parts"]

Column(t, name, type, flag, fk) == [table |-> t, name |-> name, type |-> type, flag |-> flag, fk |-> fk]
MCColumnDef == [sales_lot |-> Column("sales", "lot", "scalar", FALSE, TRUE),
                parts_vendor |-> Column("parts", "vendor", "scalar", FALSE, TRUE),
                parts_status |-> Column("parts", "status", "boolean", TRUE, FALSE),
                parts_data |-> Column("parts", "data", "jsonb", FALSE, FALSE)]

Index(t, keys, include, gin) ==
    [table |-> t, keys |-> keys, include |-> include, gin |-> gin, partial |-> FALSE, unique |-> FALSE,
     text |-> {MCRelname[t]} \cup ToSet(keys)]
MCIndexDef == [lot |-> Index("sales", <<"lot">>, <<>>, FALSE),
               old_lot |-> Index("old", <<"lot">>, <<>>, FALSE),
               vendor |-> Index("parts", <<"vendor", "status">>, <<>>, FALSE),
               status |-> Index("parts", <<"status">>, <<"vendor">>, FALSE),
               lower |-> Index("parts", <<"status", "expression">>, <<>>, FALSE),
               data |-> Index("parts", <<"data">>, <<>>, TRUE)]

MCStatementDef ==
    [by_vendor |-> [text |-> {"parts", "vendor"}, where |-> TRUE, extracts |-> FALSE, compares |-> FALSE],
     by_data |-> [text |-> {"parts", "data"}, where |-> TRUE, extracts |-> TRUE, compares |-> TRUE]]
MCEstimates == {-10, 1}
MCStarts == {{}, {"lot", "vendor"}, {"old_lot", "status"}, {"status", "lower", "data"}, DOMAIN MCIndexDef}
MCPasts == {[bytes |-> b, rows |-> b, writes |-> b, seq |-> b] : b \in {0, 1}}
=============================================================================
