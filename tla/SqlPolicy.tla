----------------------------- MODULE SqlPolicy ------------------------------
\* How an MCP server classifies a statement before it runs (mcp/policy.rs).
\* A statement is a tree: the name of a construct and its parts.  The parts
\* are the query of a CTE, the sides of a set operation, the select items, the
\* tables, the conditions ...: wherever one stands it is classified the same.
EXTENDS Naturals, Sequences, TLC, SequencesExt

Tree(node, parts) == [node |-> node, parts |-> parts]
Leaf(node) == Tree(node, <<>>)

Risks == <<"ReadOnly", "Additive", "Update", "Delete", "Permissions", "Destructive", "Unknown">>

Severity(risk) == CHOOSE i \in DOMAIN Risks : Risks[i] = risk

Highest(a, b) == IF Severity(a) >= Severity(b) THEN a ELSE b

RequiresConfirmation(risk) == risk \notin {"ReadOnly", "Additive"}

\* Only updates offer "do not ask again".
AllowsSessionSuppression(risk) == risk = "Update"

\* An operator stands for the expressions whose operands are all classified,
\* an aggregate for a call by one of five plain names in its standard shape,
\* a function for any other call.
ExprRisk == [value |-> "ReadOnly", operator |-> "ReadOnly", subquery |-> "ReadOnly",
             aggregate |-> "ReadOnly", function |-> "Unknown", uncommon |-> "Unknown"]

TableRisk == [table |-> "ReadOnly", derived |-> "ReadOnly", pivot |-> "ReadOnly",
              tableFunction |-> "Unknown"]

\* A locked query has row locks or pipe operators.
SelectRisk == [select |-> "ReadOnly", selectInto |-> "Additive", setOperation |-> "ReadOnly",
               query |-> "ReadOnly", locked |-> "Unknown"]

StatementRisk == [explain |-> "ReadOnly", update |-> "Update", delete |-> "Delete",
                  merge |-> "Destructive", truncate |-> "Destructive"]

\* INSERT; with an update on conflict; REPLACE and INSERT OVERWRITE.
InsertRisk == [insert |-> "Additive", upsert |-> "Update", replace |-> "Destructive"]

\* Statements that are told by their first words, parsed or not.
PrefixRisk == [drop |-> "Destructive", permission |-> "Permissions", create |-> "Additive",
               createOrReplace |-> "Destructive", other |-> "Unknown"]

OwnRisk == ExprRisk @@ TableRisk @@ SelectRisk @@ StatementRisk @@ InsertRisk @@ PrefixRisk

\* These are not looked into.
Opaque == {"uncommon"} \cup (DOMAIN StatementRisk \ {"explain"}) \cup DOMAIN PrefixRisk
\* Of an insert only the source, of a pivot only the table is classified.
FirstOnly == {"pivot"} \cup DOMAIN InsertRisk

\* Mutant: the second side of a set operation is forgotten.
FirstPart(tree) ==
  CASE tree.node \in Opaque -> <<>>
    [] tree.node \in FirstOnly \cup {"setOperation"} -> SubSeq(tree.parts, 1, 1)
    [] OTHER -> tree.parts

Classified(tree) ==
  CASE tree.node \in Opaque -> <<>>
    [] tree.node \in FirstOnly -> SubSeq(tree.parts, 1, 1)
    [] OTHER -> tree.parts

RECURSIVE Classify(_)
Classify(tree) ==
  LET parts == Classified(tree)
  IN FoldLeft(Highest, OwnRisk[tree.node], [i \in DOMAIN parts |-> Classify(parts[i])])

-----------------------------------------------------------------------------
(* What running a statement may do to the database, all of its parts        *)
(* included, whether the policy looks at them or not                        *)

OwnEffect(node) ==
  CASE node \in {"insert", "create", "selectInto"} -> {"adds"}
    [] node = "update" -> {"changes"}
    [] node = "upsert" -> {"adds", "changes"}
    [] node \in {"delete", "truncate"} -> {"removes"}
    [] node = "replace" -> {"adds", "removes"}
    [] node = "merge" -> {"adds", "changes", "removes"}
    [] node = "permission" -> {"grants"}
    [] node \in {"drop", "createOrReplace"} -> {"drops"}
    [] node \in {"function", "tableFunction", "uncommon", "locked", "other"} -> {"anything"}
    [] OTHER -> {}

RECURSIVE Effects(_)
Effects(tree) == OwnEffect(tree.node) \cup UNION {Effects(tree.parts[i]) : i \in DOMAIN tree.parts}
=============================================================================
