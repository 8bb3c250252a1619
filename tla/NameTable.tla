------------------------------ MODULE NameTable ------------------------------
(***************************************************************************)
(* The tables of literals, variables and labels that a traversal of the    *)
(* tree collects (common/name_table.c).  A place in the input stands for   *)
(* the FileLocation of the token there: both have the same order.          *)
(***************************************************************************)
EXTENDS AstVisitor

VARIABLES tokens,          \* the types of the tokens of the input
          text,            \* their texts
          literal_table,   \* string -> number of its assembly label
          variable_table,  \* name -> first LET of it
          label_table,     \* name -> first LABEL of it
          counter          \* the next label number

tableVars == <<literal_table, variable_table, label_table, counter>>

Empty == <<>>

\* The tables before name_table_collect_from_ast
NoTables ==
  /\ literal_table = Empty /\ variable_table = Empty /\ label_table = Empty
  /\ counter = 0

TokenAt(node) == tokens[ast[node].value]
TextAt(node) == text[ast[node].value]

\* The identifier after a keyword, if the token is one.
Sibling == NextSibling(ast, Current)
HasIdent ==
  /\ Sibling # NO_NODE
  /\ IsToken(ast, Sibling)
  /\ TokenAt(Sibling) = "IDENT"

Info == [file_pos |-> ast[Sibling].value, parent_statement |-> StatementAncestor]

\* Mutant: a later declaration replaces the first.
PutLast(table, key, value) ==
  [k \in DOMAIN table \cup {key} |-> IF k = key THEN value ELSE table[k]]

\* shput of a key unless the table has it: the first one stays.
Put(table, key, value) ==
  [k \in DOMAIN table \cup {key} |-> IF k \in DOMAIN table THEN table[k] ELSE value]

CollectLiteral ==
  /\ TokenAt(Current) = "STRING"
  /\ IF TextAt(Current) \in DOMAIN literal_table
       THEN UNCHANGED tableVars
       ELSE /\ literal_table' = Put(literal_table, TextAt(Current), counter)
            /\ counter' = counter + 1
            /\ UNCHANGED <<variable_table, label_table>>

CollectLabel ==
  /\ TokenAt(Current) = "LABEL"
  /\ IF HasIdent
       THEN label_table' = Put(label_table, TextAt(Sibling), Info)
       ELSE UNCHANGED label_table
  /\ UNCHANGED <<literal_table, variable_table, counter>>

\* Mutant: a new variable resets the label numbers.
CollectVariableReset ==
  /\ TokenAt(Current) = "LET"
  /\ IF HasIdent /\ TextAt(Sibling) \notin DOMAIN variable_table
       THEN /\ variable_table' = Put(variable_table, TextAt(Sibling), Info)
            /\ counter' = 0
       ELSE UNCHANGED <<variable_table, counter>>
  /\ UNCHANGED <<literal_table, label_table>>

CollectVariable ==
  /\ TokenAt(Current) = "LET"
  /\ IF HasIdent /\ TextAt(Sibling) \notin DOMAIN variable_table
       THEN /\ variable_table' = Put(variable_table, TextAt(Sibling), Info)
            /\ counter' = counter + 1
       ELSE UNCHANGED <<variable_table, counter>>
  /\ UNCHANGED <<literal_table, label_table>>

CollectNothing ==
  /\ TokenAt(Current) \notin {"STRING", "LABEL", "LET"}
  /\ UNCHANGED tableVars

\* visit_token
CollectToken ==
  /\ AtToken
  /\ CollectLiteral \/ CollectLabel \/ CollectVariable \/ CollectNothing
  /\ Continue

\* A callback of the traversal of name_table_collect_from_ast.
Collect == CollectToken \/ (Walk /\ UNCHANGED tableVars)
=============================================================================
