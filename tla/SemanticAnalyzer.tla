-------------------------- MODULE SemanticAnalyzer --------------------------
(***************************************************************************)
(* The checks of a second traversal of the tree, against the name tables   *)
(* (frontend/semantic_analyzer/semantic_analyzer.c).                       *)
(***************************************************************************)
EXTENDS NameTable

VARIABLES semantic,  \* the semantic errors reported, [kind, place]
          stopped    \* history: a callback has stopped the traversal

analyzerVars == <<semantic, stopped>>

NotChecked == semantic = <<>> /\ stopped = FALSE

Report(kind, place) == semantic' = Append(semantic, [kind |-> kind, place |-> place])

Place(node) == ast[node].value
Name == TextAt(Current)

\* Neither keyword is followed by an identifier: the grammar errors say so
\* already.
CheckMalformed ==
  /\ TokenAt(Current) \in {"GOTO", "LABEL"}
  /\ ~ HasIdent
  /\ stopped' = TRUE
  /\ UNCHANGED semantic
  /\ Stop

CheckGoto ==
  /\ TokenAt(Current) = "GOTO"
  /\ HasIdent
  /\ IF TextAt(Sibling) \notin DOMAIN label_table
       THEN Report("unknown label", Place(Sibling))
       ELSE UNCHANGED semantic
  /\ UNCHANGED stopped
  /\ Continue

CheckLabel ==
  /\ TokenAt(Current) = "LABEL"
  /\ HasIdent
  /\ IF /\ TextAt(Sibling) \in DOMAIN label_table
        /\ label_table[TextAt(Sibling)].file_pos # Place(Sibling)
       THEN Report("duplicate label", Place(Sibling))
       ELSE UNCHANGED semantic
  /\ UNCHANGED stopped
  /\ Continue

\* The parent of the identifier is a statement that begins with a LABEL or
\* GOTO token.
NamesLabel ==
  /\ Parent # NO_NODE
  /\ IsGrammar(ast, Parent) /\ IsStatement(Parent)
  /\ LET first == FirstChild(ast, Parent)
     IN  IsToken(ast, first) /\ TokenAt(first) \in {"LABEL", "GOTO"}

\* The identifier is a use, in the nearest statement, of the variable that
\* this very statement is the first to declare.
InOwnDeclaration ==
  /\ statement_stack # <<>>
  /\ LET first == FirstChild(ast, StatementAncestor)
         decl  == NextSibling(ast, first)
     IN  /\ IsToken(ast, first) /\ TokenAt(first) = "LET"
         /\ IsToken(ast, decl) /\ TokenAt(decl) = "IDENT"
         /\ TextAt(decl) = Name
         /\ StatementAncestor = variable_table[Name].parent_statement
         /\ decl # Current

\* Mutant: the place of the declaration is not compared.
VariableErrorsNoOrder ==
  CASE Name \notin DOMAIN variable_table -> {"undefined"}
    [] OTHER -> IF InOwnDeclaration THEN {"own declaration"} ELSE {}

\* What is wrong with an identifier that is a variable, if anything.
VariableErrors ==
  CASE Name \notin DOMAIN variable_table -> {"undefined"}
    [] Name \in DOMAIN variable_table /\ Place(Current) < variable_table[Name].file_pos ->
         {"used before declaration"}
    [] OTHER -> IF InOwnDeclaration THEN {"own declaration"} ELSE {}

CheckIdent ==
  /\ TokenAt(Current) = "IDENT"
  /\ \/ /\ Name \in DOMAIN label_table \/ NamesLabel
        /\ UNCHANGED semantic
     \/ /\ ~ (Name \in DOMAIN label_table \/ NamesLabel)
        /\ \/ VariableErrors = {} /\ UNCHANGED semantic
           \/ \E kind \in VariableErrors : Report(kind, Place(Current))
  /\ UNCHANGED stopped
  /\ Continue

CheckOther ==
  /\ TokenAt(Current) \notin {"GOTO", "LABEL", "IDENT"}
  /\ UNCHANGED analyzerVars
  /\ Continue

\* _visit_token
CheckToken ==
  /\ AtToken
  /\ CheckMalformed \/ CheckGoto \/ CheckLabel \/ CheckIdent \/ CheckOther

\* A callback of the traversal of semantic_analyzer_check.
Check == CheckToken \/ (Walk /\ UNCHANGED analyzerVars)
=============================================================================
