------------------------------ MODULE Frontend ------------------------------
(***************************************************************************)
(* Parser, name table and semantic analyzer one after the other, as        *)
(* compiler_execute runs them (core/compiler.c lines 173-182): the later   *)
(* two also run on the tree that is left after grammar errors, and the     *)
(* compilation goes on only if none of the three has reported an error.    *)
(***************************************************************************)
EXTENDS SemanticAnalyzer, FiniteSets

CONSTANT Programs  \* the inputs, as records of token types and token texts

VARIABLES position, stack, ret, errors, skipped,  \* of the parser
          stage  \* "parse", "collect", "check" or "done"

parserVars == <<position, stack, ret, errors, skipped>>
vars == <<tokens, text, ast, parserVars, visitorVars, tableVars, analyzerVars, stage>>

P == INSTANCE Parser WITH Inputs <- {program.tokens : program \in Programs}

ASSUME FrontendAssumption ==
  \A program \in Programs :
    /\ program.tokens \in Seq(P!TOKEN)
    /\ Len(program.text) = Len(program.tokens)

Init ==
  /\ \E program \in Programs : tokens = program.tokens /\ text = program.text
  /\ P!Start
  /\ Idle
  /\ NoTables
  /\ NotChecked
  /\ stage = "parse"

Parse ==
  /\ stage = "parse" /\ stack # <<>>
  /\ P!Next
  /\ UNCHANGED <<text, visitorVars, tableVars, analyzerVars, stage>>

StartCollect ==
  /\ stage = "parse" /\ stack = <<>>
  /\ stage' = "collect"
  /\ StartTraversal
  /\ UNCHANGED <<tokens, text, ast, parserVars, tableVars, analyzerVars>>

CollectNode ==
  /\ stage = "collect" /\ path # <<>>
  /\ Collect
  /\ UNCHANGED <<tokens, text, ast, parserVars, analyzerVars, stage>>

StartCheck ==
  /\ stage = "collect" /\ path = <<>>
  /\ stage' = "check"
  /\ StartTraversal
  /\ UNCHANGED <<tokens, text, ast, parserVars, tableVars, analyzerVars>>

CheckNode ==
  /\ stage = "check" /\ path # <<>>
  /\ Check
  /\ UNCHANGED <<tokens, text, ast, parserVars, tableVars, stage>>

EndCheck ==
  /\ stage = "check" /\ path = <<>>
  /\ stage' = "done"
  /\ UNCHANGED <<tokens, text, ast, parserVars, visitorVars, tableVars, analyzerVars>>

Finished == stage = "done" /\ UNCHANGED vars

Next ==
  Parse \/ StartCollect \/ CollectNode \/ StartCheck \/ CheckNode \/ EndCheck \/ Finished

Spec == Init /\ [][Next]_vars /\ WF_vars(Next)

-----------------------------------------------------------------------------
Places == 1 .. Len(tokens)

\* The identifiers that come right after a keyword.
IdentsAfter(keyword) ==
  {p \in Places : p > 1 /\ tokens[p] = "IDENT" /\ tokens[p - 1] = keyword}

\* The identifiers that stand for variables, by where they are in the text.
VariablePlaces ==
  {p \in Places : tokens[p] = "IDENT"} \ (IdentsAfter("LABEL") \cup IdentsAfter("GOTO"))

Labels == {text[p] : p \in IdentsAfter("LABEL")}

\* The first identifier after a keyword with the name of the one at p.
FirstOf(keyword, name) ==
  CHOOSE p \in IdentsAfter(keyword) :
    /\ text[p] = name
    /\ \A q \in IdentsAfter(keyword) : text[q] = name => p <= q

\* The statement of the token at p begins at the last keyword before it.
StatementStart(p) ==
  CHOOSE q \in 1 .. p :
    /\ tokens[q] \in P!STATEMENT_START_KEYWORDS
    /\ \A r \in q + 1 .. p : tokens[r] \notin P!STATEMENT_START_KEYWORDS

\* A program means something: its labels are unique, every jump has a target,
\* and a variable is declared by a LET that is complete before it is used.
UniqueLabels == \A p, q \in IdentsAfter("LABEL") : text[p] = text[q] => p = q
JumpsLand == \A p \in IdentsAfter("GOTO") : text[p] \in Labels
DeclaredBefore(p) ==
  \E d \in IdentsAfter("LET") :
    text[d] = text[p] /\ (d = p \/ d < StatementStart(p))
Meaningful ==
  UniqueLabels /\ JumpsLand /\ \A p \in VariablePlaces : DeclaredBefore(p)

\* No identifier is both a label and a variable.
OneKind == \A p \in VariablePlaces : text[p] \notin Labels

Accepted == stage = "done" /\ errors = <<>> /\ semantic = <<>>

\* Among programs that keep labels and variables apart, the front end accepts
\* exactly those that mean something.
AcceptsMeaningful ==
  stage = "done" /\ errors = <<>> /\ OneKind => (semantic = <<>> <=> Meaningful)

\* name_table.h: the tables hold the first declaration of every name, and
\* nothing else, whatever the parser made of the input.
Kept(keyword) == {p \in IdentsAfter(keyword) : p - 1 \notin skipped /\ p \notin skipped}
FirstDeclarations ==
  stage \in {"check", "done"} =>
    /\ DOMAIN variable_table = {text[p] : p \in Kept("LET")}
    /\ DOMAIN label_table = {text[p] : p \in Kept("LABEL")}
    /\ \A name \in DOMAIN variable_table :
         variable_table[name].file_pos = FirstOf("LET", name)
    /\ \A name \in DOMAIN label_table :
         label_table[name].file_pos = FirstOf("LABEL", name)

\* No two strings get the same assembly label.
LiteralsApart ==
  /\ \A s, t \in DOMAIN literal_table : s # t => literal_table[s] # literal_table[t]
  /\ \A s \in DOMAIN literal_table : literal_table[s] < counter

\* The analyzer stops before the end only where a grammar error makes the
\* compilation fail anyway: it never hides what it should have reported.
StopIsReported == stopped => errors # <<>>

\* Both traversals see the enclosing statements right.
StatementStackRight == StatementsOfPath

\* The tables are what the text says, and were filled with the stack of
\* statements right at every node, although either traversal may stop early and
\* the parser leaves half a statement behind a mistake (name_table.c:36-127).
TablesRight == FirstDeclarations /\ LiteralsApart /\ StatementStackRight

\* semantic_analyzer.c lines 47-53 and the header: identifiers of the wrong
\* type are reported.
LabelsAreNotVariables == Accepted => OneKind
=============================================================================
