-------------------------------- MODULE Lexer --------------------------------
(***************************************************************************)
(* The lexer (frontend/lexer/lexer.c) over the lines of the file reader.   *)
(* One step reads a line, or runs the loop of _lexer_parse_line once.      *)
(***************************************************************************)
EXTENDS FileReader, TokenArray, FiniteSetsExt, SequencesExt

CONSTANTS Letters,     \* the letters of the files, of A-Z and a-z
          KEYWORD_MAP  \* the spellings of keywords with their token types

WHITESPACE_CHARS == {" ", "\t", "\n", "\r"}
OPERATOR_CHARS == {"+", "-", "*", "/", ">", "<", "=", "!", "&", "|"}
STRING_DELIMS == {"'", "\""}
NUMERIC_CHARS == {"0", "1", "2", "3", "4", "5", "6", "7", "8", "9"}
VARIABLE_CHARS == Letters \cup NUMERIC_CHARS \cup {"_"}

OPERATOR(one) == CASE one = "+" -> "PLUS" [] one = "-" -> "MINUS" [] one = "*" -> "MULT"
                   [] one = "/" -> "DIV" [] one = ">" -> "GT" [] one = "<" -> "LT"
                   [] one = "=" -> "EQ" [] one = "!" -> "NOT" [] OTHER -> "UNKNOWN"
OPERATOR_MAP(run) ==
  CASE Len(run) = 1 -> OPERATOR(run[1])
    [] run = <<">", "=">> -> "GTE"    [] run = <<"<", "=">> -> "LTE"
    [] run = <<"=", "=">> -> "EQEQ"   [] run = <<"!", "=">> -> "NOTEQ"
    [] run = <<"&", "&">> -> "AND"    [] run = <<"|", "|">> -> "OR"
    [] OTHER -> "UNKNOWN"

\* The categories of enum TOKEN.
Keywords == {KEYWORD_MAP[w] : w \in DOMAIN KEYWORD_MAP}
Operators == {OPERATOR_MAP(<<c>>) : c \in OPERATOR_CHARS}
             \cup {"GTE", "LTE", "EQEQ", "NOTEQ", "AND", "OR"}
Literals == {"NUMBER", "IDENT", "STRING"}

ASSUME LexerAssumption ==
  /\ Letters \cap (WHITESPACE_CHARS \cup OPERATOR_CHARS \cup STRING_DELIMS
                   \cup NUMERIC_CHARS \cup {"_", ESCAPE_CHAR, NUL}) = {}
  /\ DOMAIN KEYWORD_MAP \subseteq Seq(Letters)
  /\ Keywords \cap (Operators \cup Literals \cup {"UNKNOWN"}) = {}

\* The text of a line, its NULs and its padding fit a size.
ASSUME LineAssumption == MAX_LINE_BUFFER + 1 + POINTER_SIZE <= SIZE_LIMIT

VARIABLES pos,     \* the place in the line that is scanned next
          delim,   \* the delimiter of the string that begins at pos, or "none"
          errors,  \* the lexical errors reported
          status   \* "running", "done", or "exit" when the process ended

vars == <<readerVars, arrayVars, pos, delim, errors, status>>

Init ==
  /\ ReaderInit
  /\ ArrayInit
  /\ pos = 0
  /\ delim = "none"
  /\ errors = <<>>
  /\ status = "running"

-----------------------------------------------------------------------------
Length == Len(line_buffer)
Slice(from, upto) == SubSeq(line_buffer, from + 1, upto)
RunFrom(chars) == RunEnd(line_buffer, pos, chars)

\* The token of the characters from place from to place upto of the line.  As a
\* history it tells where in the file they are.
Token(type, from, upto) ==
  [type |-> type, text |-> NULL, line |-> line, col |-> from + 1,
   from |-> begin + from, upto |-> begin + upto]

\* lexer_parse between two lines
ReadNextLine ==
  /\ status = "running"
  /\ pos >= Length
  /\ \/ ReadLine /\ status' = "running"
     \/ EndOfFile /\ status' = "done"
     \/ (LineTooBig \/ CantRead) /\ status' = "exit"
  /\ pos' = 0
  /\ delim' = "none"
  /\ UNCHANGED <<arrayVars, errors>>

\* The loop of _lexer_parse_line in its normal state, at one of chars.
ScansOneOf(chars) ==
  /\ status = "running"
  /\ pos < Length
  /\ delim = "none"
  /\ line_buffer[pos + 1] \in chars
  /\ UNCHANGED readerVars

\* The three ways to push a token.  If memory is needed there may be none.
NoMemory(needed) == needed /\ status' = "exit" /\ UNCHANGED arrayVars
PushSimple(type, from, upto) ==
  \/ token_array_push_simple(Token(type, from, upto)) /\ UNCHANGED status
  \/ NoMemory(IsFull)
Push(type, from, upto) ==
  \/ token_array_push(Token(type, from, upto), Slice(from, upto)) /\ UNCHANGED status
  \/ NoMemory(IsFull \/ NeedsRegion(SizeOf(Slice(from, upto))))
PushString(from, upto) ==
  \/ token_array_clean_and_push_string(Token("STRING", from, upto), Slice(from, upto)) /\ UNCHANGED status
  \/ NoMemory(IsFull \/ NeedsRegion(SizeOf(Slice(from, upto))))

\* Mutant: the run is measured with fewer characters than start it.
EatBlanks ==
  /\ ScansOneOf(WHITESPACE_CHARS)
  /\ pos' = RunFrom({" ", "\t"})
  /\ UNCHANGED <<arrayVars, delim, errors, status>>

EatWhitespace ==
  /\ ScansOneOf(WHITESPACE_CHARS)
  /\ pos' = RunFrom(WHITESPACE_CHARS)
  /\ UNCHANGED <<arrayVars, delim, errors, status>>

StartString ==
  /\ ScansOneOf(STRING_DELIMS)
  /\ delim' = line_buffer[pos + 1]
  /\ UNCHANGED <<arrayVars, pos, errors, status>>

LexOperator ==
  /\ ScansOneOf(OPERATOR_CHARS)
  /\ pos' = RunFrom(OPERATOR_CHARS)
  /\ PushSimple(OPERATOR_MAP(Slice(pos, pos')), pos, pos')
  /\ UNCHANGED <<delim, errors>>

LexNumber ==
  /\ ScansOneOf(NUMERIC_CHARS)
  /\ pos' = RunFrom(NUMERIC_CHARS)
  /\ Push("NUMBER", pos, pos')
  /\ UNCHANGED <<delim, errors>>

\* A comment, a keyword or an identifier.
LexWord ==
  /\ ScansOneOf(Letters)
  /\ LET end == RunFrom(VARIABLE_CHARS)
         word == Slice(pos, end)
     IN \/ /\ word \in DOMAIN KEYWORD_MAP /\ KEYWORD_MAP[word] = "REM"
           /\ pos' = Length - 1 + Len(word)
           /\ UNCHANGED <<arrayVars, status>>
        \/ /\ word \in DOMAIN KEYWORD_MAP /\ KEYWORD_MAP[word] # "REM"
           /\ pos' = end
           /\ PushSimple(KEYWORD_MAP[word], pos, end)
        \/ /\ word \notin DOMAIN KEYWORD_MAP
           /\ pos' = end
           /\ Push("IDENT", pos, end)
  /\ UNCHANGED <<delim, errors>>

NoTokenChars == Char \ (WHITESPACE_CHARS \cup STRING_DELIMS \cup OPERATOR_CHARS
                        \cup NUMERIC_CHARS \cup Letters)

\* Mutant: a character is reported and no token stands for it.
InvalidCharNoToken ==
  /\ ScansOneOf(NoTokenChars)
  /\ errors' = Append(errors, [line |-> line, col |-> pos + 1])
  /\ pos' = pos + 1
  /\ UNCHANGED <<arrayVars, delim, status>>

InvalidChar ==
  /\ ScansOneOf(NoTokenChars)
  /\ errors' = Append(errors, [line |-> line, col |-> pos + 1])
  /\ PushSimple("UNKNOWN", pos, pos + 1)
  /\ pos' = pos + 1
  /\ UNCHANGED delim

\* The places of a closing delimiter of the string that begins at place start.
Closing(start) ==
  {c \in start .. Length - 1 :
     /\ line_buffer[c + 1] = delim
     /\ ~ (c > start /\ line_buffer[c] = ESCAPE_CHAR)}

\* Without one, nothing is reported of a string that ends in an escaped
\* delimiter.  To report one that is not empty takes memory.
DanglingEscape(start) == start < Length /\ line_buffer[Length] = delim

ParseString ==
  /\ status = "running"
  /\ pos < Length
  /\ delim # "none"
  /\ LET start == pos + 1 IN
       \/ \E c \in Closing(start) :
            /\ \A d \in Closing(start) : c <= d
            /\ PushString(start, c)
            /\ pos' = c + 1
            /\ UNCHANGED errors
       \/ /\ Closing(start) = {}
          /\ \/ /\ errors' = IF DanglingEscape(start) THEN errors
                             ELSE Append(errors, [line |-> line, col |-> start])
                /\ PushSimple("UNKNOWN", start, Length)
             \/ /\ NoMemory(start < Length /\ ~ DanglingEscape(start))
                /\ UNCHANGED errors
          /\ pos' = Length
  /\ delim' = "none"
  /\ UNCHANGED readerVars

Stopped == status # "running" /\ UNCHANGED vars

Next ==
  \/ ReadNextLine
  \/ EatWhitespace \/ StartString \/ ParseString
  \/ LexOperator \/ LexNumber \/ LexWord \/ InvalidChar
  \/ Stopped

\* One sequential process, which always takes its next step.
Spec == Init /\ [][Next]_vars /\ WF_vars(Next)

-----------------------------------------------------------------------------
(***************************************************************************)
(* Properties.                                                             *)
(***************************************************************************)
TokenTypes == Keywords \cup Operators \cup Literals \cup {"UNKNOWN"}
Locations == [line : Nat, col : Nat]
Lexeme == {tokens[k] : k \in 1 .. Len(tokens)}
Inside(i, t) == i \in t.from + 1 .. t.upto

\* Types: lines fit the buffer and hold no line end, texts hold no NUL, and a
\* token lies in the file.
TypeOK ==
  /\ file \in Seq(Char \ {NUL})
  /\ {offset, begin} \subseteq 0 .. Len(file)
  /\ eof \in BOOLEAN
  /\ line_buffer \in Seq(Char) /\ Len(line_buffer) < MAX_LINE_BUFFER
  /\ {line, pos} \subseteq Nat
  /\ error \in {"FR_ERR_NONE", "FR_ERR_CANT_READ", "FR_ERR_LINE_TOO_BIG"}
  /\ delim \in STRING_DELIMS \cup {"none"}
  /\ errors \in Seq(Locations)
  /\ status \in {"running", "done", "exit"}
  /\ \A t \in Lexeme : /\ t.type \in TokenTypes
                       /\ Text(t) \in Seq(Char \ {NUL})
                       /\ [line |-> t.line, col |-> t.col] \in Locations
                       /\ t.from <= t.upto /\ t.upto <= Len(file)

\* The line and column of a token are those of its first character in the file:
\* the line counter and the column survive empty lines, strings and a last line
\* without a newline (file_reader.c:205-217, lexer.c:152-156 and 175-179).
LocationsTrue ==
  \A t \in Lexeme :
    LET ends == {i \in 1 .. t.from : file[i] = "\n"} IN
      /\ t.line = Cardinality(ends) + 1
      /\ t.col = t.from + 1 - Max(ends \cup {0})

\* What the file has at a token is a whole lexeme of the token's type: words,
\* numbers and operators are as long as they can be, so that none is cut by the
\* buffer or by a step of the scanner (lexer.c:192-231).
Source(t) == SubSeq(file, t.from + 1, t.upto)
Before(t) == IF t.from = 0 THEN "\n" ELSE file[t.from]
After(t) == IF t.upto = Len(file) THEN "\n" ELSE file[t.upto + 1]
LongestRun(t, chars) ==
  /\ t.upto > t.from
  /\ \A i \in t.from + 1 .. t.upto : file[i] \in chars
  /\ After(t) \notin chars
IsWord(t) == LongestRun(t, VARIABLE_CHARS) /\ Before(t) \notin Letters
                                          /\ file[t.from + 1] \in Letters
IsLexeme(t) ==
  CASE t.type = "NUMBER" -> /\ LongestRun(t, NUMERIC_CHARS)
                            /\ Before(t) \notin Letters \cup NUMERIC_CHARS
                            /\ Text(t) = Source(t)
    [] t.type = "IDENT" -> IsWord(t) /\ Text(t) = Source(t) /\ Source(t) \notin DOMAIN KEYWORD_MAP
    [] t.type \in Keywords -> IsWord(t) /\ KEYWORD_MAP[Source(t)] = t.type
    [] t.type = "STRING" -> Before(t) \in STRING_DELIMS /\ After(t) = Before(t)
    [] t.type = "UNKNOWN" -> TRUE
    [] OTHER -> /\ LongestRun(t, OPERATOR_CHARS)
                /\ Before(t) \notin OPERATOR_CHARS
                /\ OPERATOR_MAP(Source(t)) = t.type
TokensAreLexemes == \A t \in Lexeme : IsLexeme(t)

\* Tokens are in the order of the file, and everything between them is blank, a
\* delimiter of a string, or a comment: no step drops or repeats a character
\* (the advances of pos in lexer.c:113-240).
RemAt(j, word) ==
  LET after == j + Len(word) IN
    /\ KEYWORD_MAP[word] = "REM"
    /\ after <= Len(file) + 1 /\ SubSeq(file, j, after - 1) = word
    /\ after = Len(file) + 1 \/ file[after] \notin VARIABLE_CHARS
Comment(i) ==
  \E j \in 1 .. i, word \in DOMAIN KEYWORD_MAP :
    /\ RemAt(j, word)
    /\ \A k \in j .. i : file[k] # "\n" /\ \A t \in Lexeme : ~ Inside(k, t)
Scanned == IF pos < Length THEN begin + pos ELSE offset
Accounted(i) ==
  \/ file[i] \in WHITESPACE_CHARS
  \/ \E t \in Lexeme : Inside(i, t)
  \/ /\ file[i] \in STRING_DELIMS
     /\ \E t \in Lexeme : t.from = i \/ (t.type = "STRING" /\ t.upto + 1 = i)
  \/ Comment(i)
NothingDropped ==
  /\ \A k \in 1 .. Len(tokens) - 1 : tokens[k].upto <= tokens[k + 1].from
  /\ status # "exit" => \A i \in 1 .. Scanned : Accounted(i)

\* The text of a string is its source with every escape sequence replaced once,
\* from left to right, up to the first NUL, although the characters are moved
\* within one buffer (string_util.c:18-67).
Escapes(s, i) ==
  /\ s[i] = ESCAPE_CHAR
  /\ i < Len(s)
  /\ \E n \in 0 .. i - 1 : /\ n % 2 = 0
                           /\ \A k \in i - n .. i : s[k] = ESCAPE_CHAR
                           /\ n = i - 1 \/ s[i - n - 1] # ESCAPE_CHAR
Meaning(s, i) ==
  IF i > 1 /\ Escapes(s, i - 1)
    THEN IF s[i] \in DOMAIN DEFAULT_ESCAPE_MAPPINGS THEN <<DEFAULT_ESCAPE_MAPPINGS[s[i]]>>
         ELSE <<ESCAPE_CHAR, s[i]>>
  ELSE IF Escapes(s, i) THEN <<>>
  ELSE <<s[i]>>
EscapesReplaced ==
  \A t \in Lexeme : t.type = "STRING" =>
    Text(t) = CString(FlattenSeq([i \in 1 .. t.upto - t.from |-> Meaning(Source(t), i)]))

\* Every error belongs to an unknown token of its own, at its column or, for a
\* string, at the delimiter before it, unless the memory for the token was
\* refused (lexer.c:121-140 and 232-238).
ErrorsHaveTokens ==
  status # "exit" => \E owner \in [1 .. Len(errors) -> 1 .. Len(tokens)] :
    /\ \A k, l \in 1 .. Len(errors) : k < l => owner[k] < owner[l]
    /\ \A k \in 1 .. Len(errors) :
         /\ tokens[owner[k]].type = "UNKNOWN"
         /\ tokens[owner[k]].line = errors[k].line
         /\ tokens[owner[k]].col - errors[k].col \in {0, 1}

\* The scan of a file ends (the loops of lexer.c:113 and 249).
Terminates == <>(status # "running")
=============================================================================
