--------------------------------- MODULE Config ---------------------------------
(***************************************************************************)
(* The way of a setting from the configuration file to where it is used:   *)
(* parse_config of server/srcs/parse/config_file.c, which reads the file in *)
(* pieces of a fixed buffer, and db_init of server/srcs/db/db.c, which      *)
(* prints five of the settings into another buffer for libpq to take apart *)
(* again.                                                                  *)
(*                                                                         *)
(* Characters come as tokens: a key or a word is one token, and so is each *)
(* of the characters that the two parsers look for.  Both buffers are      *)
(* measured in tokens.                                                     *)
(***************************************************************************)
EXTENDS Integers, Sequences, SequencesExt

CONSTANTS
    StringKeys,  \* LOG_FILE_PATH, CERT_PATH, KEY_PATH and the five of DbKeys
    NumberKeys,  \* LOG_LEVEL and PORT
    FlagKeys,    \* LOG_ERASE
    DbKeys,      \* DB_HOST, DB_PORT, ..., in the order db_init prints them
    Defaults,    \* what each key has without a line in the file
    Digits,      \* the value of each token that is a digit
    Yes,         \* the tokens y, Y and 1
    Lines,       \* lines that may stand in the file, without their ends
    MaxLines,    \* bound on the lines of the file
    LineMax,     \* tokens of a piece that fgets reads at most
    ConnMax,     \* tokens that fit in conninfo
    REFUSED,     \* what libpq makes of a text that it cannot take apart
    UNSET        \* the NULL that m_config_content and the connection start as

SP == "SP"
EQ == "EQ"
HASH == "HASH"
NL == "NL"

BS == "BS"

QUOTE == "QUOTE"

Keys == StringKeys \cup NumberKeys \cup FlagKeys

ASSUME KeysAssumption ==
    /\ Keys \cap {SP, EQ, HASH, NL, BS, QUOTE} = {}
    /\ REFUSED \notin Keys
    /\ StringKeys \cap (NumberKeys \cup FlagKeys) = {}
    /\ DbKeys \in Seq(StringKeys)
    /\ \A k \in StringKeys : Defaults[k] \in Seq(STRING)
ASSUME LinesAssumption ==
    /\ Lines \subseteq Seq(STRING)
    /\ \A line \in Lines : ~Contains(line, NL)
ASSUME BuffersAssumption == {LineMax, ConnMax} \subseteq Nat \ {0}

VARIABLES
    lines,             \* the lines of the file
    rest,              \* what parse_config has not read yet
    m_config_content,
    phase,             \* "writing", "reading", "parsed", "failed" or "asked"
    asked              \* parameters of the connection, REFUSED, or UNSET

configVars == <<lines, rest, m_config_content, phase, asked>>

ConfigInit ==
    /\ lines = <<>>
    /\ rest = <<>>
    /\ m_config_content = UNSET
    /\ phase = "writing"
    /\ asked = UNSET

-----------------------------------------------------------------------------
(* Pieces of text.                                                         *)

\* The first place of s, from i on, that is one of tokens; Len(s) + 1 for none.
FirstOf(s, i, tokens) ==
    CHOOSE j \in i..(Len(s) + 1) :
        /\ j = Len(s) + 1 \/ s[j] \in tokens
        /\ \A k \in i..(j - 1) : s[k] \notin tokens

Before(s, i) == SubSeq(s, 1, i - 1)

From(s, i) == SubSeq(s, i, Len(s))

Blank == {SP, NL}

\* while (isspace(*p)) p++;
SkipBlanks(s) ==
    LET words == {i \in DOMAIN s : s[i] \notin Blank}
    IN  From(s, CHOOSE i \in 1..(Len(s) + 1) :
                    i \in words \cup {Len(s) + 1} /\ \A j \in words : i <= j)

\* while (end > s && isspace(*end)) *end-- = '\0';
CutBlanks(s) == Reverse(SkipBlanks(Reverse(s)))

-----------------------------------------------------------------------------
(* parse_config.                                                           *)

\* atoi: the digits the text begins with.
Atoi(text) ==
    LET digits == Before(text, FirstOf(text, 1, Range(text) \ DOMAIN Digits))
    IN  FoldLeft(LAMBDA n, d : 10 * n + Digits[d], 0, digits)

Converted(key, text) ==
    IF key \in NumberKeys THEN Atoi(text)
    ELSE IF key \in FlagKeys THEN text # <<>> /\ Head(text) \in Yes
    ELSE text

\* A piece with nothing to read: blank, a comment, or without an =.
Skipped(piece) ==
    \/ SkipBlanks(piece) = <<>>
    \/ SkipBlanks(piece)[1] = HASH
    \/ ~Contains(SkipBlanks(piece), EQ)

KeyText(piece) ==
    LET p == SkipBlanks(piece) IN CutBlanks(Before(p, FirstOf(p, 1, {EQ})))

ValueText(piece) ==
    LET p == SkipBlanks(piece)
    IN  CutBlanks(SkipBlanks(From(p, FirstOf(p, 1, {EQ}) + 1)))

\* A key that is none of the eleven is passed over.
Assign(content, piece) ==
    [k \in Keys |-> IF ~Skipped(piece) /\ KeyText(piece) = <<k>>
                    THEN Converted(k, ValueText(piece)) ELSE content[k]]

m_init_config_content == Defaults

FlatFile == FlattenSeq([i \in DOMAIN lines |-> Append(lines[i], NL)])

\* The operator writes the file.
Write ==
    /\ phase = "writing"
    /\ Len(lines) < MaxLines
    /\ \E line \in Lines : lines' = Append(lines, line)
    /\ UNCHANGED <<rest, m_config_content, phase, asked>>

\* The last line of the file may lack its end.
parse_config ==
    /\ phase = "writing"
    /\ m_config_content' = m_init_config_content
    /\ \/ phase' = "reading" /\ rest' \in {FlatFile, Before(FlatFile, Len(FlatFile))}
       \/ phase' = "failed" /\ UNCHANGED rest
    /\ UNCHANGED <<lines, asked>>

\* mutant: the size of the buffer is given as one less
PieceEndShort ==
    LET end == FirstOf(rest, 1, {NL})
    IN  CHOOSE n \in {end, LineMax - 1, Len(rest)} :
            n <= end /\ n <= LineMax - 1 /\ n <= Len(rest)

\* fgets: up to the end of the line, or as much as the buffer holds.
PieceEnd ==
    LET end == FirstOf(rest, 1, {NL})
    IN  CHOOSE n \in {end, LineMax, Len(rest)} :
            n <= end /\ n <= LineMax /\ n <= Len(rest)

fgets ==
    /\ phase = "reading"
    /\ rest # <<>>
    /\ m_config_content' = Assign(m_config_content, SubSeq(rest, 1, PieceEnd))
    /\ rest' = From(rest, PieceEnd + 1)
    /\ UNCHANGED <<lines, phase, asked>>

parse_config_returns ==
    /\ phase = "reading"
    /\ rest = <<>>
    /\ phase' = "parsed"
    /\ UNCHANGED <<lines, rest, m_config_content, asked>>

-----------------------------------------------------------------------------
(* The connection.                                                         *)

\* mutant: two of the arguments are passed in the wrong order
SwappedArgument(i) ==
    m_config_content[DbKeys[IF i = 1 THEN 2 ELSE IF i = 2 THEN 1 ELSE i]]

Argument(i) == m_config_content[DbKeys[i]]

\* "host=%s port=%s ..."
Printed ==
    FlattenSeq([i \in DOMAIN DbKeys |->
        (IF i = 1 THEN <<>> ELSE <<SP>>) \o <<DbKeys[i], EQ>> \o Argument(i)])

\* snprintf cuts it off at the end of the buffer.
conninfo == SubSeq(Printed, 1, IF Len(Printed) < ConnMax THEN Len(Printed) ELSE ConnMax)

\* A backslash escapes what is behind it, if it is not escaped itself: i is
\* behind an odd number of them.
Escaped(s, i) ==
    \E n \in 1..(i - 1) :
        /\ n % 2 = 1
        /\ \A j \in (i - n)..(i - 1) : s[j] = BS
        /\ i - n > 1 => s[i - n - 1] # BS

\* The first place of s, from i on, where token stands and is not escaped;
\* Len(s) + 1 for none.
FirstBare(s, i, token) ==
    CHOOSE j \in i..(Len(s) + 1) :
        /\ j = Len(s) + 1 \/ (s[j] = token /\ ~Escaped(s, j))
        /\ \A k \in i..(j - 1) : s[k] # token \/ Escaped(s, k)

\* A value is read without the backslashes that escape.
Unescaped(s) ==
    FlattenSeq([j \in DOMAIN s |->
        IF s[j] = BS /\ ~Escaped(s, j) THEN <<>> ELSE <<s[j]>>])

\* libpq: names and values, with blanks allowed around the =, to the end of the
\* text or to what is no setting: a name without a value or of no parameter, or
\* a quoted value without an end.
Settings(text) ==
    LET skip(i) == FirstOf(text, i, Range(text) \ {SP})
        read[i \in 1..(Len(text) + 1)] ==
            LET name == skip(i)
                end == FirstOf(text, name, {SP, EQ})
                value == skip(skip(end) + 1)
                quoted == value <= Len(text) /\ text[value] = QUOTE
                from == IF quoted THEN value + 1 ELSE value
                until == FirstBare(text, from, IF quoted THEN QUOTE ELSE SP)
            IN  IF name > Len(text) THEN <<>>
                ELSE IF \/ skip(end) > Len(text)
                        \/ text[skip(end)] # EQ
                        \/ SubSeq(text, name, end - 1) \notin {<<k>> : k \in Range(DbKeys)}
                        \/ quoted /\ until > Len(text)
                THEN <<[key |-> REFUSED, value |-> <<>>]>>
                ELSE <<[key |-> text[name], value |-> Unescaped(SubSeq(text, from, until - 1))]>>
                     \o read[IF quoted THEN until + 1 ELSE until]
    IN  read[1]

\* A parameter set twice has its later value, one not set is empty.
Parameters(settings) ==
    IF \E i \in DOMAIN settings : settings[i].key = REFUSED THEN REFUSED
    ELSE [k \in Range(DbKeys) |->
            LET set == {i \in DOMAIN settings : settings[i].key = k}
            IN  IF set = {} THEN <<>>
                ELSE settings[CHOOSE i \in set : \A j \in set : j <= i].value]

db_init ==
    /\ phase = "parsed"
    /\ asked' = Parameters(Settings(conninfo))
    /\ phase' = "asked"
    /\ UNCHANGED <<lines, rest, m_config_content>>

-----------------------------------------------------------------------------

\* The start goes on elsewhere; stuttering here is not a deadlock.
Done == phase \in {"failed", "asked"} /\ UNCHANGED configVars

ConfigNext ==
    \/ Write
    \/ parse_config
    \/ fgets
    \/ parse_config_returns
    \/ db_init
    \/ Done

ConfigSpec == ConfigInit /\ [][ConfigNext]_configVars

-----------------------------------------------------------------------------
(* What the file says, line by line.                                       *)

Stripped(s) ==
    LET words == {i \in DOMAIN s : s[i] # SP}
    IN  IF words = {} THEN <<>>
        ELSE SubSeq(s, CHOOSE i \in words : \A j \in words : i <= j,
                       CHOOSE i \in words : \A j \in words : j <= i)

\* Line i says that key is text.
Says(i, key, text) ==
    \E n \in DOMAIN lines[i] :
        /\ lines[i][n] = EQ
        /\ ~Contains(Before(lines[i], n), EQ)
        /\ Stripped(Before(lines[i], n)) = <<key>>
        /\ Stripped(From(lines[i], n + 1)) = text

Sayings(key) == {i \in DOMAIN lines : \E text \in {Stripped(From(lines[i], n + 1)) :
                    n \in DOMAIN lines[i]} : Says(i, key, text)}

Meant(key) ==
    IF Sayings(key) = {} THEN Defaults[key]
    ELSE LET last == CHOOSE i \in Sayings(key) : \A j \in Sayings(key) : j <= i
         IN  Converted(key, CHOOSE text \in {Stripped(From(lines[last], n + 1)) :
                        n \in DOMAIN lines[last]} : Says(last, key, text))

\* No line is longer than the buffer: its end may be read by itself.
LinesFit == \A i \in DOMAIN lines : Len(lines[i]) <= LineMax

\* Every setting is what the last line about it says, or its default, whatever
\* blanks, comments and other lines are between; this needs lines that fit the
\* buffer, as the rest of a longer line is read as a line of its own, even the
\* rest of a comment (config_file.c:116-187).
ReadsWhatIsMeant ==
    phase = "parsed" /\ LinesFit => \A k \in Keys : m_config_content[k] = Meant(k)

\* A text that libpq reads as it stands.
Plain(text) ==
    text # <<>> /\ Head(text) # QUOTE /\ ~Contains(text, SP) /\ ~Contains(text, BS)

\* Postgres is asked for what the file means, in each parameter, as long as
\* all of them fit conninfo and none of the five is empty, has a blank or a
\* backslash in it or begins with a quote.  They are printed as they are: an
\* empty one would take the name of the next one for its value, a blank would
\* end it, a backslash would be taken off, and a quote would have it go on to
\* another quote, over the names of the next (db.c:122-131,
\* config_file.c:134-187).
AsksForWhatIsMeant ==
    /\ phase = "asked"
    /\ LinesFit
    /\ \A k \in Range(DbKeys) : Plain(Meant(k))
    /\ Len(Printed) <= ConnMax
    => asked = [k \in Range(DbKeys) |-> Meant(k)]
=============================================================================
