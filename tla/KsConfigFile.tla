---------------------------- MODULE KsConfigFile ----------------------------
(***************************************************************************)
(* ksConfig: a map of strings kept as a text file, names and values on     *)
(* alternate lines.  The constructor reads the file through a buffer of    *)
(* fixed size, the destructor writes it anew if anything was set.  A       *)
(* string is a sequence of character codes.                                *)
(***************************************************************************)
EXTENDS Integers, FiniteSets, SequencesExt

CONSTANTS
    BufferSize,     \* size of the line buffer: 256
    Names,          \* names the program sets
    Values,         \* values it sets them to
    MaxEntries,     \* bound of the model: entries a file is read with
    MaxLength       \* bound of the model: length of a file that is read

Char == 1..255
LF == 10
CR == 13

IsLine(s) == s \in Seq(Char) /\ \A i \in 1..Len(s) : s[i] # LF

ASSUME ConfigAssumption ==
    /\ BufferSize \in Nat /\ BufferSize > 2
    /\ IsFiniteSet(Names)
    /\ \A s \in Names \cup Values : IsLine(s)

VARIABLES
    file,       \* the text of the file
    open,       \* a ksConfig of it is alive
    params,     \* configParams
    isDirty     \* something was set

vars == <<file, open, params, isDirty>>

NoParams == [name \in {} |-> <<>>]

-----------------------------------------------------------------------------
(* Reading. *)

\* Mutant of MaxRead: no room for the terminating NUL.
WholeBuffer == BufferSize

MaxRead == BufferSize - 1

\* readBytesUntil('\n', buffer, maxReadSize): the position behind what is read,
\* which is a line feed, the end of the text or where the buffer is full.
ReadEnd(text) ==
    LET limit == Min({Len(text), MaxRead}) + 1
    IN  CHOOSE i \in 1..limit :
            /\ i = limit \/ text[i] = LF
            /\ \A j \in 1..i - 1 : text[j] # LF

\* A line feed is consumed, but only when it is met before the buffer is full.
Rest(text) ==
    SubSeq(text, ReadEnd(text) + (IF ReadEnd(text) <= MaxRead THEN 1 ELSE 0), Len(text))

\* Mutant of Line: all the carriage returns at its end are removed.
LineStripped(text) ==
    LET read == SubSeq(text, 1, ReadEnd(text) - 1)
    IN  SubSeq(read, 1, Max({0} \cup {i \in DOMAIN read : read[i] # CR}))

\* The string_view of the buffer, without a trailing carriage return.
Line(text) ==
    LET read == SubSeq(text, 1, ReadEnd(text) - 1)
    IN  IF read # <<>> /\ Last(read) = CR THEN Front(read) ELSE read

Lines[text \in Seq(Char)] ==
    IF text = <<>> THEN <<>> ELSE <<Line(text)>> \o Lines[Rest(text)]

\* Odd lines are names and even lines values; of a repeated name the last
\* value counts, and a name without a value is dropped.
Load(text) ==
    LET line  == Lines[text]
        Pairs == 1..Len(line) \div 2
        Name(i) == line[2 * i - 1]
    IN  [name \in {Name(i) : i \in Pairs} |->
            line[2 * Max({i \in Pairs : Name(i) = name})]]

-----------------------------------------------------------------------------
(* Writing. *)

\* The order of std::map<std::string, ...>.
Less(s, t) ==
    \E n \in 0..Len(s) :
        /\ n < Len(t)
        /\ \A i \in 1..n : s[i] = t[i]
        /\ n = Len(s) \/ s[n + 1] < t[n + 1]

\* S in that order.
Ordered(S) ==
    CHOOSE order \in [1..Cardinality(S) -> S] :
        /\ ToSet(order) = S
        /\ \A i, j \in DOMAIN order : i < j => Less(order[i], order[j])

\* println.
PrintLine(s) == s \o <<CR, LF>>

PrintEntry(name, value) == PrintLine(name) \o PrintLine(value)

Text(map) ==
    LET name == Ordered(DOMAIN map)
    IN  FlattenSeq([i \in DOMAIN name |-> PrintEntry(name[i], map[name[i]])])

-----------------------------------------------------------------------------
Init ==
    /\ file = <<>>
    /\ open = FALSE /\ params = NoParams /\ isDirty = FALSE

\* The constructor.  A missing file is read like an empty one.
Construct ==
    /\ ~open
    /\ Len(file) <= MaxLength /\ Cardinality(DOMAIN Load(file)) <= MaxEntries
    /\ open' = TRUE /\ params' = Load(file) /\ isDirty' = FALSE
    /\ UNCHANGED file

SetParam(name, value) ==
    /\ open
    /\ params' = [n \in DOMAIN params \cup {name} |->
                     IF n = name THEN value ELSE params[n]]
    /\ isDirty' = TRUE
    /\ UNCHANGED <<file, open>>

\* What is left of the object.
Gone == open' = FALSE /\ params' = NoParams /\ isDirty' = FALSE

\* The destructor; LittleFS puts the new text in place when the file is closed.
\* The model takes it that there is room for it: no println writes short.
Save ==
    /\ open /\ isDirty
    /\ file' = Text(params)
    /\ Gone

\* Nothing was set, or the file cannot be opened for writing, or the device is
\* reset before it is closed.
EndUnsaved ==
    /\ open
    /\ Gone
    /\ UNCHANGED file

\* The directory of the configuration files is erased while none is open.
EraseConfigData ==
    /\ ~open
    /\ file' = <<>>
    /\ UNCHANGED <<open, params, isDirty>>

Next ==
    \/ Construct
    \/ \E name \in Names, value \in Values : SetParam(name, value)
    \/ Save
    \/ EndUnsaved
    \/ EraseConfigData

Spec == Init /\ [][Next]_vars

-----------------------------------------------------------------------------
(* Properties. *)

\* The types.  What is read fits the buffer with its NUL, however long the
\* lines are, and no line feed is ever part of a string.
ConfigTypeOK ==
    /\ open \in BOOLEAN /\ isDirty \in BOOLEAN /\ (isDirty => open)
    /\ \A i \in DOMAIN Lines[file] :
          /\ Len(Lines[file][i]) < BufferSize
          /\ \A c \in DOMAIN Lines[file][i] : Lines[file][i][c] # LF
    /\ DOMAIN params \subseteq Names \cup {Lines[file][i] : i \in DOMAIN Lines[file]}

\* A line can be read as it was written: the buffer has room for it, the
\* carriage return and the NUL, and one more for the line feed to be met.
Fits(s) == Len(s) + 3 <= BufferSize

\* Values that end in a carriage return, empty ones and the longest that fit
\* are read back as they were set, in the next life of the object and of the
\* device (ksConfig.h, "Upon destruction, if the file has been modified, it is
\* saved to the filesystem").  The text holds no separator but line ends, so
\* one line that does not fit shifts names and values against each other.
SavedIsReadBack ==
    [][ Save /\ (\A name \in DOMAIN params : Fits(name) /\ Fits(params[name]))
          => Load(file') = params ]_vars
=============================================================================
