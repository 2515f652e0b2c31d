---------------------------- MODULE KsConfigForm ----------------------------
(***************************************************************************)
(* The way of a configuration from the page's form into a file and back:   *)
(* the page puts it into the lines of a saveConfig message, the portal     *)
(* takes it apart and stores it (KsConfigFile), and getDeviceParams reads  *)
(* it and escapes it into the JSON that the page parses.  And what becomes *)
(* of it when it is used as the fingerprint of a certificate.              *)
(***************************************************************************)
EXTENDS KsConfigFile

VARIABLE typed      \* history: the form the file was last saved from, if all of
                    \* it fits the lines and the file had no other entries

formVars == <<file, open, params, isDirty, typed>>

NoForm == <<>>

Equals == 61
Bar    == 124
Quote  == 34
Slash  == 92
Digit(n) == IF n < 10 THEN 48 + n ELSE 87 + n       \* lower case

\* The positions of c in s, and what s has up to the first one and behind it.
At(s, c)     == {i \in DOMAIN s : s[i] = c}
Before(s, c) == SubSeq(s, 1, Min(At(s, c)) - 1)
After(s, c)  == SubSeq(s, Min(At(s, c)) + 1, Len(s))

\* Names are identifiers: they fit the lines of the file and the message.
ASSUME FormAssumption ==
    \A name \in Names : Fits(name) /\ At(name, Equals) = {}

-----------------------------------------------------------------------------
(* To the device. *)

\* "param_" and the name.
Key(name) == <<112, 95>> \o name

\* saveAndReboot: a line for every parameter, behind an id and the command.
Message(values) ==
    LET name == Ordered(Names)
        Assignment(n) == Key(n) \o <<Equals>> \o values[n]
    IN  <<49, Bar, 115, LF>>
        \o FlattenSeq([i \in DOMAIN name |-> Assignment(name[i]) \o <<LF>>])

\* onWebsocketTextMessage: the body is what follows the line of the command.
Body(message) ==
    LET command == After(message, Bar)
    IN  IF At(command, LF) = {} THEN <<>> ELSE After(command, LF)

BodyLines[body \in Seq(Char)] ==
    IF At(body, LF) = {} THEN <<>>
    ELSE <<Before(body, LF)>> \o BodyLines[After(body, LF)]

\* Mutant of Separator: the last equals sign of the line.
LastSeparator(line) == Max(At(line, Equals))

\* line.find('=').
Separator(line) == Min(At(line, Equals))

\* paramMap: lines without an equals sign are skipped, and the last one counts.
ParamMap(body) ==
    LET line   == BodyLines[body]
        Pairs  == {i \in DOMAIN line : At(line[i], Equals) # {}}
        KeyOf(i)   == SubSeq(line[i], 1, Separator(line[i]) - 1)
        ValueOf(i) == SubSeq(line[i], Separator(line[i]) + 1, Len(line[i]))
    IN  [key \in {KeyOf(i) : i \in Pairs} |->
            ValueOf(Max({i \in Pairs : KeyOf(i) = key}))]

\* saveConfig and saveParams, in one go: what has been sent is set, what has not
\* keeps the value that was read.
Submit(values) ==
    /\ ~open
    /\ Len(file) <= MaxLength /\ Cardinality(DOMAIN Load(file)) <= MaxEntries
    /\ LET old  == Load(file)
           sent == ParamMap(Body(Message(values)))
           Value(name) == IF name \in Names /\ Key(name) \in DOMAIN sent
                          THEN sent[Key(name)]
                          ELSE IF name \in DOMAIN old THEN old[name] ELSE <<>>
       IN  file' = Text([name \in DOMAIN old \cup Names |-> Value(name)])
    /\ typed' = IF DOMAIN Load(file) \subseteq Names /\ (\A n \in Names : Fits(values[n]))
                THEN values ELSE NoForm
    /\ UNCHANGED <<open, params, isDirty>>

-----------------------------------------------------------------------------
(* To the page. *)

\* What json_escape appends for a character.
Short == [c \in {8, 9, 10, 12, 13} |->
             CASE c = 8 -> 98 [] c = 9 -> 116 [] c = 10 -> 110 [] c = 12 -> 102 [] c = 13 -> 114]
Escaped(c) ==
    CASE c \in {Quote, Slash} -> <<Slash, c>>
      [] c \in DOMAIN Short   -> <<Slash, Short[c]>>
      [] c < 32 /\ c \notin DOMAIN Short ->
           <<Slash, 117, 48, 48, Digit(c \div 16), Digit(c % 16)>>
      [] OTHER -> <<c>>

json_escape(s) == FlattenSeq([i \in DOMAIN s |-> Escaped(s[i])])

\* JSON.parse of a string, from behind its opening quote to the closing one.
HexValue(c) ==
    CASE c \in 48..57 -> c - 48
      [] c \in 65..70 -> c - 55
      [] c \in 97..102 -> c - 87
      [] OTHER -> 255

\* The character that s begins with, and how many it is written with.
Unescaped(s) ==
    CASE s[1] # Slash -> s[1]
      [] s[1] = Slash /\ s[2] = 117 -> 16 * HexValue(s[5]) + HexValue(s[6])
      [] s[1] = Slash /\ s[2] # 117 ->
           IF s[2] \in {Quote, Slash} THEN s[2]
           ELSE CHOOSE c \in DOMAIN Short : Short[c] = s[2]

Width(s) == IF s[1] # Slash THEN 1 ELSE IF s[2] = 117 THEN 6 ELSE 2

JsonParse[s \in Seq(Char)] ==
    IF s = <<>> \/ s[1] = Quote THEN <<>>
    ELSE <<Unescaped(s)>> \o JsonParse[SubSeq(s, Width(s) + 1, Len(s))]

\* What the page shows of the file after getDeviceParams.
Shown(name) ==
    LET value == IF name \in DOMAIN Load(file) THEN Load(file)[name] ELSE <<>>
    IN  JsonParse[json_escape(value) \o <<Quote, 44>>]

-----------------------------------------------------------------------------
(* The fingerprint. *)

HexToValue(c) == HexValue(c)

\* fingerprintToBytes for one byte; <<>> is a refusal.
FingerprintToBytes(s) ==
    IF Len(s) # 2 \/ HexToValue(s[1]) > 15 \/ HexToValue(s[2]) > 15 THEN <<>>
    ELSE <<16 * HexToValue(s[1]) + HexToValue(s[2])>>

\* The text ksCertFingerprintESP32::verify compares the certificate with.
Upper(c) == IF c \in 97..102 THEN c - 32 ELSE c
HexChar(n) == Upper(Digit(n))
FingerprintText(bytes) == <<HexChar(bytes[1] \div 16), HexChar(bytes[1] % 16)>>

-----------------------------------------------------------------------------
FormInit == Init /\ typed = NoForm

FormNext ==
    \/ (Construct \/ EndUnsaved \/ \E n \in Names, v \in Values : SetParam(n, v))
       /\ UNCHANGED typed
    \/ (Save \/ EraseConfigData) /\ typed' = NoForm
    \/ \E values \in [Names -> Values] : Submit(values)

FormSpec == FormInit /\ [][FormNext]_formVars

-----------------------------------------------------------------------------
(* Properties. *)

\* The page shows what has been typed into its form, equals signs, quotes,
\* backslashes and control characters included, as long as the lines of the file
\* have room for it; and a fingerprint is either refused or compared with the certificate
\* as it was typed (saveConfig, handle_getDeviceParams, json_escape,
\* fingerprintToBytes).
FormIsKept ==
    typed # NoForm =>
        \A name \in Names :
            /\ Shown(name) = typed[name]
            /\ LET bytes == FingerprintToBytes(Shown(name))
               IN  bytes # <<>> =>
                     FingerprintText(bytes) = [i \in 1..2 |-> Upper(typed[name][i])]
=============================================================================
