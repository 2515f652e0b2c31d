-------------------------- MODULE MCKsConfigForm ---------------------------
(***************************************************************************)
(* Strings for a buffer of six: the longest line that fits has three       *)
(* characters.                                                             *)
(***************************************************************************)
EXTENDS KsConfigForm

\* The second name sorts behind the first, of which it is a continuation.
MCNames == {<<97>>, <<97, 97, 98>>}

\* Empty; an equals sign and a carriage return at the end; a quote, a backslash
\* and a control character, as long as fits; a byte in hexadecimal; one character
\* more than fits; longer than the buffer; and the name above.
MCValues == {<<>>, <<Equals, CR>>, <<Quote, Slash, 1>>, <<66, 97>>,
             <<120, 120, 120, 120>>, <<120, 120, 120, 120, 120, 120, 120>>, <<97>>}
=============================================================================
