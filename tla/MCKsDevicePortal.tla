-------------------------- MODULE MCKsDevicePortal --------------------------
(***************************************************************************)
(* The requests of clients that have and have not read the parameters, with *)
(* texts that components accept and texts they do not.                     *)
(***************************************************************************)
EXTENDS KsDevicePortal

Form(secret, broker, port, fingerprint, custom) ==
    [credentials |-> secret, broker |-> broker, port |-> port,
     SSLFingerprint |-> fingerprint, custom |-> custom]

\* Two complete configurations, one of them secure; the port left as the form of
\* a new device offers it; a port and a fingerprint that are none; the broker
\* cleared; the lists not received, the credentials sent or not; and one value of
\* a list alone.
MCRequest ==
    {Form("a", "a", "1883", Empty, "a"),
     Form("a", "b", "1883", "f", "b"),
     Form("a", "b", Empty, Empty, "a"),
     Form("a", "a", "b", Empty, "a"),
     Form("a", "a", "1883", "b", Empty),
     Form("a", Empty, "1883", Empty, NotSent),
     Form("a", NotSent, NotSent, NotSent, NotSent),
     NoRequest,
     Form("a", NotSent, "1883", NotSent, NotSent)}
=============================================================================
