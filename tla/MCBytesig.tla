----------------------------- MODULE MCBytesig -----------------------------
(***************************************************************************)
(* Instance of Bytesig for TLC: one slot per signal, so that the tables    *)
(* are full as soon as one of the two threads is in a section.             *)
(***************************************************************************)
EXTENDS Bytesig
SectionSignums == <<"SIGSEGV", "SIGBUS">>
=============================================================================
