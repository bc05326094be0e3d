----------------------------- MODULE Conversions ------------------------------
(***************************************************************************)
(* The conversions of the component that run to completion inside one call: *)
(* ToBase64 and FromBase64 for the script, and the trace dump for libcurl.  *)
(* They share no state.  Both are called on the one thread of the program,  *)
(* so a dump never begins in the middle of a Base64 loop; it is taken       *)
(* before the first Base64 call, which is the same as after any other.      *)
(***************************************************************************)
EXTENDS Base64, TraceDump

conversionVars == <<vars, dumpVars>>

ConversionsInit == Init /\ DumpInit

Base64Fresh == stage = "idle" /\ kept = [encoded |-> 0, decoded |-> 0]

ConversionsNext ==
  \/ dump = "idle" /\ UNCHANGED dumpVars /\ Next
  \/ Base64Fresh /\ UNCHANGED vars /\ DumpNext

\* libcurl does not go on before the debug callback has returned.
ConversionsSpec ==
  /\ ConversionsInit /\ [][ConversionsNext]_conversionVars
  /\ WF_conversionVars(Base64Fresh /\ UNCHANGED vars /\ DumpStep)

-----------------------------------------------------------------------------
\* Both conversions stay within their types; the counters of the dump are
\* size_t all the time, however far they go back.
ConversionsTypeOK == TypeOK /\ DumpTypeOK

=============================================================================
