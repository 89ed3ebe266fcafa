------------------------------ MODULE MCPublish ------------------------------
(* The instances of Publish for TLC: OUT records of two types that share a name *)
(* in EPICS, a trigger, waveforms, and databases that match them more or less.  *)
EXTENDS Publish

Args(persist, max) ==
  [persist |-> persist, io_intr |-> FALSE, max_length |-> max,
   field_type |-> "short"]

Publication(type, name, args) == [record_type |-> type, name |-> name, args |-> args]

MCPublications ==
  { Publication("longout", <<"A">>, Args(TRUE, 0)),
    Publication("ulongout", <<"A">>, Args(FALSE, 0)),
    Publication("mbbo", <<"A">>, Args(TRUE, 0)),
    Publication("bi", <<"A">>, [Args(FALSE, 0) EXCEPT !.io_intr = TRUE]),
    Publication("waveform", <<"A">>, Args(TRUE, 2)),
    Publication("waveform", <<"A">>, [Args(FALSE, 2) EXCEPT !.field_type = "void"]),
    Publication("waveform", <<"B">>, [Args(TRUE, 2) EXCEPT !.field_type = "void"]) }

Fields(type, address) ==
  [record_type |-> type, address |-> address, io_intr |-> type = "bi",
   ftvl |-> "short", nelm |-> 2]

MCDatabases ==
  { [pv \in {"P:A", "ALIAS", "OTHER"} |->
       CASE pv = "P:A"   -> Fields("longout", <<"P", ":", "A">>)
         [] pv = "ALIAS" -> Fields("longout", <<"P", ":", "A">>)
         [] pv = "OTHER" -> Fields("mbbo", <<"A">>)],
    [pv \in {"SHORT", "WF", "TRIG"} |->
       CASE pv = "SHORT" -> [Fields("waveform", <<"P", ":", "A">>) EXCEPT !.nelm = 1]
         [] pv = "WF"    -> Fields("waveform", <<"P", ":", "A">>)
         [] pv = "TRIG"  -> Fields("bi", <<"A">>)],
    [pv \in {"WF", "TRIG"} |->
       IF pv = "WF" THEN Fields("waveform", <<"P", ":", "A">>) ELSE Fields("bi", <<"A">>)] }

MCChars == {"A", "B", "P", "Q", ":", "."}
MCNamePrefixes == {<<"P">>, <<"Q", "Q">>}
MCSeparators == {<<":">>, <<".", ".">>, <<".", ".", ".">>}

MCRequests ==
  [record_type : {"longout", "ulongout", "waveform"},
   name : {<<"A">>, <<"P", ":", "A">>}, length : {1, 3}]
===============================================================================
