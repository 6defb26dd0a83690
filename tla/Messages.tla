------------------------------ MODULE Messages ------------------------------
(***************************************************************************)
(* A request on its way through the wrapper (http.c): the skipped header is *)
(* parsed and every entry reported to the event callback, then a route      *)
(* answers: the example's /api/events, or an endpoint that builds an        *)
(* instruction.                                                             *)
(***************************************************************************)
EXTENDS Header, EventLog, Instruction

vars == <<noMem, headerVars, logVars, instVars>>

Init ==
  /\ noMem = FALSE
  /\ HeaderInit
  /\ LogInit
  /\ InstInit

Receive == ReceiveRequest /\ UNCHANGED <<logVars, instVars>>

Parse == ParseStep /\ UNCHANGED <<logVars, instVars>>

\* One SESSION_SKIPPED event per entry.
ReportEntry ==
  /\ scan.pc = "report" /\ scan.reported < Len(scan.entries)
  /\ LET e == scan.entries[scan.reported + 1]
     IN add_event("SESSION_SKIPPED", e.session_id, e.reason)
  /\ scan' = [scan EXCEPT !.reported = @ + 1]
  /\ UNCHANGED <<noMem, source, skipped, quoted, sent, instVars>>

ReportEnd ==
  /\ scan.pc = "report" /\ scan.reported = Len(scan.entries)
  /\ scan' = [scan EXCEPT !.pc = "done"]
  /\ UNCHANGED <<noMem, source, skipped, quoted, sent, logVars, instVars>>

\* handle_session_skipped
HandleSessionSkipped == Parse \/ ReportEntry \/ ReportEnd

\* GET /api/events
ShowEvents ==
  /\ scan.pc = "done" /\ shown = Nil
  /\ source # Nil \/ emitted # <<>>
  /\ api_events
  /\ UNCHANGED <<headerVars, instVars>>

\* Instructions, for requests without a header to parse or compare.
Build ==
  /\ scan.pc = "done" /\ skipped = Nil /\ quoted = Nil /\ sent = Nil
  /\ BuildStep
  /\ UNCHANGED <<headerVars, logVars>>

Next == Receive \/ HandleSessionSkipped \/ ShowEvents \/ Build

\* The handler runs on the server's thread to its end.
Spec == Init /\ [][Next]_vars /\ WF_vars(HandleSessionSkipped)

-----------------------------------------------------------------------------
\* The parser's entries and the instruction's arrays are well formed: nothing
\* is counted past its allocation or before it is complete.
MessagesTypeOK == HeaderTypeOK /\ InstructionTypeOK

\* Every entry of a header that was read becomes one event, in the order of
\* the header; a header that was refused leaves none, not even for the
\* entries read before the fault.
EventsMirrorHeader ==
  /\ scan.rc # 0 => emitted = <<>>
  /\ scan.pc = "done" /\ scan.rc = 0 =>
       /\ Len(emitted) = Len(EntriesOf(skipped))
       /\ \A n \in DOMAIN emitted :
            /\ emitted[n].session = EntriesOf(skipped)[n].session_id
            /\ emitted[n].detail = EntriesOf(skipped)[n].reason

\* Whatever a client sends, the handler comes to its end: every turn of the
\* parser's loop takes something from the header.
HandlerReturns == scan.pc = "request" ~> scan.pc = "done"
=============================================================================
