------------------------------- MODULE Background -------------------------------
(***************************************************************************)
(* The loops that run beside the requests, started by app/app.go and       *)
(* initRouter: the report of the performance monitor, the refresh of the   *)
(* change log and its parser, the dynamic configuration and the dynamic    *)
(* endpoints.                                                              *)
(*                                                                         *)
(* They share no state, so that a behaviour of all is one of each, side by *)
(* side: here one task moves in a behaviour, and the others wait at their  *)
(* start.                                                                  *)
(***************************************************************************)
EXTENDS PerformanceMonitor, ChangeLog, ChangeLogParser, DynamicConfig,
        DynamicEndpoints

VARIABLE task   \* the task that moves

vars == <<task, monitorVars, logVars, parserVars, configVars, endpointVars>>

Tasks == {"monitor", "changeLog", "parser", "config", "endpoints"}

Init ==
  /\ task \in Tasks
  /\ MonitorInit /\ LogInit /\ ParserInit /\ ConfigInit /\ EndpointsInit
  /\ task # "parser" => lines = <<>>
  /\ task # "config" => file = CHOOSE c \in Contents : TRUE
  /\ task # "endpoints" => rowsOf = CHOOSE t \in Tables : TRUE

Monitor ==
  /\ task = "monitor"
  /\ MonitorNext
  /\ UNCHANGED <<task, logVars, parserVars, configVars, endpointVars>>

Log ==
  /\ task = "changeLog"
  /\ LogNext
  /\ UNCHANGED <<task, monitorVars, parserVars, configVars, endpointVars>>

Parser ==
  /\ task = "parser"
  /\ ParserNext
  /\ UNCHANGED <<task, monitorVars, logVars, configVars, endpointVars>>

Configuration ==
  /\ task = "config"
  /\ ConfigNext
  /\ UNCHANGED <<task, monitorVars, logVars, parserVars, endpointVars>>

Endpoints ==
  /\ task = "endpoints"
  /\ EndpointsNext
  /\ UNCHANGED <<task, monitorVars, logVars, parserVars, configVars>>

Next == Monitor \/ Log \/ Parser \/ Configuration \/ Endpoints

Spec ==
  /\ Init
  /\ [][Next]_vars
  /\ WF_vars(Monitor /\ CopyRecords)
  /\ \A r \in Requests : WF_vars(Monitor /\ ReportRecord(r))
  /\ WF_vars(Monitor /\ (CountRequests \/ LogReport))
  /\ WF_vars(Endpoints /\ (Load \/ NoteHash \/ Publish))

--------------------------------------------------------------------------------
(* Properties; the others are beside the tasks.                            *)

\* An endpoint that stays in the table is served in the end, or a table with
\* the same hash is, or the table is edited again.
EndpointsServed ==
  \A t \in Tables :
    task = "endpoints" /\ rowsOf = t ~>
      rowsOf # t \/ (served # NoTable /\ Hash[served] = Hash[t])

================================================================================
