------------------------------- MODULE DeviceScan -------------------------------
(***************************************************************************)
(* The scans of a device: the controller fetches results from the device    *)
(* the wizard's store has selected, and three stores learn one by one how   *)
(* it went.  The scan store ignores a start while it scans and an end when it  *)
(* does not; the other two believe what they hear last.                     *)
(***************************************************************************)
EXTENDS AndroidSetup

CONSTANT Fetch  \* fetches under way at a time, a bound

VARIABLES
  scan,         \* status of the scan store
  connection,   \* status of the device connection store
  results,      \* the device the unified results are of, Null if there are none
  fetches       \* the device each fetch under way asks, Null for one that is not

scanVars == <<scan, connection, results, fetches>>

-----------------------------------------------------------------------------
ScanInit ==
  /\ scan = "Default"
  /\ connection = "Unknown"
  /\ results = Null
  /\ fetches = [f \in Fetch |-> Null]

\* A bug to be caught: a scan that is completed is not started over.
ScanOnlyOnce ==
  /\ connection' = "Unknown"
  /\ scan' = IF scan = "Completed" THEN scan ELSE "Scanning"
  /\ \E f \in Fetch : fetches[f] = Null /\ fetches' = [fetches EXCEPT ![f] = setup.selected]
  /\ UNCHANGED results

\* ScanActionCreator.scan and both listeners of scanStarted, the store, which
\* ignores it while it scans, and the controller, which does not.
Scan ==
  /\ connection' = "Unknown"
  /\ scan' = "Scanning"
  /\ \E f \in Fetch : fetches[f] = Null /\ fetches' = [fetches EXCEPT ![f] = setup.selected]
  /\ UNCHANGED results

\* A bug to be caught: a failed scan goes on in the store.
OnScanFinishedCompleted(status) ==
  scan' = IF scan = "Scanning" /\ status = "Completed" THEN status ELSE scan

\* ScanStore.onScanFinished.
OnScanFinished(status) == scan' = IF scan = "Scanning" THEN status ELSE scan

\* ScanController.scanCompleted.
ScanCompleted(f) ==
  /\ fetches[f] # Null
  /\ fetches' = [fetches EXCEPT ![f] = Null]
  /\ results' = fetches[f]
  /\ OnScanFinished("Completed")
  /\ connection' = "Connected"

\* ScanController.scanFailed: the device does not answer, or not with results.
ScanFailed(f) ==
  /\ fetches[f] # Null
  /\ fetches' = [fetches EXCEPT ![f] = Null]
  /\ OnScanFinished("Failed")
  /\ connection' = "Disconnected"
  /\ UNCHANGED results

\* A listener throws while scanCompleted is under way, in one of its three
\* actions; the rest is skipped and scanFailed follows.
ReportThrows(f, action) ==
  /\ fetches[f] # Null
  /\ fetches' = [fetches EXCEPT ![f] = Null]
  /\ results' = fetches[f]
  /\ OnScanFinished(IF action = "unifiedScanCompleted" THEN "Failed" ELSE "Completed")
  /\ connection' = "Disconnected"

FetchEnds(f) ==
  \/ ScanCompleted(f)
  \/ ScanFailed(f)
  \/ \E a \in {"unifiedScanCompleted", "scanCompleted", "statusConnected"} : ReportThrows(f, a)

-----------------------------------------------------------------------------
\* The state of the scans keeps its declared shape.
ScanTypeOK ==
  /\ scan \in {"Default", "Scanning", "Completed", "Failed"}
  /\ connection \in {"Unknown", "Connected", "Disconnected"}
  /\ results \in Device \cup {Null}
  /\ fetches \in [Fetch -> Device \cup {Null}]

\* There is one fetch while the store scans and none otherwise, and the connection is
\* unknown exactly as long as a first scan or that one is awaited: no end is taken for
\* that of another scan, and no scan is left without an end.
ScanIsFetched ==
  /\ \A f, g \in Fetch : fetches[f] # Null /\ fetches[g] # Null => f = g
  /\ scan = "Scanning" <=> \E f \in Fetch : fetches[f] # Null
  /\ connection = "Unknown" <=> scan \in {"Default", "Scanning"}
=============================================================================
