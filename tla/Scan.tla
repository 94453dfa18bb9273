-------------------------------- MODULE Scan --------------------------------
(* Blind.scan of pkg/bliss/client.go, for all the blinds of a bridge, which   *)
(* share one ScanMutex.  A scan runs in two goroutines: the caller, which     *)
(* holds the mutex and waits for the result, the context or the timeout, and  *)
(* one that sits in adapter.Scan until the discovery is stopped.              *)
(*                                                                            *)
(* adapter.Scan and StopScan belong to the Bluetooth library; they appear as  *)
(* client.go uses and describes them: Scan blocks until StopScan, StopScan    *)
(* does nothing when no discovery is running, and stopping one discovery      *)
(* aborts those of other adapters too.                                        *)
EXTENDS Integers, FiniteSets

CONSTANTS Blinds, NoOne

ASSUME ScanAssumption == NoOne \notin Blinds

VARIABLES
  pc,         \* the caller: "idle", "lock", "select", "drain"
  owner,      \* holder of the ScanMutex
  disc,       \* the goroutine: "none", "starting", "scanning", "stopped"
  found,      \* closed by the callback on a match
  scanErr,    \* content of the channel: "empty", "nil", "error"
  result,     \* what the last scan of the blind returned
  visible,    \* the blinds whose advertisements are received
  aborted,    \* history: blinds whose discovery somebody else stopped
  cancelled   \* Run's context

vars == <<pc, owner, disc, found, scanErr, result, visible, aborted, cancelled>>

Results == {"none", "ok", "failed", "not found", "cancelled", "timeout"}

TypeOK ==
  /\ pc \in [Blinds -> {"idle", "lock", "select", "drain"}]
  /\ owner \in Blinds \cup {NoOne}
  /\ disc \in [Blinds -> {"none", "starting", "scanning", "stopped"}]
  /\ found \in [Blinds -> BOOLEAN]
  /\ scanErr \in [Blinds -> {"empty", "nil", "error"}]
  /\ result \in [Blinds -> Results]
  /\ visible \subseteq Blinds /\ aborted \subseteq Blinds
  /\ cancelled \in BOOLEAN

Init ==
  /\ pc = [b \in Blinds |-> "idle"]
  /\ owner = NoOne
  /\ disc = [b \in Blinds |-> "none"]
  /\ found = [b \in Blinds |-> FALSE]
  /\ scanErr = [b \in Blinds |-> "empty"]
  /\ result = [b \in Blinds |-> "none"]
  /\ visible \in SUBSET Blinds
  /\ aborted = {}
  /\ cancelled = FALSE

Scanning == {b \in Blinds : disc[b] = "scanning"}

\* StopScan called for blind `by': every running discovery ends.
StopScan(by) ==
  /\ disc' = [b \in Blinds |-> IF b \in Scanning THEN "stopped" ELSE disc[b]]
  /\ aborted' = aborted \cup (Scanning \ {by})

\* connectOnce calls scan.
Call(b) ==
  /\ pc[b] = "idle"
  /\ pc' = [pc EXCEPT ![b] = "lock"]
  /\ UNCHANGED <<owner, disc, found, scanErr, result, visible, aborted, cancelled>>

\* ScanMutex.Lock; then the goroutine is launched and the caller waits.
Lock(b) ==
  /\ pc[b] = "lock"
  /\ owner = NoOne
  /\ owner' = b
  /\ pc' = [pc EXCEPT ![b] = "select"]
  /\ disc' = [disc EXCEPT ![b] = "starting"]
  /\ found' = [found EXCEPT ![b] = FALSE]
  /\ UNCHANGED <<scanErr, result, visible, aborted, cancelled>>

\* The goroutine gets into adapter.Scan ...
ScanBegins(b) ==
  /\ disc[b] = "starting"
  /\ disc' = [disc EXCEPT ![b] = "scanning"]
  /\ UNCHANGED <<pc, owner, found, scanErr, result, visible, aborted, cancelled>>

\* ... or Scan fails at once, as it does on a busy adapter.
ScanRefused(b) ==
  /\ disc[b] = "starting"
  /\ disc' = [disc EXCEPT ![b] = "none"]
  /\ scanErr' = [scanErr EXCEPT ![b] = "error"]
  /\ UNCHANGED <<pc, owner, found, result, visible, aborted, cancelled>>

\* The callback sees the target: close(found), StopScan.
Match(b) ==
  /\ disc[b] = "scanning" /\ b \in visible /\ ~found[b]
  /\ found' = [found EXCEPT ![b] = TRUE]
  /\ StopScan(b)
  /\ UNCHANGED <<pc, owner, scanErr, result, visible, cancelled>>

\* A discovery can also end on its own (the adapter goes away).
ScanEnds(b) ==
  /\ disc[b] = "scanning"
  /\ disc' = [disc EXCEPT ![b] = "stopped"]
  /\ UNCHANGED <<pc, owner, found, scanErr, result, visible, aborted, cancelled>>

\* adapter.Scan returns, its result goes into the buffered channel.
ScanReturns(b) ==
  /\ disc[b] = "stopped"
  /\ disc' = [disc EXCEPT ![b] = "none"]
  /\ scanErr' = [scanErr EXCEPT ![b] = "nil"]
  /\ UNCHANGED <<pc, owner, found, result, visible, aborted, cancelled>>

\* scan returns r; the deferred Unlock runs.
Return(b, r) ==
  /\ pc' = [pc EXCEPT ![b] = "idle"]
  /\ owner' = NoOne
  /\ result' = [result EXCEPT ![b] = r]

\* case err := <-scanErr: a match, an error, or a discovery that ended early.
SelectResult(b) ==
  /\ pc[b] = "select" /\ scanErr[b] # "empty"
  /\ scanErr' = [scanErr EXCEPT ![b] = "empty"]
  /\ Return(b, IF found[b] THEN "ok"
               ELSE IF scanErr[b] = "error" THEN "failed" ELSE "not found")
  /\ UNCHANGED <<disc, found, visible, aborted, cancelled>>

\* case <-ctx.Done(): StopScan, then wait for the goroutine.
SelectCancelled(b) ==
  /\ pc[b] = "select" /\ cancelled
  /\ StopScan(b)
  /\ pc' = [pc EXCEPT ![b] = "drain"]
  /\ result' = [result EXCEPT ![b] = "cancelled"]
  /\ UNCHANGED <<owner, found, scanErr, visible, cancelled>>

\* A bug: scan gives up at the timeout without waiting for the goroutine.
SelectTimeoutNoDrain(b) ==
  /\ pc[b] = "select" /\ disc[b] # "starting"
  /\ Return(b, "timeout")
  /\ UNCHANGED <<disc, aborted, found, scanErr, visible, cancelled>>

\* A bug: at the timeout scan waits for the goroutine without stopping it.
SelectTimeoutNoStop(b) ==
  /\ pc[b] = "select" /\ disc[b] # "starting"
  /\ pc' = [pc EXCEPT ![b] = "drain"]
  /\ result' = [result EXCEPT ![b] = "timeout"]
  /\ UNCHANGED <<disc, aborted, owner, found, scanErr, visible, cancelled>>

\* case <-time.After(ScanTimeout): the goroutine was launched 20 s ago, so it is
\* in adapter.Scan by now, or through with it.
SelectTimeout(b) ==
  /\ pc[b] = "select" /\ disc[b] # "starting"
  /\ StopScan(b)
  /\ pc' = [pc EXCEPT ![b] = "drain"]
  /\ result' = [result EXCEPT ![b] = "timeout"]
  /\ UNCHANGED <<owner, found, scanErr, visible, cancelled>>

\* <-scanErr, and scan returns.
Drain(b) ==
  /\ pc[b] = "drain" /\ scanErr[b] # "empty"
  /\ scanErr' = [scanErr EXCEPT ![b] = "empty"]
  /\ Return(b, result[b])
  /\ UNCHANGED <<disc, found, visible, aborted, cancelled>>

\* A blind comes within range, or leaves.
Appears(b) ==
  /\ visible' = IF b \in visible THEN visible \ {b} ELSE visible \cup {b}
  /\ UNCHANGED <<pc, owner, disc, found, scanErr, result, aborted, cancelled>>

Cancel ==
  /\ ~cancelled
  /\ cancelled' = TRUE
  /\ UNCHANGED <<pc, owner, disc, found, scanErr, result, visible, aborted>>

Caller(b) == SelectResult(b) \/ SelectCancelled(b) \/ SelectTimeout(b) \/ Drain(b)

Goroutine(b) == ScanBegins(b) \/ ScanRefused(b) \/ ScanReturns(b)

Next ==
  \/ \E b \in Blinds :
       \/ Call(b) \/ Lock(b) \/ Caller(b) \/ Goroutine(b)
       \/ Match(b) \/ ScanEnds(b) \/ Appears(b)
  \/ Cancel

Spec == Init /\ [][Next]_vars

\* Goroutines run; the mutex is handed to every waiter some day (sync.Mutex turns
\* to first-come-first-served when somebody starves).  Nothing makes a blind appear.
FairSpec ==
  /\ Spec
  /\ \A b \in Blinds : WF_vars(Caller(b)) /\ WF_vars(Goroutine(b)) /\ SF_vars(Lock(b))

-----------------------------------------------------------------------------
\* At any time at most one discovery is running, whichever adapters the blinds
\* use (comment of Config.ScanMutex).
OneDiscovery == \A b, c \in Scanning : b = c

\* A discovery never outlives the scan that started it: from the launch of its
\* goroutine to the receipt of its result the blind holds the mutex and waits, so
\* no result or running discovery is left over for a later scan (scan's <-scanErr).
DiscoveryWithinScan ==
  \A b \in Blinds :
    disc[b] # "none" \/ scanErr[b] # "empty" => owner = b /\ pc[b] \in {"select", "drain"}

\* No blind's discovery is aborted by the scan of another one (comment of
\* Config.ScanMutex on the library's cross-talk).
NoCrossTalk == aborted = {}

\* The scans of different blinds, and those of one blind after another, have nothing
\* to do with each other.
ScansApart == OneDiscovery /\ DiscoveryWithinScan /\ NoCrossTalk

\* What the caller of scan, or its goroutine, can do by itself.
GoesOn(b) ==
  \/ pc[b] = "lock" /\ owner = NoOne
  \/ pc[b] = "select" /\ (scanErr[b] # "empty" \/ cancelled \/ disc[b] # "starting")
  \/ pc[b] = "drain" /\ scanErr[b] # "empty"
  \/ disc[b] \in {"starting", "stopped"}

\* A cancelled scan that nobody will stop: StopScan came before the discovery.
Stranded(b) == pc[b] = "drain" /\ result[b] = "cancelled" /\ disc[b] = "scanning"

\* Whoever holds the mutex can go on by itself, and whoever waits for it waits for such a
\* one, except for a scan that is cancelled before its discovery has begun (scan).
NoStandstill ==
  \A b \in Blinds : pc[b] # "idle" =>
    \/ GoesOn(b)
    \/ Stranded(b)
    \/ pc[b] = "lock" /\ owner \in Blinds /\ (GoesOn(owner) \/ Stranded(owner))


\* Cancelling the context ends every scan (README: when the context is cancelled
\* Run shuts everything down cleanly).
CancelEndsScan == \A b \in Blinds : cancelled /\ pc[b] # "idle" ~> pc[b] = "idle"
=============================================================================
