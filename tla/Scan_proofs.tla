----------------------------- MODULE Scan_proofs -----------------------------
(* Proofs about Scan, for any set of blinds.                                  *)
EXTENDS Scan, TLAPS

(****************************************************************************)
(* The inductive invariant.  The mutex is held exactly by a blind that      *)
(* waits in scan; a goroutine, or its result, exists only under the mutex;  *)
(* a result in the channel means that the goroutine is gone, so the caller  *)
(* that takes it and unlocks leaves nothing behind.                         *)
(****************************************************************************)
HolderWaits == \A b \in Blinds : pc[b] \in {"select", "drain"} <=> owner = b

GoroutineUnderMutex ==
  \A b \in Blinds : disc[b] # "none" \/ scanErr[b] # "empty" => owner = b

ResultMeansGone == \A b \in Blinds : disc[b] # "none" => scanErr[b] = "empty"

IInv == /\ TypeOK
        /\ HolderWaits
        /\ GoroutineUnderMutex
        /\ ResultMeansGone
        /\ NoCrossTalk

USE ScanAssumption

\* The initial state satisfies the invariant.
LEMMA InitIInv == Init => IInv
<1> SUFFICES ASSUME Init PROVE IInv
  OBVIOUS
<1>1. TypeOK
  BY DEF Init, TypeOK, Results
<1>2. HolderWaits /\ GoroutineUnderMutex /\ ResultMeansGone
  BY DEF Init, HolderWaits, GoroutineUnderMutex, ResultMeansGone
<1> QED BY <1>1, <1>2 DEF Init, IInv, NoCrossTalk

\* The holder of the mutex stops no discovery but its own.
LEMMA StopScanStopsOwn ==
  ASSUME IInv, NEW by \in Blinds, owner = by, StopScan(by)
  PROVE  /\ aborted' = {}
         /\ disc' \in [Blinds -> {"none", "starting", "scanning", "stopped"}]
         /\ \A b \in Blinds : disc'[b] # "none" => disc[b] # "none"
         /\ \A b \in Blinds \ {by} : disc'[b] = "none" /\ disc[b] = "none"
<1>1. \A b \in Blinds \ {by} : disc[b] = "none"
  BY DEF IInv, GoroutineUnderMutex
<1>2. Scanning \subseteq {by}
  BY <1>1 DEF Scanning
<1> QED BY <1>1, <1>2 DEF IInv, TypeOK, NoCrossTalk, StopScan, Scanning

\* Every step of the callers, the goroutines, the blinds and the context preserves it.
LEMMA NextIInv == IInv /\ [Next]_vars => IInv'
<1> SUFFICES ASSUME IInv, [Next]_vars PROVE IInv'
  OBVIOUS
<1> USE DEF IInv, TypeOK, HolderWaits, GoroutineUnderMutex, ResultMeansGone,
            NoCrossTalk, Results
<1>1. ASSUME NEW b \in Blinds, Call(b) PROVE IInv'
  BY <1>1 DEF Call
<1>2. ASSUME NEW b \in Blinds, Lock(b) PROVE IInv'
  BY <1>2, ZenonT(40) DEF Lock
<1>3. ASSUME NEW b \in Blinds, SelectResult(b) PROVE IInv'
  BY <1>3, ZenonT(40) DEF SelectResult, Return
<1>4. ASSUME NEW b \in Blinds, SelectCancelled(b) PROVE IInv'
  <2>1. owner = b /\ StopScan(b)
    BY <1>4 DEF SelectCancelled
  <2> QED BY <1>4, <2>1, StopScanStopsOwn, ZenonT(60) DEF SelectCancelled
<1>5. ASSUME NEW b \in Blinds, SelectTimeout(b) PROVE IInv'
  <2>1. owner = b /\ StopScan(b)
    BY <1>5 DEF SelectTimeout
  <2> QED BY <1>5, <2>1, StopScanStopsOwn, ZenonT(60) DEF SelectTimeout
<1>6. ASSUME NEW b \in Blinds, Drain(b) PROVE IInv'
  BY <1>6, ZenonT(40) DEF Drain, Return
<1>7. ASSUME NEW b \in Blinds, ScanBegins(b) PROVE IInv'
  BY <1>7 DEF ScanBegins
<1>8. ASSUME NEW b \in Blinds, ScanRefused(b) PROVE IInv'
  BY <1>8 DEF ScanRefused
<1>9. ASSUME NEW b \in Blinds, ScanReturns(b) PROVE IInv'
  BY <1>9 DEF ScanReturns
<1>10. ASSUME NEW b \in Blinds, Match(b) PROVE IInv'
  <2>1. owner = b /\ StopScan(b)
    BY <1>10 DEF Match
  <2> QED BY <1>10, <2>1, StopScanStopsOwn DEF Match
<1>11. ASSUME NEW b \in Blinds, ScanEnds(b) PROVE IInv'
  BY <1>11 DEF ScanEnds
<1>12. ASSUME NEW b \in Blinds, Appears(b) PROVE IInv'
  BY <1>12 DEF Appears
<1>13. CASE Cancel
  BY <1>13 DEF Cancel
<1>14. CASE UNCHANGED vars
  BY <1>14 DEF vars
<1> QED
  BY <1>1, <1>2, <1>3, <1>4, <1>5, <1>6, <1>7, <1>8, <1>9, <1>10, <1>11, <1>12,
     <1>13, <1>14 DEF Next, Caller, Goroutine

\* The invariant holds in every reachable state, for any set of blinds.
THEOREM InvariantHolds == Spec => []IInv
  BY InitIInv, NextIInv, PTL DEF Spec

\* The state of a scan is well typed in every behaviour (Blind.scan).
THEOREM TypeCorrect == Spec => []TypeOK
<1>1. IInv => TypeOK BY DEF IInv
<1> QED BY <1>1, InvariantHolds, PTL

\* For any number of blinds sharing the ScanMutex, at most one discovery runs at a
\* time (Config.ScanMutex).
THEOREM OneDiscoveryHolds == Spec => []OneDiscovery
<1>1. IInv => OneDiscovery
  BY DEF IInv, GoroutineUnderMutex, OneDiscovery, Scanning
<1> QED BY <1>1, InvariantHolds, PTL

\* For any number of blinds, no discovery and no undelivered result outlives the
\* scan that started it (Blind.scan waits for scanErr on every path).
THEOREM DiscoveryWithinScanHolds == Spec => []DiscoveryWithinScan
<1>1. IInv => DiscoveryWithinScan
  BY DEF IInv, TypeOK, GoroutineUnderMutex, HolderWaits, DiscoveryWithinScan
<1> QED BY <1>1, InvariantHolds, PTL

\* For any number of blinds, no scan aborts the discovery of another blind.
THEOREM NoCrossTalkHolds == Spec => []NoCrossTalk
<1>1. IInv => NoCrossTalk BY DEF IInv
<1> QED BY <1>1, InvariantHolds, PTL

\* For any number of blinds, the scans of different blinds, and those of one blind after
\* another, have nothing to do with each other (ScanMutex, scan's <-scanErr).
THEOREM ScansApartHolds == Spec => []ScansApart
<1>1. OneDiscovery /\ DiscoveryWithinScan /\ NoCrossTalk => ScansApart
  BY DEF ScansApart
<1> QED BY <1>1, OneDiscoveryHolds, DiscoveryWithinScanHolds, NoCrossTalkHolds, PTL

-----------------------------------------------------------------------------
(* The safety half of ScanCompletes and CancelEndsScan: who waits for whom.     *)

\* A blind that holds the mutex has a goroutine, or its result.
HolderServed ==
  \A b \in Blinds : owner = b => disc[b] # "none" \/ scanErr[b] # "empty"

\* A scan drains the channel after a timeout or a cancellation; after a timeout its
\* discovery is over, since StopScan reached it (SelectTimeout).
DrainReason ==
  \A b \in Blinds : pc[b] = "drain" =>
    \/ result[b] = "timeout" /\ disc[b] \in {"stopped", "none"}
    \/ result[b] = "cancelled" /\ cancelled

WaitInv == HolderServed /\ DrainReason

LEMMA WaitInvKept ==
  ASSUME IInv, WaitInv, [Next]_vars PROVE WaitInv'
<1> USE DEF IInv, TypeOK, HolderWaits, GoroutineUnderMutex, ResultMeansGone, WaitInv,
            HolderServed, DrainReason
<1>1. ASSUME NEW b \in Blinds, Call(b) \/ Lock(b) PROVE WaitInv'
  BY <1>1 DEF Call, Lock
<1>2. ASSUME NEW b \in Blinds, SelectResult(b) \/ Drain(b) PROVE WaitInv'
  <2>1. owner' = NoOne /\ pc' = [pc EXCEPT ![b] = "idle"] /\ UNCHANGED <<disc, cancelled>>
    BY <1>2 DEF SelectResult, Drain, Return
  <2>2. \A c \in Blinds : c # b => result'[c] = result[c]
    BY <1>2, ZenonT(40) DEF SelectResult, Drain, Return
  <2> QED BY <2>1, <2>2
<1>3. ASSUME NEW b \in Blinds, SelectCancelled(b) \/ SelectTimeout(b) PROVE WaitInv'
  BY <1>3 DEF SelectCancelled, SelectTimeout, StopScan, Scanning
<1>4. ASSUME NEW b \in Blinds, Goroutine(b) PROVE WaitInv'
  BY <1>4 DEF Goroutine, ScanBegins, ScanRefused, ScanReturns
<1>5. ASSUME NEW b \in Blinds, Match(b) \/ ScanEnds(b) \/ Appears(b) PROVE WaitInv'
  BY <1>5 DEF Match, ScanEnds, Appears, StopScan, Scanning
<1>6. CASE Cancel \/ UNCHANGED vars
  BY <1>6 DEF Cancel, vars
<1> QED
  BY <1>1, <1>2, <1>3, <1>4, <1>5, <1>6 DEF Next, Caller

THEOREM WaitInvHolds == Spec => []WaitInv
<1>1. Init => WaitInv
  BY DEF Init, WaitInv, HolderServed, DrainReason
<1>2. IInv /\ WaitInv /\ [Next]_vars => WaitInv'
  BY WaitInvKept
<1> QED
  BY <1>1, <1>2, InvariantHolds, PTL DEF Spec

\* For any number of blinds: no scan waits for a discovery that has not been stopped, unless
\* it was cancelled before that discovery began.
THEOREM NoStandstillHolds == Spec => []NoStandstill
<1>1. IInv /\ WaitInv => NoStandstill
  <2> SUFFICES ASSUME IInv, WaitInv, NEW b \in Blinds, pc[b] # "idle"
               PROVE  \/ GoesOn(b)
                      \/ Stranded(b)
                      \/ /\ pc[b] = "lock" /\ owner \in Blinds
                         /\ GoesOn(owner) \/ Stranded(owner)
    BY DEF NoStandstill
  <2>1. ASSUME NEW c \in Blinds, owner = c PROVE GoesOn(c) \/ Stranded(c)
    <3>1. pc[c] \in {"select", "drain"} /\ (disc[c] # "none" \/ scanErr[c] # "empty")
      BY <2>1 DEF IInv, HolderWaits, WaitInv, HolderServed
    <3>2. disc[c] \in {"none", "starting", "scanning", "stopped"}
      BY DEF IInv, TypeOK
    <3>3. CASE pc[c] = "select"
      BY <3>2, <3>3 DEF GoesOn
    <3>4. CASE pc[c] = "drain"
      BY <3>1, <3>2, <3>4 DEF GoesOn, Stranded, WaitInv, DrainReason
    <3> QED BY <3>1, <3>3, <3>4
  <2>2. CASE pc[b] = "lock"
    BY <2>1, <2>2 DEF GoesOn, IInv, TypeOK
  <2>3. CASE pc[b] # "lock"
    <3>1. owner = b
      BY <2>3 DEF IInv, TypeOK, HolderWaits
    <3> QED BY <2>1, <3>1
  <2> QED BY <2>2, <2>3
<1> QED
  BY <1>1, InvariantHolds, WaitInvHolds, PTL
=============================================================================
