------------------------- MODULE BlindClient_proofs -------------------------
(* Proofs about BlindClient: for every set of callers and any number of calls,  *)
(* links, drops and login results, on-demand or not, one goroutine at a time    *)
(* connects, commands travel over a logged-in link, and no call leaves a link   *)
(* or a subscription behind that the client does not know of.                   *)
EXTENDS BlindClient, SequenceTheorems, TLAPS

USE ClientAssumption

-----------------------------------------------------------------------------
(* Type correctness, in parts that the steps disturb separately.               *)

TypeControl ==
  /\ pc \in [Procs -> Labels]
  /\ call \in [Procs -> {"none", "connect", "send", "close"}]
  /\ next \in [Procs -> {"idle", "scan", "exit"}]
  /\ sendMu \in Callers \cup {"none"}
  /\ cancelled \in BOOLEAN

TypeLink ==
  /\ handle \in [Procs -> Links]
  /\ device \in Links /\ link \in Links /\ auth \in Links
  /\ subs \subseteq Links
  /\ connected \in BOOLEAN
  /\ links \in Links

TypeLogin ==
  /\ loggedIn \in BOOLEAN
  /\ loginCh \in {"nil", "empty", "ok", "rejected"}
  /\ frames \in Seq(Links \X BOOLEAN)
  /\ notify \in {"wait", "lock", "update", "callback"}
  /\ frame \in Links \X BOOLEAN

TypeTries == tries \in [Procs -> 0..2]

TypeRest ==
  /\ mu \in {"free", "notify"}
  /\ rootCtx \in BOOLEAN
  /\ unsubWaits \in BOOLEAN
  /\ calls \in 0..MaxCalls

LEMMA TypeParts ==
  TypeOK <=> TypeControl /\ TypeLink /\ TypeLogin /\ TypeTries /\ TypeRest
  BY DEF TypeOK, TypeTries, TypeControl, TypeLink, TypeLogin, TypeRest

LEMMA InitType == Init => TypeOK
<1> SUFFICES ASSUME Init PROVE TypeOK
  OBVIOUS
<1>1. /\ cancelled \in BOOLEAN /\ connected \in BOOLEAN /\ loggedIn \in BOOLEAN
      /\ rootCtx \in BOOLEAN
  BY Zenon DEF Init
<1>2. /\ pc \in [Procs -> Labels]
      /\ call \in [Procs -> {"none", "connect", "send", "close"}]
      /\ next \in [Procs -> {"idle", "scan", "exit"}]
      /\ sendMu \in Callers \cup {"none"}
  BY DEF Init, Labels
<1>3. /\ handle \in [Procs -> Links] /\ tries \in [Procs -> 0..2]
      /\ device \in Links /\ link \in Links /\ auth \in Links
      /\ subs \subseteq Links /\ links \in Links
  BY DEF Init, Links
<1>4. frame \in Links \X BOOLEAN
  <2>1. 0 \in Links
    BY DEF Links
  <2> QED
    BY <2>1, Zenon DEF Init
<1>5. /\ frames \in Seq(Links \X BOOLEAN)
      /\ loginCh \in {"nil", "empty", "ok", "rejected"}
      /\ notify \in {"wait", "lock", "update", "callback"}
  BY DEF Init
<1>6. /\ mu \in {"free", "notify"} /\ unsubWaits \in BOOLEAN /\ calls \in 0..MaxCalls
  BY DEF Init
<1> QED
  BY <1>1, <1>2, <1>3, <1>4, <1>5, <1>6 DEF TypeOK

LEMMA ControlStays ==
  ASSUME TypeControl, UNCHANGED <<pc, call, next, sendMu, cancelled>>
  PROVE  TypeControl'
  BY DEF TypeControl

LEMMA LinkStays ==
  ASSUME TypeLink, UNCHANGED <<handle, device, link, auth, subs, connected, links>>
  PROVE  TypeLink'
  BY DEF TypeLink

LEMMA LoginStays ==
  ASSUME TypeLogin, UNCHANGED <<loggedIn, loginCh, frames, notify, frame>>
  PROVE  TypeLogin'
  BY DEF TypeLogin

LEMMA RestStays ==
  ASSUME TypeRest, UNCHANGED <<mu, rootCtx, unsubWaits, calls>>
  PROVE  TypeRest'
  BY DEF TypeRest

\* A step of one goroutine within a call.
LEMMA GotoType ==
  ASSUME TypeControl, NEW p \in Procs, NEW l \in Labels, Goto(p, l)
  PROVE  pc' \in [Procs -> Labels]
  BY DEF TypeControl, Goto

\* The return of a call.
LEMMA ReturnType ==
  ASSUME TypeControl, NEW p \in Procs, Return(p)
  PROVE  /\ pc' \in [Procs -> Labels]
         /\ call' \in [Procs -> {"none", "connect", "send", "close"}]
         /\ sendMu' \in Callers \cup {"none"}
<1>1. "idle" \in Labels
  BY DEF Labels
<1>2. pc' \in [Procs -> Labels]
  BY <1>1, GotoType DEF Return
<1>3. call' \in [Procs -> {"none", "connect", "send", "close"}]
  BY DEF Return, TypeControl
<1>4. sendMu' \in Callers \cup {"none"}
  BY DEF Return, TypeControl
<1> QED
  BY <1>2, <1>3, <1>4

LEMMA ResumeType ==
  ASSUME TypeControl, NEW p \in Procs, Resume(p)
  PROVE  /\ pc' \in [Procs -> Labels]
         /\ call' \in [Procs -> {"none", "connect", "send", "close"}]
         /\ sendMu' \in Callers \cup {"none"}
<1>1. CASE next[p] = "idle"
  BY <1>1, ReturnType DEF Resume
<1>2. CASE next[p] # "idle"
  <2>1. next[p] \in Labels
    BY <1>2 DEF TypeControl, Labels, Connecting
  <2>2. Goto(p, next[p]) /\ UNCHANGED <<call, sendMu>>
    BY <1>2 DEF Resume
  <2>3. pc' \in [Procs -> Labels]
    BY <2>1, <2>2, GotoType
  <2> QED
    BY <2>2, <2>3 DEF TypeControl
<1> QED
  BY <1>1, <1>2

\* What connectOnce, Disconnect, Send and the bridge do to where the goroutines are.
LEMMA TypeControlKept ==
  ASSUME TypeControl, Next
  PROVE  TypeControl'
<1> USE DEF Labels, Connecting
<1>1. CASE Connect
  BY <1>1 DEF Connect, Begin, Goto, TypeControl, Procs
<1>2. CASE Close
  BY <1>2 DEF Close, Begin, Goto, TypeControl, Procs
<1>3. ASSUME NEW c \in Callers, Send(c) PROVE TypeControl'
  BY <1>3 DEF Send, Begin, Goto, TypeControl, Procs
<1>4. ASSUME NEW c \in Callers, Finish(c) PROVE TypeControl'
  BY <1>4 DEF Finish, Goto, TypeControl, Procs
<1>5. ASSUME NEW c \in Callers, LockSend(c) PROVE TypeControl'
  BY <1>5 DEF LockSend, Goto, TypeControl, Procs
<1>6. ASSUME NEW p \in Procs, Disconnect(p) PROVE TypeControl'
  <2>1. CASE DisconnectFields(p)
    <3>1. UNCHANGED <<next, cancelled>>
      BY <2>1 DEF DisconnectFields
    <3>2. CASE connected
      <4>1. Goto(p, "dUnsub") /\ UNCHANGED <<call, sendMu>>
        BY <2>1, <3>2 DEF DisconnectFields
      <4> QED
        BY <3>1, <4>1, GotoType DEF TypeControl
    <3>3. CASE ~connected
      <4>1. Resume(p)
        BY <2>1, <3>3 DEF DisconnectFields
      <4> QED
        BY <3>1, <4>1, ResumeType DEF TypeControl
    <3> QED
      BY <3>2, <3>3
  <2>2. CASE Unsubscribe(p)
    BY <2>2, GotoType DEF Unsubscribe, TypeControl
  <2>3. CASE DeviceDisconnect(p)
    <3>1. Resume(p) /\ UNCHANGED <<next, cancelled>>
      BY <2>3 DEF DeviceDisconnect
    <3> QED
      BY <3>1, ResumeType DEF TypeControl
  <2> QED
    BY <1>6, <2>1, <2>2, <2>3 DEF Disconnect
<1>7. ASSUME NEW p \in Procs, p \in Callers, ConnectOnce(p) PROVE TypeControl'
  <2>1. CASE UNCHANGED <<call, next, sendMu, cancelled>> /\ \E l \in Labels : Goto(p, l)
    BY <2>1, GotoType DEF TypeControl
  <2>2. CASE UNCHANGED <<next, cancelled>> /\ Return(p)
    BY <2>2, ReturnType DEF TypeControl
  <2>3. CASE ScanStep(p)
    BY <2>1, <2>2, <2>3 DEF ScanStep
  <2>4. CASE Dial(p)
    BY <2>1, <2>2, <2>4 DEF Dial
  <2>5. CASE Discover(p)
    BY <2>1, <2>2, <2>5 DEF Discover, Fails
  <2>6. CASE Subscribe(p)
    BY <2>1, <2>2, <2>6 DEF Subscribe, Fails
  <2>7. CASE Publish(p)
    BY <2>1, <2>7 DEF Publish
  <2>8. CASE Login(p)
    BY <2>1, <2>8 DEF Login
  <2>9. CASE Await(p)
    BY <2>1, <2>9 DEF Await
  <2>10. CASE LoginOk(p)
    BY <2>1, <2>2, <2>10 DEF LoginOk
  <2>11. CASE LoginFailed(p)
    BY <2>11 DEF LoginFailed, Goto, TypeControl, Procs
  <2> QED
    BY <1>7, <2>3, <2>4, <2>5, <2>6, <2>7, <2>8, <2>9, <2>10, <2>11 DEF ConnectOnce
<1>8. ASSUME NEW p \in Procs, p \in Callers, Write(p) PROVE TypeControl'
  <2>1. CASE Return(p) /\ UNCHANGED <<next, cancelled>>
    BY <2>1, ReturnType DEF TypeControl
  <2>2. CASE Goto(p, "dLock") /\ next' = [next EXCEPT ![p] = "scan"]
                /\ UNCHANGED <<call, sendMu, cancelled>>
    BY <2>2 DEF Goto, TypeControl, Procs
  <2> QED
    BY <1>8, <2>1, <2>2 DEF Write
<1>9. CASE ShutDown
  BY <1>9 DEF ShutDown, Goto, TypeControl, Procs
<1>10. CASE Cancel
  <2>1. cancelled' \in BOOLEAN
    BY <1>10, Zenon DEF Cancel
  <2> QED
    BY <1>10, <2>1 DEF Cancel, TypeControl, threads
<1>11. CASE Deliver \/ OnNotify \/ LinkDrop
  BY <1>11, ControlStays DEF Deliver, OnNotify, NotifyLock, NotifyUpdate, NotifyCallback,
    LinkDrop, threads
<1> QED
  BY <1>1, <1>2, <1>3, <1>4, <1>5, <1>6, <1>7, <1>8, <1>9, <1>10, <1>11 DEF Next, Running

\* The links and what the client knows of them.
LEMMA TypeLinkKept ==
  ASSUME TypeControl, TypeLink, Next
  PROVE  TypeLink'
<1> USE DEF Links
<1>1. CASE Connect \/ Close \/ ShutDown \/ Cancel \/ Deliver \/ OnNotify
  BY <1>1, LinkStays DEF Connect, Close, ShutDown, Cancel, Deliver, OnNotify, NotifyLock,
    NotifyUpdate, NotifyCallback, fields, radio, threads
<1>2. ASSUME NEW c \in Callers, Send(c) \/ Finish(c) \/ LockSend(c) PROVE TypeLink'
  BY <1>2, LinkStays DEF Send, Finish, LockSend, fields, radio
<1>3. ASSUME NEW p \in Procs, Disconnect(p) PROVE TypeLink'
  <2>1. CASE DisconnectFields(p)
    <3>1. connected' \in BOOLEAN
      BY <2>1, Zenon DEF DisconnectFields, ForgetLink
    <3>2. handle' \in [Procs -> Links]
      BY <2>1 DEF DisconnectFields, TypeLink
    <3> QED
      BY <2>1, <3>1, <3>2 DEF DisconnectFields, ForgetLink, TypeLink, radio
  <2>2. CASE Unsubscribe(p)
    BY <2>2 DEF Unsubscribe, TypeLink, fields, radio
  <2>3. CASE DeviceDisconnect(p)
    BY <2>3 DEF DeviceDisconnect, Drop, TypeLink, fields
  <2> QED
    BY <1>3, <2>1, <2>2, <2>3 DEF Disconnect
<1>4. ASSUME NEW p \in Callers, ConnectOnce(p) PROVE TypeLink'
  <2>1. CASE ScanStep(p) \/ Await(p) \/ LoginOk(p) \/ LoginFailed(p)
    BY <2>1, LinkStays DEF ScanStep, Await, LoginOk, LoginFailed, fields, radio
  <2>2. CASE Dial(p)
    BY <2>2 DEF Dial, TypeLink, fields, radio, Procs
  <2>3. CASE Discover(p)
    BY <2>3 DEF Discover, Fails, Drop, TypeLink, fields, radio, Procs
  <2>4. CASE Subscribe(p)
    <3>1. handle[p] \in Links /\ subs' \subseteq Links
      BY <2>4 DEF Subscribe, TypeLink, Procs
    <3>2. CASE UNCHANGED <<radio, handle>>
      BY <2>4, <3>1, <3>2 DEF Subscribe, TypeLink, fields, radio
    <3>3. CASE Fails(p)
      <4>1. handle' \in [Procs -> Links]
        BY <3>3, ClientAssumption DEF Fails, TypeLink, Procs
      <4>2. link' \in Links /\ auth' \in Links
        BY <3>3 DEF Fails, Drop
      <4> QED
        BY <2>4, <3>1, <4>1, <4>2 DEF Subscribe, TypeLink, fields
    <3> QED
      BY <2>4, <3>2, <3>3 DEF Subscribe
  <2>5. CASE Publish(p)
    <3>1. connected' \in BOOLEAN
      BY <2>5, Zenon DEF Publish
    <3> QED
      BY <2>5, <3>1 DEF Publish, TypeLink, radio, Procs
  <2>6. CASE Login(p)
    BY <2>6 DEF Login, TypeLink, fields
  <2> QED
    BY <1>4, <2>1, <2>2, <2>3, <2>4, <2>5, <2>6 DEF ConnectOnce
<1>5. ASSUME NEW p \in Callers, Write(p) PROVE TypeLink'
  BY <1>5, LinkStays DEF Write, fields, radio
<1>6. CASE LinkDrop
  BY <1>6 DEF LinkDrop, Drop, TypeLink, fields, threads
<1> QED
  BY <1>1, <1>2, <1>3, <1>4, <1>5, <1>6 DEF Next, Running

\* The login result on its way from the blind to doLogin.
LEMMA TypeLoginKept ==
  ASSUME TypeLink, TypeLogin, Next
  PROVE  TypeLogin'
<1>1. CASE Connect \/ Close \/ ShutDown \/ Cancel
  BY <1>1, LoginStays DEF Connect, Close, ShutDown, Cancel, fields, radio, threads
<1>2. ASSUME NEW c \in Callers, Send(c) \/ Finish(c) \/ LockSend(c) \/ Write(c) PROVE TypeLogin'
  BY <1>2, LoginStays DEF Send, Finish, LockSend, Write, fields, radio
<1>3. ASSUME NEW p \in Procs, DisconnectFields(p) PROVE TypeLogin'
  <2>1. loggedIn' \in BOOLEAN
    BY <1>3, Zenon DEF DisconnectFields, ForgetLink
  <2> QED
    BY <1>3, <2>1 DEF DisconnectFields, TypeLogin, radio
<1>4. ASSUME UNCHANGED <<loggedIn, notify, frame>>,
             frames' = <<>> \/ UNCHANGED frames,
             loginCh' \in {"nil", loginCh}
      PROVE TypeLogin'
  <2>1. frames' \in Seq(Links \X BOOLEAN)
    <3>1. CASE frames' = <<>>
      BY <3>1
    <3>2. CASE frames' = frames
      BY <3>2 DEF TypeLogin
    <3> QED
      BY <1>4, <3>1, <3>2
  <2>2. loginCh' \in {"nil", "empty", "ok", "rejected"}
    BY <1>4 DEF TypeLogin
  <2> QED
    BY <1>4, <2>1, <2>2 DEF TypeLogin
<1>5. ASSUME NEW p \in Procs, Unsubscribe(p) \/ DeviceDisconnect(p) PROVE TypeLogin'
  BY <1>4, <1>5 DEF Unsubscribe, DeviceDisconnect, Drop, fields, radio
<1>6. ASSUME NEW p \in Callers, ConnectOnce(p) PROVE TypeLogin'
  <2>1. CASE ScanStep(p) \/ Await(p) \/ LoginOk(p) \/ LoginFailed(p)
    BY <1>4, <2>1 DEF ScanStep, Await, LoginOk, LoginFailed, fields, radio
  <2>2. CASE Dial(p) \/ Discover(p) \/ Subscribe(p) \/ Publish(p)
    BY <1>4, <2>2 DEF Dial, Discover, Subscribe, Publish, Fails, Drop, fields, radio
  <2>3. CASE Login(p)
    <3>1. CASE UNCHANGED frames
      BY <2>3, <3>1 DEF Login, TypeLogin, fields
    <3>2. CASE ~UNCHANGED frames
      <4>1. PICK ok \in BOOLEAN, n \in 0..2 : frames' = frames \o [i \in 1..n |-> <<link, ok>>]
        BY <2>3, <3>2 DEF Login
      <4>2. <<link, ok>> \in Links \X BOOLEAN
        BY Zenon DEF TypeLink
      <4>3. [i \in 1..n |-> <<link, ok>>] \in Seq(Links \X BOOLEAN)
        BY <4>2
      <4>4. frames' \in Seq(Links \X BOOLEAN)
        BY <4>1, <4>3, ConcatProperties DEF TypeLogin
      <4> QED
        BY <2>3, <4>4 DEF Login, TypeLogin, fields
    <3> QED
      BY <3>1, <3>2
  <2> QED
    BY <1>6, <2>1, <2>2, <2>3 DEF ConnectOnce
<1>7. CASE Deliver
  <2>1. frames' \in Seq(Links \X BOOLEAN) /\ Head(frames) \in Links \X BOOLEAN
    BY <1>7 DEF Deliver, TypeLogin
  <2> QED
    BY <1>7, <2>1 DEF Deliver, TypeLogin, fields
<1>8. CASE OnNotify
  <2>1. frame[2] \in BOOLEAN
    BY DEF TypeLogin
  <2>2. CASE NotifyUpdate
    <3>1. loggedIn' \in BOOLEAN
      BY <2>1, <2>2, Zenon DEF NotifyUpdate
    <3> QED
      BY <2>2, <3>1 DEF NotifyUpdate, LoginResult, Verdict, TypeLogin, radio
  <2>3. CASE NotifyLock \/ NotifyCallback
    BY <2>3 DEF NotifyLock, NotifyCallback, TypeLogin, fields, radio
  <2> QED
    BY <1>8, <2>2, <2>3 DEF OnNotify
<1>9. CASE LinkDrop
  BY <1>4, <1>9 DEF LinkDrop, Drop, fields
<1> QED
  BY <1>1, <1>2, <1>3, <1>5, <1>6, <1>7, <1>8, <1>9 DEF Next, Running, Disconnect

LEMMA TypeRestKept ==
  ASSUME TypeRest, Next
  PROVE  TypeRest'
<1>1. ASSUME UNCHANGED <<rootCtx, unsubWaits, calls>>, mu' \in {"free", "notify"}
      PROVE TypeRest'
  BY <1>1 DEF TypeRest
<1>2. CASE Connect
  <2>1. rootCtx' \in BOOLEAN
    BY <1>2, Zenon DEF Connect
  <2> QED
    BY <1>2, <2>1 DEF Connect, Begin, TypeRest
<1>3. CASE Close \/ \E c \in Callers : Send(c)
  BY <1>3 DEF Close, Send, Begin, TypeRest
<1>4. CASE ShutDown \/ Cancel \/ Deliver \/ OnNotify \/ LinkDrop
  BY <1>1, <1>4 DEF ShutDown, Cancel, Deliver, OnNotify, NotifyLock, NotifyUpdate,
    NotifyCallback, LinkDrop, TypeRest
<1>5. ASSUME NEW c \in Callers, Finish(c) \/ LockSend(c) \/ Write(c) PROVE TypeRest'
  BY <1>1, <1>5 DEF Finish, LockSend, Write, TypeRest
<1>6. ASSUME NEW p \in Procs, Disconnect(p) PROVE TypeRest'
  BY <1>1, <1>6 DEF Disconnect, DisconnectFields, Unsubscribe, DeviceDisconnect, TypeRest
<1>7. ASSUME NEW p \in Callers, ConnectOnce(p) PROVE TypeRest'
  BY <1>1, <1>7 DEF ConnectOnce, ScanStep, Dial, Discover, Subscribe, Publish, Login, Await,
    LoginOk, LoginFailed, TypeRest
<1> QED
  BY <1>2, <1>3, <1>4, <1>5, <1>6, <1>7 DEF Next, Running
-----------------------------------------------------------------------------
(* Who may do what: the discipline of the calls and of sendMu.                 *)

Dialled == {"discover", "subscribe", "publish"}
Tearing == {"dUnsub", "dDrop"}
Closing == {"dLock"} \cup Tearing

\* A caller that is inside the client and past the wait for sendMu.
Busy(p) == call[p] # "none" /\ pc[p] # "lockSend"

IdleCalls == \A p \in Procs : pc[p] \in {"idle", "exit"} => call[p] = "none"

ShutdownCloses ==
  /\ call[Shutdown] = "none"
  /\ pc[Shutdown] \in Closing \cup {"idle", "exit"}
  /\ pc[Shutdown] \in Closing => next[Shutdown] = "exit"

OwnerAlone ==
  \A c \in Callers : call[c] \in {"connect", "close"} =>
    c = Owner /\ \A d \in Callers \ {c} : pc[d] \in {"idle", "exit"}

Serialized == \A c \in Callers : call[c] = "send" /\ pc[c] # "lockSend" => sendMu = c

Roles ==
  \A c \in Callers :
    /\ pc[c] \in Connecting => call[c] \in {"connect", "send"}
    /\ pc[c] \in {"write", "lockSend"} => call[c] = "send"
    /\ pc[c] \in Closing /\ next[c] = "scan" => call[c] = "send"
    /\ pc[c] \in Closing /\ next[c] = "exit" => call[c] = "none"

\* A Send writes at most twice.
SecondWrite ==
  \A c \in Callers : call[c] = "send" /\ pc[c] # "lockSend" => tries[c] \in 0..1

\* Only the cancellation starts a shutdown and the last Disconnect of a caller, and strands
\* a scan.
NotBeforeCancel ==
  ~cancelled =>
    /\ pc[Shutdown] = "idle"
    /\ \A c \in Callers : /\ call[c] = "none" => pc[c] = "idle"
                         /\ pc[c] # "stranded"

Discipline ==
  /\ IdleCalls /\ ShutdownCloses /\ OwnerAlone /\ Serialized
  /\ Roles /\ SecondWrite /\ NotBeforeCancel

\* Past sendMu there is one caller, and in connectOnce too.
LEMMA OneBusy ==
  ASSUME Discipline, NEW p \in Callers, NEW q \in Callers, Busy(p), Busy(q), TypeControl
  PROVE  p = q
<1>1. call[p] \in {"connect", "send", "close"} /\ call[q] \in {"connect", "send", "close"}
  BY DEF TypeControl, Busy, Procs
<1>2. CASE call[p] = "send" /\ call[q] = "send"
  BY <1>2 DEF Discipline, Serialized, Busy
<1>3. CASE call[p] # "send" \/ call[q] # "send"
  BY <1>1, <1>3 DEF Discipline, OwnerAlone, IdleCalls, Busy, Procs
<1> QED
  BY <1>2, <1>3

LEMMA ConnectingBusy ==
  ASSUME Discipline, NEW p \in Procs, pc[p] \in Connecting
  PROVE  p \in Callers /\ Busy(p)
  BY DEF Discipline, ShutdownCloses, Roles, Busy, Procs, Connecting, Closing, Tearing

LEMMA OneConnecting ==
  ASSUME Discipline, TypeControl
  PROVE  OneReconnect
  BY ConnectingBusy, OneBusy DEF OneReconnect

LEMMA DisciplineStays ==
  ASSUME Discipline, UNCHANGED <<threads, sendMu, cancelled>>
  PROVE  Discipline'
  BY DEF Discipline, IdleCalls, ShutdownCloses, OwnerAlone, Serialized, Roles, SecondWrite,
    NotBeforeCancel, threads

\* A step within connectOnce.
LEMMA ConnectStepKeeps ==
  ASSUME TypeControl, Discipline, NEW p \in Callers, NEW l \in Connecting,
         pc[p] \in Connecting, Goto(p, l), l = "stranded" => cancelled,
         UNCHANGED <<call, next, tries, sendMu, cancelled>>
  PROVE  Discipline'
  BY DEF Goto, TypeControl, Procs, Connecting, Closing, Tearing, Discipline, IdleCalls,
    ShutdownCloses, OwnerAlone, Serialized, Roles, SecondWrite, NotBeforeCancel

\* The return of a call that is past sendMu.
LEMMA ReturnKeeps ==
  ASSUME TypeControl, Discipline, NEW p \in Callers, Return(p), Busy(p),
         UNCHANGED <<next, cancelled>>, \A q \in Callers \ {p} : tries'[q] = tries[q]
  PROVE  Discipline'
<1> USE DEF Connecting, Closing, Tearing, Procs, Return, Goto, TypeControl, Discipline, Busy
<1>1. IdleCalls' /\ ShutdownCloses' /\ OwnerAlone' /\ Roles' /\ NotBeforeCancel'
  BY DEF IdleCalls, ShutdownCloses, OwnerAlone, Roles, NotBeforeCancel
<1>2. Serialized' /\ SecondWrite'
  BY DEF Serialized, SecondWrite
<1> QED
  BY <1>1, <1>2

LEMMA DisciplineKept ==
  ASSUME TypeControl, TypeTries, Discipline, Next
  PROVE  Discipline'
<1> USE DEF Connecting, Closing, Tearing, Procs, Goto, TypeControl
<1>1. CASE Connect
  BY <1>1 DEF Connect, Begin, NoCall, Discipline, IdleCalls, ShutdownCloses, OwnerAlone,
    Serialized, Roles, SecondWrite, NotBeforeCancel
<1>2. CASE Close
  BY <1>2 DEF Close, Begin, NoCall, Discipline, IdleCalls, ShutdownCloses, OwnerAlone,
    Serialized, Roles, SecondWrite, NotBeforeCancel
<1>3. ASSUME NEW c \in Callers, Send(c) PROVE Discipline'
  BY <1>3 DEF Send, Begin, OnlySends, Discipline, IdleCalls, ShutdownCloses, OwnerAlone,
    Serialized, Roles, SecondWrite, NotBeforeCancel
<1>4. ASSUME NEW c \in Callers, Finish(c) PROVE Discipline'
  BY <1>4 DEF Finish, Discipline, IdleCalls, ShutdownCloses, OwnerAlone, Serialized, Roles,
    SecondWrite, NotBeforeCancel
<1>5. ASSUME NEW c \in Callers, LockSend(c) PROVE Discipline'
  BY <1>5 DEF LockSend, TypeTries, Discipline, IdleCalls, ShutdownCloses, OwnerAlone,
    Serialized, Roles, SecondWrite, NotBeforeCancel
<1>6. ASSUME NEW p \in Procs, pc[p] \in {"dLock", "dDrop"}, Resume(p),
             UNCHANGED <<next, tries, cancelled>>
      PROVE Discipline'
  <2>1. CASE next[p] = "idle"
    <3>1. p \in Callers
      BY <1>6, <2>1 DEF Discipline, ShutdownCloses
    <3>2. CASE call[p] # "none"
      BY <1>6, <2>1, <3>1, <3>2, ReturnKeeps DEF Resume, Busy
    <3>3. CASE call[p] = "none"
      BY <1>6, <2>1, <3>1, <3>3 DEF Resume, Return, Discipline, IdleCalls, ShutdownCloses,
        OwnerAlone, Serialized, Roles, SecondWrite, NotBeforeCancel
    <3> QED
      BY <3>2, <3>3
  <2>2. CASE next[p] # "idle"
    BY <1>6, <2>2 DEF Resume, Discipline, IdleCalls, ShutdownCloses, OwnerAlone, Serialized,
      Roles, SecondWrite, NotBeforeCancel
  <2> QED
    BY <2>1, <2>2
<1>7. ASSUME NEW p \in Procs, Disconnect(p) PROVE Discipline'
  <2>1. CASE DisconnectFields(p)
    <3>1. CASE connected
      BY <2>1, <3>1 DEF DisconnectFields, Discipline, IdleCalls, ShutdownCloses, OwnerAlone,
        Serialized, Roles, SecondWrite, NotBeforeCancel
    <3>2. CASE ~connected
      BY <1>6, <2>1, <3>2 DEF DisconnectFields
    <3> QED
      BY <3>1, <3>2
  <2>2. CASE Unsubscribe(p)
    BY <2>2 DEF Unsubscribe, Discipline, IdleCalls, ShutdownCloses, OwnerAlone, Serialized,
      Roles, SecondWrite, NotBeforeCancel
  <2>3. CASE DeviceDisconnect(p)
    BY <1>6, <2>3 DEF DeviceDisconnect
  <2> QED
    BY <1>7, <2>1, <2>2, <2>3 DEF Disconnect
<1>8. ASSUME NEW p \in Callers, ConnectOnce(p) PROVE Discipline'
  <2>1. pc[p] \in Connecting
    BY <1>8 DEF ConnectOnce, ScanStep, Dial, Discover, Subscribe, Publish, Login, Await,
      LoginOk, LoginFailed
  <2>2. Busy(p)
    BY <2>1, ConnectingBusy
  <2>3. CASE Return(p) /\ UNCHANGED <<next, tries, cancelled>>
    BY <2>2, <2>3, ReturnKeeps
  <2>4. CASE (\E l \in Connecting : Goto(p, l) /\ (l = "stranded" => cancelled))
             /\ UNCHANGED <<call, next, tries, sendMu, cancelled>>
    BY <2>1, <2>4, ConnectStepKeeps
  <2>5. CASE ScanStep(p)
    BY <2>3, <2>4, <2>5 DEF ScanStep
  <2>6. CASE Dial(p)
    BY <2>3, <2>4, <2>6 DEF Dial
  <2>7. CASE Discover(p)
    BY <2>3, <2>4, <2>7 DEF Discover, Fails
  <2>8. CASE Subscribe(p)
    BY <2>3, <2>4, <2>8 DEF Subscribe, Fails
  <2>9. CASE Publish(p)
    BY <2>4, <2>9 DEF Publish
  <2>10. CASE Login(p)
    BY <2>4, <2>10 DEF Login
  <2>11. CASE Await(p)
    BY <2>4, <2>11 DEF Await
  <2>12. CASE LoginOk(p)
    <3>1. CASE call[p] = "send"
      BY <2>12, <3>1 DEF LoginOk, Discipline, IdleCalls, ShutdownCloses, OwnerAlone,
        Serialized, Roles, SecondWrite, NotBeforeCancel
    <3> QED
      BY <2>3, <2>12, <3>1 DEF LoginOk
  <2>13. CASE LoginFailed(p)
    BY <2>13 DEF LoginFailed, Discipline, IdleCalls, ShutdownCloses, OwnerAlone, Serialized,
      Roles, SecondWrite, NotBeforeCancel
  <2> QED
    BY <1>8, <2>5, <2>6, <2>7, <2>8, <2>9, <2>10, <2>11, <2>12, <2>13 DEF ConnectOnce
<1>9. ASSUME NEW p \in Callers, Write(p) PROVE Discipline'
  <2>1. Busy(p) /\ call[p] = "send"
    BY <1>9 DEF Write, Discipline, Roles, Busy
  <2>2. CASE Return(p) /\ UNCHANGED next
    BY <1>9, <2>1, <2>2, ReturnKeeps DEF Write, TypeTries
  <2>3. CASE /\ tries[p] = 0 /\ Goto(p, "dLock") /\ next' = [next EXCEPT ![p] = "scan"]
             /\ UNCHANGED <<call, sendMu>>
    BY <1>9, <2>1, <2>3 DEF Write, TypeTries, Discipline, IdleCalls, ShutdownCloses,
      OwnerAlone, Serialized, Roles, SecondWrite, NotBeforeCancel
  <2> QED
    BY <1>9, <2>2, <2>3 DEF Write
<1>10. CASE ShutDown
  BY <1>10 DEF ShutDown, Discipline, IdleCalls, ShutdownCloses, OwnerAlone, Serialized,
    Roles, SecondWrite, NotBeforeCancel
<1>11. CASE Cancel
  BY <1>11 DEF Cancel, threads, Discipline, IdleCalls, ShutdownCloses, OwnerAlone,
    Serialized, Roles, SecondWrite, NotBeforeCancel
<1>12. CASE Deliver \/ OnNotify \/ LinkDrop
  BY <1>12, DisciplineStays DEF Deliver, OnNotify, NotifyLock, NotifyUpdate, NotifyCallback,
    LinkDrop
<1> QED
  BY <1>1, <1>2, <1>3, <1>4, <1>5, <1>7, <1>8, <1>9, <1>10, <1>11, <1>12 DEF Next, Running

LEMMA TypeTriesKept ==
  ASSUME TypeControl, TypeTries, Discipline, Next
  PROVE  TypeTries'
<1>1. CASE UNCHANGED tries
  BY <1>1 DEF TypeTries
<1>2. ASSUME NEW c \in Callers, LockSend(c) PROVE TypeTries'
  <2>1. tries' = [tries EXCEPT ![c] = 0]
    BY <1>2 DEF LockSend
  <2>2. 0 \in 0..2
    OBVIOUS
  <2> QED
    BY <2>1, <2>2, Zenon DEF TypeTries
<1>3. ASSUME NEW c \in Callers, Write(c) PROVE TypeTries'
  <2>1. tries[c] \in 0..1
    BY <1>3 DEF Write, Discipline, Roles, SecondWrite
  <2>2. tries' = [tries EXCEPT ![c] = tries[c] + 1]
    BY <1>3 DEF Write
  <2>3. tries[c] + 1 \in 0..2
    BY <2>1
  <2> QED
    BY <2>2, <2>3 DEF TypeTries
<1>4. ASSUME NEW p \in Procs, Disconnect(p) PROVE TypeTries'
  BY <1>1, <1>4 DEF Disconnect, DisconnectFields, Unsubscribe, DeviceDisconnect
<1>5. ASSUME NEW p \in Callers, ConnectOnce(p) PROVE TypeTries'
  BY <1>1, <1>5 DEF ConnectOnce, ScanStep, Dial, Discover, Subscribe, Publish, Login, Await,
    LoginOk, LoginFailed
<1>6. CASE Deliver \/ OnNotify \/ LinkDrop \/ Cancel \/ ShutDown
  BY <1>1, <1>6 DEF Deliver, OnNotify, NotifyLock, NotifyUpdate, NotifyCallback, LinkDrop,
    Cancel, ShutDown, threads
<1>7. CASE Connect \/ Close \/ \E c \in Callers : Send(c) \/ Finish(c)
  BY <1>1, <1>7 DEF Connect, Close, Send, Finish
<1> QED
  BY <1>2, <1>3, <1>4, <1>5, <1>6, <1>7 DEF Next, Running
-----------------------------------------------------------------------------
(* The links and the subscriptions: which goroutine answers for them.          *)

Radio == {"scan", "dial"} \cup Dialled \cup Tearing

\* connectOnce works on the newest link, a Disconnect on that or an older one.
Fresh == \A p \in Procs : pc[p] \in Dialled => handle[p] = links
Older == \A p \in Procs : pc[p] \in Tearing => handle[p] <= links

\* No two goroutines answer for the same subscription.
Apart ==
  \A p, q \in Procs : p # q /\ pc[p] = "dUnsub" /\ pc[q] \in Dialled \cup {"dUnsub"} =>
    handle[p] # handle[q]
Known ==
  connected => device = links /\ \A p \in Procs : pc[p] = "dUnsub" => handle[p] # device

\* Whoever reconnects has disconnected before.
Offline ==
  \A p \in Procs :
    pc[p] \in {"scan", "dial"} \cup Dialled \/ (pc[p] \in Tearing /\ call[p] # "none") =>
      ~connected

\* A link that is up is known to the client or to the goroutine that makes or ends it.
Accounted ==
  link # 0 =>
    link = links /\ (connected \/ \E p \in Procs : pc[p] \in Dialled \cup Tearing)
Undialled == \A p \in Procs : pc[p] = "dial" => link = 0

Subscribed ==
  \A l \in Links :
    l \in subs <=> \/ connected /\ l = device
                   \/ \E p \in Procs : pc[p] \in {"publish", "dUnsub"} /\ handle[p] = l

LinkInv ==
  Fresh /\ Older /\ Apart /\ Known /\ Offline /\ Accounted /\ Undialled /\ Subscribed

\* A step that neither begins nor ends what connectOnce or Disconnect do to a link,
\* or that enters connectOnce while the client is disconnected.
LEMMA AsideKeeps ==
  ASSUME TypeControl, LinkInv, NEW p \in Procs, pc[p] \notin Radio,
         NEW l, l \notin Radio \/ (l = "scan" /\ ~connected), Goto(p, l),
         \A q \in Procs \ {p} : call'[q] = call[q],
         UNCHANGED <<handle, device, link, subs, connected, links>>
  PROVE  LinkInv'
<1> USE DEF Radio, Dialled, Tearing, Goto, TypeControl, LinkInv
<1>1. \A q \in Procs : pc'[q] \in Dialled \cup Tearing \cup {"dial"} <=>
                       pc[q] \in Dialled \cup Tearing \cup {"dial"}
  OBVIOUS
<1>2. \A q \in Procs : pc[q] \in Dialled \cup Tearing \cup {"dial"} => pc'[q] = pc[q]
  OBVIOUS
<1>3. Fresh' /\ Older' /\ Apart' /\ Known'
  BY <1>1, <1>2 DEF Fresh, Older, Apart, Known
<1>4. Offline'
  BY <1>1, <1>2 DEF Offline
<1>5. Accounted' /\ Undialled'
  BY <1>1, <1>2 DEF Accounted, Undialled
<1>6. Subscribed'
  BY <1>1, <1>2 DEF Subscribed
<1> QED
  BY <1>3, <1>4, <1>5, <1>6

\* While a goroutine connects, no other does, and a Disconnect of another one is that
\* of a shutdown.
LEMMA Alone ==
  ASSUME TypeControl, Discipline, NEW p \in Procs, pc[p] \in Connecting,
         NEW q \in Procs, q # p
  PROVE  /\ pc[q] \notin Connecting
         /\ pc[q] \in Tearing => call[q] = "none" /\ cancelled
<1>1. p \in Callers /\ Busy(p)
  BY ConnectingBusy
<1>2. q \in Callers => ~Busy(q)
  BY <1>1, OneBusy
<1>3. pc[q] \notin Connecting
  BY <1>2, ConnectingBusy
<1>4. ASSUME pc[q] \in Tearing PROVE call[q] = "none"
  BY <1>2, <1>4 DEF Busy, Tearing, Discipline, ShutdownCloses, Procs
<1>5. ASSUME pc[q] \in Tearing PROVE cancelled
  BY <1>4, <1>5 DEF Tearing, Discipline, NotBeforeCancel, Procs
<1> QED
  BY <1>3, <1>4, <1>5

LEMMA DisconnectKeepsLinks ==
  ASSUME TypeControl, TypeLink, Discipline, LinkInv, NEW p \in Procs, Disconnect(p)
  PROVE  LinkInv'
<1> USE DEF Radio, Dialled, Tearing, Goto, TypeControl, TypeLink
<1>1. CASE DisconnectFields(p) /\ connected
  <2>1. /\ pc' = [pc EXCEPT ![p] = "dUnsub"] /\ handle' = [handle EXCEPT ![p] = device]
        /\ UNCHANGED <<call, device, link, subs, links>> /\ connected' = FALSE
        /\ pc[p] = "dLock"
    BY <1>1 DEF DisconnectFields, ForgetLink, radio
  <2>2. Fresh' /\ Older' /\ Offline' /\ Undialled'
    BY <1>1, <2>1 DEF LinkInv, Fresh, Older, Known, Offline, Undialled, Links
  <2>3. Apart' /\ Known'
    BY <1>1, <2>1 DEF LinkInv, Apart, Known, Offline
  <2>4. Accounted'
    BY <2>1 DEF LinkInv, Accounted
  <2>5. Subscribed'
    BY <1>1, <2>1 DEF LinkInv, Subscribed
  <2> QED
    BY <2>2, <2>3, <2>4, <2>5 DEF LinkInv
<1>2. CASE DisconnectFields(p) /\ ~connected
  <2>1. /\ Resume(p) /\ pc[p] = "dLock"
        /\ UNCHANGED <<handle, device, link, subs, connected, links>>
    BY <1>2 DEF DisconnectFields, ForgetLink, radio
  <2>2. \E l \in {"idle", "scan", "exit"} : Goto(p, l)
    BY <2>1 DEF Resume, Return
  <2>3. \A q \in Procs \ {p} : call'[q] = call[q]
    BY <2>1 DEF Resume, Return
  <2> QED
    BY <1>2, <2>1, <2>2, <2>3, AsideKeeps
<1>3. CASE Unsubscribe(p)
  <2>1. /\ pc' = [pc EXCEPT ![p] = "dDrop"] /\ subs' = subs \ {handle[p]}
        /\ UNCHANGED <<call, handle, device, link, connected, links>>
        /\ pc[p] = "dUnsub"
    BY <1>3 DEF Unsubscribe, fields, radio
  <2>2. Fresh' /\ Older' /\ Offline' /\ Undialled' /\ Accounted'
    BY <2>1 DEF LinkInv, Fresh, Older, Offline, Undialled, Accounted
  <2>3. Apart' /\ Known'
    BY <2>1 DEF LinkInv, Apart, Known
  <2>4. Subscribed'
    BY <2>1 DEF LinkInv, Subscribed, Apart, Known
  <2> QED
    BY <2>2, <2>3, <2>4 DEF LinkInv
<1>4. CASE DeviceDisconnect(p)
  <2>1. /\ link' = 0 /\ handle' = [handle EXCEPT ![p] = 0] /\ Resume(p)
        /\ UNCHANGED <<device, subs, connected, links>> /\ pc[p] = "dDrop"
    BY <1>4 DEF DeviceDisconnect, Drop, fields
  <2>2. PICK l \in {"idle", "scan", "exit"} : Goto(p, l) /\ (l = "scan" => next[p] = "scan")
    BY <2>1 DEF Resume, Return
  <2>3. \A q \in Procs \ {p} : call'[q] = call[q]
    BY <2>1 DEF Resume, Return
  <2>4. l = "scan" => ~connected
    BY <2>1, <2>2 DEF LinkInv, Offline, Discipline, Roles, ShutdownCloses, Closing, Procs
  <2>5. Fresh' /\ Older' /\ Undialled' /\ Accounted' /\ Apart' /\ Known'
    BY <2>1, <2>2 DEF LinkInv, Fresh, Older, Undialled, Accounted, Apart, Known
  <2>6. Offline'
    BY <2>1, <2>2, <2>3, <2>4 DEF LinkInv, Offline
  <2>7. Subscribed'
    BY <2>1, <2>2 DEF LinkInv, Subscribed
  <2> QED
    BY <2>5, <2>6, <2>7 DEF LinkInv
<1> QED
  BY <1>1, <1>2, <1>3, <1>4 DEF Disconnect

LEMMA ConnectKeepsLinks ==
  ASSUME TypeControl, TypeLink, Discipline, LinkInv, NEW p \in Callers, ConnectOnce(p)
  PROVE  LinkInv'
<1> USE DEF Radio, Dialled, Tearing, Goto, TypeControl, TypeLink
<1> p \in Procs
  BY DEF Procs
<1>1. \A q \in Procs \ {p} :
        pc[q] \notin Connecting /\ (pc[q] \in Tearing => call[q] = "none" /\ cancelled)
  <2>1. pc[p] \in Connecting
    BY DEF ConnectOnce, ScanStep, Dial, Discover, Subscribe, Publish, Login, Await,
      LoginOk, LoginFailed, Connecting
  <2> QED
    BY <2>1, Alone
<1>2. \A q \in Procs \ {p} : pc[q] \notin {"scan", "dial"} \cup Dialled
  BY <1>1 DEF Connecting
<1>3. CASE ScanStep(p)
  <2>1. /\ pc[p] = "scan"
        /\ UNCHANGED <<handle, device, link, subs, connected, links>>
    BY <1>3 DEF ScanStep, fields, radio
  <2>2. ~connected
    BY <2>1 DEF LinkInv, Offline
  <2>3. CASE Return(p)
    BY <2>1, <2>2, <2>3 DEF Return, LinkInv, Fresh, Older, Apart, Known, Offline,
      Accounted, Undialled, Subscribed
  <2>4. CASE Goto(p, "dial") /\ ~cancelled /\ UNCHANGED call
    <3>1. link = 0
      BY <1>1, <1>2, <2>1, <2>2, <2>4 DEF LinkInv, Accounted
    <3> QED
      BY <2>1, <2>2, <2>4, <3>1 DEF LinkInv, Fresh, Older, Apart, Known, Offline,
        Accounted, Undialled, Subscribed
  <2>5. CASE Goto(p, "stranded") /\ UNCHANGED call
    BY <2>1, <2>2, <2>5 DEF LinkInv, Fresh, Older, Apart, Known, Offline, Accounted,
      Undialled, Subscribed
  <2> QED
    BY <1>3, <2>3, <2>4, <2>5 DEF ScanStep
<1>4. CASE Dial(p)
  <2>1. pc[p] = "dial" /\ link = 0 /\ ~connected
    BY <1>4 DEF Dial, LinkInv, Offline, Undialled
  <2>2. CASE Return(p) /\ UNCHANGED <<handle, device, link, subs, connected, links>>
    BY <2>1, <2>2 DEF Return, LinkInv, Fresh, Older, Apart, Known, Offline,
      Accounted, Undialled, Subscribed
  <2>3. CASE /\ links' = links + 1 /\ link' = links'
             /\ handle' = [handle EXCEPT ![p] = links'] /\ Goto(p, "discover")
             /\ UNCHANGED <<device, subs, connected, call>>
    <3>1. Fresh' /\ Older' /\ Apart' /\ Known'
      BY <1>2, <2>1, <2>3 DEF LinkInv, Fresh, Older, Apart, Known, Links
    <3>2. Offline' /\ Accounted' /\ Undialled'
      BY <1>2, <2>1, <2>3 DEF LinkInv, Offline, Accounted, Undialled, Links
    <3>3. Subscribed'
      BY <2>1, <2>3 DEF LinkInv, Subscribed
    <3> QED
      BY <3>1, <3>2, <3>3 DEF LinkInv
  <2> QED
    BY <1>4, <2>2, <2>3 DEF Dial, fields, radio
<1>5. ASSUME Fails(p), pc[p] \in {"discover", "subscribe"},
             UNCHANGED <<device, connected, links>>, \A l \in Links : l \in subs' <=> l \in subs
      PROVE LinkInv'
  <2>1. /\ link' = 0 /\ handle' = [handle EXCEPT ![p] = 0]
        /\ pc' = [pc EXCEPT ![p] = "idle"] /\ call' = [call EXCEPT ![p] = "none"]
    BY <1>5 DEF Fails, Drop, Return
  <2>2. Fresh' /\ Older' /\ Apart' /\ Known' /\ Accounted' /\ Undialled'
    BY <1>5, <2>1 DEF LinkInv, Fresh, Older, Apart, Known, Accounted, Undialled
  <2>3. Offline'
    BY <1>5, <2>1 DEF LinkInv, Offline
  <2>4. Subscribed'
    BY <1>5, <2>1 DEF LinkInv, Subscribed
  <2> QED
    BY <2>2, <2>3, <2>4 DEF LinkInv
<1>6. CASE Discover(p)
  <2>1. CASE Fails(p)
    BY <1>5, <1>6, <2>1 DEF Discover, fields
  <2>2. CASE Goto(p, "subscribe") /\ UNCHANGED <<radio, handle, call>>
    <3>1. UNCHANGED <<device, connected, links, subs, link>> /\ pc[p] = "discover"
      BY <1>6, <2>2 DEF Discover, fields, radio
    <3>2. Fresh' /\ Older' /\ Apart' /\ Known' /\ Accounted' /\ Undialled'
      BY <2>2, <3>1 DEF LinkInv, Fresh, Older, Apart, Known, Accounted, Undialled
    <3>3. Offline' /\ Subscribed'
      BY <2>2, <3>1 DEF LinkInv, Offline, Subscribed
    <3> QED
      BY <3>2, <3>3 DEF LinkInv
  <2> QED
    BY <1>6, <2>1, <2>2 DEF Discover
<1>7. CASE Subscribe(p)
  <2>1. pc[p] = "subscribe" /\ ~connected /\ UNCHANGED <<device, connected, links>>
    BY <1>7 DEF Subscribe, LinkInv, Offline, fields
  <2>2. CASE Fails(p) /\ subs' = subs \ {handle[p]}
    <3>1. handle[p] \notin subs
      BY <1>2, <2>1 DEF LinkInv, Subscribed, Apart
    <3> QED
      BY <1>5, <2>1, <2>2, <3>1
  <2>3. CASE /\ subs' = subs \cup {handle[p]} /\ Goto(p, "publish")
             /\ UNCHANGED <<radio, handle, call>>
    <3>1. UNCHANGED link
      BY <2>3 DEF radio
    <3>2. Fresh' /\ Older' /\ Apart' /\ Known' /\ Accounted' /\ Undialled'
      BY <2>1, <2>3, <3>1 DEF LinkInv, Fresh, Older, Apart, Known, Accounted, Undialled
    <3>3. Offline'
      BY <2>1, <2>3 DEF LinkInv, Offline
    <3>4. Subscribed'
      BY <2>1, <2>3 DEF LinkInv, Subscribed
    <3> QED
      BY <3>2, <3>3, <3>4 DEF LinkInv
  <2> QED
    BY <1>7, <2>2, <2>3 DEF Subscribe
<1>8. CASE Publish(p)
  <2>1. /\ pc[p] = "publish" /\ ~connected
        /\ pc' = [pc EXCEPT ![p] = "login"] /\ handle' = [handle EXCEPT ![p] = 0]
        /\ device' = handle[p] /\ connected' = TRUE
        /\ UNCHANGED <<call, link, links, subs>>
    BY <1>8 DEF Publish, LinkInv, Offline, radio
  <2>2. Fresh' /\ Older' /\ Apart' /\ Accounted' /\ Undialled'
    BY <1>2, <2>1 DEF LinkInv, Fresh, Older, Apart, Accounted, Undialled
  <2>3. Known'
    BY <2>1 DEF LinkInv, Known, Apart, Fresh
  <2>4. Offline'
    BY <1>1, <1>2, <2>1 DEF LinkInv, Offline
  <2>5. Subscribed'
    BY <2>1 DEF LinkInv, Subscribed
  <2> QED
    BY <2>2, <2>3, <2>4, <2>5 DEF LinkInv
<1>9. CASE Login(p) \/ Await(p) \/ LoginOk(p) \/ LoginFailed(p)
  <2>1. /\ pc[p] \in {"login", "await", "loginOk", "loginFailed"}
        /\ UNCHANGED <<handle, device, link, subs, connected, links>>
    BY <1>9 DEF Login, Await, LoginOk, LoginFailed, fields, radio
  <2>2. \E l \in {"await", "loginOk", "loginFailed", "dLock", "write", "idle"} : Goto(p, l)
    BY <1>9 DEF Login, Await, LoginOk, LoginFailed, Return
  <2>3. \A q \in Procs \ {p} : call'[q] = call[q]
    BY <1>9 DEF Login, Await, LoginOk, LoginFailed, Return
  <2> QED
    BY <2>1, <2>2, <2>3, AsideKeeps
<1> QED
  BY <1>3, <1>4, <1>6, <1>7, <1>8, <1>9 DEF ConnectOnce
LEMMA LinkInvKept ==
  ASSUME TypeControl, TypeLink, Discipline, LinkInv, Next
  PROVE  LinkInv'
<1>1. CASE Connect
  BY <1>1, AsideKeeps DEF Connect, Begin, Radio, Dialled, Tearing, fields, radio, Procs
<1>2. CASE Close
  BY <1>2, AsideKeeps DEF Close, Begin, Radio, Dialled, Tearing, fields, radio, Procs
<1>3. ASSUME NEW c \in Callers, Send(c) \/ Finish(c) \/ LockSend(c) PROVE LinkInv'
  <2>1. /\ pc[c] \in {"idle", "lockSend"}
        /\ \E l \in {"lockSend", "dLock", "exit", "write"} : Goto(c, l)
        /\ \A q \in Procs \ {c} : call'[q] = call[q]
        /\ UNCHANGED <<handle, device, link, subs, connected, links>>
    BY <1>3 DEF Send, Begin, Finish, LockSend, Goto, TypeControl, fields, radio
  <2> QED
    BY <2>1, AsideKeeps DEF Radio, Dialled, Tearing, Procs
<1>4. ASSUME NEW c \in Callers, Write(c) PROVE LinkInv'
  <2>1. /\ pc[c] = "write"
        /\ \E l \in {"idle", "dLock"} : Goto(c, l)
        /\ \A q \in Procs \ {c} : call'[q] = call[q]
        /\ UNCHANGED <<handle, device, link, subs, connected, links>>
    BY <1>4 DEF Write, Return, Goto, TypeControl, fields, radio
  <2> QED
    BY <2>1, AsideKeeps DEF Radio, Dialled, Tearing, Procs
<1>5. CASE ShutDown
  BY <1>5, AsideKeeps DEF ShutDown, Radio, Dialled, Tearing, fields, radio, Procs
<1>6. CASE UNCHANGED <<pc, call, handle, device, subs, connected, links>> /\ link' \in {0, link}
  BY <1>6 DEF LinkInv, Fresh, Older, Apart, Known, Offline, Accounted, Undialled, Subscribed
<1>7. CASE Cancel \/ Deliver \/ OnNotify \/ LinkDrop
  BY <1>6, <1>7 DEF Cancel, Deliver, OnNotify, NotifyLock, NotifyUpdate, NotifyCallback,
    LinkDrop, Drop, fields, radio, threads
<1> QED
  BY <1>1, <1>2, <1>3, <1>4, <1>5, <1>7, DisconnectKeepsLinks, ConnectKeepsLinks
  DEF Next, Running

-----------------------------------------------------------------------------
(* The login: what the client believes of it is what the blind decided.        *)

\* Every result on its way, and the one being handled, says that the login succeeded.
AllTrue ==
  /\ \A i \in DOMAIN frames : frames[i][2] = TRUE
  /\ notify \in {"lock", "update"} => frame[2] = TRUE

\* All results on their way are those of one login.
OneVerdict ==
  \A i \in DOMAIN frames :
    /\ \A j \in DOMAIN frames : frames[i][2] = frames[j][2]
    /\ notify \in {"lock", "update"} => frame[2] = frames[i][2]

\* A success is that of the link that is up.
Truthful ==
  link # 0 =>
    /\ \A i \in DOMAIN frames : frames[i][2] = TRUE => auth = link
    /\ notify \in {"lock", "update"} /\ frame[2] = TRUE => auth = link

NoFrames == link = 0 => frames = <<>>

\* No result is left from an earlier link when the next login is sent.
Silent ==
  \A p \in Procs : pc[p] \in {"dial", "login"} \cup Dialled =>
    frames = <<>> /\ notify = "wait"

Awaited == loginCh # "nil" => \E p \in Procs : pc[p] \in {"await", "loginOk", "loginFailed"}

Good == AllTrue /\ (connected => loggedIn) /\ (link # 0 => auth = link)

OkIsGood == loginCh = "ok" => Good
OkReceived == \A p \in Procs : pc[p] = "loginOk" => loginCh = "ok"

\* connectOnce has published the link and not yet finished the login or given it up.
Pending(p) ==
  pc[p] \in {"login", "await", "loginFailed"} \/ (pc[p] = "dLock" /\ call[p] # "none")

ConnectedIsGood == connected /\ (\A p \in Procs : ~Pending(p)) => Good

LoginInv ==
  /\ OneVerdict /\ Truthful /\ NoFrames /\ Silent /\ Awaited
  /\ OkIsGood /\ OkReceived /\ ConnectedIsGood

\* Calls that begin, wait for sendMu or write disturb nothing of this.
LEMMA AsideKeepsLogin ==
  ASSUME TypeControl, LoginInv, NEW p \in Procs,
         pc[p] \in {"idle", "lockSend", "write", "exit", "dUnsub", "dDrop"}
           \/ (pc[p] = "dLock" /\ ~connected) \/ (pc[p] = "scan" /\ ~connected),
         NEW l, Goto(p, l),
         l \in {"idle", "lockSend", "write", "exit", "scan", "dLock", "dUnsub", "dDrop",
                "stranded"},
         \A q \in Procs \ {p} : call'[q] = call[q],
         \/ UNCHANGED <<link, auth, frames>>
         \/ link' = 0 /\ frames' = <<>>,
         UNCHANGED <<connected, loggedIn, loginCh, notify, frame>>
  PROVE  LoginInv'
<1> USE DEF Goto, TypeControl
<1>1. OneVerdict' /\ Truthful' /\ NoFrames'
  BY DEF LoginInv, OneVerdict, Truthful, NoFrames
<1>2. Silent'
  BY DEF LoginInv, Silent, Dialled
<1>3. Awaited' /\ OkReceived'
  BY DEF LoginInv, Awaited, OkReceived
<1>4. Good => Good'
  BY DEF Good, AllTrue
<1>5. OkIsGood'
  BY <1>4 DEF LoginInv, OkIsGood
<1>6. ConnectedIsGood'
  <2>1. CASE ~connected
    BY <2>1 DEF ConnectedIsGood
  <2>2. CASE connected
    <3>1. ~Pending(p)
      BY <2>2 DEF Pending
    <3>2. \A q \in Procs \ {p} : Pending(q)' <=> Pending(q)
      BY DEF Pending
    <3> QED
      BY <1>4, <3>1, <3>2 DEF LoginInv, ConnectedIsGood
  <2> QED
    BY <2>1, <2>2
<1> QED
  BY <1>1, <1>2, <1>3, <1>5, <1>6 DEF LoginInv
\* A goroutine that connects and does not wait in doLogin finds no channel.
LEMMA NoChannel ==
  ASSUME TypeControl, Discipline, LoginInv, NEW p \in Procs,
         pc[p] \in Connecting \ {"await", "loginOk", "loginFailed"}
  PROVE  loginCh = "nil"
<1>1. \A q \in Procs : q # p => pc[q] \notin Connecting
  BY Alone
<1> QED
  BY <1>1 DEF LoginInv, Awaited, Connecting

LEMMA DisconnectKeepsLogin ==
  ASSUME TypeControl, LinkInv, LoginInv, NEW p \in Procs, Disconnect(p)
  PROVE  LoginInv'
<1>1. \E l \in {"idle", "scan", "exit", "dUnsub", "dDrop"} : Goto(p, l)
  BY DEF Disconnect, DisconnectFields, Unsubscribe, DeviceDisconnect, Resume, Return,
    TypeControl
<1>2. \A q \in Procs \ {p} : call'[q] = call[q]
  BY DEF Disconnect, DisconnectFields, Unsubscribe, DeviceDisconnect, Resume, Return, TypeControl
<1>3. CASE DisconnectFields(p)
  <2>1. /\ pc[p] = "dLock" /\ connected' = FALSE
        /\ UNCHANGED <<loginCh, link, auth, frames, notify, frame>>
    BY <1>3 DEF DisconnectFields, ForgetLink, radio
  <2>2. OneVerdict' /\ Truthful' /\ NoFrames'
    BY <2>1 DEF LoginInv, OneVerdict, Truthful, NoFrames
  <2>3. Silent' /\ Awaited' /\ OkReceived'
    BY <1>1, <2>1 DEF LoginInv, Silent, Awaited, OkReceived, Dialled, Goto, TypeControl
  <2>4. OkIsGood' /\ ConnectedIsGood'
    BY <2>1 DEF LoginInv, OkIsGood, ConnectedIsGood, Good, AllTrue
  <2> QED
    BY <2>2, <2>3, <2>4 DEF LoginInv
<1>4. CASE Unsubscribe(p)
  <2>1. /\ pc[p] = "dUnsub"
        /\ UNCHANGED <<connected, loggedIn, loginCh, link, auth, frames, notify, frame>>
    BY <1>4 DEF Unsubscribe, fields, radio
  <2> QED
    BY <1>1, <1>2, <2>1, AsideKeepsLogin
<1>5. CASE DeviceDisconnect(p)
  BY <1>1, <1>2, <1>5, AsideKeepsLogin DEF DeviceDisconnect, Drop, fields
<1> QED
  BY <1>3, <1>4, <1>5 DEF Disconnect

\* Up to the publication of the link there is no login to speak of.
LEMMA DiallingKeepsLogin ==
  ASSUME TypeControl, Discipline, LinkInv, LinkInv', LoginInv, NEW p \in Callers,
         ScanStep(p) \/ Dial(p) \/ Discover(p) \/ Subscribe(p) \/ Publish(p)
  PROVE  LoginInv'
<1> USE DEF Goto, TypeControl
<1> p \in Procs
  BY DEF Procs
<1>1. pc[p] \in {"scan", "dial"} \cup Dialled
  BY DEF ScanStep, Dial, Discover, Subscribe, Publish, Dialled
<1>2. ~connected
  BY <1>1 DEF LinkInv, Offline
<1>3. loginCh = "nil"
  BY <1>1, NoChannel DEF Connecting, Dialled
<1>4. UNCHANGED <<loginCh, loggedIn, notify, frame>>
  BY DEF ScanStep, Dial, Discover, Subscribe, Publish, fields
<1>5. CASE ScanStep(p) /\ (Return(p) \/ (Goto(p, "stranded") /\ UNCHANGED call))
  <2>1. /\ pc[p] = "scan" /\ \E l \in {"idle", "stranded"} : Goto(p, l)
        /\ UNCHANGED <<connected, loggedIn, loginCh, link, auth, frames, notify, frame>>
    BY <1>5 DEF ScanStep, Return, fields, radio
  <2>2. \A q \in Procs \ {p} : call'[q] = call[q]
    BY <1>5 DEF Return
  <2> QED
    BY <1>2, <2>1, <2>2, AsideKeepsLogin
<1>6. CASE ScanStep(p) /\ ~Return(p) /\ ~(Goto(p, "stranded") /\ UNCHANGED call)
  <2>1. /\ pc' = [pc EXCEPT ![p] = "dial"] /\ notify = "wait"
        /\ UNCHANGED <<link, auth, frames, connected, call>>
    BY <1>6 DEF ScanStep, radio, fields
  <2>2. link = 0
    BY <2>1 DEF LinkInv, Undialled
  <2>3. frames = <<>>
    BY <2>2 DEF LoginInv, NoFrames
  <2>4. OneVerdict' /\ Truthful' /\ NoFrames'
    BY <1>4, <2>1 DEF LoginInv, OneVerdict, Truthful, NoFrames
  <2>5. Silent' /\ Awaited' /\ OkReceived'
    BY <1>3, <1>4, <2>1, <2>3 DEF LoginInv, Silent, Awaited, OkReceived
  <2>6. OkIsGood' /\ ConnectedIsGood'
    BY <1>2, <1>3, <1>4, <2>1 DEF OkIsGood, ConnectedIsGood
  <2> QED
    BY <2>4, <2>5, <2>6 DEF LoginInv
<1>7. CASE ~ScanStep(p)
  <2>1. notify = "wait" /\ frames = <<>>
    <3>1. pc[p] \in {"dial"} \cup Dialled
      BY <1>7 DEF Dial, Discover, Subscribe, Publish, Dialled
    <3> QED
      BY <3>1 DEF LoginInv, Silent
  <2>2. frames' = <<>>
    BY <1>7, <2>1 DEF Dial, Discover, Subscribe, Publish, Fails, Drop, radio
  <2>3. \E l \in {"idle", "login"} \cup Dialled : pc' = [pc EXCEPT ![p] = l]
    BY <1>7 DEF Dial, Discover, Subscribe, Publish, Fails, Return, Dialled
  <2>4. OneVerdict' /\ Truthful' /\ NoFrames' /\ Silent'
    BY <1>4, <2>1, <2>2 DEF OneVerdict, Truthful, NoFrames, Silent
  <2>5. Awaited' /\ OkReceived' /\ OkIsGood'
    BY <1>3, <1>4, <2>3 DEF LoginInv, Awaited, OkReceived, OkIsGood, Dialled
  <2>6. ConnectedIsGood'
    <3>1. CASE Publish(p)
      <4>1. pc'[p] = "login"
        BY <3>1 DEF Publish
      <4> QED
        BY <4>1 DEF ConnectedIsGood, Pending
    <3>2. CASE ~Publish(p)
      <4>1. connected' = connected
        BY <1>7, <3>2 DEF Dial, Discover, Subscribe, fields
      <4> QED
        BY <1>2, <4>1 DEF ConnectedIsGood
    <3> QED
      BY <3>1, <3>2
  <2> QED
    BY <2>4, <2>5, <2>6 DEF LoginInv
<1> QED
  BY <1>5, <1>6, <1>7

LEMMA LoginKeepsLogin ==
  ASSUME TypeControl, TypeLink, TypeLogin, Discipline, LinkInv, LoginInv, NEW p \in Callers,
         Login(p) \/ Await(p) \/ LoginOk(p) \/ LoginFailed(p)
  PROVE  LoginInv'
<1> USE DEF Goto, TypeControl
<1> p \in Procs
  BY DEF Procs
<1>1. \A q \in Procs \ {p} : pc[q] \notin Connecting
  <2>1. pc[p] \in Connecting
    BY DEF Login, Await, LoginOk, LoginFailed, Connecting
  <2> QED
    BY <2>1, Alone
<1>2. CASE Login(p)
  <2>1. /\ pc[p] = "login" /\ loginCh' = "empty"
        /\ UNCHANGED <<link, connected, call, notify, frame>>
    BY <1>2 DEF Login, fields
  <2>2. frames = <<>> /\ notify = "wait"
    BY <2>1 DEF LoginInv, Silent
  <2>3. PICK l \in {"await", "loginFailed"} : pc' = [pc EXCEPT ![p] = l]
    BY <1>2 DEF Login
  <2>4. /\ OneVerdict' /\ NoFrames'
        /\ link # 0 => \A i \in DOMAIN frames' : frames'[i][2] = TRUE => auth' = link
    <3>1. CASE UNCHANGED frames
      BY <2>1, <2>2, <3>1 DEF OneVerdict, NoFrames
    <3>2. CASE ~UNCHANGED frames
      <4>1. PICK ok \in BOOLEAN, n \in 0..2 :
              /\ auth' = IF ok THEN link ELSE auth
              /\ frames' = frames \o [i \in 1..n |-> <<link, ok>>]
        BY <1>2, <3>2 DEF Login
      <4>2. link # 0
        BY <1>2, <3>2 DEF Login
      <4>3. <<link, ok>> \in Links \X BOOLEAN
        BY Zenon DEF TypeLink
      <4>4. [i \in 1..n |-> <<link, ok>>] \in Seq(Links \X BOOLEAN)
        BY <4>3
      <4>5. frames' = [i \in 1..n |-> <<link, ok>>]
        BY <2>2, <4>1, <4>4, ConcatEmptySeq
      <4>6. \A i \in DOMAIN frames' : frames'[i] = <<link, ok>>
        BY <4>5
      <4>7. \A i \in DOMAIN frames' : frames'[i][2] = ok
        BY <4>6
      <4>8. OneVerdict'
        BY <2>1, <2>2, <4>7 DEF OneVerdict
      <4>9. ok = TRUE => auth' = link
        BY <4>1
      <4> QED
        BY <2>1, <4>2, <4>7, <4>8, <4>9 DEF NoFrames
    <3> QED
      BY <3>1, <3>2
  <2>5. Truthful'
    BY <2>1, <2>2, <2>4 DEF Truthful
  <2>6. Silent'
    BY <1>1, <2>3 DEF Silent, Connecting, Dialled
  <2>7. Awaited' /\ OkReceived' /\ OkIsGood'
    BY <1>1, <2>1, <2>3 DEF Awaited, OkReceived, OkIsGood, Connecting
  <2>8. ConnectedIsGood'
    BY <2>3 DEF ConnectedIsGood, Pending
  <2> QED
    BY <2>4, <2>5, <2>6, <2>7, <2>8 DEF LoginInv
<1>3. CASE ~Login(p)
  <2>1. UNCHANGED <<connected, loggedIn, link, auth, frames, notify, frame>>
    BY <1>3 DEF Await, LoginOk, LoginFailed, fields, radio
  <2>2. OneVerdict' /\ Truthful' /\ NoFrames'
    BY <2>1 DEF LoginInv, OneVerdict, Truthful, NoFrames
  <2>3. Good => Good'
    BY <2>1 DEF Good, AllTrue
  <2>4. /\ pc[p] \in {"await", "loginOk", "loginFailed"}
        /\ \E l \in {"loginOk", "loginFailed", "write", "idle", "dLock"} :
             pc' = [pc EXCEPT ![p] = l]
        /\ \A q \in Procs \ {p} : call'[q] = call[q]
    BY <1>3 DEF Await, LoginOk, LoginFailed, Return
  <2>5. Silent'
    BY <2>1, <2>4 DEF LoginInv, Silent, Dialled
  <2>6. Awaited' /\ OkReceived' /\ OkIsGood'
    <3>1. CASE Await(p)
      BY <2>3, <3>1 DEF LoginInv, Await, Awaited, OkReceived, OkIsGood
    <3>2. CASE ~Await(p)
      <4>1. loginCh' = "nil"
        BY <1>3, <3>2 DEF LoginOk, LoginFailed
      <4>2. pc'[p] # "loginOk"
        BY <1>3, <3>2 DEF LoginOk, LoginFailed, Return
      <4> QED
        BY <1>1, <2>4, <4>1, <4>2 DEF Awaited, OkReceived, OkIsGood, Connecting
    <3> QED
      BY <3>1, <3>2
  <2>7. ConnectedIsGood'
    <3>1. CASE LoginFailed(p)
      <4>1. pc'[p] = "dLock" /\ call'[p] = call[p]
        BY <3>1 DEF LoginFailed
      <4>2. call[p] # "none"
        BY <2>4, ConnectingBusy DEF Busy, Connecting
      <4> QED
        BY <4>1, <4>2 DEF ConnectedIsGood, Pending
    <3>2. CASE LoginOk(p)
      <4>1. Good
        BY <3>2 DEF LoginOk, LoginInv, OkReceived, OkIsGood
      <4> QED
        BY <2>3, <4>1 DEF ConnectedIsGood
    <3>3. CASE Await(p)
      <4>1. CASE loginCh = "ok"
        BY <2>3, <4>1 DEF LoginInv, OkIsGood, ConnectedIsGood
      <4>2. CASE loginCh # "ok"
        <5>1. pc'[p] = "loginFailed"
          BY <3>3, <4>2 DEF Await
        <5> QED
          BY <5>1 DEF ConnectedIsGood, Pending
      <4> QED
        BY <4>1, <4>2
    <3> QED
      BY <1>3, <3>1, <3>2, <3>3
  <2> QED
    BY <2>2, <2>5, <2>6, <2>7 DEF LoginInv
<1> QED
  BY <1>2, <1>3
\* The notification goroutine passes on what the blind decided.
LEMMA NotifyKeepsLogin ==
  ASSUME TypeLogin, LoginInv, Deliver \/ OnNotify
  PROVE  LoginInv'
<1>1. UNCHANGED <<pc, call, connected, link, auth>>
  BY DEF Deliver, OnNotify, NotifyLock, NotifyUpdate, NotifyCallback, radio, fields, threads
<1>2. CASE Deliver
  <2>1. /\ notify = "wait" /\ frames # <<>> /\ frames' = Tail(frames)
        /\ UNCHANGED <<loggedIn, loginCh>>
        /\ \/ frame' = frames[1] /\ notify' = "lock"
           \/ UNCHANGED <<frame, notify>>
    BY <1>2 DEF Deliver, fields
  <2>2. Len(frames) \in Nat /\ Len(frames) > 0 /\ DOMAIN frames = 1..Len(frames)
    BY <2>1 DEF TypeLogin
  <2>3. \A i \in DOMAIN frames' : i + 1 \in DOMAIN frames /\ frames'[i] = frames[i + 1]
    BY <2>1, <2>2 DEF TypeLogin
  <2>4. 1 \in DOMAIN frames
    BY <2>2
  <2>5. OneVerdict'
    BY <2>1, <2>3, <2>4 DEF LoginInv, OneVerdict
  <2>6. Truthful'
    BY <1>1, <2>1, <2>3, <2>4 DEF LoginInv, Truthful
  <2>7. NoFrames' /\ Silent'
    BY <1>1, <2>1 DEF LoginInv, NoFrames, Silent
  <2>8. Awaited' /\ OkReceived'
    BY <1>1, <2>1 DEF LoginInv, Awaited, OkReceived
  <2>9. Good => Good'
    BY <1>1, <2>1, <2>3, <2>4 DEF Good, AllTrue
  <2>10. OkIsGood' /\ ConnectedIsGood'
    BY <1>1, <2>1, <2>9 DEF LoginInv, OkIsGood, ConnectedIsGood, Pending
  <2> QED
    BY <2>5, <2>6, <2>7, <2>8, <2>10 DEF LoginInv
<1>3. CASE NotifyLock \/ NotifyCallback
  <2>1. /\ UNCHANGED <<frames, frame, loggedIn, loginCh>>
        /\ notify # "wait"
        /\ notify' \in {"lock", "update"} => notify \in {"lock", "update"}
    BY <1>3 DEF NotifyLock, NotifyCallback, radio, fields
  <2>2. OneVerdict' /\ Truthful' /\ NoFrames'
    BY <1>1, <2>1 DEF LoginInv, OneVerdict, Truthful, NoFrames
  <2>3. Silent' /\ Awaited' /\ OkReceived'
    BY <1>1, <2>1 DEF LoginInv, Silent, Awaited, OkReceived
  <2>4. Good => Good'
    BY <1>1, <2>1 DEF Good, AllTrue
  <2>5. OkIsGood' /\ ConnectedIsGood'
    BY <1>1, <2>1, <2>4 DEF LoginInv, OkIsGood, ConnectedIsGood, Pending
  <2> QED
    BY <2>2, <2>3, <2>5 DEF LoginInv
<1>4. CASE NotifyUpdate
  <2>1. /\ notify = "update" /\ notify' = "callback" /\ loggedIn' = frame[2]
        /\ UNCHANGED <<frames, frame>>
        /\ loginCh' = IF loginCh = "empty" THEN Verdict ELSE loginCh
    BY <1>4 DEF NotifyUpdate, LoginResult, radio
  <2>2. frame[2] \in BOOLEAN
    BY DEF TypeLogin
  <2>3. OneVerdict' /\ Truthful' /\ NoFrames'
    BY <1>1, <2>1 DEF LoginInv, OneVerdict, Truthful, NoFrames
  <2>4. Silent'
    BY <1>1, <2>1 DEF LoginInv, Silent
  <2>5. Awaited' /\ OkReceived'
    BY <1>1, <2>1 DEF LoginInv, Awaited, OkReceived
  <2>6. Good => Good'
    <3>1. Good => frame[2] = TRUE
      BY <2>1 DEF Good, AllTrue
    <3> QED
      BY <1>1, <2>1, <3>1 DEF Good, AllTrue
  <2>7. OkIsGood'
    <3>1. CASE loginCh = "ok"
      BY <2>6, <3>1 DEF LoginInv, OkIsGood
    <3>2. CASE loginCh # "ok"
      <4>1. loginCh' = "ok" => frame[2] = TRUE
        BY <2>1, <3>2 DEF Verdict
      <4>2. frame[2] = TRUE => AllTrue'
        BY <2>1 DEF LoginInv, OneVerdict, AllTrue
      <4>3. frame[2] = TRUE => (link # 0 => auth = link)
        BY <2>1 DEF LoginInv, Truthful
      <4>4. frame[2] = TRUE => loggedIn'
        BY <2>1
      <4> QED
        BY <1>1, <4>1, <4>2, <4>3, <4>4 DEF OkIsGood, Good
    <3> QED
      BY <3>1, <3>2
  <2>8. ConnectedIsGood'
    BY <1>1, <2>6 DEF LoginInv, ConnectedIsGood, Pending
  <2> QED
    BY <2>3, <2>4, <2>5, <2>7, <2>8 DEF LoginInv
<1> QED
  BY <1>2, <1>3, <1>4 DEF OnNotify

LEMMA LoginInvKept ==
  ASSUME TypeOK, Discipline, LinkInv, LinkInv', LoginInv, Next
  PROVE  LoginInv'
<1> TypeControl /\ TypeLink /\ TypeLogin
  BY TypeParts
<1>1. ASSUME NEW p \in Procs, NEW l, Goto(p, l),
             pc[p] \in {"idle", "lockSend", "write"},
             l \in {"idle", "lockSend", "write", "exit", "scan", "dLock"},
             \A q \in Procs \ {p} : call'[q] = call[q],
             UNCHANGED <<link, auth, frames, connected, loggedIn, loginCh, notify, frame>>
      PROVE LoginInv'
  BY <1>1, AsideKeepsLogin
<1>2. CASE Connect \/ Close
  <2>1. /\ pc[Owner] = "idle" /\ \E l \in {"scan", "dLock"} : Goto(Owner, l)
        /\ \A q \in Procs \ {Owner} : call'[q] = call[q]
        /\ UNCHANGED <<link, auth, frames, connected, loggedIn, loginCh, notify, frame>>
    BY <1>2 DEF Connect, Close, Begin, fields, radio, TypeControl
  <2> QED
    BY <1>1, <2>1 DEF Procs
<1>3. ASSUME NEW c \in Callers, Send(c) \/ Finish(c) \/ LockSend(c) \/ Write(c)
      PROVE LoginInv'
  <2>1. /\ pc[c] \in {"idle", "lockSend", "write"}
        /\ \E l \in {"idle", "lockSend", "write", "exit", "dLock"} : Goto(c, l)
        /\ \A q \in Procs \ {c} : call'[q] = call[q]
        /\ UNCHANGED <<link, auth, frames, connected, loggedIn, loginCh, notify, frame>>
    BY <1>3 DEF Send, Begin, Finish, LockSend, Write, Return, Goto, fields, radio, TypeControl
  <2> QED
    BY <1>1, <2>1 DEF Procs
<1>4. CASE ShutDown
  <2>1. /\ pc[Shutdown] = "idle" /\ Goto(Shutdown, "dLock") /\ UNCHANGED call
        /\ UNCHANGED <<link, auth, frames, connected, loggedIn, loginCh, notify, frame>>
    BY <1>4 DEF ShutDown, fields, radio
  <2> QED
    BY <1>1, <2>1 DEF Procs
<1>5. CASE Cancel \/ LinkDrop
  <2>1. /\ UNCHANGED <<pc, call, connected, loggedIn, loginCh, notify, frame>>
        /\ UNCHANGED <<link, auth, frames>> \/ (link' = 0 /\ frames' = <<>>)
    BY <1>5 DEF Cancel, LinkDrop, Drop, fields, radio, threads
  <2>2. OneVerdict' /\ Truthful' /\ NoFrames' /\ Silent' /\ Awaited' /\ OkReceived'
    BY <2>1 DEF LoginInv, OneVerdict, Truthful, NoFrames, Silent, Awaited, OkReceived
  <2>3. Good => Good'
    BY <2>1 DEF Good, AllTrue
  <2>4. OkIsGood' /\ ConnectedIsGood'
    BY <2>1, <2>3 DEF LoginInv, OkIsGood, ConnectedIsGood, Pending
  <2> QED
    BY <2>2, <2>4 DEF LoginInv
<1> QED
  BY <1>2, <1>3, <1>4, <1>5, DisconnectKeepsLogin, DiallingKeepsLogin, LoginKeepsLogin,
    NotifyKeepsLogin DEF Next, Running, ConnectOnce

-----------------------------------------------------------------------------
(* The theorems.                                                               *)

IInv == TypeOK /\ Discipline /\ LinkInv /\ LoginInv

LEMMA InitIInv == Init => IInv
<1> SUFFICES ASSUME Init PROVE IInv
  OBVIOUS
<1>1. TypeOK
  BY InitType
<1>2. Discipline
  BY DEF Init, Discipline, IdleCalls, ShutdownCloses, OwnerAlone, Serialized, Roles,
    SecondWrite, NotBeforeCancel, Connecting, Closing, Tearing, Procs
<1>3. LinkInv
  BY DEF Init, LinkInv, Fresh, Older, Apart, Known, Offline, Accounted, Undialled,
    Subscribed, Dialled, Tearing
<1>4. LoginInv
  BY DEF Init, LoginInv, OneVerdict, Truthful, NoFrames, Silent, Awaited, OkIsGood,
    OkReceived, ConnectedIsGood, Dialled
<1> QED
  BY <1>1, <1>2, <1>3, <1>4 DEF IInv

LEMMA NextIInv ==
  ASSUME IInv, [Next]_vars
  PROVE  IInv'
<1>1. CASE Next
  <2>1. TypeControl /\ TypeLink /\ TypeLogin /\ TypeTries /\ TypeRest
    BY TypeParts DEF IInv
  <2>2. TypeOK'
    <3>1. TypeControl' /\ TypeLink' /\ TypeLogin' /\ TypeTries' /\ TypeRest'
      BY <1>1, <2>1, TypeControlKept, TypeLinkKept, TypeLoginKept, TypeTriesKept,
        TypeRestKept DEF IInv
    <3> QED
      BY <3>1 DEF TypeOK, TypeControl, TypeLink, TypeLogin, TypeTries, TypeRest
  <2>3. Discipline'
    BY <1>1, <2>1, DisciplineKept DEF IInv
  <2>4. LinkInv'
    BY <1>1, <2>1, LinkInvKept DEF IInv
  <2>5. LoginInv'
    BY <1>1, <2>4, LoginInvKept DEF IInv
  <2> QED
    BY <2>2, <2>3, <2>4, <2>5 DEF IInv
<1>2. CASE UNCHANGED vars
  <2>1. TypeOK'
    BY <1>2 DEF IInv, TypeOK, vars, threads, fields, radio
  <2>2. Discipline'
    BY <1>2, DisciplineStays DEF IInv, vars
  <2>3. LinkInv'
    BY <1>2 DEF IInv, LinkInv, Fresh, Older, Apart, Known, Offline, Accounted, Undialled,
      Subscribed, vars, threads, fields, radio
  <2>4. LoginInv'
    BY <1>2 DEF IInv, LoginInv, OneVerdict, Truthful, NoFrames, Silent, Awaited, OkIsGood,
      OkReceived, ConnectedIsGood, Good, AllTrue, Pending, vars, threads, fields, radio
  <2> QED
    BY <2>1, <2>2, <2>3, <2>4 DEF IInv
<1> QED
  BY <1>1, <1>2

\* The invariant of the client and of everything that uses it.
THEOREM InvariantHolds == Spec => []IInv
  BY InitIInv, NextIInv, PTL DEF Spec

\* Every field keeps its type; a Send writes at most twice (Send's two attempts).
THEOREM TypeCorrect == Spec => []TypeOK
<1>1. IInv => TypeOK
  BY DEF IInv
<1> QED
  BY <1>1, InvariantHolds, PTL

\* Two goroutines never reconnect at once (sendMu in Send).
THEOREM OneReconnectHolds == Spec => []OneReconnect
<1>1. IInv => OneReconnect
  BY OneConnecting, TypeParts DEF IInv
<1> QED
  BY <1>1, InvariantHolds, PTL

\* No reconnect, failed connectOnce or shutdown leaks a subscription (Disconnect).
THEOREM NoLeakedSubscriptionHolds == Spec => []NoLeakedSubscription
<1>1. IInv => NoLeakedSubscription
  <2> SUFFICES ASSUME IInv, Quiet PROVE subs = IF connected THEN {device} ELSE {}
    BY DEF NoLeakedSubscription
  <2>1. subs \subseteq Links /\ device \in Links
    BY DEF IInv, TypeOK
  <2>2. \A p \in Procs : pc[p] \notin {"publish", "dUnsub"}
    BY DEF Quiet
  <2>3. \A l \in Links : l \in subs <=> connected /\ l = device
    BY <2>2 DEF IInv, LinkInv, Subscribed
  <2> QED
    BY <2>1, <2>3
<1> QED
  BY <1>1, InvariantHolds, PTL

\* A link that is up is one the client knows, unless a call is working on it
\* (connectOnce's error paths, Disconnect).
THEOREM NoForgottenLinkHolds == Spec => []NoForgottenLink
<1>1. IInv => NoForgottenLink
  BY DEF IInv, LinkInv, Accounted, Known, Undialled, NoForgottenLink, Quiet, Dialled, Tearing
<1> QED
  BY <1>1, InvariantHolds, PTL

\* One goroutine at a time makes a link, and whatever it made is known or undone, on every
\* error path of connectOnce, Send and Disconnect.
THEOREM LinksAccountedHolds == Spec => []LinksAccounted
<1>1. OneReconnect /\ NoLeakedSubscription /\ NoForgottenLink => LinksAccounted
  BY DEF LinksAccounted
<1> QED
  BY <1>1, OneReconnectHolds, NoLeakedSubscriptionHolds, NoForgottenLinkHolds, PTL

\* A client that is connected while no call runs is logged in, and State() says so
\* (connectOnce, doLogin, onNotify).
THEOREM ConnectedIsLoggedInHolds == Spec => []ConnectedIsLoggedIn
<1>1. IInv => ConnectedIsLoggedIn
  BY DEF IInv, LoginInv, ConnectedIsGood, Good, Pending, ConnectedIsLoggedIn, Quiet
<1> QED
  BY <1>1, InvariantHolds, PTL

\* Commands reach the blind only over a link on which it accepted the login (Send).
THEOREM CommandsAreLoggedInHolds == Spec => CommandsAreLoggedIn
<1>1. ASSUME IInv, NEW c \in Callers, WriteOk(c)
      PROVE auth = link
  <2>1. TypeControl
    BY <1>1, TypeParts DEF IInv
  <2>2. Busy(c)
    BY <1>1 DEF WriteOk, IInv, Discipline, Roles, Busy
  <2>3. ASSUME NEW p \in Procs, Pending(p) PROVE FALSE
    <3>1. p \in Callers /\ Busy(p)
      <4>1. CASE pc[p] \in {"login", "await", "loginFailed"}
        BY <1>1, <4>1, ConnectingBusy DEF IInv, Connecting
      <4>2. CASE pc[p] = "dLock" /\ call[p] # "none"
        BY <1>1, <4>2 DEF IInv, Discipline, ShutdownCloses, Busy, Procs
      <4> QED
        BY <2>3, <4>1, <4>2 DEF Pending
    <3>2. p = c
      BY <1>1, <2>1, <2>2, <3>1, OneBusy DEF IInv
    <3> QED
      BY <1>1, <2>3, <3>2 DEF Pending, WriteOk
  <2> QED
    BY <1>1, <2>3 DEF IInv, LoginInv, ConnectedIsGood, Good, WriteOk
<1>2. IInv /\ [Next]_vars => [\A c \in Callers : WriteOk(c) /\ pc'[c] # "write" => auth = link]_vars
  BY <1>1
<1> QED
  BY <1>2, InvariantHolds, PTL DEF Spec, CommandsAreLoggedIn

-----------------------------------------------------------------------------
(* Nobody waits for ever because everybody waits: the safety half of            *)
(* EverythingReturns, without fairness and for any number of callers.           *)

Underway(p) == pc[p] \notin {"idle", "exit"}

\* The places of the client that wait for mu.
AtMu == {"dLock", "publish", "login", "loginOk", "loginFailed", "write"}

\* What holds a goroutine up: the lock of onNotify, a library that waits for a callback
\* before it unsubscribes, another Send, or a cancelled scan.
HeldUp(p) ==
  \/ pc[p] \in AtMu /\ mu # "free"
  \/ pc[p] = "dUnsub" /\ unsubWaits /\ notify # "wait"
  \/ pc[p] = "lockSend" /\ sendMu # "none"
  \/ pc[p] = "stranded"

\* The notification goroutine waits for nothing but mu.
NotifyHeldUp == notify = "lock" /\ mu # "free"

\* A Send has two writes, so that it is never in want of a third.
Writes(p) == pc[p] = "write" => tries[p] \in 0..1

\* The notification goroutine is never held up.  Every goroutine that is waits either for
\* it, or for the one Send that holds sendMu, which waits at most for it (Send, onNotify,
\* Disconnect: no lock is held across a call into the library), or it is stranded, which
\* takes the cancellation.
WaitsAreShort ==
  /\ ~NotifyHeldUp
  /\ \A p \in Procs : Underway(p) /\ HeldUp(p) =>
       \/ notify # "wait"
       \/ /\ pc[p] = "lockSend" /\ sendMu \in Callers
          /\ Underway(sendMu) /\ ~HeldUp(sendMu) /\ Writes(sendMu)
       \/ Stranded(p) /\ cancelled

\* Either nothing is going on, but for calls that the cancellation has stranded, or
\* somebody can go on.
NoStandstill ==
  (\E p \in Procs : Underway(p) /\ ~(Stranded(p) /\ cancelled)) \/ notify # "wait" =>
    \/ notify # "wait" /\ ~NotifyHeldUp
    \/ \E p \in Procs : Underway(p) /\ ~HeldUp(p) /\ Writes(p)

\* Who holds a lock: onNotify while it applies an event, a Send between its lock and its
\* return.
Holders ==
  /\ mu = "notify" <=> notify = "update"
  /\ sendMu # "none" => call[sendMu] = "send" /\ pc[sendMu] # "lockSend"

LEMMA HoldersKept ==
  ASSUME IInv, Holders, [Next]_vars PROVE Holders'
<1> USE DEF Holders
<1>1. TypeControl /\ Discipline /\ TypeRest /\ TypeLogin
  BY TypeParts DEF IInv
<1>2. CASE UNCHANGED vars
  BY <1>2 DEF vars, threads
<1>3. CASE Deliver \/ OnNotify
  BY <1>1, <1>3 DEF Deliver, OnNotify, NotifyLock, NotifyUpdate, NotifyCallback, TypeRest,
    threads
<1>4. CASE LinkDrop \/ Cancel \/ ShutDown
  <2>1. UNCHANGED <<mu, notify, sendMu, call>>
    BY <1>4 DEF LinkDrop, Cancel, ShutDown, threads
  <2>2. \A p \in Callers : pc'[p] = pc[p]
    BY <1>1, <1>4 DEF LinkDrop, Cancel, ShutDown, threads, Goto, TypeControl, Procs
  <2> QED
    BY <1>1, <2>1, <2>2 DEF TypeControl
<1>5. ASSUME UNCHANGED <<mu, notify, sendMu>>, NEW p \in Procs,
             call'[p] = call[p] \/ call[p] = "none" \/ sendMu # p,
             call[p] # "none" => pc'[p] # "lockSend",
             \A q \in Procs \ {p} : call'[q] = call[q] /\ pc'[q] = pc[q]
      PROVE  Holders'
  BY <1>1, <1>5 DEF TypeControl, Procs
<1>6. CASE Connect \/ Close
  BY <1>1, <1>6, <1>5 DEF Connect, Close, Begin, Goto, TypeControl, Procs, Discipline,
    IdleCalls
<1>7. ASSUME NEW c \in Callers, Send(c) \/ Finish(c) PROVE Holders'
  BY <1>1, <1>7, <1>5 DEF Send, Finish, Begin, Goto, TypeControl, Procs, Discipline, IdleCalls
<1>8. ASSUME NEW c \in Callers, LockSend(c) PROVE Holders'
  BY <1>1, <1>8 DEF LockSend, Goto, TypeControl, Procs, Discipline, Roles
<1>9. ASSUME UNCHANGED <<mu, notify>>, NEW p \in Procs, Return(p) PROVE Holders'
  BY <1>1, <1>9 DEF Return, Goto, TypeControl, Procs
<1>10. ASSUME NEW p \in Procs, Disconnect(p) PROVE Holders'
  <2>1. UNCHANGED <<mu, notify>>
    BY <1>10 DEF Disconnect, DisconnectFields, Unsubscribe, DeviceDisconnect
  <2>2. CASE Resume(p)
    BY <1>1, <1>5, <1>9, <2>1, <2>2 DEF Resume, Goto, TypeControl, Procs
  <2>3. CASE Goto(p, "dUnsub") /\ UNCHANGED <<call, sendMu>>
    BY <1>1, <1>5, <2>1, <2>3 DEF Goto, TypeControl
  <2>4. CASE Goto(p, "dDrop") /\ UNCHANGED <<call, sendMu>>
    BY <1>1, <1>5, <2>1, <2>4 DEF Goto, TypeControl
  <2> QED
    BY <1>10, <2>2, <2>3, <2>4 DEF Disconnect, DisconnectFields, Unsubscribe, DeviceDisconnect
<1>11. ASSUME NEW c \in Callers, ConnectOnce(c) \/ Write(c) PROVE Holders'
  <2>1. UNCHANGED <<mu, notify>>
    BY <1>11 DEF ConnectOnce, ScanStep, Dial, Discover, Subscribe, Publish, Login, Await,
      LoginOk, LoginFailed, Write
  <2>2. CASE Return(c)
    BY <1>9, <2>1, <2>2 DEF Procs
  <2>3. CASE UNCHANGED <<call, sendMu>> /\ \E l \in Labels \ {"lockSend"} : Goto(c, l)
    BY <1>1, <1>5, <2>1, <2>3 DEF Goto, TypeControl, Procs
  <2>4. \/ Return(c)
        \/ UNCHANGED <<call, sendMu>> /\ \E l \in Labels \ {"lockSend"} : Goto(c, l)
    BY <1>11 DEF ConnectOnce, ScanStep, Dial, Discover, Subscribe, Publish, Login, Await,
      LoginOk, LoginFailed, Write, Fails, Labels, Connecting
  <2> QED
    BY <2>2, <2>3, <2>4
<1> QED
  BY <1>2, <1>3, <1>4, <1>6, <1>7, <1>8, <1>10, <1>11 DEF Next, Running

THEOREM HoldersHold == Spec => []Holders
<1>1. Init => Holders
  BY DEF Init, Holders
<1>2. IInv /\ Holders /\ [Next]_vars => Holders'
  BY HoldersKept
<1> QED
  BY <1>1, <1>2, InvariantHolds, PTL DEF Spec

\* However many callers there are, and whatever the library does when it unsubscribes:
\* waiting is never deeper than a Send that waits for a Send that waits for onNotify, but
\* for the calls that a cancelled scan has stranded.
THEOREM WaitsAreShortHolds == Spec => []WaitsAreShort
<1>1. IInv /\ Holders => WaitsAreShort
  <2> SUFFICES ASSUME IInv, Holders PROVE WaitsAreShort
    OBVIOUS
  <2>1. TypeControl /\ Discipline /\ TypeRest /\ TypeLogin
    BY TypeParts DEF IInv
  <2>2. mu # "free" => notify = "update"
    BY <2>1 DEF Holders, TypeRest
  <2>3. ~NotifyHeldUp
    BY <2>2 DEF NotifyHeldUp
  <2>4. ASSUME NEW p \in Procs, Underway(p), HeldUp(p), notify = "wait",
               ~(Stranded(p) /\ cancelled)
        PROVE  /\ pc[p] = "lockSend" /\ sendMu \in Callers
               /\ Underway(sendMu) /\ ~HeldUp(sendMu) /\ Writes(sendMu)
    <3>0. \A c \in Procs : pc[c] = "stranded" => cancelled
      BY <2>1 DEF Discipline, NotBeforeCancel, ShutdownCloses, Procs, Closing, Tearing
    <3>1. pc[p] = "lockSend" /\ sendMu # "none" /\ mu = "free"
      BY <2>2, <2>4, <3>0 DEF HeldUp, Stranded
    <3>2. sendMu \in Callers /\ call[sendMu] = "send" /\ pc[sendMu] # "lockSend"
      BY <2>1, <3>1 DEF Holders, TypeControl
    <3>3. Underway(sendMu) /\ Writes(sendMu)
      BY <2>1, <3>2 DEF Underway, Writes, Discipline, IdleCalls, SecondWrite, Procs
    <3>4. ~HeldUp(sendMu)
      BY <2>4, <3>0, <3>1, <3>2 DEF HeldUp, Stranded, Procs
    <3> QED BY <3>1, <3>2, <3>3, <3>4
  <2> QED
    BY <2>3, <2>4 DEF WaitsAreShort
<1> QED
  BY <1>1, InvariantHolds, HoldersHold, PTL

\* For any number of callers and calls: as long as a notification is under way, or a call
\* other than those that the cancellation has stranded in a scan or behind one, some
\* goroutine can take its next step.
THEOREM NoStandstillHolds == Spec => []NoStandstill
<1>1. IInv /\ WaitsAreShort => NoStandstill
  <2> SUFFICES ASSUME IInv, WaitsAreShort, notify = "wait", NEW p \in Procs, Underway(p),
                      ~(Stranded(p) /\ cancelled)
               PROVE  \E q \in Procs : Underway(q) /\ ~HeldUp(q) /\ Writes(q)
    BY DEF NoStandstill, WaitsAreShort
  <2>1. TypeControl /\ Discipline
    BY TypeParts DEF IInv
  <2>2. CASE HeldUp(p)
    BY <2>2 DEF WaitsAreShort, Procs
  <2>3. CASE ~HeldUp(p)
    <3>1. Writes(p)
      BY <2>1 DEF Writes, Discipline, Roles, SecondWrite, ShutdownCloses, Procs, Closing,
        Tearing
    <3> QED BY <2>3, <3>1
  <2> QED BY <2>2, <2>3
<1> QED
  BY <1>1, InvariantHolds, WaitsAreShortHolds, PTL
=============================================================================
