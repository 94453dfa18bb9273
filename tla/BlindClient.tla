----------------------------- MODULE BlindClient -----------------------------
(* One bliss.Blind (pkg/bliss/client.go) and the goroutines that use it: the  *)
(* callers, which connect, send commands and disconnect; the shutdown of      *)
(* Bridge.Run, which disconnects once the context is cancelled; and the       *)
(* library's notification goroutine, which runs onNotify.                     *)
(*                                                                            *)
(* Links are numbered in the order in which they come up, so that a handle or *)
(* a subscription can be told from a later one.  The scan is one step here    *)
(* (module Scan has its details); the link, the subscription and the writes   *)
(* are the Bluetooth library's, as the client uses them.                      *)
EXTENDS Integers, Sequences, FiniteSets

CONSTANTS
  Callers,      \* goroutines that call the client
  Owner,        \* the one that connects and disconnects (the bridge has no other)
  Shutdown,     \* the goroutine of Bridge.Run
  OnDemand,     \* BOOLEAN: does the owner disconnect before it returns?
  MaxLinks,     \* bound: links that come up
  MaxCalls      \* bound: calls of all callers together

ASSUME ClientAssumption ==
  /\ Owner \in Callers /\ Shutdown \notin Callers
  /\ "none" \notin Callers
  /\ OnDemand \in BOOLEAN
  /\ MaxLinks \in Nat /\ MaxCalls \in Nat

Procs == Callers \cup {Shutdown}

VARIABLES
  pc,           \* where each goroutine is
  call,         \* what a caller is doing: "none", "connect", "send", "close"
  next,         \* where Disconnect returns to
  handle,       \* the device a goroutine works on: connectOnce's local variable,
                \* the snapshot of a Disconnect (a link, 0 = none)
  tries,        \* writes of the frame of the current Send
  sendMu,       \* holder of sendMu, "none" when free
  mu,           \* "free", or "notify" while onNotify holds it (other critical
                \* sections are single steps)
  connected,    \* and state.Connected, which is always written with it
  loggedIn, device, rootCtx, loginCh,
                \* the client's other fields (device: a link, 0 = none)
  link,         \* the link that is up, 0 = none
  auth,         \* the link on which the blind accepted the login, 0 = none
  subs,         \* links whose notifications are subscribed
  frames,       \* login results on their way, <<link, success>>
  notify, frame,   \* the notification goroutine and the frame it handles
  unsubWaits,   \* does unsubscribing wait for a callback that is running?
  cancelled, links, calls

threads == <<pc, call, next, handle, tries>>
fields  == <<connected, loggedIn, device>>
radio   == <<link, auth, frames>>
vars == <<threads, sendMu, mu, fields, rootCtx, loginCh, radio, subs, notify, frame,
          unsubWaits, cancelled, links, calls>>

Connecting == {"scan", "dial", "discover", "subscribe", "publish", "login", "await",
               "loginOk", "loginFailed", "stranded"}
Labels == {"idle", "lockSend", "write", "dLock", "dUnsub", "dDrop", "exit"} \cup Connecting
Links == 0..MaxLinks

TypeOK ==
  /\ pc \in [Procs -> Labels]
  /\ call \in [Procs -> {"none", "connect", "send", "close"}]
  /\ next \in [Procs -> {"idle", "scan", "exit"}]
  /\ handle \in [Procs -> Links]
  /\ tries \in [Procs -> 0..2]
  /\ sendMu \in Callers \cup {"none"}
  /\ mu \in {"free", "notify"}
  /\ connected \in BOOLEAN /\ loggedIn \in BOOLEAN
  /\ device \in Links /\ rootCtx \in BOOLEAN
  /\ loginCh \in {"nil", "empty", "ok", "rejected"}
  /\ link \in Links /\ auth \in Links
  /\ subs \subseteq Links
  /\ frames \in Seq(Links \X BOOLEAN)
  /\ notify \in {"wait", "lock", "update", "callback"}
  /\ frame \in Links \X BOOLEAN
  /\ unsubWaits \in BOOLEAN /\ cancelled \in BOOLEAN
  /\ links \in Links /\ calls \in 0..MaxCalls

Init ==
  /\ pc = [p \in Procs |-> "idle"]
  /\ call = [p \in Procs |-> "none"]
  /\ next = [p \in Procs |-> "idle"]
  /\ handle = [p \in Procs |-> 0]
  /\ tries = [p \in Procs |-> 0]
  /\ sendMu = "none" /\ mu = "free"
  /\ connected = FALSE /\ loggedIn = FALSE
  /\ device = 0 /\ rootCtx = FALSE /\ loginCh = "nil"
  /\ link = 0 /\ auth = 0 /\ subs = {} /\ frames = <<>>
  /\ notify = "wait" /\ frame = <<0, FALSE>>
  /\ unsubWaits \in BOOLEAN
  /\ cancelled = FALSE /\ links = 0 /\ calls = 0

Goto(p, label) == pc' = [pc EXCEPT ![p] = label]

\* A call of p returns; Send's deferred Unlock runs.
Return(p) ==
  /\ Goto(p, "idle")
  /\ call' = [call EXCEPT ![p] = "none"]
  /\ sendMu' = IF sendMu = p THEN "none" ELSE sendMu

\* The link goes down; what was on its way is lost.
Drop == link' = 0 /\ auth' = 0 /\ frames' = <<>>

-----------------------------------------------------------------------------
(* Calls.  Commands are sent after Connect has returned; Connect and Disconnect *)
(* are called while nothing else is going on, as the manager and blissctl do.  *)

NoCall == \A c \in Callers : pc[c] \in {"idle", "exit"}
OnlySends == \A c \in Callers : pc[c] # "exit" /\ call[c] \in {"none", "send"}

Begin(c, kind, label) ==
  /\ pc[c] = "idle" /\ calls < MaxCalls
  /\ calls' = calls + 1
  /\ call' = [call EXCEPT ![c] = kind]
  /\ Goto(c, label)

Connect ==
  /\ NoCall /\ ~connected
  /\ Begin(Owner, "connect", "scan")
  /\ rootCtx' = TRUE
  /\ UNCHANGED <<next, handle, tries, sendMu, mu, fields, loginCh, radio, subs, notify,
                 frame, unsubWaits, cancelled, links>>

Send(c) ==
  /\ rootCtx /\ OnlySends
  /\ Begin(c, "send", "lockSend")
  /\ UNCHANGED <<next, handle, tries, sendMu, mu, fields, rootCtx, loginCh, radio, subs,
                 notify, frame, unsubWaits, cancelled, links>>

\* The idle disconnect of an on-demand manager, the error path of pollLoop.
Close ==
  /\ NoCall
  /\ Begin(Owner, "close", "dLock")
  /\ next' = [next EXCEPT ![Owner] = "idle"]
  /\ UNCHANGED <<handle, tries, sendMu, mu, fields, rootCtx, loginCh, radio, subs, notify,
                 frame, unsubWaits, cancelled, links>>

\* A caller returns after the cancellation, the owner perhaps with a last Disconnect.
Finish(c) ==
  /\ pc[c] = "idle" /\ cancelled
  /\ Goto(c, IF OnDemand /\ c = Owner THEN "dLock" ELSE "exit")
  /\ next' = [next EXCEPT ![c] = "exit"]
  /\ UNCHANGED <<call, handle, tries, sendMu, mu, fields, rootCtx, loginCh, radio, subs,
                 notify, frame, unsubWaits, cancelled, links, calls>>

\* Bridge.Run: after the cancellation the blind is disconnected once.
ShutDown ==
  /\ pc[Shutdown] = "idle" /\ cancelled
  /\ Goto(Shutdown, "dLock")
  /\ next' = [next EXCEPT ![Shutdown] = "exit"]
  /\ UNCHANGED <<call, handle, tries, sendMu, mu, fields, rootCtx, loginCh, radio, subs,
                 notify, frame, unsubWaits, cancelled, links, calls>>

Cancel ==
  /\ ~cancelled
  /\ cancelled' = TRUE
  /\ UNCHANGED <<threads, sendMu, mu, fields, rootCtx, loginCh, radio, subs, notify, frame,
                 unsubWaits, links, calls>>

-----------------------------------------------------------------------------
(* Disconnect: the fields under mu, then the library calls without it.        *)

\* What Disconnect does under the lock; the device handle itself stays behind.
ForgetLink ==
  connected' = FALSE /\ loggedIn' = FALSE /\ UNCHANGED device

\* Disconnect returns to whatever called it.
Resume(p) ==
  IF next[p] = "idle" THEN Return(p) ELSE Goto(p, next[p]) /\ UNCHANGED <<call, sendMu>>

DisconnectFields(p) ==
  /\ pc[p] = "dLock" /\ mu = "free"
  /\ ForgetLink
  /\ IF connected
     THEN /\ handle' = [handle EXCEPT ![p] = device]
          /\ Goto(p, "dUnsub")
          /\ UNCHANGED <<call, sendMu>>
     ELSE Resume(p) /\ UNCHANGED handle
  /\ UNCHANGED <<next, tries, mu, rootCtx, loginCh, radio, subs, notify, frame, unsubWaits,
                 cancelled, links, calls>>

\* respChar.EnableNotifications(nil)
Unsubscribe(p) ==
  /\ pc[p] = "dUnsub"
  /\ unsubWaits => notify = "wait"
  /\ subs' = subs \ {handle[p]}
  /\ Goto(p, "dDrop")
  /\ UNCHANGED <<call, next, handle, tries, sendMu, mu, fields, rootCtx, loginCh, radio,
                 notify, frame, unsubWaits, cancelled, links, calls>>

\* device.Disconnect: the handle names the blind, so whatever link it has goes.
DeviceDisconnect(p) ==
  /\ pc[p] = "dDrop"
  /\ Drop
  /\ handle' = [handle EXCEPT ![p] = 0]
  /\ Resume(p)
  /\ UNCHANGED <<next, tries, mu, fields, rootCtx, loginCh, subs, notify, frame,
                 unsubWaits, cancelled, links, calls>>

-----------------------------------------------------------------------------
(* connectOnce.  `Fails' is an early return with an error after the link came *)
(* up but before the client's fields know of it.                              *)

Fails(p) == Drop /\ handle' = [handle EXCEPT ![p] = 0] /\ Return(p)

\* Enable, ParseMAC and scan.  A scan that has not ended when the context is
\* cancelled fails, or it never returns: cancelled before its discovery began, it waits
\* for ever for that to end, or for ScanMutex behind one that does (module Scan, run
\* scan_cancel).  A scan takes long enough for a notification that was being handled
\* when the last link was torn down to be through.
ScanStep(p) ==
  /\ pc[p] = "scan"
  /\ \/ /\ notify = "wait" /\ ~cancelled
        /\ Goto(p, "dial")
        /\ UNCHANGED <<call, sendMu>>
     \/ Return(p)
     \/ cancelled /\ Goto(p, "stranded") /\ UNCHANGED <<call, sendMu>>
  /\ UNCHANGED <<next, handle, tries, mu, fields, rootCtx, loginCh, radio, subs, notify,
                 frame, unsubWaits, cancelled, links, calls>>

\* adapter.Connect: it knows nothing of the context.
Dial(p) ==
  /\ pc[p] = "dial"
  /\ \/ /\ links < MaxLinks
        /\ links' = links + 1
        /\ link' = links' /\ auth' = 0 /\ frames' = <<>>
        /\ handle' = [handle EXCEPT ![p] = links']
        /\ Goto(p, "discover")
        /\ UNCHANGED <<call, sendMu>>
     \/ Return(p) /\ UNCHANGED <<links, radio, handle>>
  /\ UNCHANGED <<next, tries, mu, fields, rootCtx, loginCh, subs, notify, frame,
                 unsubWaits, cancelled, calls>>

Discover(p) ==
  /\ pc[p] = "discover"
  /\ \/ link = handle[p] /\ Goto(p, "subscribe") /\ UNCHANGED <<radio, handle, call, sendMu>>
     \/ Fails(p)
  /\ UNCHANGED <<next, tries, mu, fields, rootCtx, loginCh, subs, notify, frame,
                 unsubWaits, cancelled, links, calls>>

\* A bug: a failed subscription leaves the library's signal watcher behind.
SubscribeNoCleanup(p) ==
  /\ pc[p] = "subscribe"
  /\ subs' = subs \cup {handle[p]}
  /\ \/ link = handle[p] /\ Goto(p, "publish") /\ UNCHANGED <<radio, handle, call, sendMu>>
     \/ Fails(p)
  /\ UNCHANGED <<next, tries, mu, fields, rootCtx, loginCh, notify, frame,
                 unsubWaits, cancelled, links, calls>>

\* respChar.EnableNotifications(b.onNotify); after a failure the half-made
\* subscription is undone.
Subscribe(p) ==
  /\ pc[p] = "subscribe"
  /\ \/ /\ link = handle[p]
        /\ subs' = subs \cup {handle[p]}
        /\ Goto(p, "publish")
        /\ UNCHANGED <<radio, handle, call, sendMu>>
     \/ /\ Fails(p)
        /\ subs' = subs \ {handle[p]}
  /\ UNCHANGED <<next, tries, mu, fields, rootCtx, loginCh, notify, frame,
                 unsubWaits, cancelled, links, calls>>

\* The fields are set under mu.
Publish(p) ==
  /\ pc[p] = "publish" /\ mu = "free"
  /\ device' = handle[p]
  /\ connected' = TRUE
  /\ handle' = [handle EXCEPT ![p] = 0]
  /\ Goto(p, "login")
  /\ UNCHANGED <<call, next, tries, sendMu, mu, loggedIn, rootCtx, loginCh, radio, subs,
                 notify, frame, unsubWaits, cancelled, links, calls>>

\* doLogin: loginCh is made, the login frame is written.  The blind accepts or
\* rejects, says so once, twice or not at all.
Login(p) ==
  /\ pc[p] = "login" /\ mu = "free"
  /\ loginCh' = "empty"
  /\ \/ /\ connected /\ link # 0
        /\ \E ok \in BOOLEAN, n \in 0..2 :
             /\ auth' = IF ok THEN link ELSE auth
             /\ frames' = frames \o [i \in 1..n |-> <<link, ok>>]
        /\ Goto(p, "await")
     \/ /\ ~(connected /\ link # 0)
        /\ Goto(p, "loginFailed")
        /\ UNCHANGED <<auth, frames>>
  /\ UNCHANGED <<call, next, handle, tries, sendMu, mu, fields, rootCtx, link, subs, notify,
                 frame, unsubWaits, cancelled, links, calls>>

\* The select of doLogin: the result, the 3 s timeout or the context.
Await(p) ==
  /\ pc[p] = "await"
  /\ \/ loginCh = "ok" /\ Goto(p, "loginOk")
     \/ Goto(p, "loginFailed")
  /\ UNCHANGED <<call, next, handle, tries, sendMu, mu, fields, rootCtx, loginCh, radio,
                 subs, notify, frame, unsubWaits, cancelled, links, calls>>

\* doLogin's deferred reset of loginCh; then connectOnce returns, to the second
\* write of a Send or to the caller of Connect.
LoginOk(p) ==
  /\ pc[p] = "loginOk" /\ mu = "free"
  /\ loginCh' = "nil"
  /\ IF call[p] = "send" THEN Goto(p, "write") /\ UNCHANGED <<call, sendMu>> ELSE Return(p)
  /\ UNCHANGED <<next, handle, tries, mu, fields, rootCtx, radio, subs, notify, frame,
                 unsubWaits, cancelled, links, calls>>

\* A bug: a failed login leaves the link up.
LoginFailedKeepsLink(p) ==
  /\ pc[p] = "loginFailed" /\ mu = "free"
  /\ loginCh' = "nil"
  /\ Return(p)
  /\ UNCHANGED <<next, handle, tries, mu, fields, rootCtx, radio, subs, notify, frame,
                 unsubWaits, cancelled, links, calls>>

\* The same after an error, with a Disconnect before connectOnce returns.
LoginFailed(p) ==
  /\ pc[p] = "loginFailed" /\ mu = "free"
  /\ loginCh' = "nil"
  /\ Goto(p, "dLock") /\ next' = [next EXCEPT ![p] = "idle"]
  /\ UNCHANGED <<call, handle, tries, sendMu, mu, fields, rootCtx, radio, subs, notify,
                 frame, unsubWaits, cancelled, links, calls>>

-----------------------------------------------------------------------------
(* Send.                                                                      *)

\* A bug: command delivery is not serialized.
LockSendNot(c) ==
  /\ pc[c] = "lockSend"
  /\ sendMu' = c
  /\ tries' = [tries EXCEPT ![c] = 0]
  /\ Goto(c, "write")
  /\ UNCHANGED <<call, next, handle, mu, fields, rootCtx, loginCh, radio, subs, notify,
                 frame, unsubWaits, cancelled, links, calls>>

LockSend(c) ==
  /\ pc[c] = "lockSend" /\ sendMu = "none"
  /\ sendMu' = c
  /\ tries' = [tries EXCEPT ![c] = 0]
  /\ Goto(c, "write")
  /\ UNCHANGED <<call, next, handle, mu, fields, rootCtx, loginCh, radio, subs, notify,
                 frame, unsubWaits, cancelled, links, calls>>

\* writeRaw reaches the blind.
WriteOk(c) == pc[c] = "write" /\ connected /\ link # 0

\* A write succeeds, or it is the second one that fails, or the context is
\* cancelled: Send returns.  Otherwise reconnect: Disconnect, then connectOnce.
\* A write can fail although the link is up.
Write(c) ==
  /\ pc[c] = "write" /\ mu = "free"
  /\ tries' = [tries EXCEPT ![c] = @ + 1]
  /\ \/ /\ WriteOk(c) \/ tries[c] = 1 \/ cancelled
        /\ Return(c)
        /\ UNCHANGED next
     \/ /\ tries[c] = 0 /\ ~cancelled
        /\ Goto(c, "dLock") /\ next' = [next EXCEPT ![c] = "scan"]
        /\ UNCHANGED <<call, sendMu>>
  /\ UNCHANGED <<handle, mu, fields, rootCtx, loginCh, radio, subs, notify, frame,
                 unsubWaits, cancelled, links, calls>>

-----------------------------------------------------------------------------
(* The notification goroutine and the radio.                                  *)

\* A subscribed frame is handed to onNotify; any other is dropped.
Deliver ==
  /\ notify = "wait" /\ frames # <<>>
  /\ frames' = Tail(frames)
  /\ IF Head(frames)[1] \in subs
     THEN frame' = Head(frames) /\ notify' = "lock"
     ELSE UNCHANGED <<frame, notify>>
  /\ UNCHANGED <<threads, sendMu, mu, fields, rootCtx, loginCh, link, auth, subs,
                 unsubWaits, cancelled, links, calls>>

NotifyLock ==
  /\ notify = "lock" /\ mu = "free"
  /\ mu' = "notify" /\ notify' = "update"
  /\ UNCHANGED <<threads, sendMu, fields, rootCtx, loginCh, radio, subs, frame, unsubWaits,
                 cancelled, links, calls>>

Verdict == IF frame[2] THEN "ok" ELSE "rejected"

\* A bug: the result is sent to loginCh without a default case.
LoginResultBlocking ==
  /\ loginCh \in {"nil", "empty"}
  /\ loginCh' = IF loginCh = "empty" THEN Verdict ELSE loginCh

\* The result goes to whoever waits in doLogin; it is dropped when nobody does, or
\* when the channel is full.
LoginResult == loginCh' = IF loginCh = "empty" THEN Verdict ELSE loginCh

\* applyEvent and the send to loginCh, under mu.
NotifyUpdate ==
  /\ notify = "update"
  /\ loggedIn' = frame[2]
  /\ LoginResult
  /\ mu' = "free" /\ notify' = "callback"
  /\ UNCHANGED <<threads, sendMu, connected, device, rootCtx, radio, subs,
                 frame, unsubWaits, cancelled, links, calls>>

\* OnEvent's callback runs without mu.
NotifyCallback ==
  /\ notify = "callback"
  /\ notify' = "wait"
  /\ UNCHANGED <<threads, sendMu, mu, fields, rootCtx, loginCh, radio, subs, frame,
                 unsubWaits, cancelled, links, calls>>

\* The motor drops the link; nobody is told.
LinkDrop ==
  /\ link # 0
  /\ Drop
  /\ UNCHANGED <<threads, sendMu, mu, fields, rootCtx, loginCh, subs, notify, frame,
                 unsubWaits, cancelled, links, calls>>

-----------------------------------------------------------------------------
ConnectOnce(p) ==
  \/ ScanStep(p) \/ Dial(p) \/ Discover(p) \/ Subscribe(p) \/ Publish(p)
  \/ Login(p) \/ Await(p) \/ LoginOk(p) \/ LoginFailed(p)

Disconnect(p) == DisconnectFields(p) \/ Unsubscribe(p) \/ DeviceDisconnect(p)

Running(p) == Disconnect(p) \/ (p \in Callers /\ (ConnectOnce(p) \/ Write(p)))

OnNotify == NotifyLock \/ NotifyUpdate \/ NotifyCallback

Next ==
  \/ Connect \/ Close
  \/ \E c \in Callers : Send(c) \/ Finish(c) \/ LockSend(c)
  \/ \E p \in Procs : Running(p)
  \/ ShutDown \/ Cancel
  \/ Deliver \/ OnNotify \/ LinkDrop

Spec == Init /\ [][Next]_vars

\* Every goroutine that can go on does; sendMu reaches every waiter.
FairSpec ==
  /\ Spec
  /\ \A p \in Procs : WF_vars(Running(p))
  /\ \A c \in Callers : SF_vars(LockSend(c))
  /\ WF_vars(OnNotify) /\ WF_vars(Deliver)

-----------------------------------------------------------------------------
Quiet == \A p \in Procs : pc[p] \in {"idle", "exit"}

\* A client that is connected while no call is running has logged in, and State()
\* says so: no timeout, rejection or interrupted reconnect leaves it connected
\* with a stale or missing login (connectOnce, doLogin, onNotify).
ConnectedIsLoggedIn == Quiet /\ connected => loggedIn

\* At most one goroutine connects at a time: two commands that both find the link
\* dropped do not both reconnect (sendMu).
OneReconnect ==
  \A p, q \in Procs : pc[p] \in Connecting /\ pc[q] \in Connecting => p = q

\* A command reaches the blind only over a link on which the login was accepted,
\* also right after a failed or interrupted reconnect (Send, connectOnce).
CommandsAreLoggedIn ==
  [][\A c \in Callers : WriteOk(c) /\ pc'[c] # "write" => auth = link]_vars

\* When no call is running, the only subscription is that of the connected
\* device: no reconnect leaks one (comment of Disconnect).
NoLeakedSubscription == Quiet => subs = IF connected THEN {device} ELSE {}

\* When no call is running, a link that is up belongs to a client that knows it,
\* and no link is dialled while another is still up: no error path of connectOnce,
\* no failed Send and no interrupted login forgets one.
NoForgottenLink ==
  /\ Quiet /\ link # 0 => connected /\ device = link
  /\ \A p \in Procs : pc[p] = "dial" => link = 0

\* One goroutine at a time makes a link, and whatever it made is known or undone.
LinksAccounted == OneReconnect /\ NoLeakedSubscription /\ NoForgottenLink

\* After Run has returned, no link is left (comment of Bridge.Run: on shutdown it
\* drops the BLE links).
NoLinkAfterShutdown == (\A p \in Procs : pc[p] = "exit") => link = 0

\* A call that waits for ever: in a cancelled scan, or for sendMu behind a Send that does.
Stranded(p) ==
  \/ pc[p] = "stranded"
  \/ pc[p] = "lockSend" /\ sendMu # "none" /\ pc[sendMu] = "stranded"

\* Every call returns, whatever the blind does or fails to do (doLogin's timeout, locks
\* that are not held across library calls), except one stranded by the cancellation.
CallsReturn ==
  \A c \in Callers :
    pc[c] \notin {"idle", "exit"} ~> pc[c] \in {"idle", "exit"} \/ Stranded(c)

\* onNotify always comes back to the library: nothing it does can block, a login
\* result nobody waits for included.
NotifyReturns == notify # "wait" ~> notify = "wait"

\* Calls into the client and notifications never wait for each other for ever.  The one
\* thing a call may wait for in vain is the discovery of a scan that was cancelled.
EverythingReturns == CallsReturn /\ NotifyReturns
=============================================================================
