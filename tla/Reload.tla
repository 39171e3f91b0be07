------------------------------- MODULE Reload -------------------------------
(***************************************************************************)
(* Configuration reload: SIGUSR2 and the management endpoint notify a      *)
(* goroutine (cli.getListeners) that reads the file and passes the options *)
(* to server.Updater, which stores them and applies them to the listeners  *)
(* that have subscribed.  Listeners start concurrently with all of this    *)
(* (cli.runRoot, cli.ListenUDPAndServe).                                   *)
(*                                                                         *)
(* The contents of the configuration file are abstracted to the number of  *)
(* its edit and whether it can be read and parsed.  The authenticator is   *)
(* part of the options a server is created with and is not reloaded.       *)
(***************************************************************************)
EXTENDS Naturals

CONSTANTS
    Listeners,      \* listening addresses, one goroutine and one Server each
    MaxEdits,       \* bound: how often the operator edits the file
    MaxCalls        \* bound: management requests blocked in Notify at once

ASSUME ReloadAssumption == MaxEdits \in Nat /\ MaxCalls \in Nat

VARIABLES
    file,       \* the configuration file: its edit, and whether it is valid
    asked,      \* history: when a reload was last asked for, the edit in the
                \* file and the servers subscribed
    signal,     \* the os.Signal channel, capacity 1, holds a SIGUSR2
    relay,      \* the goroutine of Notifier.subscribe: "wait" or "notify"
    calls,      \* management requests blocked in Notifier.Notify
    notice,     \* Notifier.C, capacity 1, holds a notification
    updater,    \* the reload goroutine: "wait", "read", "set" or "apply"
    options,    \* the options it has parsed
    stored,     \* Updater.v
    listeners,  \* Updater.listeners, the servers that subscribed
    phase,      \* per listener: "start", "created", "serving" or "failed"
    cfg,        \* per listener: the edit its server's config was made from
    auth        \* per listener: its server has an authenticator

vars == <<file, asked, signal, relay, calls, notice, updater, options, stored,
          listeners, phase, cfg, auth>>

operatorVars == <<file, asked>>
notifierVars == <<signal, relay, calls, notice>>
updaterVars == <<updater, options, stored>>
listenerVars == <<listeners, phase, cfg, auth>>

Options == [edit: 0..MaxEdits, auth: BOOLEAN]

\* The options getListeners starts with have the authenticator ...
StartOptions == [edit |-> 0, auth |-> TRUE]

\* ... those made on a reload do not: only parseOptions fills them.
ReloadOptions(e) == [edit |-> e, auth |-> FALSE]

Init ==
    /\ file = [edit |-> 0, valid |-> TRUE] /\ asked = [edit |-> 0, servers |-> {}]
    /\ signal = FALSE /\ relay = "wait" /\ calls = 0 /\ notice = FALSE
    /\ updater = "wait" /\ options = StartOptions /\ stored = StartOptions
    /\ listeners = {}
    /\ phase = [l \in Listeners |-> "start"]
    /\ cfg = [l \in Listeners |-> 0]
    /\ auth = [l \in Listeners |-> TRUE]

-----------------------------------------------------------------------------
(* The operator *)

Edit ==
    /\ file.edit < MaxEdits
    /\ \E v \in BOOLEAN : file' = [edit |-> file.edit + 1, valid |-> v]
    /\ UNCHANGED <<asked, notifierVars, updaterVars, listenerVars>>

\* The runtime delivers without blocking: a full channel drops the signal.
SendSignal ==
    /\ signal' = TRUE
    /\ asked' = [edit |-> file.edit, servers |-> listeners]
    /\ UNCHANGED <<file, relay, calls, notice, updaterVars, listenerVars>>

\* GET /reload: Manager.ServeHTTP calls Notify.
CallReload ==
    /\ calls < MaxCalls
    /\ calls' = calls + 1
    /\ asked' = [edit |-> file.edit, servers |-> listeners]
    /\ UNCHANGED <<file, signal, relay, notice, updaterVars, listenerVars>>

-----------------------------------------------------------------------------
(* reload.Notifier *)

RelaySignal ==
    /\ relay = "wait" /\ signal
    /\ relay' = "notify" /\ signal' = FALSE
    /\ UNCHANGED <<operatorVars, calls, notice, updaterVars, listenerVars>>

\* n.C <- struct{}{}, for the signal goroutine and for a management request.
RelayNotify ==
    /\ relay = "notify" /\ ~notice
    /\ relay' = "wait" /\ notice' = TRUE
    /\ UNCHANGED <<operatorVars, signal, calls, updaterVars, listenerVars>>

\* Faulty variant: a notification nobody asked for.
FaultyCallNotify ==
    /\ ~notice
    /\ calls' = calls - 1 /\ notice' = TRUE
    /\ UNCHANGED <<operatorVars, signal, relay, updaterVars, listenerVars>>

CallNotify ==
    /\ calls > 0 /\ ~notice
    /\ calls' = calls - 1 /\ notice' = TRUE
    /\ UNCHANGED <<operatorVars, signal, relay, updaterVars, listenerVars>>

-----------------------------------------------------------------------------
(* The reload goroutine and server.Updater *)

TakeNotice ==
    /\ updater = "wait" /\ notice
    /\ updater' = "read" /\ notice' = FALSE
    /\ UNCHANGED <<operatorVars, signal, relay, calls, options, stored, listenerVars>>

\* Faulty variant: an invalid file is replaced by the defaults.
FaultyReadConfig ==
    /\ updater = "read"
    /\ updater' = "set"
    /\ options' = ReloadOptions(IF file.valid THEN file.edit ELSE 0)
    /\ UNCHANGED <<operatorVars, notifierVars, stored, listenerVars>>

\* ReadInConfig and parseOptions; an invalid file is logged and left alone.
ReadConfig ==
    /\ updater = "read"
    /\ IF file.valid
       THEN updater' = "set" /\ options' = ReloadOptions(file.edit)
       ELSE updater' = "wait" /\ UNCHANGED options
    /\ UNCHANGED <<operatorVars, notifierVars, stored, listenerVars>>

\* Updater.Set stores the options before it takes the lock ...
SetStore ==
    /\ updater = "set"
    /\ updater' = "apply" /\ stored' = options
    /\ UNCHANGED <<operatorVars, notifierVars, options, listenerVars>>

\* Faulty variant: a notification that came meanwhile is discarded.
FaultySetApply ==
    /\ updater = "apply"
    /\ updater' = "wait" /\ notice' = FALSE
    /\ cfg' = [l \in Listeners |-> IF l \in listeners THEN options.edit ELSE cfg[l]]
    /\ UNCHANGED <<operatorVars, signal, relay, calls, options, stored, listeners, phase, auth>>

\* ... and then applies them to the listeners subscribed by now.
SetApply ==
    /\ updater = "apply"
    /\ updater' = "wait"
    /\ cfg' = [l \in Listeners |-> IF l \in listeners THEN options.edit ELSE cfg[l]]
    /\ UNCHANGED <<operatorVars, notifierVars, options, stored, listeners, phase, auth>>

-----------------------------------------------------------------------------
(* cli.ListenUDPAndServe *)

\* u.Get, the socket and server.New: config and authenticator of that moment.
ListenerCreate(l) ==
    /\ phase[l] = "start"
    /\ phase' = [phase EXCEPT ![l] = "created"]
    /\ cfg' = [cfg EXCEPT ![l] = stored.edit]
    /\ auth' = [auth EXCEPT ![l] = stored.auth]
    /\ UNCHANGED <<operatorVars, notifierVars, updaterVars, listeners>>

\* The socket cannot be opened on an address picked from the interfaces: the
\* goroutine ends with a warning (other errors end the process).
ListenerFail(l) ==
    /\ phase[l] = "start"
    /\ phase' = [phase EXCEPT ![l] = "failed"]
    /\ UNCHANGED <<operatorVars, notifierVars, updaterVars, listeners, cfg, auth>>

ListenerSubscribe(l) ==
    /\ phase[l] = "created"
    /\ phase' = [phase EXCEPT ![l] = "serving"]
    /\ listeners' = listeners \union {l}
    /\ UNCHANGED <<operatorVars, notifierVars, updaterVars, cfg, auth>>

-----------------------------------------------------------------------------
Notifying == RelaySignal \/ RelayNotify \/ CallNotify
Updating == TakeNotice \/ ReadConfig \/ SetStore \/ SetApply
Listening(l) == ListenerCreate(l) \/ ListenerSubscribe(l)

Next ==
    \/ Edit \/ SendSignal \/ CallReload
    \/ Notifying
    \/ Updating
    \/ \E l \in Listeners : Listening(l) \/ ListenerFail(l)

\* The goroutines run; a goroutine blocked on a channel is served in turn, so
\* of the signal relay and the management requests none waits for ever.  The
\* operator need do nothing.
Fairness ==
    /\ WF_vars(RelaySignal) /\ SF_vars(RelayNotify) /\ SF_vars(CallNotify)
    /\ WF_vars(Updating)
    /\ \A l \in Listeners : WF_vars(Listening(l))

Spec == Init /\ [][Next]_vars

FairSpec == Spec /\ Fairness

-----------------------------------------------------------------------------
(* Properties *)

TypeOK ==
    /\ file \in [edit: 0..MaxEdits, valid: BOOLEAN]
    /\ asked \in [edit: 0..MaxEdits, servers: SUBSET Listeners]
    /\ signal \in BOOLEAN /\ relay \in {"wait", "notify"}
    /\ calls \in 0..MaxCalls /\ notice \in BOOLEAN
    /\ updater \in {"wait", "read", "set", "apply"}
    /\ options \in Options /\ stored \in Options
    /\ listeners \subseteq Listeners
    /\ phase \in [Listeners -> {"start", "created", "serving", "failed"}]
    /\ cfg \in [Listeners -> 0..MaxEdits]
    /\ auth \in [Listeners -> BOOLEAN]

\* Although signals coalesce and are dropped, a reload asked for is not lost:
\* while the updater, or a server that had subscribed when it was asked for, does
\* not have the edit that was in the file, a notification is still on its way to
\* the reload goroutine, or the goroutine is about to read the file or has read
\* that edit and has still to apply it.
UpdatePending(e) ==
    \/ signal \/ relay = "notify" \/ calls > 0 \/ notice \/ updater = "read"
    \/ updater \in {"set", "apply"} /\ options.edit >= e

Outdated == asked.edit > stored.edit \/ \E l \in asked.servers : cfg[l] < asked.edit

NoReloadLost ==
    (asked.edit = file.edit /\ file.valid /\ Outdated) => UpdatePending(asked.edit)

\* An edit that a reload was asked for reaches every server that had
\* subscribed, unless the file is broken at some later moment.
ReloadReaches ==
    \A l \in Listeners : \A e \in 1..MaxEdits :
        (l \in asked.servers /\ asked.edit = e /\ file.edit = e)
            ~> (cfg[l] >= e \/ ~file.valid)

\* A server never goes back to the options of an earlier edit: reloads are
\* applied in the order the file was read, and a broken file resets nothing.
ConfigForward == [][\A l \in Listeners : cfg'[l] >= cfg[l]]_vars

(* What the documentation promises and the code does not do *)

\* reload.go: Set "stores new options and notifies all listeners": once it has
\* returned, every serving listener runs the stored options.
ListenersNotified ==
    updater = "wait" => \A l \in listeners : cfg[l] = stored.edit

\* server.go: setOptions "updates subset of current server configuration", and
\* Auth is not in the list: a reload leaves the configured authentication on.
AuthKept == \A l \in listeners : auth[l]

=============================================================================
