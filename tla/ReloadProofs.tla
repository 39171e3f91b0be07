---------------------------- MODULE ReloadProofs ----------------------------
(***************************************************************************)
(* Proofs about Reload: its state is well typed, no reload that was asked  *)
(* for is lost, and no server goes back to an older configuration.         *)
(***************************************************************************)
EXTENDS Reload, TLAPS

\* Edits reach the servers in the order of the file: what a server runs is not
\* newer than what the updater stores, that not newer than what the reload
\* goroutine has read, and that not newer than the file.  While Set applies its
\* options they are the stored ones, so no other Set can have come between, and
\* it reaches every server of the last request, because none unsubscribes.
EditsOrdered ==
    /\ asked.edit <= file.edit
    /\ options.edit <= file.edit
    /\ stored.edit <= options.edit
    /\ updater = "apply" => stored = options
    /\ \A l \in Listeners : cfg[l] <= stored.edit
    /\ asked.servers \subseteq listeners

ReloadInv == TypeOK /\ EditsOrdered /\ NoReloadLost

-----------------------------------------------------------------------------
\* The state in which getListeners begins is well typed.
LEMMA TypeInit == Init => TypeOK
<1> SUFFICES ASSUME Init PROVE TypeOK
  OBVIOUS
<1>1. 0 \in 0..MaxEdits /\ 0 \in 0..MaxCalls
  BY ReloadAssumption
<1>2. file \in [edit: 0..MaxEdits, valid: BOOLEAN] /\ StartOptions \in Options
  BY <1>1 DEF Init, Options, StartOptions
<1>3. asked \in [edit: 0..MaxEdits, servers: SUBSET Listeners]
  BY <1>1 DEF Init
<1> QED
  BY <1>1, <1>2, <1>3 DEF Init, TypeOK

\* Every step of operator, notifier, reload goroutine and listeners keeps the
\* types, the bounds on edits and blocked requests among them.
LEMMA TypeStep == TypeOK /\ [Next]_vars => TypeOK'
<1> SUFFICES ASSUME TypeOK, [Next]_vars PROVE TypeOK'
  OBVIOUS
<1> USE ReloadAssumption DEF TypeOK, Options
<1>1. CASE Edit
  BY <1>1 DEF Edit, notifierVars, updaterVars, listenerVars
<1>2. CASE SendSignal
  BY <1>2 DEF SendSignal, updaterVars, listenerVars
<1>3. CASE CallReload
  BY <1>3 DEF CallReload, updaterVars, listenerVars
<1>4. CASE Notifying
  <2>1. calls' \in 0..MaxCalls
    BY <1>4 DEF Notifying, RelaySignal, RelayNotify, CallNotify
  <2>2. /\ UNCHANGED <<operatorVars, updaterVars, listenerVars>>
        /\ signal' \in BOOLEAN /\ notice' \in BOOLEAN /\ relay' \in {"wait", "notify"}
    BY <1>4 DEF Notifying, RelaySignal, RelayNotify, CallNotify
  <2> QED
    BY <2>1, <2>2 DEF operatorVars, updaterVars, listenerVars
<1>5. CASE TakeNotice \/ SetStore
  BY <1>5 DEF TakeNotice, SetStore, operatorVars, notifierVars, listenerVars
<1>6. CASE ReadConfig
  <2>1. file.edit \in 0..MaxEdits
    OBVIOUS
  <2>2. ReloadOptions(file.edit) \in Options
    BY <2>1 DEF ReloadOptions
  <2>3. options' \in Options /\ updater' \in {"wait", "set"}
    BY <1>6, <2>2, Zenon DEF ReadConfig
  <2> QED
    BY <1>6, <2>3 DEF ReadConfig, operatorVars, notifierVars, listenerVars
<1>7. CASE SetApply
  BY <1>7 DEF SetApply, operatorVars, notifierVars
<1>8. ASSUME NEW l \in Listeners, Listening(l) \/ ListenerFail(l)
      PROVE  TypeOK'
  BY <1>8 DEF Listening, ListenerCreate, ListenerSubscribe, ListenerFail, operatorVars,
              notifierVars, updaterVars
<1>9. CASE UNCHANGED vars
  BY <1>9 DEF vars
<1> QED
  BY <1>1, <1>2, <1>3, <1>4, <1>5, <1>6, <1>7, <1>8, <1>9 DEF Next, Updating

\* The state of the reload machinery stays well typed, for any number of
\* listeners, edits and management requests.
THEOREM ReloadTypeCorrect == Spec => []TypeOK
BY TypeInit, TypeStep, PTL DEF Spec

-----------------------------------------------------------------------------
\* Edits stay in order at every step, whatever is read, stored, applied or
\* created in between.
LEMMA EditsStep == TypeOK /\ EditsOrdered /\ [Next]_vars => EditsOrdered'
<1> SUFFICES ASSUME TypeOK, EditsOrdered, [Next]_vars PROVE EditsOrdered'
  OBVIOUS
<1> USE ReloadAssumption DEF TypeOK, Options, EditsOrdered
<1>1. CASE Edit
  BY <1>1 DEF Edit, notifierVars, updaterVars, listenerVars
<1>2. CASE SendSignal \/ CallReload
  BY <1>2 DEF SendSignal, CallReload, updaterVars, listenerVars
<1>3. CASE Notifying
  BY <1>3 DEF Notifying, RelaySignal, RelayNotify, CallNotify, operatorVars, updaterVars,
              listenerVars
<1>4. CASE TakeNotice
  BY <1>4 DEF TakeNotice, operatorVars, listenerVars
<1>5. CASE ReadConfig
  BY <1>5 DEF ReadConfig, ReloadOptions, operatorVars, notifierVars, listenerVars
<1>6. CASE SetStore
  BY <1>6 DEF SetStore, operatorVars, notifierVars, listenerVars
<1>7. CASE SetApply
  BY <1>7 DEF SetApply, operatorVars, notifierVars
<1>8. ASSUME NEW l \in Listeners, Listening(l) \/ ListenerFail(l)
      PROVE  EditsOrdered'
  BY <1>8 DEF Listening, ListenerCreate, ListenerSubscribe, ListenerFail, operatorVars,
              notifierVars, updaterVars
<1>9. CASE UNCHANGED vars
  BY <1>9 DEF vars
<1> QED
  BY <1>1, <1>2, <1>3, <1>4, <1>5, <1>6, <1>7, <1>8, <1>9 DEF Next, Updating

\* A reload that is asked for stays on its way until it is stored and applied: a
\* coalesced notification is always followed by a reading of the file.
LEMMA PendingStep ==
    TypeOK /\ EditsOrdered /\ NoReloadLost /\ [Next]_vars => NoReloadLost'
<1> SUFFICES ASSUME TypeOK, EditsOrdered, NoReloadLost, [Next]_vars PROVE NoReloadLost'
  OBVIOUS
<1> USE ReloadAssumption DEF TypeOK, Options, EditsOrdered, NoReloadLost, UpdatePending, Outdated
<1>1. CASE Edit
  BY <1>1 DEF Edit
<1>2. CASE SendSignal \/ CallReload
  BY <1>2 DEF SendSignal, CallReload
<1>3. CASE Notifying
  BY <1>3 DEF Notifying, RelaySignal, RelayNotify, CallNotify, operatorVars, updaterVars
<1>4. CASE TakeNotice
  BY <1>4 DEF TakeNotice, operatorVars
<1>5. CASE ReadConfig
  BY <1>5 DEF ReadConfig, ReloadOptions, operatorVars, notifierVars
<1>6. CASE SetStore
  BY <1>6 DEF SetStore, operatorVars, notifierVars
<1>7. CASE SetApply
  BY <1>7 DEF SetApply, operatorVars, notifierVars
<1>8. ASSUME NEW l \in Listeners, Listening(l) \/ ListenerFail(l)
      PROVE  NoReloadLost'
  BY <1>8 DEF Listening, ListenerCreate, ListenerSubscribe, ListenerFail, operatorVars,
              notifierVars, updaterVars
<1>9. CASE UNCHANGED vars
  BY <1>9 DEF vars
<1> QED
  BY <1>1, <1>2, <1>3, <1>4, <1>5, <1>6, <1>7, <1>8, <1>9 DEF Next, Updating

\* The invariant holds in every reachable state.
LEMMA ReloadInvariant == Spec => []ReloadInv
<1>1. Init => ReloadInv
  BY TypeInit, ReloadAssumption
     DEF Init, ReloadInv, EditsOrdered, NoReloadLost, Outdated, StartOptions
<1>2. ReloadInv /\ [Next]_vars => ReloadInv'
  BY TypeStep, EditsStep, PendingStep DEF ReloadInv
<1> QED
  BY <1>1, <1>2, PTL DEF Spec

\* A reload asked for is never lost, although signals are dropped while one is
\* pending and notifications share one slot: until its edit is stored, and run by
\* every server that had subscribed, somebody is about to read the file or has
\* read it.
THEOREM ReloadsKept == Spec => []NoReloadLost
<1>1. ReloadInv => NoReloadLost
  BY DEF ReloadInv
<1> QED
  BY <1>1, ReloadInvariant, PTL

\* No server goes back to the options of an earlier edit, neither when Set
\* applies options nor when a listener is created from the stored ones.
THEOREM ConfigsForward == Spec => ConfigForward
<1>1. ReloadInv /\ [Next]_vars => [\A l \in Listeners : cfg'[l] >= cfg[l]]_vars
  <2> SUFFICES ASSUME TypeOK, EditsOrdered, Next, NEW l \in Listeners
               PROVE  cfg'[l] >= cfg[l]
    BY DEF ReloadInv
  <2> USE ReloadAssumption DEF TypeOK, Options, EditsOrdered
  <2>1. CASE SetApply
    BY <2>1 DEF SetApply
  <2>2. ASSUME NEW k \in Listeners, ListenerCreate(k)
        PROVE  cfg'[l] >= cfg[l]
    BY <2>2 DEF ListenerCreate
  <2>3. CASE UNCHANGED cfg
    BY <2>3
  <2>4. SetApply \/ (\E k \in Listeners : ListenerCreate(k)) \/ UNCHANGED cfg
    BY DEF Next, Edit, SendSignal, CallReload, Notifying, RelaySignal, RelayNotify,
           CallNotify, Updating, TakeNotice, ReadConfig, SetStore, Listening,
           ListenerSubscribe, ListenerFail, listenerVars
  <2> QED
    BY <2>1, <2>2, <2>3, <2>4
<1> QED
  BY <1>1, ReloadInvariant, PTL DEF Spec, ConfigForward

=============================================================================
