--------------------------- MODULE MdnsPublisher ---------------------------
(***************************************************************************)
(* The mDNS publisher of the desktop service, mdns_discovery.rs, and the     *)
(* network watcher it owns, network_events.rs.                             *)
(*                                                                         *)
(* The daemon reads the machine's addresses when it is published (its own    *)
(* polling is turned off), so every network change has to be answered by a   *)
(* new daemon.  Windows reports a change by calling back into a context that *)
(* the watcher allocates by hand, on threads of its own; the callback bumps  *)
(* a watch channel that the publisher awaits.                              *)
(*                                                                         *)
(* A state of the network is its number: that of the last change since the   *)
(* publisher was spawned; earlier and later ones change nothing for it.      *)
(* Service composes the publisher with the runtime it lives in.            *)
(***************************************************************************)
EXTENDS Naturals

CONSTANTS MaxChanges    \* bound: network changes in a publisher's life

ASSUME MaxChangesAssumption == MaxChanges \in Nat

VARIABLES
    publisher,    \* the task: where it is; "off" before and "over" after it
    outcome,      \* how it ends
    network,      \* the network's state
    advertised,   \* the state the daemon was published with
    told,         \* the last state a registered callback was called for
    registered,   \* the notifications the watcher has registered and not tried to cancel
    leaked,       \* those whose cancellation failed: Windows calls back all the same
    context,      \* CallbackContext: "none", "live" or "freed"
    callback,     \* kind of notification -> where its callback is
    current,      \* kind of notification -> what its callback has borrowed
    value,        \* the value in the watch channel
    version,      \* its version: what changed() goes by
    seen          \* the version the publisher's receiver has seen

channelVars == <<value, version>>
callbackVars == <<callback, current>>
watcherVars == <<registered, leaked, context>>
publisherVars == <<publisher, outcome, advertised, seen>>
mdnsVars == <<publisherVars, network, told, watcherVars, callbackVars, channelVars>>

Kinds == {"interface", "address"}

MdnsInit ==
    /\ publisher = "off" /\ outcome = "none"
    /\ network = 0 /\ advertised = 0 /\ told = 0
    /\ registered = {} /\ leaked = {} /\ context = "none"
    /\ callback = [k \in Kinds |-> "idle"] /\ current = [k \in Kinds |-> 0]
    /\ value = 0 /\ version = 0 /\ seen = 0

\* The task is spawned; run makes a channel of its own.  What an earlier watcher has
\* leaked calls back into that one's context, and nothing of this one's.
SpawnPublisher ==
    /\ publisher' = "publish" /\ outcome' = "none"
    /\ context' = "none" /\ value' = 0 /\ version' = 0 /\ seen' = 0
    /\ network' = 0 /\ advertised' = 0 /\ told' = 0
    /\ leaked' = {}
    /\ callback' = [k \in Kinds |-> "idle"] /\ current' = [k \in Kinds |-> 0]
    /\ UNCHANGED registered

-----------------------------------------------------------------------------
(* Windows and its callbacks                                                *)

\* A change of one kind; nobody hears of it unless Windows has the kind registered.
\* Callbacks of one kind are taken to follow one another.
NetworkChanges(k) ==
    /\ network < MaxChanges /\ (publisher \notin {"off", "over"} \/ k \in leaked)
    /\ callback[k] = "idle"
    /\ network' = network + 1
    /\ IF k \in registered \union leaked
       THEN told' = network + 1 /\ callback' = [callback EXCEPT ![k] = "called"]
       ELSE UNCHANGED <<told, callback>>
    /\ UNCHANGED <<publisherVars, watcherVars, current, channelVars>>

\* notify_network_change: borrow the value ...
CallbackBorrows(k) ==
    /\ callback[k] = "called" /\ context = "live"
    /\ current' = [current EXCEPT ![k] = value]
    /\ callback' = [callback EXCEPT ![k] = "borrowed"]
    /\ UNCHANGED <<publisherVars, network, told, watcherVars, channelVars>>

\* ... and send it incremented; the other callback may have done the same.
CallbackSends(k) ==
    /\ callback[k] = "borrowed" /\ context = "live"
    /\ value' = current[k] + 1
    /\ version' = version + 1
    /\ callback' = [callback EXCEPT ![k] = "idle"] /\ current' = [current EXCEPT ![k] = 0]
    /\ UNCHANGED <<publisherVars, network, told, watcherVars>>

\* What it does with a context that is freed is undefined; of what is modelled here
\* nothing is left that it could change, for the receiver has gone as well.
CallbackUsesFreed(k) ==
    /\ callback[k] # "idle" /\ context = "freed"
    /\ callback' = [callback EXCEPT ![k] = "idle"] /\ current' = [current EXCEPT ![k] = 0]
    /\ UNCHANGED <<publisherVars, network, told, watcherVars, channelVars>>

Callback(k) == CallbackBorrows(k) \/ CallbackSends(k) \/ CallbackUsesFreed(k)

-----------------------------------------------------------------------------
(* The task between two awaits: run, publish, watch_network_changes          *)

Ends(result) == outcome' = result /\ publisher' = IF context = "live" THEN "cancel" ELSE "over"

Publish ==
    /\ publisher = "publish"
    /\ \/ publisher' = "registerInterface" /\ advertised' = network /\ UNCHANGED outcome
       \/ Ends("error") /\ UNCHANGED advertised
    /\ UNCHANGED <<seen, network, told, watcherVars, callbackVars, channelVars>>

\* A registration that fails frees the context at once.
RegisterInterface ==
    /\ publisher = "registerInterface"
    /\ \/ /\ registered' = {"interface"} /\ context' = "live"
          /\ publisher' = "registerAddress" /\ UNCHANGED outcome
       \/ /\ context' = "freed" /\ UNCHANGED registered
          /\ publisher' = "over" /\ outcome' = "error"
    /\ UNCHANGED <<advertised, seen, network, told, leaked, callbackVars, channelVars>>

\* If the second one fails, the first is cancelled before the context goes.
RegisterAddress ==
    /\ publisher = "registerAddress"
    /\ \/ registered' = Kinds /\ publisher' = "select" /\ UNCHANGED outcome
       \/ UNCHANGED registered /\ Ends("error")
    /\ UNCHANGED <<advertised, seen, network, told, leaked, context, callbackVars, channelVars>>

\* shutdown_mdns of the refresh: blocks for two seconds at most.
Unpublish ==
    /\ publisher = "unpublish"
    /\ publisher' = "republish"
    /\ UNCHANGED <<outcome, advertised, seen, network, told, watcherVars, callbackVars, channelVars>>

Republish ==
    /\ publisher = "republish"
    /\ \/ publisher' = "select" /\ advertised' = network /\ UNCHANGED outcome
       \/ Ends("error") /\ UNCHANGED advertised
    /\ UNCHANGED <<seen, network, told, watcherVars, callbackVars, channelVars>>

\* shutdown_mdns of the shutdown.
Farewell ==
    /\ publisher = "farewell"
    /\ Ends("ok")
    /\ UNCHANGED <<advertised, seen, network, told, watcherVars, callbackVars, channelVars>>

\* Drop of the watcher, whatever ended the task, or the failed second registration:
\* CancelMibChangeNotify2 returns when no callback of the notification is running; or
\* it fails, which is logged or ignored ...
CancelNotify(k) ==
    /\ publisher = "cancel" /\ k \in registered
    /\ registered' = registered \ {k}
    /\ \/ callback[k] = "idle" /\ UNCHANGED leaked
       \/ leaked' = leaked \union {k}
    /\ UNCHANGED <<publisherVars, network, told, context, callbackVars, channelVars>>

\* Mutant of FreeContext: it does not wait for the second cancellation.
FreeContextEarly ==
    /\ publisher = "cancel" /\ registered # Kinds
    /\ context' = "freed" /\ publisher' = "over"
    /\ UNCHANGED <<outcome, advertised, seen, network, told, registered, leaked, callbackVars,
                   channelVars>>

\* ... and the context is freed after both, cancelled or not.
FreeContext ==
    /\ publisher = "cancel" /\ registered = {}
    /\ context' = "freed" /\ publisher' = "over"
    /\ UNCHANGED <<outcome, advertised, seen, network, told, registered, leaked, callbackVars,
                   channelVars>>

PublisherRuns ==
    \/ Publish \/ RegisterInterface \/ RegisterAddress
    \/ Unpublish \/ Republish \/ Farewell
    \/ \E k \in Kinds : CancelNotify(k)
    \/ FreeContext

-----------------------------------------------------------------------------
(* The awaits of the loop                                                   *)

SelectShutdown ==
    /\ publisher = "select"
    /\ publisher' = "farewell"
    /\ UNCHANGED <<outcome, advertised, seen, network, told, watcherVars, callbackVars, channelVars>>

\* Mutant of SelectChange: it compares the values.
SelectChangeOfValue ==
    /\ publisher = "select" /\ value # seen
    /\ seen' = value
    /\ publisher' = "debounce"
    /\ UNCHANGED <<outcome, advertised, network, told, watcherVars, callbackVars, channelVars>>

\* changed(): the version counts, not the value.
SelectChange ==
    /\ publisher = "select" /\ version # seen
    /\ seen' = version
    /\ publisher' = "debounce"
    /\ UNCHANGED <<outcome, advertised, network, told, watcherVars, callbackVars, channelVars>>

\* NETWORK_CHANGE_DEBOUNCE is over.
Debounced ==
    /\ publisher = "debounce"
    /\ publisher' = "unpublish"
    /\ UNCHANGED <<outcome, advertised, seen, network, told, watcherVars, callbackVars, channelVars>>

\* The runtime drops the task at the await it is in, or before its first poll; the
\* daemon goes without the farewell of shutdown_mdns.
DropPublisher ==
    /\ publisher \in {"publish", "select", "debounce"}
    /\ Ends("dropped")
    /\ UNCHANGED <<advertised, seen, network, told, watcherVars, callbackVars, channelVars>>

-----------------------------------------------------------------------------
(* Properties                                                               *)

MdnsTypeOK ==
    /\ publisher \in {"off", "publish", "registerInterface", "registerAddress", "select", "debounce",
                      "unpublish", "republish", "farewell", "cancel", "over"}
    /\ outcome \in {"none", "ok", "error", "dropped"}
    /\ network \in 0 .. MaxChanges /\ advertised \in 0 .. network /\ told \in 0 .. network
    /\ registered \subseteq Kinds /\ leaked \subseteq Kinds /\ context \in {"none", "live", "freed"}
    /\ callback \in [Kinds -> {"idle", "called", "borrowed"}]
    /\ current \in [Kinds -> 0 .. MaxChanges]
    /\ value \in 0 .. MaxChanges /\ version \in 0 .. MaxChanges /\ seen \in 0 .. version

\* Whichever way the task ends, no callback of a notification runs, and none can still be
\* called, once the context is freed; but for the notifications that Windows failed to
\* cancel, of which nothing of the kind can be said.
ContextSafe ==
    \A k \in Kinds \ leaked : callback[k] # "idle" \/ k \in registered => context = "live"

\* network_events.rs:24: "The Windows callbacks access the context until both notifications
\* are canceled in Drop": a callback that runs has a context.  It has not if a
\* cancellation failed, for Drop frees the context all the same.
CallbackHasContext == \A k \in Kinds : callback[k] # "idle" => context = "live"

\* A change a callback was called for reaches the advertisement, or the
\* publisher has ended: neither the debounce, nor a refresh in progress, nor
\* two callbacks that send the same value lose it.
ChangeIsPublished ==
    \A n \in 1 .. MaxChanges :
        told = n ~> advertised >= n \/ publisher \in {"cancel", "over"}
=============================================================================
