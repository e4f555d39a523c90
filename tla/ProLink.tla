------------------------------ MODULE ProLink ------------------------------
(***************************************************************************)
(* Pairing with the Hue Bridge Pro and following it across power cycles    *)
(* and address changes: autoPairPro (cmd/relume-tv/main.go), proWatcher    *)
(* (cmd/relume-tv/pro.go), the Pairer and the discovery                    *)
(* (internal/bridgepro).                                                   *)
(*                                                                         *)
(* One goroutine takes every step: it pairs, and then watches.  Between    *)
(* any two of its steps the bridges on the network may lose power, come    *)
(* back at another address, or be given the address another one had.  A    *)
(* pairing is [id, host, cert, key]: the discovery id of a bridge, an      *)
(* address, the bridge whose certificate is pinned and the bridge that     *)
(* issued the app key.                                                     *)
(***************************************************************************)
EXTENDS Naturals

CONSTANTS
  Bridges,    \* the Hue bridges on the network
  Pros,       \* those that are a Hue Bridge Pro (modelid BSB003)
  Hosts,      \* addresses
  Off,        \* the address of a bridge without power
  None,       \* no pairing, no provider
  Nobody,     \* no bridge
  MaxFaults   \* bound on lost answers, busy answers and failing saves

ASSUME LinkAssumption ==
  /\ Pros \subseteq Bridges
  /\ Off \notin Hosts /\ Nobody \notin Bridges
  /\ None \notin [id : Bridges, host : Hosts,
                  cert : Bridges \cup {Nobody}, key : Bridges \cup {Nobody}]
  /\ MaxFaults \in Nat

VARIABLES
  addr,       \* the address of each bridge
  pc,         \* where the link goroutine is
  cand,       \* the pairing it is putting together
  cfgPro,     \* cfg.Pro
  persist,    \* cfg.persist
  provider,   \* the pairing of the light provider of the server
  reachable,  \* what the last tick reported
  throttled,  \* the last discovery is younger than discoverThrottle
  dropped,    \* history: a failing save kept the provider from being swapped
  faults

vars == <<addr, pc, cand, cfgPro, persist, provider, reachable, throttled, dropped, faults>>
netVars == <<addr, faults>>

Pairing == [id : Bridges, host : Hosts,
            cert : Bridges \cup {Nobody}, key : Bridges \cup {Nobody}]

(* No two bridges share an address.                                        *)
Addresses ==
  {f \in [Bridges -> Hosts \cup {Off}] :
     \A b, c \in Bridges : f[b] = f[c] /\ f[b] # Off => b = c}

(* A fresh install, or one paired earlier at an address that may be stale. *)
Init ==
  /\ addr \in Addresses
  /\ cfgPro \in {None} \cup {[id |-> p, host |-> h, cert |-> p, key |-> p] :
                               p \in Pros, h \in Hosts}
  /\ pc = IF cfgPro = None THEN "select" ELSE "watch"
  /\ persist = (cfgPro # None)
  /\ provider = cfgPro
  /\ cand = None
  /\ reachable = FALSE /\ throttled = FALSE /\ dropped = FALSE
  /\ faults = 0

-----------------------------------------------------------------------------
(* What a pairing reaches.                                                 *)

(* newHTTPClient: a connection is made only to the pinned bridge.          *)
Pinned(p) == p.cert # Nobody /\ addr[p.cert] = p.host

(* BridgeInfo succeeds: the pinned bridge answers and knows the app key.   *)
Healthy(p) == Pinned(p) /\ p.key = p.cert

(* An answer may be lost, or be the 503 of a bridge whose queue is full.   *)
Fault == faults < MaxFaults /\ faults' = faults + 1

-----------------------------------------------------------------------------
(* autoPairPro.                                                            *)

(* selectProForPairing: the first discovered bridge that is a Pro.  While  *)
(* there is none the loop tries again.                                     *)
SelectPro(b) ==
  /\ pc = "select"
  /\ b \in Pros /\ addr[b] # Off
  /\ cand' = [id |-> b, host |-> addr[b], cert |-> Nobody, key |-> Nobody]
  /\ pc' = "pin"
  /\ UNCHANGED <<netVars, cfgPro, persist, provider, reachable, throttled, dropped>>

(* pinProShell: the certificate of whoever answers at the address.  The    *)
(* loop never discovers again.                                             *)
PinProShell(b) ==
  /\ pc = "pin"
  /\ addr[b] = cand.host
  /\ cand' = [cand EXCEPT !.cert = b]
  /\ pc' = "button"
  /\ UNCHANGED <<netVars, cfgPro, persist, provider, reachable, throttled, dropped>>

(* WaitForLinkButton: the pinned bridge issues the keys once its button is *)
(* pressed.  The user presses the button of a Pro.                         *)
LinkButton ==
  /\ pc = "button"
  /\ Pinned(cand) /\ cand.cert \in Pros
  /\ cand' = [cand EXCEPT !.key = cand.cert]
  /\ pc' = "store"
  /\ UNCHANGED <<netVars, cfgPro, persist, provider, reachable, throttled, dropped>>

-----------------------------------------------------------------------------
(* proWatcher.tick.                                                        *)

Report(b) ==
  /\ reachable' = b
  /\ pc' = "watch"

(* The health check succeeds, or the Pro is busy: nothing is touched.      *)
CheckOK ==
  /\ pc = "watch"
  /\ \/ Healthy(cfgPro) /\ UNCHANGED faults
     \/ Pinned(cfgPro) /\ Fault
  /\ Report(TRUE)
  /\ UNCHANGED <<addr, cand, cfgPro, persist, provider, throttled, dropped>>

(* The health check fails.  A throttled tick ends here.                    *)
CheckFails ==
  /\ pc = "watch"
  /\ \/ ~Healthy(cfgPro) /\ UNCHANGED faults
     \/ Fault
  /\ \/ throttled /\ Report(FALSE) /\ UNCHANGED <<throttled, cand>>
     \/ /\ ~throttled
        /\ throttled' = TRUE
        /\ cand' = cfgPro
        /\ pc' = "resolve"
        /\ UNCHANGED reachable
  /\ UNCHANGED <<addr, cfgPro, persist, provider, dropped>>

(* A later step of the tick fails.                                         *)
GiveUp(step) ==
  /\ pc = step
  /\ Report(FALSE)
  /\ cand' = None
  /\ UNCHANGED <<addr, cfgPro, persist, provider, throttled, dropped>>

(* Mutant: the first bridge that answers is taken for the stored one.      *)
AnyBridge(b) == addr[b] # Off

(* resolveProHost: only the bridge with the stored discovery id counts.    *)
Matches(b) == b = cand.id /\ addr[b] # Off

ResolveProHost(b) ==
  /\ pc = "resolve"
  /\ Matches(b)
  /\ cand' = [cand EXCEPT !.host = addr[b], !.id = b]
  /\ pc' = "fingerprint"
  /\ UNCHANGED <<netVars, cfgPro, persist, provider, reachable, throttled, dropped>>

NotDiscovered ==
  /\ GiveUp("resolve")
  /\ \/ addr[cand.id] = Off /\ UNCHANGED faults
     \/ Fault

(* reconnectProConfig: the stored keys with the new address and            *)
(* certificate.                                                            *)
ReconnectProConfig(b) == [cand EXCEPT !.cert = b]

(* fetchFingerprint of whoever answers at the address.                     *)
FetchFingerprint(b) ==
  /\ pc = "fingerprint"
  /\ addr[b] = cand.host
  /\ cand' = ReconnectProConfig(b)
  /\ pc' = "recheck"
  /\ UNCHANGED <<netVars, cfgPro, persist, provider, reachable, throttled, dropped>>

NoFingerprint ==
  /\ GiveUp("fingerprint")
  /\ \/ (\A b \in Bridges : addr[b] # cand.host) /\ UNCHANGED faults
     \/ Fault

(* Mutant: a busy bridge passes the second health check too.               *)
BusyPasses == Pinned(cand)

(* The second health check: any error, a busy answer included, ends the    *)
(* tick.  It presents the stored key to the bridge just pinned, whichever  *)
(* that is.                                                                *)
Accepted == Healthy(cand)

Recheck ==
  /\ pc = "recheck"
  /\ Accepted
  /\ pc' = "store"
  /\ UNCHANGED <<netVars, cand, cfgPro, persist, provider, reachable, throttled, dropped>>

RecheckFails ==
  /\ GiveUp("recheck")
  /\ \/ ~Accepted /\ UNCHANGED faults
     \/ Fault

-----------------------------------------------------------------------------
(* Both: SetPro, and then the new provider.                                *)
SetPro ==
  /\ pc = "store"
  /\ cfgPro' = cand
  /\ pc' = "apply"
  /\ UNCHANGED <<netVars, cand, persist, provider, reachable, throttled, dropped>>

(* SetPro changes memory and fails to write the file: the tick reports an  *)
(* error and the provider is not swapped, now or later.  (autoPairPro runs *)
(* before anything is written, so this is the watcher.)                    *)
SetProFails ==
  /\ pc = "store" /\ persist
  /\ Fault
  /\ cfgPro' = cand
  /\ cand' = None
  /\ dropped' = TRUE
  /\ Report(FALSE)
  /\ UNCHANGED <<addr, persist, provider, throttled>>

ApplyProvider ==
  /\ pc = "apply"
  /\ provider' = cfgPro
  /\ cand' = None
  /\ dropped' = FALSE
  /\ Report(TRUE)
  /\ UNCHANGED <<netVars, cfgPro, persist, throttled>>

(* The wizard commits the configuration.                                   *)
Commit ==
  /\ cfgPro # None /\ pc = "watch" /\ ~persist
  /\ persist' = TRUE
  /\ UNCHANGED <<netVars, pc, cand, cfgPro, provider, reachable, throttled, dropped>>

ThrottleElapses ==
  /\ throttled /\ pc = "watch"
  /\ throttled' = FALSE
  /\ UNCHANGED <<netVars, pc, cand, cfgPro, persist, provider, reachable, dropped>>

(* A bridge loses power, or gets an address that is free.                  *)
Move(b, h) ==
  /\ addr[b] # h
  /\ h = Off \/ \A c \in Bridges : addr[c] # h
  /\ addr' = [addr EXCEPT ![b] = h]
  /\ UNCHANGED <<pc, cand, cfgPro, persist, provider, reachable, throttled, dropped, faults>>

Link ==
  \/ \E b \in Bridges : SelectPro(b) \/ PinProShell(b)
  \/ LinkButton
  \/ CheckOK \/ CheckFails
  \/ \E b \in Bridges : ResolveProHost(b) \/ FetchFingerprint(b)
  \/ NotDiscovered \/ NoFingerprint
  \/ Recheck \/ RecheckFails
  \/ SetPro \/ SetProFails \/ ApplyProvider

Next ==
  \/ Link
  \/ Commit \/ ThrottleElapses
  \/ \E b \in Bridges, h \in Hosts \cup {Off} : Move(b, h)

Spec == Init /\ [][Next]_vars

(* The goroutine keeps running and time passes.                            *)
FairSpec == Spec /\ WF_vars(Link) /\ WF_vars(ThrottleElapses)

-----------------------------------------------------------------------------
TypeOK ==
  /\ addr \in Addresses
  /\ pc \in {"select", "pin", "button", "watch", "resolve", "fingerprint", "recheck",
             "store", "apply"}
  /\ cand \in Pairing \cup {None} /\ cfgPro \in Pairing \cup {None}
  /\ provider \in Pairing \cup {None}
  /\ persist \in BOOLEAN /\ reachable \in BOOLEAN
  /\ throttled \in BOOLEAN /\ dropped \in BOOLEAN
  /\ faults \in 0 .. MaxFaults

(* In what is stored and in what the provider uses, the pinned certificate *)
(* is that of the bridge that issued the key, even when addresses are      *)
(* reassigned between discovery, certificate fetch and health check.  (The *)
(* health check of a candidate that turns out not to fit does send the key *)
(* to a bridge that never issued it, pro.go:314: state "recheck".)         *)
CredentialsFit ==
  \A p \in {cfgPro, provider} \ {None} : p.key = p.cert /\ p.key # Nobody

(* A reconnection changes the address of the stored pairing and nothing    *)
(* else: whichever bridges are discovered, answer or take over addresses   *)
(* during a tick, the watcher keeps the identity, the certificate and the  *)
(* key of the Pro that was paired, takes over no other bridge, and needs   *)
(* no button again.                                                        *)
OnlyAddressMoves ==
  [][cfgPro # None => cfgPro' # None /\ cfgPro' = [cfgPro EXCEPT !.host = cfgPro'.host]]_vars

(* A paired Pro that stays at some address from some moment on is found    *)
(* there without a new button press: the watcher reports it reachable, the *)
(* stored address is the current one, and the provider uses it unless a    *)
(* failing save kept the provider from being swapped.                      *)
FollowsPro ==
  \A p \in Pros, h \in Hosts :
    <>[](cfgPro # None /\ cfgPro.id = p /\ cfgPro.key = p /\ addr[p] = h)
      => <>[](/\ reachable /\ cfgPro.host = h
              /\ provider = cfgPro \/ dropped)
=============================================================================
