--------------------------- MODULE ProLinkProofs ---------------------------
(***************************************************************************)
(* The credentials of the Hue Bridge Pro, for every set of bridges and     *)
(* addresses, every reassignment of addresses between any two steps of the *)
(* link goroutine, and every number of faults.                             *)
(***************************************************************************)
EXTENDS ProLink, TLAPS

-----------------------------------------------------------------------------
(* The inductive invariant.                                                *)

(* A pairing whose key was issued by the bridge it is pinned to.           *)
Fits(p) == p.key = p.cert /\ p.key # Nobody

(* The pairing the goroutine is putting together, by where it is.  While   *)
(* it pairs nothing is stored.  A tick starts from the stored pairing and  *)
(* never touches its identity and its key; until the second health check   *)
(* the address and the certificate may be those of any bridge.             *)
CandidateInv ==
  /\ pc \in {"select", "pin", "button"} => cfgPro = None /\ provider = None
  /\ pc \in {"pin", "button", "resolve", "fingerprint", "recheck", "store"}
       => cand \in Pairing
  /\ pc \in {"watch", "resolve", "fingerprint", "recheck", "apply"} => cfgPro \in Pairing
  /\ pc = "store" => Fits(cand)
  /\ pc \in {"resolve", "fingerprint", "recheck", "store"} /\ cfgPro # None
       => cand.id = cfgPro.id /\ cand.key = cfgPro.key

LinkInv == TypeOK /\ CandidateInv /\ CredentialsFit

-----------------------------------------------------------------------------
(* No pairing is the absence of one.                                       *)
LEMMA PairingNotNone == None \notin Pairing
  BY LinkAssumption DEF Pairing

(* The updates of a pairing are pairings.                                  *)
LEMMA PairingUpdates ==
  ASSUME NEW p \in Pairing, NEW b \in Bridges
  PROVE  /\ [p EXCEPT !.cert = b] \in Pairing
         /\ [p EXCEPT !.cert = b].key = p.key /\ [p EXCEPT !.cert = b].id = p.id
         /\ \A h \in Hosts : /\ [p EXCEPT !.host = h, !.id = b] \in Pairing
                             /\ [p EXCEPT !.host = h, !.id = b].key = p.key
                             /\ [p EXCEPT !.host = h, !.id = b].id = b
  BY DEF Pairing

(* A fault stays within its bound.                                         *)
LEMMA FaultType == TypeOK /\ (Fault \/ UNCHANGED faults) => faults' \in 0 .. MaxFaults
  BY LinkAssumption DEF TypeOK, Fault

(* Reassigning a free address keeps the addresses distinct.                *)
LEMMA MoveAddresses ==
  ASSUME TypeOK, NEW b \in Bridges, NEW h \in Hosts \cup {Off}, Move(b, h)
  PROVE  addr' \in Addresses
<1>1. addr' \in [Bridges -> Hosts \cup {Off}]
  BY DEF TypeOK, Addresses, Move
<1>2. ASSUME NEW c \in Bridges, NEW d \in Bridges, addr'[c] = addr'[d], addr'[c] # Off
      PROVE  c = d
  BY <1>2 DEF TypeOK, Addresses, Move
<1>. QED  BY <1>1, <1>2 DEF Addresses

(* At the start nothing is paired, or the stored pairing fits.             *)
LEMMA InitLinkInv == Init => LinkInv
<1>. SUFFICES ASSUME Init PROVE LinkInv
  OBVIOUS
<1>1. cfgPro = None \/ (cfgPro \in Pairing /\ Fits(cfgPro))
  <2>. SUFFICES ASSUME cfgPro # None PROVE cfgPro \in Pairing /\ Fits(cfgPro)
    OBVIOUS
  <2>1. PICK p \in Pros, h \in Hosts : cfgPro = [id |-> p, host |-> h, cert |-> p, key |-> p]
    BY DEF Init
  <2>2. p \in Bridges /\ p # Nobody
    BY LinkAssumption
  <2>. QED  BY <2>1, <2>2 DEF Pairing, Fits
<1>2. provider = cfgPro /\ cand = None /\ pc = IF cfgPro = None THEN "select" ELSE "watch"
  BY DEF Init
<1>3. persist \in BOOLEAN
  BY Zenon DEF Init
<1>4. /\ reachable \in BOOLEAN /\ throttled \in BOOLEAN /\ dropped \in BOOLEAN
      /\ addr \in Addresses
  <2>1. addr \in Addresses /\ reachable = FALSE /\ throttled = FALSE /\ dropped = FALSE
    BY DEF Init
  <2>. QED  BY <2>1
<1>5. faults \in 0 .. MaxFaults
  BY LinkAssumption DEF Init
<1>6. TypeOK
  BY <1>1, <1>2, <1>3, <1>4, <1>5 DEF TypeOK
<1>7. CandidateInv /\ CredentialsFit
  BY <1>1, <1>2 DEF CandidateInv, CredentialsFit, Fits
<1>. QED  BY <1>6, <1>7 DEF LinkInv

(* A tick that ends without a new pairing.                                 *)
LEMMA GiveUpKeeps ==
  ASSUME LinkInv, NEW s \in {"resolve", "fingerprint", "recheck"}, GiveUp(s),
         Fault \/ UNCHANGED faults
  PROVE  LinkInv'
<1>1. TypeOK'
  BY FaultType DEF LinkInv, GiveUp, Report, TypeOK
<1>2. CandidateInv' /\ CredentialsFit'
  BY DEF LinkInv, GiveUp, Report, CandidateInv, CredentialsFit
<1>. QED  BY <1>1, <1>2 DEF LinkInv

(* Every action keeps LinkInv.                                             *)
LEMMA NextLinkInv == LinkInv /\ [Next]_vars => LinkInv'
<1>. SUFFICES ASSUME LinkInv, [Next]_vars PROVE LinkInv'
  OBVIOUS
<1>. USE DEF netVars
<1>a. addr \in [Bridges -> Hosts \cup {Off}]
  BY DEF LinkInv, TypeOK, Addresses
<1>1. ASSUME NEW b \in Bridges, SelectPro(b) PROVE LinkInv'
  <2>1. addr[b] \in Hosts
    BY <1>1, <1>a DEF SelectPro
  <2>2. cand' \in Pairing
    BY <1>1, <2>1 DEF SelectPro, Pairing
  <2>3. TypeOK'
    BY <1>1, <2>2 DEF SelectPro, LinkInv, TypeOK
  <2>. QED
    BY <1>1, <2>2, <2>3 DEF SelectPro, LinkInv, CandidateInv, CredentialsFit
<1>2. ASSUME NEW b \in Bridges, PinProShell(b) PROVE LinkInv'
  <2>1. cand' \in Pairing
    BY <1>2, PairingUpdates DEF PinProShell, LinkInv, CandidateInv
  <2>2. TypeOK'
    BY <1>2, <2>1 DEF PinProShell, LinkInv, TypeOK
  <2>. QED
    BY <1>2, <2>1, <2>2 DEF PinProShell, LinkInv, CandidateInv, CredentialsFit
<1>3. CASE LinkButton
  <2>1. cand \in Pairing /\ cand.cert \in Bridges /\ cand.cert # Nobody /\ cfgPro = None
    BY <1>3, LinkAssumption DEF LinkButton, LinkInv, CandidateInv
  <2>2. cand' \in Pairing /\ Fits(cand')
    BY <1>3, <2>1 DEF LinkButton, Pairing, Fits
  <2>3. TypeOK'
    BY <1>3, <2>2 DEF LinkButton, LinkInv, TypeOK
  <2>. QED
    BY <1>3, <2>1, <2>2, <2>3 DEF LinkButton, LinkInv, CandidateInv, CredentialsFit, Fits
<1>4. CASE CheckOK
  <2>1. TypeOK'
    BY <1>4, FaultType DEF CheckOK, Report, LinkInv, TypeOK
  <2>. QED  BY <1>4, <2>1 DEF CheckOK, Report, LinkInv, CandidateInv, CredentialsFit
<1>5. CASE CheckFails
  <2>1. cfgPro \in Pairing
    BY <1>5 DEF CheckFails, LinkInv, CandidateInv
  <2>2. TypeOK'
    BY <1>5, FaultType DEF CheckFails, Report, LinkInv, TypeOK
  <2>. QED  BY <1>5, <2>1, <2>2 DEF CheckFails, Report, LinkInv, CandidateInv, CredentialsFit
<1>6. ASSUME NEW b \in Bridges, ResolveProHost(b) PROVE LinkInv'
  <2>1. addr[b] \in Hosts
    BY <1>6, <1>a DEF ResolveProHost, Matches
  <2>2. cand' \in Pairing /\ cand'.key = cand.key /\ cand'.id = b
    <3>1. cand \in Pairing /\ cand' = [cand EXCEPT !.host = addr[b], !.id = b]
      BY <1>6 DEF ResolveProHost, LinkInv, CandidateInv
    <3>. QED  BY <2>1, <3>1, PairingUpdates
  <2>3. TypeOK'
    BY <1>6, <2>2 DEF ResolveProHost, LinkInv, TypeOK
  <2>. QED
    BY <1>6, <2>2, <2>3 DEF ResolveProHost, Matches, LinkInv, CandidateInv, CredentialsFit
<1>7. ASSUME NEW b \in Bridges, FetchFingerprint(b) PROVE LinkInv'
  <2>1. cand' \in Pairing /\ cand'.key = cand.key /\ cand'.id = cand.id
    BY <1>7, PairingUpdates DEF FetchFingerprint, ReconnectProConfig, LinkInv, CandidateInv
  <2>2. TypeOK'
    BY <1>7, <2>1 DEF FetchFingerprint, LinkInv, TypeOK
  <2>. QED
    BY <1>7, <2>1, <2>2 DEF FetchFingerprint, LinkInv, CandidateInv, CredentialsFit
<1>8. CASE NotDiscovered \/ NoFingerprint \/ RecheckFails
  BY <1>8, GiveUpKeeps DEF NotDiscovered, NoFingerprint, RecheckFails
<1>9. CASE Recheck
  <2>1. Fits(cand)
    BY <1>9 DEF Recheck, Accepted, Healthy, Pinned, Fits
  <2>2. TypeOK'
    BY <1>9 DEF Recheck, LinkInv, TypeOK
  <2>. QED
    BY <1>9, <2>1, <2>2 DEF Recheck, LinkInv, CandidateInv, CredentialsFit, Fits
<1>10. CASE SetPro
  <2>1. cand \in Pairing /\ Fits(cand) /\ cfgPro' = cand /\ UNCHANGED provider
    BY <1>10 DEF SetPro, LinkInv, CandidateInv
  <2>2. TypeOK'
    BY <1>10, <2>1 DEF SetPro, LinkInv, TypeOK
  <2>3. CandidateInv'
    BY <1>10, <2>1 DEF SetPro, CandidateInv
  <2>4. CredentialsFit'
    BY <2>1 DEF LinkInv, CredentialsFit, Fits
  <2>. QED  BY <2>2, <2>3, <2>4 DEF LinkInv
<1>11. CASE SetProFails
  <2>1. cand \in Pairing /\ Fits(cand) /\ cfgPro' = cand /\ UNCHANGED provider
    BY <1>11 DEF SetProFails, LinkInv, CandidateInv
  <2>2. TypeOK'
    BY <1>11, <2>1, FaultType DEF SetProFails, Report, LinkInv, TypeOK
  <2>3. CandidateInv'
    BY <1>11, <2>1 DEF SetProFails, Report, CandidateInv
  <2>4. CredentialsFit'
    BY <2>1 DEF LinkInv, CredentialsFit, Fits
  <2>. QED  BY <2>2, <2>3, <2>4 DEF LinkInv
<1>12. CASE ApplyProvider
  <2>1. TypeOK'
    BY <1>12 DEF ApplyProvider, Report, LinkInv, TypeOK
  <2>. QED  BY <1>12, <2>1 DEF ApplyProvider, Report, LinkInv, CandidateInv, CredentialsFit
<1>13. CASE Commit
  BY <1>13 DEF Commit, LinkInv, TypeOK, CandidateInv, CredentialsFit
<1>14. CASE ThrottleElapses
  BY <1>14 DEF ThrottleElapses, LinkInv, TypeOK, CandidateInv, CredentialsFit
<1>15. ASSUME NEW b \in Bridges, NEW h \in Hosts \cup {Off}, Move(b, h) PROVE LinkInv'
  <2>1. addr' \in Addresses
    BY <1>15, MoveAddresses DEF LinkInv
  <2>. QED
    BY <1>15, <2>1 DEF Move, LinkInv, TypeOK, CandidateInv, CredentialsFit
<1>16. CASE UNCHANGED vars
  BY <1>16 DEF vars, LinkInv, TypeOK, CandidateInv, CredentialsFit
<1>. QED
  BY <1>1, <1>2, <1>3, <1>4, <1>5, <1>6, <1>7, <1>8, <1>9, <1>10, <1>11, <1>12,
     <1>13, <1>14, <1>15, <1>16 DEF Next, Link

(* LinkInv is inductive, so it holds in every reachable state.             *)
THEOREM LinkInvariant == Spec => []LinkInv
  BY InitLinkInv, NextLinkInv, PTL DEF Spec

(* What is stored and what the provider uses pin the bridge that issued    *)
(* the key, however addresses are reassigned between the discovery, the    *)
(* certificate fetch and the health check of a tick.                       *)
THEOREM CredentialsAlwaysFit == Spec => []CredentialsFit
<1>1. LinkInv => CredentialsFit
  BY DEF LinkInv
<1>. QED  BY <1>1, LinkInvariant, PTL

(* Two pairings of one bridge with one key differ in the address only.     *)
LEMMA SameButHost ==
  ASSUME NEW p \in Pairing, NEW q \in Pairing,
         q.id = p.id, q.cert = p.cert, q.key = p.key
  PROVE  q = [p EXCEPT !.host = q.host]
  BY DEF Pairing

(* Identity, certificate and key of the paired Pro outlive every           *)
(* reconnection, whichever bridges answer meanwhile.                       *)
THEOREM PairingIsForGood == Spec => OnlyAddressMoves
<1>1. LinkInv /\ [Next]_vars
        => [cfgPro # None
              => cfgPro' # None /\ cfgPro' = [cfgPro EXCEPT !.host = cfgPro'.host]]_vars
  <2>. SUFFICES ASSUME LinkInv, Next, cfgPro # None
                PROVE  cfgPro' # None /\ cfgPro' = [cfgPro EXCEPT !.host = cfgPro'.host]
    OBVIOUS
  <2>1. cfgPro \in Pairing /\ Fits(cfgPro)
    BY DEF LinkInv, TypeOK, CredentialsFit, Fits
  <2>2. CASE SetPro \/ SetProFails
    <3>1. /\ cand \in Pairing /\ Fits(cand) /\ cfgPro' = cand
          /\ cand.id = cfgPro.id /\ cand.key = cfgPro.key
      BY <2>2 DEF SetPro, SetProFails, LinkInv, CandidateInv
    <3>2. cand.cert = cfgPro.cert
      BY <2>1, <3>1 DEF Fits
    <3>3. cand = [cfgPro EXCEPT !.host = cand.host]
      BY <2>1, <3>1, <3>2, SameButHost
    <3>. QED  BY <3>1, <3>3, PairingNotNone
  <2>3. CASE ~(SetPro \/ SetProFails)
    <3>1. UNCHANGED cfgPro
      BY <2>3 DEF Next, Link, SelectPro, PinProShell, LinkButton, CheckOK, CheckFails,
         ResolveProHost, FetchFingerprint, NotDiscovered, NoFingerprint, RecheckFails,
         GiveUp, Recheck, ApplyProvider, Commit, ThrottleElapses, Move
    <3>2. cfgPro = [cfgPro EXCEPT !.host = cfgPro.host]
      BY <2>1, SameButHost
    <3>. QED  BY <3>1, <3>2
  <2>. QED  BY <2>2, <2>3
<1>. QED  BY <1>1, LinkInvariant, PTL DEF Spec, OnlyAddressMoves
=============================================================================
