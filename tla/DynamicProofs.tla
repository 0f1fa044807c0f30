--------------------------- MODULE DynamicProofs ----------------------------
(***************************************************************************)
(* Proofs about the two protocols of dynamic/: the deadline guard of a     *)
(* metadata request, for any number of redirects and of addresses per      *)
(* host, and adduce reproduce, for every set of values and any number of   *)
(* printed metrics.                                                        *)
(***************************************************************************)
EXTENDS DeadlineGuard, Reproduce, SequenceTheorems, TLAPS

(***************************************************************************)
(* The deadline guard                                                      *)
(***************************************************************************)
LEMMA GuardInitInv == GuardInit => GuardIInv
  <1> USE ConstantsAssumption
      DEF Hops, Objects, Reopened, Resources, Closed, Blocked, Reasons, Unreached, RawPhase,
          TlsPhase, MinePhase, GuardTypeOK, Transports, TimerHolds, OtherHops, LateInv,
          Unwinding, ActsOnWholeAnswers, LeavesNothingBehind, GuardIInv
  <1> SUFFICES ASSUME GuardInit PROVE GuardIInv
    OBVIOUS
  <1>1. 0 \in Hops /\ 1 \in 1 .. MaxAddresses + 1
    OBVIOUS
  <1>2. GuardTypeOK
    BY <1>1 DEF GuardInit
  <1>3. QED
    BY <1>1, <1>2 DEF GuardInit

(* close() on some of a hop's resources shuts the descriptor they own, and    *)
(* no other hop's; with the connection among them, its sock is unset.         *)
LEMMA CloseMeans ==
  ASSUME GuardTypeOK, NEW h \in Hops, NEW resources, CloseAll(h, resources)
  PROVE  /\ owner' \in [Hops -> Objects \cup {Reopened, Closed}]
         /\ owner'[h] \in {owner[h], Closed}
         /\ owner[h] \in resources \cap Objects => owner'[h] = Closed
         /\ "connection" \in resources /\ h \in bound /\ owner[h] # "raw" => owner'[h] = Closed
         /\ owner[h] \notin resources /\ h \notin bound => owner'[h] = owner[h]
         /\ \A k \in Hops : k # h => owner'[k] = owner[k]
         /\ bound' = IF "connection" \in resources THEN bound \ {h} ELSE bound
  BY DEF CloseAll, AfterClosing, Sockets, Transport, Objects, Reopened, Closed, GuardTypeOK

(* Every step preserves the invariant, one case per action.  The steps that *)
(* change a function of the hops first say what the function becomes.      *)
LEMMA GuardNextInv == GuardIInv /\ [GuardNext]_guardVars => GuardIInv'
  <1> USE ConstantsAssumption
      DEF Hops, Objects, Reopened, Resources, Closed, Blocked, Reasons, flags, threads, Unreached, RawPhase,
          TlsPhase, MinePhase, GuardTypeOK, Transports, TimerHolds, OtherHops, LateInv, Unwinding,
          ActsOnWholeAnswers, LeavesNothingBehind, GuardIInv
  <1>0. SUFFICES ASSUME GuardIInv, [GuardNext]_guardVars PROVE GuardIInv'
    OBVIOUS
  <1>c. ASSUME NEW resources, CloseAll(hop, resources)
        PROVE  /\ owner' \in [Hops -> Objects \cup {Reopened, Closed}]
               /\ owner'[hop] \in {owner[hop], Closed}
               /\ "connection" \in resources /\ hop \in bound /\ owner[hop] # "raw" => owner'[hop] = Closed
               /\ \A k \in Hops : k # hop => owner'[k] = owner[k]
               /\ bound' = IF "connection" \in resources THEN bound \ {hop} ELSE bound
    BY <1>0, <1>c, CloseMeans

  <1>1. CASE Validate
    BY <1>0, <1>1 DEF Validate, Raise
  <1>2. CASE Start
    <2>1. CASE late
      <3>1. /\ expired' = expired \cup {hop} /\ at' = "over" /\ outcome' = "timeout" /\ ~mine
            /\ UNCHANGED <<hop, address, late, finished, attached, threads, owner, bound, mine, cut>>
        BY <1>0, <1>2, <2>1 DEF Start
      <3>2. \A h \in Hops : timer[h] # "armed"
        BY <1>0, <1>2 DEF Start
      <3>3. QED
        BY <1>0, <2>1, <3>1, <3>2
    <2>2. CASE ~late
      <3>1. /\ timer' \in [Hops -> {"none", "armed", "cancelled", "woken", "closing", "ended"}]
            /\ timer'[hop] = "armed"
            /\ \A h \in Hops : h # hop => timer'[h] = timer[h]
        BY <1>0, <1>2, <2>2 DEF Start
      <3>2. /\ at' = "build" /\ at = "start" /\ owner[hop] = Closed /\ hop \notin expired \cup bound
            /\ UNCHANGED <<hop, address, late, flags, attached, seized, owner, bound, mine, cut, outcome>>
        BY <1>0, <1>2, <2>2 DEF Start
      <3>3. hop \notin finished
        BY <1>0, <1>2 DEF Start
      <3>4. QED
        BY <1>0, <2>2, <3>1, <3>2, <3>3
    <2>3. QED
      BY <2>1, <2>2
  <1>3. CASE Build
    <2>1. CASE late \/ hop \in expired
      BY <1>0, <1>3, <2>1 DEF Build, Raise
    <2>2. CASE ~(late \/ hop \in expired)
      BY <1>0, <1>3, <2>2 DEF Build
    <2>3. QED
      BY <2>1, <2>2
  <1>4. CASE Connect
    BY <1>0, <1>4 DEF Connect, Raise
  <1>5. CASE AttachRaw
    <2>1. CASE hop \in expired
      BY <1>0, <1>5, <2>1 DEF AttachRaw, AttachSocket, AfterClosing, Raise
    <2>2. CASE hop \notin expired
      BY <1>0, <1>5, <2>2 DEF AttachRaw, AttachSocket
    <2>3. QED
      BY <2>1, <2>2
  <1>6. CASE Connected
    BY <1>0, <1>6 DEF Connected
  <1>7. CASE ConnectFails
    <2>1. address + 1 \in 1 .. MaxAddresses + 1
      BY <1>0, <1>7 DEF ConnectFails
    <2>2. QED
      BY <1>0, <1>7, <2>1 DEF ConnectFails, DropRaw, AfterClosing
  <1>8. CASE PeerRejected
    BY <1>0, <1>8 DEF PeerRejected, DropRaw, AfterClosing, Raise
  <1>9. CASE Wrap
    <2>1. /\ owner' \in [Hops -> Objects \cup {Reopened, Closed}] /\ owner'[hop] = "tls"
          /\ \A h \in Hops : h # hop => owner'[h] = owner[h]
      BY <1>0, <1>9 DEF Wrap
    <2>2. /\ at = "wrap" /\ owner[hop] = "raw" /\ at' = "attach_tls"
          /\ UNCHANGED <<hop, address, late, flags, attached, threads, bound, mine, cut, outcome>>
      BY <1>9 DEF Wrap
    <2>3. QED
      BY <1>0, <2>1, <2>2
  <1>10. CASE WrapFails
    BY <1>0, <1>10 DEF WrapFails, DropRaw, AfterClosing, Raise
  <1>11. CASE AttachTls
    <2>1. CASE hop \in expired
      BY <1>0, <1>11, <2>1 DEF AttachTls, AttachSocket, AfterClosing, Raise
    <2>2. CASE hop \notin expired
      BY <1>0, <1>11, <2>2 DEF AttachTls, AttachSocket
    <2>3. QED
      BY <2>1, <2>2
  <1>12. CASE ArmHandshake
    <2>1. CASE late
      <3>1. CloseAll(hop, {"connection"})
        BY <1>12, <2>1 DEF ArmHandshake, HandshakeRaises, Raise
      <3>2. /\ at = "arm_handshake" /\ at' = "unwind" /\ outcome' = "timeout"
            /\ UNCHANGED <<hop, address, late, flags, attached, threads, mine, cut>>
        BY <1>12, <2>1 DEF ArmHandshake, HandshakeRaises, Raise
      <3>3. bound' = bound \ {hop} /\ owner'[hop] = Closed
        BY <1>0, <1>c, <3>1, <3>2
      <3>4. QED
        BY <1>0, <1>c, <2>1, <3>1, <3>2, <3>3
    <2>2. CASE ~(late)
      BY <1>0, <1>12, <2>2 DEF ArmHandshake, HandshakeRaises, Raise
    <2>3. QED
      BY <2>1, <2>2
  <1>13. CASE HandshakeDone
    BY <1>0, <1>13 DEF HandshakeDone
  <1>14. CASE HandshakeFails
    <2>1. CloseAll(hop, {"connection"})
      BY <1>14 DEF HandshakeFails, HandshakeRaises
    <2>2. /\ at = "handshake" /\ at' = "unwind" /\ outcome' = "broken"
          /\ UNCHANGED <<hop, address, late, flags, attached, threads, mine, cut>>
      BY <1>14 DEF HandshakeFails, HandshakeRaises, Raise
    <2>3. bound' = bound \ {hop} /\ owner'[hop] = Closed
      BY <1>0, <1>c, <2>1, <2>2
    <2>4. QED
      BY <1>0, <1>c, <2>1, <2>2, <2>3
  <1>15. CASE ArmRead
    BY <1>0, <1>15 DEF ArmRead, Raise
  <1>16. CASE AttachConnection
    <2>1. CASE hop \in expired
      <3>1. CloseAll(hop, {"connection"})
        BY <1>16, <2>1 DEF AttachConnection, Raise
      <3>2. /\ at = "attach_connection" /\ at' = "unwind" /\ outcome' = "timeout"
            /\ mine' = TRUE /\ UNCHANGED <<hop, address, late, flags, attached, threads, cut>>
        BY <1>16, <2>1 DEF AttachConnection, Raise
      <3>3. bound' = bound \ {hop} /\ owner'[hop] = Closed
        BY <1>0, <1>c, <3>1, <3>2
      <3>4. QED
        BY <1>0, <1>c, <2>1, <3>1, <3>2, <3>3
    <2>2. CASE ~(hop \in expired)
      BY <1>0, <1>16, <2>2 DEF AttachConnection, Raise
    <2>3. QED
      BY <2>1, <2>2
  <1>17. CASE Requested
    BY <1>0, <1>17 DEF Requested
  <1>18. CASE HeadersEnd
    BY <1>0, <1>18 DEF HeadersEnd
  <1>19. CASE TransportFails
    BY <1>0, <1>19 DEF TransportFails, Raise
  <1>20. CASE BodyEnds
    BY <1>0, <1>20 DEF BodyEnds
  <1>21. CASE BodyRefused
    BY <1>0, <1>21 DEF BodyRefused, Raise
  <1>22. CASE CheckRequest
    <2>1. CASE ~PastDeadline
      BY <1>0, <1>22, <2>1 DEF CheckRequest, Checked, PastDeadline, Raise
    <2>2. CASE PastDeadline
      <3>1. /\ owner' \in [Hops -> Objects \cup {Reopened, Closed}]
            /\ owner'[hop] \in {owner[hop], Closed}
            /\ \A h \in Hops : h # hop => owner'[h] = owner[h]
            /\ bound' \in {bound, bound \ {hop}}
            /\ owner'[hop] # Closed => hop \in bound'
        <4>1. CloseAll(hop, IF hop \in expired THEN {} ELSE attached[hop])
          BY <1>22, <2>2 DEF CheckRequest, Checked
        <4>2. owner[hop] # "raw" /\ (hop \notin bound => owner[hop] = Closed)
          BY <1>0, <1>22 DEF CheckRequest, Checked
        <4>3. QED
          BY <1>0, <1>c, <4>1, <4>2
      <3>2. /\ at' = "unwind" /\ outcome' = "timeout" /\ expired' = expired \cup {hop}
            /\ UNCHANGED <<hop, address, late, finished, attached, threads, mine, cut>>
        BY <1>0, <1>22, <2>2 DEF CheckRequest, Checked, Raise
      <3>3. late
        BY <1>0, <2>2 DEF PastDeadline
      <3>4. QED
        BY <1>0, <1>22, <3>1, <3>2, <3>3 DEF CheckRequest
    <2>3. QED
      BY <2>1, <2>2
  <1>23. CASE CheckResponse
    <2>1. CASE ~PastDeadline
      BY <1>0, <1>23, <2>1 DEF CheckResponse, MayRedirect, Checked, PastDeadline, Raise
    <2>2. CASE PastDeadline
      <3>1. /\ owner' \in [Hops -> Objects \cup {Reopened, Closed}]
            /\ owner'[hop] \in {owner[hop], Closed}
            /\ \A h \in Hops : h # hop => owner'[h] = owner[h]
            /\ bound' \in {bound, bound \ {hop}}
            /\ owner'[hop] # Closed => hop \in bound'
        <4>1. CloseAll(hop, IF hop \in expired THEN {} ELSE attached[hop])
          BY <1>23, <2>2 DEF CheckResponse, MayRedirect, Checked
        <4>2. owner[hop] # "raw" /\ (hop \notin bound => owner[hop] = Closed)
          BY <1>0, <1>23 DEF CheckResponse, MayRedirect, Checked
        <4>3. QED
          BY <1>0, <1>c, <4>1, <4>2
      <3>2. /\ at' = "unwind" /\ outcome' = "timeout" /\ expired' = expired \cup {hop}
            /\ UNCHANGED <<hop, address, late, finished, attached, threads, mine, cut>>
        BY <1>0, <1>23, <2>2 DEF CheckResponse, MayRedirect, Checked, Raise
      <3>3. late
        BY <1>0, <2>2 DEF PastDeadline
      <3>4. QED
        BY <1>0, <1>23, <3>1, <3>2, <3>3 DEF CheckResponse, MayRedirect
    <2>3. QED
      BY <2>1, <2>2
  <1>24. CASE CheckBody
    <2>1. CASE ~PastDeadline
      BY <1>0, <1>24, <2>1 DEF CheckBody, Checked, PastDeadline, Raise
    <2>2. CASE PastDeadline
      <3>1. /\ owner' \in [Hops -> Objects \cup {Reopened, Closed}]
            /\ owner'[hop] \in {owner[hop], Closed}
            /\ \A h \in Hops : h # hop => owner'[h] = owner[h]
            /\ bound' \in {bound, bound \ {hop}}
            /\ owner'[hop] # Closed => hop \in bound'
        <4>1. CloseAll(hop, IF hop \in expired THEN {} ELSE attached[hop])
          BY <1>24, <2>2 DEF CheckBody, Checked
        <4>2. owner[hop] # "raw" /\ (hop \notin bound => owner[hop] = Closed)
          BY <1>0, <1>24 DEF CheckBody, Checked
        <4>3. QED
          BY <1>0, <1>c, <4>1, <4>2
      <3>2. /\ at' = "unwind" /\ outcome' = "timeout" /\ expired' = expired \cup {hop}
            /\ UNCHANGED <<hop, address, late, finished, attached, threads, mine, cut>>
        BY <1>0, <1>24, <2>2 DEF CheckBody, Checked, Raise
      <3>3. late
        BY <1>0, <2>2 DEF PastDeadline
      <3>4. QED
        BY <1>0, <1>24, <3>1, <3>2, <3>3 DEF CheckBody
    <2>3. QED
      BY <2>1, <2>2
  <1>25. CASE Unwind
    <2>1. /\ timer' \in [Hops -> {"none", "armed", "cancelled", "woken", "closing", "ended"}]
          /\ timer'[hop] # "armed" /\ (timer'[hop] \in {"woken", "closing", "ended"} => late)
          /\ \A h \in Hops : h # hop => timer'[h] = timer[h]
      BY <1>0, <1>25 DEF Unwind, Cancelled
    <2>2. /\ owner' \in [Hops -> Objects \cup {Reopened, Closed}]
          /\ owner'[hop] # Closed => outcome = "timeout"
          /\ \A h \in Hops : h # hop => owner'[h] = owner[h]
          /\ bound' \in {bound, bound \ {hop}}
      <3>1. CloseAll(hop, IF mine THEN {"connection"} ELSE {})
        BY <1>25 DEF Unwind
      <3>2. QED
        <4>1. at = "unwind" /\ bound \subseteq Hops
          BY <1>0, <1>25 DEF Unwind
        <4>2. owner[hop] # Closed /\ outcome # "timeout" => mine /\ hop \in bound /\ owner[hop] # "raw"
          BY <1>0, <4>1
        <4>3. QED
          BY <1>0, <1>c, <3>1, <4>2
    <2>3. /\ attached' \in [Hops -> SUBSET Resources] /\ finished' = finished \cup {hop}
          /\ \A h \in Hops : h # hop => attached'[h] = attached[h]
      BY <1>0, <1>25 DEF Unwind
    <2>4. CASE outcome = "redirect"
      <3>1. /\ hop' = hop + 1 /\ address' = 1 /\ at' = "validate" /\ outcome' = "pending" /\ mine' = FALSE
            /\ UNCHANGED <<late, expired, seized, cut>>
        BY <1>0, <1>25, <2>4 DEF Unwind
      <3>2. hop + 1 \in Hops
        BY <1>0, <1>25, <2>4 DEF Unwind
      <3>3. \A h \in Hops : h < hop + 1 => owner'[h] = Closed /\ timer'[h] # "armed"
        BY <1>0, <1>25, <2>1, <2>2, <2>4 DEF Unwind
      <3>4. \A h \in Hops : h >= hop + 1 => Unreached(h) /\ h \notin finished /\ h # hop
        BY <1>0, <1>25 DEF Unwind
      <3>5. \A h \in Hops : h >= hop + 1 => Unreached(h)'
        BY <1>0, <2>1, <2>2, <2>3, <3>1, <3>4
      <3>6. GuardTypeOK'
        <4>1. hop' \in Hops /\ address' \in 1 .. MaxAddresses + 1
          BY <3>1, <3>2
        <4>2. finished' \subseteq Hops /\ expired' \subseteq Hops /\ bound' \subseteq Hops
          BY <1>0, <2>2, <2>3, <3>1
        <4>3. QED
          BY <1>0, <2>1, <2>2, <2>3, <3>1, <4>1, <4>2
      <3>7. Transports' /\ TimerHolds' /\ Unwinding'
        BY <3>1, <3>2, <3>5
      <3>8. OtherHops'
        BY <1>0, <3>1, <3>2, <3>3, <3>5
      <3>9. LateInv'
        BY <1>0, <2>1, <3>1
      <3>10. ActsOnWholeAnswers' /\ LeavesNothingBehind'
        BY <3>1
      <3>11. QED
        BY <3>6, <3>7, <3>8, <3>9, <3>10
    <2>5. CASE outcome # "redirect"
      <3>1. /\ at' = "over" /\ mine' = FALSE
            /\ outcome' \in {outcome, "timeout"}
            /\ UNCHANGED <<hop, address, late, expired, seized, cut>>
        BY <1>0, <1>25, <2>5 DEF Unwind
      <3>2. \A h \in Hops : timer'[h] # "armed"
        BY <1>0, <2>1
      <3>3. outcome' # "timeout" => \A h \in Hops : owner'[h] = Closed
        BY <1>0, <1>25, <2>2, <2>5, <3>1 DEF Unwind
      <3>4. at = "unwind" /\ outcome # "pending"
        BY <1>0, <1>25 DEF Unwind
      <3>5. GuardTypeOK'
        <4>1. hop' \in Hops /\ address' \in 1 .. MaxAddresses + 1
          BY <1>0, <3>1
        <4>2. /\ finished' \subseteq Hops /\ expired' \subseteq Hops /\ bound' \subseteq Hops
              /\ seized' \in [Hops -> SUBSET Resources]
          BY <1>0, <2>2, <2>3, <3>1
        <4>3. /\ outcome' \in Reasons \cup {"pending", "redirect", "timeout", "ok"}
              /\ late' \in BOOLEAN /\ cut' \in BOOLEAN
          BY <1>0, <3>1
        <4>4. QED
          BY <2>1, <2>2, <2>3, <3>1, <4>1, <4>2, <4>3
      <3>6. Transports' /\ TimerHolds' /\ Unwinding'
        BY <3>1
      <3>7. OtherHops'
        BY <1>0, <2>1, <2>2, <2>3, <3>1
      <3>8. LateInv'
        BY <1>0, <2>1, <3>1
      <3>9. ActsOnWholeAnswers' /\ LeavesNothingBehind'
        BY <1>0, <2>5, <3>1, <3>2, <3>3, <3>4
      <3>10. QED
        BY <3>5, <3>6, <3>7, <3>8, <3>9
    <2>6. QED
      BY <2>4, <2>5
  <1>26. CASE DeadlinePasses
    BY <1>0, <1>26 DEF DeadlinePasses
  <1>27. ASSUME NEW h \in Hops, TimerWakes(h) PROVE GuardIInv'
    BY <1>0, <1>27 DEF TimerWakes
  <1>28. ASSUME NEW h \in Hops, TimerExpires(h) PROVE GuardIInv'
    <2>1. /\ timer' \in [Hops -> {"none", "armed", "cancelled", "woken", "closing", "ended"}]
          /\ timer'[h] = IF h \in finished \cup expired THEN "ended" ELSE "closing"
          /\ \A k \in Hops : k # h => timer'[k] = timer[k]
      BY <1>0, <1>28 DEF TimerExpires
    <2>2. /\ seized' \in [Hops -> SUBSET Resources]
          /\ h \notin finished \cup expired => seized'[h] = attached[h]
          /\ \A k \in Hops : k # h => seized'[k] = seized[k]
      BY <1>0, <1>28 DEF TimerExpires
    <2>3. /\ expired' = IF h \in finished \cup expired THEN expired ELSE expired \cup {h}
          /\ timer[h] = "woken"
          /\ UNCHANGED <<hop, address, at, late, finished, attached, owner, bound, mine, cut, outcome>>
      BY <1>0, <1>28 DEF TimerExpires
    <2>4. QED
      BY <1>0, <2>1, <2>2, <2>3
  <1>29. ASSUME NEW h \in Hops, TimerCloses(h) PROVE GuardIInv'
    <2>1. /\ timer' \in [Hops -> {"none", "armed", "cancelled", "woken", "closing", "ended"}]
          /\ timer[h] = "closing" /\ timer'[h] = "ended"
          /\ \A k \in Hops : k # h => timer'[k] = timer[k]
      BY <1>0, <1>29 DEF TimerCloses
    <2>2. /\ seized' \in [Hops -> SUBSET Resources]
          /\ \A k \in Hops : k # h => seized'[k] = seized[k]
      BY <1>0, <1>29 DEF TimerCloses
    <2>3. /\ owner' \in [Hops -> Objects \cup {Reopened, Closed}]
          /\ owner'[h] \in {owner[h], Closed}
          /\ owner[h] \in seized[h] /\ owner[h] \in Objects => owner'[h] = Closed
          /\ "connection" \in seized[h] /\ h \in bound /\ owner[h] # "raw" => owner'[h] = Closed
          /\ owner[h] \notin seized[h] /\ h \notin bound => owner'[h] = owner[h]
          /\ \A k \in Hops : k # h => owner'[k] = owner[k]
          /\ bound' = IF "connection" \in seized[h] THEN bound \ {h} ELSE bound
      <3>1. CloseAll(h, seized[h])
        BY <1>29 DEF TimerCloses
      <3>2. QED
        BY <1>0, <3>1, CloseMeans
    <2>4. UNCHANGED <<hop, address, at, late, flags, attached, mine, cut, outcome>>
      BY <1>0, <1>29 DEF TimerCloses
    <2>5. GuardTypeOK' /\ OtherHops' /\ LateInv' /\ Unwinding' /\ LeavesNothingBehind'
      BY <1>0, <2>1, <2>2, <2>3, <2>4
    <2>6. Transports'
      <3>1. CASE h # hop
        BY <1>0, <2>1, <2>2, <2>3, <2>4, <3>1
      <3>2. CASE h = hop
        <4>1. at \notin {"validate", "start"}
          BY <1>0, <2>1, <3>2
        <4>2. seized'[hop] \subseteq seized[hop]
          BY <1>0, <1>29, <3>2 DEF TimerCloses
        <4>3. owner'[hop] = owner[hop] \/ owner'[hop] = Closed
          BY <1>0, <2>3, <3>2
        <4>4. at \in {"attach_raw", "attach_tls"} => owner'[hop] = owner[hop]
          BY <1>0, <2>3, <3>2
        <4>5. at \in TlsPhase => (hop \notin bound' => owner'[hop] = Closed)
          BY <1>0, <2>3, <3>2
        <4>6. at = "reopening" => owner'[hop] = owner[hop]
          BY <1>0, <2>1, <3>2
        <4>7. /\ owner'[hop] \in Objects \cup {Reopened, Closed} /\ bound' \subseteq bound
              /\ hop' = hop /\ at' = at /\ attached' = attached
          BY <1>0, <2>3, <2>4, <3>2
        <4>8. QED
          BY <1>0, <2>4, <4>1, <4>2, <4>3, <4>4, <4>5, <4>6, <4>7
      <3>3. QED
        BY <3>1, <3>2
    <2>7. TimerHolds'
      BY <1>0, <2>1, <2>2, <2>3, <2>4
    <2>8. QED
      BY <1>0, <2>4, <2>5, <2>6, <2>7
  <1>30. CASE UNCHANGED guardVars
    BY <1>0, <1>30 DEF guardVars
  <1>31. CASE Reopens
    <2>1. /\ owner' \in [Hops -> Objects \cup {Reopened, Closed}] /\ owner'[hop] = Reopened
          /\ \A h \in Hops : h # hop => owner'[h] = owner[h]
      BY <1>0, <1>31 DEF Reopens
    <2>2. /\ at = "request" /\ at' = "reopening" /\ hop \notin bound
          /\ UNCHANGED <<hop, address, late, flags, attached, threads, bound, mine, cut, outcome>>
      BY <1>31 DEF Reopens
    <2>3. hop \in expired /\ timer[hop] = "ended"
      BY <1>0, <2>2
    <2>4. QED
      BY <1>0, <2>1, <2>2, <2>3
  <1>32. CASE RequestedAnew
    <2>1. /\ at = "reopening" /\ at' = "check_request" /\ bound' = bound \cup {hop}
          /\ UNCHANGED <<hop, address, late, flags, attached, threads, owner, mine, cut, outcome>>
      BY <1>32 DEF RequestedAnew
    <2>2. hop \in expired /\ timer[hop] = "ended" /\ owner[hop] = Reopened /\ "tls" \in attached[hop]
      BY <1>0, <2>1
    <2>3. QED
      BY <1>0, <2>1, <2>2
  <1>33. CASE ReopenFails
    BY <1>0, <1>33 DEF ReopenFails, Raise
  <1>34. QED
    BY <1>0, <1>1, <1>2, <1>3, <1>4, <1>5, <1>6, <1>7, <1>8, <1>9, <1>10, <1>11, <1>12,
       <1>13, <1>14, <1>15, <1>16, <1>17, <1>18, <1>19, <1>20, <1>21, <1>22, <1>23, <1>24,
       <1>25, <1>26, <1>27, <1>28, <1>29, <1>30, <1>31, <1>32, <1>33
       DEF GuardNext, Proceeds, PeerSteps, TimerSteps

-----------------------------------------------------------------------------
(* The strengthening itself: every state the request can be in satisfies it. *)
THEOREM GuardInvariantHolds == GuardSpec => []GuardIInv
  BY GuardInitInv, GuardNextInv, PTL DEF GuardSpec

(* Every variable keeps its type: in particular the redirect counter never   *)
(* leaves 0 .. MaxRedirects and the address index stays within the list.     *)
THEOREM GuardTypeCorrect == GuardSpec => []GuardTypeOK
  <1>1. GuardIInv => GuardTypeOK
    BY DEF GuardIInv
  <1>2. QED
    BY GuardInvariantHolds, <1>1, PTL

(* _DeadlineGuard can end every blocked operation of _request.               *)
THEOREM InterruptibleHolds == GuardSpec => []Interruptible
  <1>1. GuardIInv => Interruptible
    <2> SUFFICES ASSUME GuardIInv PROVE Interruptible
      OBVIOUS
    <2>1. ASSUME at \in Blocked, owner[hop] # Closed
          PROVE  /\ owner[hop] \in attached[hop]
                 /\ IF hop \in expired
                    THEN timer[hop] = "closing" /\ owner[hop] \in seized[hop]
                    ELSE timer[hop] \in {"armed", "woken"}
      <3>1. at \in RawPhase \cup TlsPhase /\ at # "check_request"
        BY <2>1 DEF Blocked, RawPhase, TlsPhase, MinePhase
      <3>2. owner[hop] \in attached[hop] /\ owner[hop] \notin {Closed, Reopened}
        BY <2>1, <3>1
           DEF GuardIInv, Transports, RawPhase, TlsPhase, MinePhase, Objects, Closed, Reopened
      <3>3. QED
        BY <3>1, <3>2 DEF GuardIInv, TimerHolds, RawPhase, TlsPhase, MinePhase
    <2>2. ASSUME at = "reopening" PROVE hop \in expired /\ timer[hop] = "ended"
      BY <2>2 DEF GuardIInv, Transports, TimerHolds
    <2>3. QED
      BY <2>1, <2>2 DEF Interruptible
  <1>2. QED
    BY GuardInvariantHolds, <1>1, PTL

(* The checks of _request after every blocking read catch each answer that   *)
(* the Timer cut short.                                                      *)
THEOREM ActsOnWholeAnswersHolds == GuardSpec => []ActsOnWholeAnswers
  <1>1. GuardIInv => ActsOnWholeAnswers
    BY DEF GuardIInv
  <1>2. QED
    BY GuardInvariantHolds, <1>1, PTL

(* No socket of an earlier address or hop is open when the next is opened.   *)
THEOREM OpensOneAtATimeHolds == GuardSpec => []OpensOneAtATime
  <1>1. GuardIInv => OpensOneAtATime
    BY ConstantsAssumption
       DEF GuardIInv, GuardTypeOK, Transports, OtherHops, OpensOneAtATime, Unreached, Hops, Closed,
           TlsPhase, MinePhase
  <1>2. QED
    BY GuardInvariantHolds, <1>1, PTL

(* Timers are cancelled and sockets closed on every path but a timeout.      *)
THEOREM LeavesNothingBehindHolds == GuardSpec => []LeavesNothingBehind
  <1>1. GuardIInv => LeavesNothingBehind
    BY DEF GuardIInv
  <1>2. QED
    BY GuardInvariantHolds, <1>1, PTL

(***************************************************************************)
(* adduce reproduce                                                        *)
(***************************************************************************)
\* The steps in which the main thread waits, gives up waiting or is
\* interrupted while it waits.
WaitStep ==
  \/ ShellExits \/ GraceEnds \/ TimesOut \/ StopEnds \/ JoinLate \/ JoinLater \/ Return \/ Interrupt

(* A signal ends processes of its run and does nothing else.                 *)
LEMMA SignalsMean ==
  ASSUME TypeOK, NEW hit \in SUBSET Group(run), Signalled(run, hit)
  PROVE  /\ proc' \in [Runs -> [Members -> {"none", "alive", "dead"}]]
         /\ traits' \in [Runs -> [Members -> SUBSET UNION Characters]]
         /\ code' \in [Runs -> {0, 1}] /\ strayed' = strayed
         /\ \A r \in Runs : r # run => /\ proc'[r] = proc[r] /\ traits'[r] = traits[r]
                                       /\ code'[r] = code[r]
         /\ \A m \in Members :
              /\ proc'[run][m] = IF m \in hit THEN "dead" ELSE proc[run][m]
              /\ traits'[run][m] = IF m \in hit THEN {} ELSE traits[run][m]
  <1>1. run \in Runs
    BY DEF TypeOK
  <1>2. /\ proc' \in [Runs -> [Members -> {"none", "alive", "dead"}]]
        /\ \A r \in Runs : r # run => proc'[r] = proc[r]
        /\ \A m \in Members : proc'[run][m] = IF m \in hit THEN "dead" ELSE proc[run][m]
    BY <1>1 DEF TypeOK, Signalled
  <1>3. /\ traits' \in [Runs -> [Members -> SUBSET UNION Characters]]
        /\ \A r \in Runs : r # run => traits'[r] = traits[r]
        /\ \A m \in Members : traits'[run][m] = IF m \in hit THEN {} ELSE traits[run][m]
    <2> DEFINE T == SUBSET UNION Characters
    <2>1. {} \in T /\ traits \in [Runs -> [Members -> T]]
      BY DEF TypeOK
    <2> HIDE DEF T
    <2>2. traits' = [traits EXCEPT ![run] = [m \in Members |-> IF m \in hit THEN {} ELSE @[m]]]
      BY DEF Signalled
    <2>3. /\ traits' \in [Runs -> [Members -> T]]
          /\ \A r \in Runs : r # run => traits'[r] = traits[r]
          /\ \A m \in Members : traits'[run][m] = IF m \in hit THEN {} ELSE traits[run][m]
      BY <1>1, <2>1, <2>2
    <2>4. QED
      BY <2>3 DEF T
  <1>4. /\ code' \in [Runs -> {0, 1}] /\ strayed' = strayed
        /\ \A r \in Runs : r # run => code'[r] = code[r]
    BY <1>1 DEF TypeOK, Signalled
  <1>5. QED
    BY <1>2, <1>3, <1>4

(* What a step of the waiting main thread does to the rest of the system.    *)
Waited ==
  /\ pc \in Capturing \cup {"release"}
  /\ pc' \in {"grace", "stop", "join", "join again", "join last", "inspect", "interrupted"}
  /\ pc' = "inspect" => pc = "release"
  /\ ending' \in [Runs -> {"return", "timeout", "raise"}]
  /\ \A r \in Runs : r # run => ending'[r] = ending[r]
  /\ interrupted' \in {"never", "waiting", "late"}
  /\ proc' \in [Runs -> [Members -> {"none", "alive", "dead"}]]
  /\ traits' \in [Runs -> [Members -> SUBSET UNION Characters]]
  /\ code' \in [Runs -> {0, 1}] /\ strayed' = strayed
  /\ \A r \in Runs : r # run => /\ proc'[r] = proc[r] /\ traits'[r] = traits[r]
                                /\ code'[r] = code[r]
  /\ \A m \in Members :
       \/ proc'[run][m] = proc[run][m] /\ traits'[run][m] = traits[run][m]
       \/ proc[run][m] = "alive" /\ proc'[run][m] = "dead" /\ traits'[run][m] = {}
  /\ UNCHANGED <<run, expect, result, agree, dataVars, pipeVars>>

(* What a signal to the group leaves, and that SIGKILL leaves nothing of it. *)
LEMMA SignalsEnd ==
  ASSUME TypeOK, run' = run, Quietly \/ Terminated(run) \/ Killed(run)
  PROVE  /\ proc' \in [Runs -> [Members -> {"none", "alive", "dead"}]]
         /\ traits' \in [Runs -> [Members -> SUBSET UNION Characters]]
         /\ code' \in [Runs -> {0, 1}] /\ strayed' = strayed
         /\ \A r \in Runs : r # run => /\ proc'[r] = proc[r] /\ traits'[r] = traits[r]
                                       /\ code'[r] = code[r]
         /\ \A m \in Members :
              \/ proc'[run][m] = proc[run][m] /\ traits'[run][m] = traits[run][m]
              \/ proc[run][m] = "alive" /\ proc'[run][m] = "dead" /\ traits'[run][m] = {}
         /\ Killed(run) => Group(run)' = {}
  <1>1. CASE Quietly /\ ~ Killed(run)
    BY <1>1 DEF Quietly, procVars, TypeOK
  <1>2. ASSUME NEW hit \in SUBSET Group(run), Signalled(run, hit), Killed(run) => hit = Group(run)
        PROVE  /\ \A m \in Members :
                    \/ proc'[run][m] = proc[run][m] /\ traits'[run][m] = traits[run][m]
                    \/ proc[run][m] = "alive" /\ proc'[run][m] = "dead" /\ traits'[run][m] = {}
               /\ Killed(run) => Group(run)' = {}
    BY <1>2, SignalsMean DEF Group, Alive
  <1>3. CASE Killed(run)
    BY <1>2, <1>3, SignalsMean DEF Killed
  <1>4. CASE Terminated(run) /\ ~ Killed(run)
    BY <1>2, <1>4, SignalsMean DEF Terminated
  <1>5. QED
    BY <1>1, <1>3, <1>4

\* What Steps does besides moving the main thread.
Moves(ends) ==
  /\ ending' = [ending EXCEPT ![run] = ends]
  /\ Quietly \/ Terminated(run) \/ Killed(run)
  /\ UNCHANGED <<run, expect, result, agree, dataVars, pipeVars>>

(* A step taken while the main thread waits: what it does, and that nothing  *)
(* of the group is left where it leads to a join.                            *)
LEMMA StepsMean ==
  ASSUME TypeOK, NEW ends \in {"return", "timeout", "raise"}, Moves(ends),
         pc \in Capturing \cup {"release"},
         pc' \in {"grace", "stop", "join", "join again", "join last", "inspect", "interrupted"},
         pc' = "inspect" => pc = "release",
         interrupted' \in {"never", "waiting", "late"}
  PROVE  Waited /\ ending'[run] = ends
  <1>1. /\ ending' = [ending EXCEPT ![run] = ends]
        /\ UNCHANGED <<run, expect, result, agree, dataVars, pipeVars>>
        /\ Quietly \/ Terminated(run) \/ Killed(run)
    BY DEF Moves
  <1>2. /\ ending' \in [Runs -> {"return", "timeout", "raise"}] /\ ending'[run] = ends
        /\ \A r \in Runs : r # run => ending'[r] = ending[r]
    BY <1>1 DEF TypeOK
  <1>3. /\ proc' \in [Runs -> [Members -> {"none", "alive", "dead"}]]
        /\ traits' \in [Runs -> [Members -> SUBSET UNION Characters]]
        /\ code' \in [Runs -> {0, 1}] /\ strayed' = strayed
        /\ \A r \in Runs : r # run => /\ proc'[r] = proc[r] /\ traits'[r] = traits[r]
                                      /\ code'[r] = code[r]
        /\ \A m \in Members :
             \/ proc'[run][m] = proc[run][m] /\ traits'[run][m] = traits[run][m]
             \/ proc[run][m] = "alive" /\ proc'[run][m] = "dead" /\ traits'[run][m] = {}
    BY <1>1, SignalsEnd
  <1>4. QED
    BY <1>1, <1>2, <1>3 DEF Waited

(* A step of the waiting main thread starts no process.                      *)
LEMMA GroupShrinks ==
  ASSUME TypeOK, Waited, Group(run) = {}
  PROVE  Group(run)' = {}
  <1>1. run' = run
    BY DEF Waited
  <1>2. \A m \in Members :
          \/ proc'[run][m] = proc[run][m] /\ traits'[run][m] = traits[run][m]
          \/ proc'[run][m] = "dead"
    BY DEF Waited
  <1>3. QED
    BY <1>1, <1>2 DEF Group, Alive

(* Every step of the waiting main thread is such a step, and leads to a join *)
(* only when nothing of the group is left or the user interrupted too late.  *)
LEMMA WaitsMean ==
  ASSUME IInv, WaitStep
  PROVE  /\ Waited
         /\ pc' = "join last" => Group(run)' = {}
         /\ pc' \in SinceJoin /\ interrupted' # "late" => Group(run)' = {}
         /\ interrupted' # "never" <=> ending'[run] = "raise"
         /\ pc' = "inspect" => interrupted' = "never"
  <1>0. /\ TypeOK /\ ProcessesEnd /\ EndingsTell
        /\ As \in {"return", "timeout", "raise"} /\ interrupted \in {"never", "waiting", "late"}
        /\ interrupted # "never" <=> As = "raise"
        /\ pc = "wait" => interrupted = "never"
    BY DEF IInv, TypeOK, EndingsTell, As
  <1>1. CASE ShellExits
    <2>1. CASE Group(run) = {} /\ Steps("wait", "join", As, Quietly)
      <3>1. interrupted' = interrupted
        BY <1>1 DEF ShellExits
      <3>2. Waited /\ pc = "wait" /\ pc' = "join" /\ ending'[run] = As
        BY <1>0, <2>1, <3>1, StepsMean DEF Capturing, Steps, Goto, Moves
      <3>3. Group(run)' = {}
        BY <1>0, <2>1, <3>2, GroupShrinks
      <3>4. QED
        BY <1>0, <3>1, <3>2, <3>3
    <2>2. CASE Steps("wait", "grace", As, Terminated(run))
      <3>1. interrupted' = interrupted
        BY <1>1 DEF ShellExits
      <3>2. Waited /\ pc = "wait" /\ pc' = "grace" /\ ending'[run] = As
        BY <1>0, <2>2, <3>1, StepsMean DEF Capturing, Steps, Goto, Moves
      <3>3. QED
        BY <1>0, <3>1, <3>2 DEF SinceJoin
    <2>3. QED
      BY <1>1, <2>1, <2>2 DEF ShellExits
  <1>2. CASE GraceEnds
    <2>1. Steps("grace", "join", As, Killed(run)) /\ interrupted' = interrupted /\ run' = run
      BY <1>2 DEF GraceEnds, Steps
    <2>2. Waited /\ pc = "grace" /\ pc' = "join" /\ ending'[run] = As
      BY <1>0, <2>1, StepsMean DEF Capturing, Steps, Goto, Moves
    <2>3. Group(run)' = {}
      BY <1>0, <2>1, SignalsEnd DEF Steps
    <2>4. QED
      BY <1>0, <2>1, <2>2, <2>3
  <1>3. CASE TimesOut
    <2>1. Steps("wait", "stop", "timeout", Terminated(run)) /\ interrupted' = interrupted
      BY <1>3 DEF TimesOut
    <2>2. Waited /\ pc = "wait" /\ pc' = "stop" /\ ending'[run] = "timeout"
      BY <1>0, <2>1, StepsMean DEF Capturing, Steps, Goto, Moves
    <2>3. QED
      BY <1>0, <2>1, <2>2 DEF SinceJoin
  <1>4. CASE StopEnds
    <2>1. Steps("stop", "join", As, Killed(run)) /\ interrupted' = interrupted /\ run' = run
      BY <1>4 DEF StopEnds, Steps
    <2>2. Waited /\ pc = "stop" /\ pc' = "join" /\ ending'[run] = As
      BY <1>0, <2>1, StepsMean DEF Capturing, Steps, Goto, Moves
    <2>3. Group(run)' = {}
      BY <1>0, <2>1, SignalsEnd DEF Steps
    <2>4. QED
      BY <1>0, <2>1, <2>2, <2>3
  <1>5. CASE JoinLate
    <2>1. Steps("join", "join again", As, Terminated(run)) /\ interrupted' = interrupted
      BY <1>5 DEF JoinLate
    <2>2. Waited /\ pc = "join" /\ pc' = "join again" /\ ending'[run] = As
      BY <1>0, <2>1, StepsMean DEF Capturing, Steps, Goto, Moves
    <2>3. interrupted # "late" => Group(run)' = {}
      BY <1>0, <2>2, GroupShrinks DEF ProcessesEnd, SinceJoin
    <2>4. QED
      BY <1>0, <2>1, <2>2, <2>3
  <1>6. CASE JoinLater
    <2>1. Steps("join again", "join last", As, Killed(run)) /\ interrupted' = interrupted /\ run' = run
      BY <1>6 DEF JoinLater, Steps
    <2>2. Waited /\ pc = "join again" /\ pc' = "join last" /\ ending'[run] = As
      BY <1>0, <2>1, StepsMean DEF Capturing, Steps, Goto, Moves
    <2>3. Group(run)' = {}
      BY <1>0, <2>1, SignalsEnd DEF Steps
    <2>4. QED
      BY <1>0, <2>1, <2>2, <2>3
  <1>7. CASE Return
    <2>1. Steps("release", Leave, As, Quietly) /\ interrupted' = interrupted
      BY <1>7 DEF Return
    <2>2. Leave \in {"interrupted", "inspect"} /\ (Leave = "inspect" <=> As # "raise")
      BY DEF Leave
    <2>3. Waited /\ pc = "release" /\ pc' = Leave /\ ending'[run] = As
      BY <1>0, <2>1, <2>2, StepsMean DEF Capturing, Steps, Goto, Moves
    <2>4. Group(run)' = {}
      BY <1>0, <2>3, GroupShrinks DEF ProcessesEnd
    <2>5. QED
      BY <1>0, <2>1, <2>2, <2>3, <2>4
  <1>8. CASE Interrupt
    <2>1. interrupted = "never"
      BY <1>8 DEF Interrupt
    <2>2. CASE interrupted' = "waiting" /\ Steps("wait", "stop", "raise", Terminated(run))
      <3>1. Waited /\ pc = "wait" /\ pc' = "stop" /\ ending'[run] = "raise"
        BY <1>0, <2>2, StepsMean DEF Capturing, Steps, Goto, Moves
      <3>2. QED
        BY <2>2, <3>1 DEF SinceJoin
    <2>3. CASE /\ interrupted' = "late"
               /\ \/ Steps("wait", "join", "raise", Quietly)
                  \/ Steps("grace", "join", "raise", Quietly)
                  \/ Steps("stop", "join", "raise", Quietly)
      <3>1. Waited /\ pc' = "join" /\ ending'[run] = "raise"
        BY <1>0, <2>3, StepsMean DEF Capturing, Steps, Goto, Moves
      <3>2. QED
        BY <2>3, <3>1
    <2>4. CASE /\ interrupted' = "late" /\ pc \in {"join", "join again", "join last", "release"}
               /\ Steps(pc, "interrupted", "raise", Quietly)
      <3>1. Waited /\ pc' = "interrupted" /\ ending'[run] = "raise"
        BY <1>0, <2>4, StepsMean DEF Capturing, Steps, Goto, Moves
      <3>2. QED
        BY <2>4, <3>1
    <2>5. QED
      BY <1>8, <2>2, <2>3, <2>4 DEF Interrupt
  <1>9. QED
    BY <1>1, <1>2, <1>3, <1>4, <1>5, <1>6, <1>7, <1>8 DEF WaitStep

(* The kinds of steps there are.                                             *)
LEMMA StepsAre ==
  ASSUME [Next]_vars
  PROVE  \/ WaitStep \/ Spawn \/ Close \/ CloseUnder \/ Inspect \/ Compare \/ UNCHANGED vars
         \/ \E r \in Runs : pc \notin Ends /\ StartChild(r)
         \/ \E r \in Runs : pc \notin Ends /\ Emit(r)
         \/ \E r \in Runs : pc \notin Ends /\ Produce(r)
         \/ \E r \in Runs : pc \notin Ends /\ Exit(r)
         \/ \E r \in Runs : pc \notin Ends /\ Read(r)
  BY DEF Next, Main, Command, Reads, Finished, WaitStep

(* What the steps of the processes do to them.                               *)
LEMMA ChildStarts ==
  ASSUME TypeOK, NEW r \in Runs, StartChild(r)
  PROVE  /\ proc[r]["shell"] = "alive"
         /\ proc' \in [Runs -> [Members -> {"none", "alive", "dead"}]]
         /\ traits' \in [Runs -> [Members -> SUBSET UNION Characters]]
         /\ \A q \in Runs : q # r => proc'[q] = proc[q] /\ traits'[q] = traits[q]
         /\ proc'[r]["shell"] = "alive" /\ traits'[r]["shell"] = traits[r]["shell"]
         /\ proc'[r]["child"] = "alive"
         /\ "escaped" \in traits'[r]["child"] => r \in strayed'
         /\ strayed \subseteq strayed' /\ strayed' \subseteq strayed \cup {r}
  <1>1. PICK t \in Characters :
          /\ traits' = [traits EXCEPT ![r]["child"] = t]
          /\ strayed' = IF "escaped" \in t THEN strayed \cup {r} ELSE strayed
    BY DEF StartChild
  <1>2. proc[r]["shell"] = "alive" /\ proc' = [proc EXCEPT ![r]["child"] = "alive"]
    BY DEF StartChild
  <1>3. /\ proc' \in [Runs -> [Members -> {"none", "alive", "dead"}]]
        /\ \A q \in Runs : q # r => proc'[q] = proc[q]
        /\ proc'[r]["shell"] = "alive" /\ proc'[r]["child"] = "alive"
    <2> DEFINE L == {"none", "alive", "dead"}
    <2>1. "alive" \in L /\ proc \in [Runs -> [Members -> L]]
      BY DEF TypeOK
    <2> HIDE DEF L
    <2>2. /\ proc' \in [Runs -> [Members -> L]]
          /\ \A q \in Runs : q # r => proc'[q] = proc[q]
          /\ proc'[r]["shell"] = proc[r]["shell"] /\ proc'[r]["child"] = "alive"
      BY <1>2, <2>1 DEF Members
    <2>3. QED
      BY <1>2, <2>2 DEF L
  <1>4. /\ traits' \in [Runs -> [Members -> SUBSET UNION Characters]]
        /\ \A q \in Runs : q # r => traits'[q] = traits[q]
        /\ traits'[r]["shell"] = traits[r]["shell"] /\ traits'[r]["child"] = t
    <2> DEFINE T == SUBSET UNION Characters
    <2>1. t \in T /\ traits \in [Runs -> [Members -> T]]
      BY DEF TypeOK
    <2> HIDE DEF T
    <2>2. /\ traits' \in [Runs -> [Members -> T]]
          /\ \A q \in Runs : q # r => traits'[q] = traits[q]
          /\ traits'[r]["shell"] = traits[r]["shell"] /\ traits'[r]["child"] = t
      BY <1>1, <2>1 DEF Members
    <2>3. QED
      BY <2>2 DEF T
  <1>5. QED
    BY <1>1, <1>2, <1>3, <1>4

(* One process ends by itself.                                               *)
LEMMA ExitEnds ==
  ASSUME TypeOK, NEW r \in Runs, Exit(r)
  PROVE  /\ proc' \in [Runs -> [Members -> {"none", "alive", "dead"}]]
         /\ traits' \in [Runs -> [Members -> SUBSET UNION Characters]]
         /\ code' \in [Runs -> {0, 1}]
         /\ \A q \in Runs : q # r => proc'[q] = proc[q] /\ traits'[q] = traits[q]
         /\ \A q \in Runs : q # r \/ proc[r]["shell"] # "alive" => code'[q] = code[q]
         /\ \A m \in Members :
              \/ proc'[r][m] = proc[r][m] /\ traits'[r][m] = traits[r][m]
              \/ proc[r][m] = "alive" /\ proc'[r][m] = "dead" /\ traits'[r][m] = {}
  <1>1. PICK m \in Members :
          /\ proc[r][m] = "alive"
          /\ proc' = [proc EXCEPT ![r][m] = "dead"] /\ traits' = [traits EXCEPT ![r][m] = {}]
          /\ IF m = "shell" THEN \E c \in {0, 1} : code' = [code EXCEPT ![r] = c]
                            ELSE UNCHANGED code
    BY DEF Exit, Alive
  <1>2. /\ proc' \in [Runs -> [Members -> {"none", "alive", "dead"}]]
        /\ \A q \in Runs : q # r => proc'[q] = proc[q]
        /\ \A n \in Members : proc'[r][n] = IF n = m THEN "dead" ELSE proc[r][n]
    BY <1>1 DEF TypeOK
  <1>3. /\ traits' \in [Runs -> [Members -> SUBSET UNION Characters]]
        /\ \A q \in Runs : q # r => traits'[q] = traits[q]
        /\ \A n \in Members : traits'[r][n] = IF n = m THEN {} ELSE traits[r][n]
    <2> DEFINE T == SUBSET UNION Characters
    <2>1. {} \in T /\ traits \in [Runs -> [Members -> T]]
      BY DEF TypeOK
    <2> HIDE DEF T
    <2>2. /\ traits' \in [Runs -> [Members -> T]]
          /\ \A q \in Runs : q # r => traits'[q] = traits[q]
          /\ \A n \in Members : traits'[r][n] = IF n = m THEN {} ELSE traits[r][n]
      BY <1>1, <2>1
    <2>3. QED
      BY <2>2 DEF T
  <1>4. code' \in [Runs -> {0, 1}] /\ \A q \in Runs : q # r \/ m # "shell" => code'[q] = code[q]
    BY <1>1 DEF TypeOK
  <1>5. QED
    BY <1>1, <1>2, <1>3, <1>4

(* What a read takes, and what it leaves the reader on.                      *)
LEMMA ReadTakes ==
  ASSUME TypeOK, NEW r \in Runs, Read(r)
  PROVE  /\ reader[r] = "reading" /\ from[r] \in Runs
         /\ reader' \in [Runs -> {"none", "reading", "ended"}] /\ from' \in [Runs -> {0} \cup Runs]
         /\ \A q \in Runs : q # r => reader'[q] = reader[q] /\ from'[q] = from[q]
         /\ \/ /\ reader'[r] = "ended" /\ from'[r] = 0
               /\ number' = IF r \in forced THEN 0 ELSE number
            \/ number # 0 /\ reader'[r] = "reading" /\ from'[r] = number /\ number' = number
         /\ \/ /\ pipe[from[r]] = <<>> /\ Writers(from[r]) = {} /\ reader'[r] = "ended"
               /\ UNCHANGED <<captured, pipe>>
            \/ /\ pipe[from[r]] # <<>>
               /\ captured' = [captured EXCEPT ![r] = Append(@, Head(pipe[from[r]]))]
               /\ pipe' = [pipe EXCEPT ![from[r]] = Tail(@)]
               /\ reader'[r] = "ended" => number = 0
         /\ UNCHANGED <<mainVars, procVars, printed, file, made, forced>>
  <1>1. reader[r] = "reading" /\ from[r] \in Runs /\ number \in {0} \cup Runs
    BY DEF Read, TypeOK
  <1>2. CASE pipe[from[r]] = <<>>
    <2>1. ReaderEnds(r) /\ UNCHANGED <<captured, pipe>>
          /\ UNCHANGED <<mainVars, procVars, printed, file, made, forced>>
          /\ Writers(from[r]) = {}
      BY <1>1, <1>2 DEF Read, Stuck
    <2>2. QED
      BY <1>1, <1>2, <2>1 DEF ReaderEnds, TypeOK
  <1>3. CASE pipe[from[r]] # <<>>
    <2>1. /\ captured' = [captured EXCEPT ![r] = Append(@, Head(pipe[from[r]]))]
          /\ pipe' = [pipe EXCEPT ![from[r]] = Tail(@)]
          /\ IF number = 0 THEN ReaderEnds(r)
             ELSE from' = [from EXCEPT ![r] = number] /\ UNCHANGED <<reader, number>>
          /\ UNCHANGED <<mainVars, procVars, printed, file, made, forced>>
      BY <1>3 DEF Read
    <2>2. CASE number = 0
      BY <1>1, <1>3, <2>1, <2>2 DEF ReaderEnds, TypeOK
    <2>3. CASE number # 0
      BY <1>1, <1>3, <2>1, <2>3 DEF TypeOK
    <2>4. QED
      BY <2>2, <2>3
  <1>4. QED
    BY <1>2, <1>3

(* What the fingerprint is made of, and what is left of the run after it.    *)
LEMMA InspectTakes ==
  ASSUME TypeOK, Inspect
  PROVE  /\ pc = "inspect"
         /\ \/ run = 1 /\ run' = 2 /\ pc' = "spawn"
            \/ run = 2 /\ run' = 2 /\ pc' = "compare"
         /\ proc' \in [Runs -> [Members -> {"none", "alive", "dead"}]]
         /\ traits' \in [Runs -> [Members -> SUBSET UNION Characters]]
         /\ \A q \in Runs : q # run => proc'[q] = proc[q] /\ traits'[q] = traits[q]
         /\ \A m \in Members :
              \/ m \in Writers(run) /\ proc'[run][m] = proc[run][m] /\ traits'[run][m] = traits[run][m]
              \/ proc'[run][m] = "none" /\ traits'[run][m] = {}
         /\ captured' \in [Runs -> Seq(Values)] /\ captured'[run] = <<>>
         /\ \A q \in Runs : q # run => captured'[q] = captured[q]
         /\ result' \in [Runs -> [exit : {0, 1}, metric : Values \cup {Nothing},
                                  output : Values \cup {Nothing, Old}]]
         /\ \A q \in Runs : q # run => result'[q] = result[q]
         /\ result'[run] = [exit |-> ExitCode(run), metric |-> LastOf(captured[run]),
                            output |-> file[run]]
         /\ UNCHANGED <<ending, interrupted, expect, agree, code, strayed, dataVars,
                        number, reader, from, forced>>
  <1>1. /\ pc = "inspect" /\ run \in Runs
        /\ \/ run = 1 /\ run' = 2 /\ pc' = "spawn"
           \/ run = 2 /\ run' = 2 /\ pc' = "compare"
        /\ UNCHANGED <<ending, interrupted, expect, agree, code, strayed, dataVars,
                       number, reader, from, forced>>
    BY DEF Inspect, TypeOK, Runs, Goto
  <1>2. /\ proc' \in [Runs -> [Members -> {"none", "alive", "dead"}]]
        /\ \A q \in Runs : q # run => proc'[q] = proc[q]
        /\ \A m \in Members : proc'[run][m] = IF m \in Writers(run) THEN proc[run][m] ELSE "none"
    <2> DEFINE L == {"none", "alive", "dead"}
               left == [m \in Members |-> IF m \in Writers(run) THEN proc[run][m] ELSE "none"]
    <2>1. "none" \in L /\ proc \in [Runs -> [Members -> L]]
      BY DEF TypeOK
    <2>2. proc' = [proc EXCEPT ![run] = left]
      BY DEF Inspect
    <2> HIDE DEF L
    <2>3. left \in [Members -> L]
      BY <1>1, <2>1
    <2>4. /\ proc' \in [Runs -> [Members -> L]] /\ proc'[run] = left
          /\ \A q \in Runs : q # run => proc'[q] = proc[q]
      <3> HIDE DEF left
      <3>1. QED
        BY <1>1, <2>1, <2>2, <2>3
    <2>5. QED
      BY <2>4 DEF L
  <1>3. /\ traits' \in [Runs -> [Members -> SUBSET UNION Characters]]
        /\ \A q \in Runs : q # run => traits'[q] = traits[q]
        /\ \A m \in Members : traits'[run][m] = IF m \in Writers(run) THEN traits[run][m] ELSE {}
    <2> DEFINE T == SUBSET UNION Characters
               left == [m \in Members |-> IF m \in Writers(run) THEN traits[run][m] ELSE {}]
    <2>1. {} \in T /\ traits \in [Runs -> [Members -> T]]
      BY DEF TypeOK
    <2>2. traits' = [traits EXCEPT ![run] = left]
      BY DEF Inspect
    <2> HIDE DEF T
    <2>3. left \in [Members -> T]
      BY <1>1, <2>1
    <2>4. /\ traits' \in [Runs -> [Members -> T]] /\ traits'[run] = left
          /\ \A q \in Runs : q # run => traits'[q] = traits[q]
      <3> HIDE DEF left
      <3>1. QED
        BY <1>1, <2>1, <2>2, <2>3
    <2>5. QED
      BY <2>4 DEF T
  <1>4. /\ captured' \in [Runs -> Seq(Values)] /\ captured'[run] = <<>>
        /\ \A q \in Runs : q # run => captured'[q] = captured[q]
    <2>1. captured' = [captured EXCEPT ![run] = <<>>] /\ <<>> \in Seq(Values)
      BY DEF Inspect
    <2>2. QED
      BY <1>1, <2>1 DEF TypeOK
  <1>5. /\ result' \in [Runs -> [exit : {0, 1}, metric : Values \cup {Nothing},
                                output : Values \cup {Nothing, Old}]]
        /\ \A q \in Runs : q # run => result'[q] = result[q]
        /\ result'[run] = [exit |-> ExitCode(run), metric |-> LastOf(captured[run]),
                           output |-> file[run]]
    <2> DEFINE R == [exit : {0, 1}, metric : Values \cup {Nothing}, output : Values \cup {Nothing, Old}]
               print == [exit |-> ExitCode(run), metric |-> LastOf(captured[run]),
                         output |-> file[run]]
    <2>1. ExitCode(run) \in {0, 1} /\ file[run] \in Values \cup {Nothing, Old}
      BY <1>1 DEF ExitCode, TypeOK
    <2>2. LastOf(captured[run]) \in Values \cup {Nothing}
      <3>1. captured[run] \in Seq(Values)
        BY <1>1 DEF TypeOK
      <3>2. captured[run] # <<>> => captured[run][Len(captured[run])] \in Values
        BY <3>1
      <3>3. QED
        BY <3>2 DEF LastOf
    <2>3. print \in R
      BY <2>1, <2>2
    <2>4. result' = [result EXCEPT ![run] = print] /\ result \in [Runs -> R]
      BY DEF Inspect, TypeOK
    <2> HIDE DEF R, print
    <2>5. /\ result' \in [Runs -> R] /\ result'[run] = print
          /\ \A q \in Runs : q # run => result'[q] = result[q]
      BY <1>1, <2>3, <2>4
    <2>6. QED
      BY <2>5 DEF R, print
  <1>6. QED
    BY <1>1, <1>2, <1>3, <1>4, <1>5

(* A run begins with its own pipe and reader, and without the old output.    *)
LEMMA SpawnBegins ==
  ASSUME TypeOK, Spawn
  PROVE  /\ pc = "spawn" /\ pc' = "wait" /\ number' = run
         /\ file' \in [Runs -> Values \cup {Nothing, Old}] /\ file'[run] = Nothing
         /\ \A q \in Runs : q # run => file'[q] = file[q] /\ proc'[q] = proc[q]
                                       /\ reader'[q] = reader[q] /\ from'[q] = from[q]
         /\ proc' \in [Runs -> [Members -> {"none", "alive", "dead"}]]
         /\ reader' \in [Runs -> {"none", "reading", "ended"}] /\ from' \in [Runs -> {0} \cup Runs]
         /\ reader'[run] = "reading" /\ from'[run] = run
         /\ UNCHANGED <<run, ending, interrupted, expect, result, agree, traits, code, strayed,
                        printed, pipe, made, forced, captured>>
  <1>1. /\ pc = "spawn" /\ pc' = "wait" /\ number' = run /\ run \in Runs
        /\ UNCHANGED <<run, ending, interrupted, expect, result, agree, traits, code, strayed,
                       printed, pipe, made, forced, captured>>
    BY DEF Spawn, Goto, TypeOK
  <1>2. /\ file' = [file EXCEPT ![run] = Nothing]
        /\ reader' = [reader EXCEPT ![run] = "reading"] /\ from' = [from EXCEPT ![run] = run]
        /\ proc' = [proc EXCEPT ![run]["shell"] = "alive"]
    BY DEF Spawn, Cleared
  <1>3. /\ file' \in [Runs -> Values \cup {Nothing, Old}] /\ file'[run] = Nothing
        /\ \A q \in Runs : q # run => file'[q] = file[q]
    BY <1>1, <1>2 DEF TypeOK
  <1>4. /\ proc' \in [Runs -> [Members -> {"none", "alive", "dead"}]]
        /\ \A q \in Runs : q # run => proc'[q] = proc[q]
    <2> DEFINE L == {"none", "alive", "dead"}
    <2>1. "alive" \in L /\ proc \in [Runs -> [Members -> L]]
      BY DEF TypeOK
    <2> HIDE DEF L
    <2>2. /\ proc' \in [Runs -> [Members -> L]]
          /\ \A q \in Runs : q # run => proc'[q] = proc[q]
      BY <1>1, <1>2, <2>1 DEF Members
    <2>3. QED
      BY <2>2 DEF L
  <1>5. /\ reader' \in [Runs -> {"none", "reading", "ended"}] /\ from' \in [Runs -> {0} \cup Runs]
        /\ reader'[run] = "reading" /\ from'[run] = run
        /\ \A q \in Runs : q # run => reader'[q] = reader[q] /\ from'[q] = from[q]
    BY <1>1, <1>2 DEF TypeOK
  <1>6. QED
    BY <1>1, <1>3, <1>4, <1>5

(* A metric is added to what was printed and to what the pipe holds.         *)
LEMMA EmitAdds ==
  ASSUME TypeOK, NEW r \in Runs, Emit(r)
  PROVE  /\ Writers(r) # {}
         /\ \E v \in Values : /\ printed'[r] = Append(printed[r], v)
                             /\ pipe'[r] = Append(pipe[r], v)
         /\ printed' \in [Runs -> Seq(Values)] /\ pipe' \in [Runs -> Seq(Values)]
         /\ \A q \in Runs : q # r => printed'[q] = printed[q] /\ pipe'[q] = pipe[q]
         /\ UNCHANGED <<mainVars, procVars, file, made, pipeVars>>
  <1>1. PICK v \in Values : /\ printed' = [printed EXCEPT ![r] = Append(@, v)]
                           /\ pipe' = [pipe EXCEPT ![r] = Append(@, v)]
    BY ReproduceAssumption DEF Emit, Written
  <1>2. /\ Append(printed[r], v) \in Seq(Values) /\ Append(pipe[r], v) \in Seq(Values)
        /\ printed \in [Runs -> Seq(Values)] /\ pipe \in [Runs -> Seq(Values)]
    <2>1. printed \in [Runs -> Seq(Values)] /\ pipe \in [Runs -> Seq(Values)]
      BY DEF TypeOK
    <2>2. printed[r] \in Seq(Values) /\ pipe[r] \in Seq(Values)
      BY <2>1
    <2>3. QED
      BY <2>1, <2>2, AppendProperties
  <1>3. Writers(r) # {} /\ UNCHANGED <<mainVars, procVars, file, made, pipeVars>>
    BY DEF Emit
  <1>4. QED
    BY <1>1, <1>2, <1>3

----------------------------------------------------------------------------
(* Every part of the inductive invariant survives every step.                *)
LEMMA TypePreserved ==
  ASSUME IInv, [Next]_vars
  PROVE  TypeOK'
  <1>0. TypeOK
    BY DEF IInv
  <1>1. CASE WaitStep
    <2>1. Waited
      BY <1>1, WaitsMean
    <2>2. /\ pc' \in {"grace", "stop", "join", "join again", "join last", "inspect", "interrupted"}
          /\ ending' \in [Runs -> {"return", "timeout", "raise"}]
          /\ interrupted' \in {"never", "waiting", "late"}
          /\ proc' \in [Runs -> [Members -> {"none", "alive", "dead"}]]
          /\ traits' \in [Runs -> [Members -> SUBSET UNION Characters]]
          /\ code' \in [Runs -> {0, 1}] /\ strayed' = strayed
          /\ UNCHANGED <<run, expect, result, agree, dataVars, pipeVars>>
      BY <2>1 DEF Waited
    <2>3. QED
      BY <1>0, <2>2 DEF TypeOK, dataVars, pipeVars, Ends
  <1>2. CASE Spawn
    <2>1. run \in Runs /\ run # 0
      <3>1. run \in Runs
        BY <1>0 DEF TypeOK
      <3>2. QED
        BY <3>1 DEF Runs
    <2>2. \A r \in Runs : reader'[r] = "reading" <=> from'[r] # 0
      BY <1>0, <1>2, <2>1, SpawnBegins DEF TypeOK
    <2>3. /\ pc' = "wait" /\ number' = run
          /\ file' \in [Runs -> Values \cup {Nothing, Old}]
          /\ proc' \in [Runs -> [Members -> {"none", "alive", "dead"}]]
          /\ reader' \in [Runs -> {"none", "reading", "ended"}] /\ from' \in [Runs -> {0} \cup Runs]
          /\ UNCHANGED <<run, ending, interrupted, expect, result, agree, traits, code, strayed,
                         printed, pipe, made, forced, captured>>
      BY <1>0, <1>2, SpawnBegins
    <2>4. QED
      BY <1>0, <2>1, <2>2, <2>3 DEF TypeOK
  <1>3. CASE Close
    BY <1>0, <1>3 DEF Close, Goto, Leave, TypeOK, Ends, procVars, dataVars
  <1>4. CASE CloseUnder
    BY <1>0, <1>4 DEF CloseUnder, Goto, TypeOK, procVars, dataVars
  <1>5. CASE Inspect
    BY <1>0, <1>5, InspectTakes DEF TypeOK, Runs, dataVars
  <1>6. CASE Compare
    BY <1>0, <1>6 DEF Compare, Goto, TypeOK, Ends, procVars, dataVars, pipeVars
  <1>7. CASE UNCHANGED vars
    BY <1>0, <1>7 DEF vars, TypeOK, mainVars, procVars, dataVars, pipeVars
  <1>8. ASSUME NEW r \in Runs, StartChild(r) PROVE TypeOK'
    <2>1. UNCHANGED <<mainVars, code, dataVars, pipeVars>>
      BY <1>8 DEF StartChild
    <2>2. /\ proc' \in [Runs -> [Members -> {"none", "alive", "dead"}]]
          /\ traits' \in [Runs -> [Members -> SUBSET UNION Characters]]
          /\ strayed' \subseteq strayed \cup {r}
      BY <1>0, <1>8, ChildStarts
    <2>3. QED
      BY <1>0, <2>1, <2>2 DEF TypeOK, mainVars, dataVars, pipeVars
  <1>9. ASSUME NEW r \in Runs, Emit(r) PROVE TypeOK'
    BY <1>0, <1>9, EmitAdds DEF TypeOK, mainVars, procVars, pipeVars
  <1>10. ASSUME NEW r \in Runs, Produce(r) PROVE TypeOK'
    <2>1. /\ file' = [file EXCEPT ![r] = First] /\ made' = [made EXCEPT ![r] = {First}]
          /\ UNCHANGED <<mainVars, procVars, printed, pipe, pipeVars>>
      BY <1>10 DEF Produce
    <2>2. file' \in [Runs -> Values \cup {Nothing, Old}] /\ made' \in [Runs -> SUBSET Values]
      BY <1>0, <2>1, ReproduceAssumption DEF TypeOK
    <2>3. QED
      BY <1>0, <2>1, <2>2 DEF TypeOK, mainVars, procVars, pipeVars
  <1>11. ASSUME NEW r \in Runs, Exit(r) PROVE TypeOK'
    <2>1. UNCHANGED <<mainVars, strayed, dataVars, pipeVars>>
      BY <1>11 DEF Exit
    <2>2. QED
      BY <1>0, <1>11, <2>1, ExitEnds DEF TypeOK, mainVars, dataVars, pipeVars
  <1>12. ASSUME NEW r \in Runs, Read(r) PROVE TypeOK'
    <2> DEFINE q == from[r]
    <2>1. /\ q \in Runs
          /\ reader' \in [Runs -> {"none", "reading", "ended"}] /\ from' \in [Runs -> {0} \cup Runs]
          /\ \A p \in Runs : p # r => reader'[p] = reader[p] /\ from'[p] = from[p]
          /\ reader'[r] = "reading" <=> from'[r] # 0
          /\ number' \in {0} \cup Runs
          /\ UNCHANGED <<mainVars, procVars, printed, file, made, forced>>
      BY <1>0, <1>12, ReadTakes DEF TypeOK
    <2>2. captured' \in [Runs -> Seq(Values)] /\ pipe' \in [Runs -> Seq(Values)]
      <3>1. captured \in [Runs -> Seq(Values)] /\ pipe \in [Runs -> Seq(Values)]
        BY <1>0 DEF TypeOK
      <3>2. CASE UNCHANGED <<captured, pipe>>
        BY <3>1, <3>2
      <3>3. CASE /\ pipe[q] # <<>>
                 /\ captured' = [captured EXCEPT ![r] = Append(@, Head(pipe[q]))]
                 /\ pipe' = [pipe EXCEPT ![q] = Tail(@)]
        <4>1. pipe[q] \in Seq(Values) /\ captured[r] \in Seq(Values)
          BY <2>1, <3>1
        <4>2. /\ Tail(pipe[q]) \in Seq(Values)
              /\ Append(captured[r], Head(pipe[q])) \in Seq(Values)
          BY <3>3, <4>1, HeadTailProperties, AppendProperties
        <4> HIDE DEF q
        <4>3. QED
          BY <2>1, <3>1, <3>3, <4>2
      <3>4. QED
        BY <1>0, <1>12, <3>2, <3>3, ReadTakes
    <2> HIDE DEF q
    <2>3. QED
      BY <1>0, <2>1, <2>2 DEF TypeOK, mainVars, procVars
  <1>13. QED
    BY <1>1, <1>2, <1>3, <1>4, <1>5, <1>6, <1>7, <1>8, <1>9, <1>10, <1>11, <1>12, StepsAre

\* No process of run r is left in its group.
Quiet(r) == \A m \in Members : proc[r][m] = "alive" => "escaped" \in traits[r][m]

(* A group is empty when all that is alive has left it.                      *)
LEMMA QuietGroup ==
  ASSUME NEW r
  PROVE  Group(r) = {} <=> Quiet(r)
  BY DEF Group, Alive, Quiet

(* The same in the next state.                                               *)
LEMMA QuietGroupNext ==
  ASSUME NEW r
  PROVE  Group(r)' = {} <=> Quiet(r)'
  BY DEF Group, Alive, Quiet

(* The runs are 1 and 2, in this order.                                      *)
LEMMA TwoRuns ==
  ASSUME TypeOK
  PROVE  /\ run \in Runs /\ run \in {1, 2}
         /\ \A r \in Runs : (r > run => r # run) /\ (r < run => r # run) /\ r \in {1, 2}
  <1>1. run \in Runs
    BY DEF TypeOK
  <1>2. QED
    BY <1>1 DEF Runs

(* Nothing of the group is left from the join on.                            *)
LEMMA ProcessesPreserved ==
  ASSUME IInv, [Next]_vars
  PROVE  ProcessesEnd'
  <1> DEFINE P ==
        /\ \A r \in Runs : traits[r]["shell"] = {} /\ ("escaped" \in traits[r]["child"] => r \in strayed)
        /\ \A r \in Runs : Fresh(r) => \A m \in Members : proc[r][m] = "none"
        /\ \A r \in Runs : r < run => Quiet(r)
        /\ pc \in {"join last", "release"} => Quiet(run)
        /\ pc \in SinceJoin /\ interrupted # "late" => Quiet(run)
  <1>0. TypeOK /\ run \in Runs /\ P /\ (pc = "inspect" => interrupted = "never")
    BY QuietGroup DEF IInv, TypeOK, ProcessesEnd, EndingsTell
  <1>a. /\ run \in Runs /\ run \in {1, 2}
        /\ \A r \in Runs : (r > run => r # run) /\ (r < run => r # run) /\ r \in {1, 2}
    BY <1>0, TwoRuns
  <1>b. \A r \in Runs : Fresh(r) => \A m \in Members : proc[r][m] = "none"
    BY <1>0
  <1> SUFFICES P'
    BY QuietGroupNext DEF ProcessesEnd
  <1>1. CASE WaitStep
    <2>1. /\ run' = run /\ strayed' = strayed /\ pc' \notin {"spawn", "release"}
          /\ \A r \in Runs : r # run => proc'[r] = proc[r] /\ traits'[r] = traits[r]
          /\ \A m \in Members :
               \/ proc'[run][m] = proc[run][m] /\ traits'[run][m] = traits[run][m]
               \/ proc[run][m] = "alive" /\ proc'[run][m] = "dead" /\ traits'[run][m] = {}
          /\ pc' = "join last" => Quiet(run)'
          /\ pc' \in SinceJoin /\ interrupted' # "late" => Quiet(run)'
      BY <1>1, WaitsMean, QuietGroupNext DEF Waited
    <2>2. \A r \in Runs : traits'[r]["shell"] = {} /\ ("escaped" \in traits'[r]["child"] => r \in strayed')
      BY <1>0, <2>1 DEF Members
    <2>3. \A r \in Runs : Fresh(r)' => \A m \in Members : proc'[r][m] = "none"
      <3>1. \A r \in Runs : Fresh(r)' => Fresh(r) /\ r # run
        BY <1>a, <2>1 DEF Fresh
      <3>2. QED
        BY <1>b, <2>1, <3>1
    <2>4. \A r \in Runs : r < run' => Quiet(r)'
      BY <1>0, <1>a, <2>1 DEF Quiet
    <2>5. QED
      BY <2>1, <2>2, <2>3, <2>4
  <1>2. CASE Spawn
    BY <1>0, <1>2, SpawnBegins DEF Fresh, Quiet, SinceJoin, Runs
  <1>3. CASE Close
    BY <1>0, <1>3 DEF Close, Joined, Joining, Goto, Leave, Fresh, Quiet, SinceJoin, procVars
  <1>4. CASE CloseUnder
    BY <1>0, <1>4 DEF CloseUnder, Goto, Fresh, Quiet, SinceJoin, procVars
  <1>5. CASE Inspect
    <2>1. Quiet(run)
      BY <1>0, <1>5, InspectTakes DEF SinceJoin
    <2>2. \A m \in Members :
            \/ proc'[run][m] = proc[run][m] /\ traits'[run][m] = traits[run][m]
            \/ proc'[run][m] = "none" /\ traits'[run][m] = {}
      BY <1>0, <1>5, InspectTakes
    <2>3. /\ \A q \in Runs : q # run => proc'[q] = proc[q] /\ traits'[q] = traits[q]
          /\ \/ run = 1 /\ run' = 2 /\ pc' = "spawn"
             \/ run = 2 /\ run' = 2 /\ pc' = "compare"
          /\ strayed' = strayed
      BY <1>0, <1>5, InspectTakes
    <2>4. \A m \in Members : proc'[run][m] = "alive" => "escaped" \in traits'[run][m]
      BY <2>1, <2>2 DEF Quiet
    <2>5. \A r \in Runs : traits'[r]["shell"] = {} /\ ("escaped" \in traits'[r]["child"] => r \in strayed')
      BY <1>0, <2>2, <2>3 DEF Members
    <2>6. \A r \in Runs : Fresh(r)' => \A m \in Members : proc'[r][m] = "none"
      <3>1. \A r \in Runs : Fresh(r)' => Fresh(r) /\ r # run
        BY <1>a, <2>3 DEF Fresh
      <3>2. QED
        BY <1>b, <2>3, <3>1
    <2>7. /\ \A r \in Runs : r < run' => Quiet(r)'
          /\ pc' # "spawn" => Quiet(run)'
      <3>1. \A r \in Runs : r < run' => r < run \/ r = run
        BY <1>a, <2>3
      <3>2. \A r \in Runs : r < run => Quiet(r) /\ proc'[r] = proc[r] /\ traits'[r] = traits[r]
        BY <1>0, <1>a, <2>3
      <3>3. \A r \in Runs : r < run => Quiet(r)'
        BY <3>2 DEF Quiet
      <3>4. pc' # "spawn" => run' = run
        BY <2>3
      <3>5. QED
        BY <2>4, <3>1, <3>3, <3>4 DEF Quiet
    <2>8. QED
      BY <2>3, <2>5, <2>6, <2>7 DEF SinceJoin
  <1>6. CASE Compare
    BY <1>0, <1>6 DEF Compare, Goto, Fresh, Quiet, SinceJoin, procVars
  <1>7. CASE UNCHANGED vars
    BY <1>0, <1>7 DEF vars, mainVars, procVars, Fresh, Quiet
  <1>8. ASSUME NEW r \in Runs, StartChild(r) PROVE P'
    <2>1. /\ UNCHANGED <<run, pc, interrupted>> /\ proc[r]["shell"] = "alive"
          /\ \A q \in Runs : q # r => proc'[q] = proc[q] /\ traits'[q] = traits[q]
          /\ traits'[r]["shell"] = traits[r]["shell"]
          /\ "escaped" \in traits'[r]["child"] => r \in strayed'
          /\ strayed \subseteq strayed'
      BY <1>0, <1>8, ChildStarts DEF StartChild, mainVars
    <2>2. ~ Quiet(r) /\ ~ Fresh(r)
      BY <1>0, <2>1 DEF Quiet, Members
    <2>3. QED
      BY <1>0, <2>1, <2>2 DEF Fresh, Quiet, Members
  <1>9. ASSUME NEW r \in Runs, Emit(r) PROVE P'
    BY <1>0, <1>9 DEF Emit, mainVars, procVars, Fresh, Quiet
  <1>10. ASSUME NEW r \in Runs, Produce(r) PROVE P'
    BY <1>0, <1>10 DEF Produce, mainVars, procVars, Fresh, Quiet
  <1>11. ASSUME NEW r \in Runs, Exit(r) PROVE P'
    <2>1. /\ UNCHANGED <<run, pc, interrupted, strayed>>
          /\ \A q \in Runs : q # r => proc'[q] = proc[q] /\ traits'[q] = traits[q]
          /\ \A m \in Members :
              \/ proc'[r][m] = proc[r][m] /\ traits'[r][m] = traits[r][m]
              \/ proc[r][m] = "alive" /\ proc'[r][m] = "dead" /\ traits'[r][m] = {}
      BY <1>0, <1>11, ExitEnds DEF Exit, mainVars
    <2>2. /\ \A q \in Runs : Quiet(q) => Quiet(q)'
          /\ \A q \in Runs : traits'[q]["shell"] = {} /\ ("escaped" \in traits'[q]["child"] => q \in strayed')
      BY <1>0, <2>1 DEF Quiet, Members
    <2>3. \A q \in Runs : Fresh(q)' => \A m \in Members : proc'[q][m] = "none"
      <3>1. \A q \in Runs : Fresh(q)' => Fresh(q)
        BY <2>1 DEF Fresh
      <3>2. \A q \in Runs : (\A m \in Members : proc[q][m] = "none") =>
                               \A m \in Members : proc'[q][m] = "none"
        BY <2>1
      <3>3. QED
        BY <1>0, <3>1, <3>2
    <2>4. QED
      BY <1>0, <2>1, <2>2, <2>3 DEF Quiet
  <1>12. ASSUME NEW r \in Runs, Read(r) PROVE P'
    BY <1>0, <1>12 DEF Read, mainVars, procVars, Fresh, Quiet
  <1>13. QED
    <2> HIDE DEF P
    <2>1. QED
      BY <1>1, <1>2, <1>3, <1>4, <1>5, <1>6, <1>7, <1>8, <1>9, <1>10, <1>11, <1>12, StepsAre

(* A command ends by raising just when it was interrupted.                   *)
LEMMA EndingsPreserved ==
  ASSUME IInv, [Next]_vars
  PROVE  EndingsTell'
  <1>0. TypeOK /\ EndingsTell
    BY DEF IInv
  <1>a. /\ run \in Runs /\ run \in {1, 2}
        /\ \A r \in Runs : (r > run => r # run) /\ (r < run => r # run) /\ r \in {1, 2}
    BY <1>0, TwoRuns
  <1>1. CASE WaitStep
    <2>1. /\ run' = run /\ pc' \notin {"spawn", "wait", "compare", "done"}
          /\ \A r \in Runs : r # run => ending'[r] = ending[r]
          /\ interrupted' # "never" <=> ending'[run] = "raise"
          /\ pc' = "inspect" => interrupted' = "never"
      BY <1>1, WaitsMean DEF Waited
    <2>2. \A r \in Runs : r < run' => ending'[r] # "raise"
      BY <1>0, <1>a, <2>1 DEF EndingsTell
    <2>3. \A r \in Runs : Fresh(r)' => Fresh(r) /\ r # run
      BY <1>a, <2>1 DEF Fresh
    <2>4. \A r \in Runs : Fresh(r)' => ending'[r] = "return"
      BY <1>0, <2>1, <2>3 DEF EndingsTell
    <2>5. QED
      BY <2>1, <2>2, <2>4 DEF EndingsTell
  <1>2. CASE Spawn
    BY <1>0, <1>2, <1>a, SpawnBegins DEF EndingsTell, Fresh
  <1>3. CASE Close
    BY <1>0, <1>3 DEF Close, Goto, Leave, As, Joined, Joining, EndingsTell, Fresh
  <1>4. CASE CloseUnder
    BY <1>0, <1>4 DEF CloseUnder, Goto, EndingsTell, Fresh
  <1>5. CASE Inspect
    <2>1. /\ pc = "inspect" /\ UNCHANGED <<ending, interrupted>>
          /\ \/ run = 1 /\ run' = 2 /\ pc' = "spawn"
             \/ run = 2 /\ run' = 2 /\ pc' = "compare"
      BY <1>0, <1>5, InspectTakes
    <2>2. interrupted = "never" /\ ending[run] # "raise"
      BY <1>0, <2>1 DEF EndingsTell
    <2>3. CASE run = 1
      <3>1. Fresh(2) /\ ending[2] = "return" /\ run' = 2
        BY <1>0, <2>1, <2>3 DEF Fresh, EndingsTell, Runs
      <3>2. QED
        BY <1>a, <2>1, <2>2, <2>3, <3>1 DEF EndingsTell, Fresh
    <2>4. CASE run = 2
      BY <1>0, <2>1, <2>2, <2>4 DEF EndingsTell, Fresh
    <2>5. QED
      BY <1>a, <2>3, <2>4
  <1>6. CASE Compare
    BY <1>0, <1>6 DEF Compare, Goto, EndingsTell, Fresh
  <1>7. CASE UNCHANGED vars
    BY <1>0, <1>7 DEF vars, mainVars, EndingsTell, Fresh
  <1>8. ASSUME UNCHANGED mainVars PROVE EndingsTell'
    BY <1>0, <1>8 DEF mainVars, EndingsTell, Fresh
  <1>9. QED
    BY <1>1, <1>2, <1>3, <1>4, <1>5, <1>6, <1>7, <1>8, StepsAre
       DEF StartChild, Emit, Produce, Exit, Read

(* The descriptor number stands for the present run, or was closed early.    *)
LEMMA DescriptorsPreserved ==
  ASSUME IInv, [Next]_vars
  PROVE  DescriptorsFollow'
  <1>0. TypeOK /\ EndingsTell /\ DescriptorsFollow /\ ProcessesEnd
    BY DEF IInv
  <1>a. /\ run \in Runs /\ run \in {1, 2}
        /\ \A r \in Runs : (r > run => r # run) /\ (r < run => r # run) /\ r \in {1, 2}
    BY <1>0, TwoRuns
  <1>1. CASE WaitStep
    <2>1. /\ UNCHANGED <<run, strayed, number, reader, from, forced>>
          /\ pc \in Capturing \cup {"release"}
          /\ pc' \in {"grace", "stop", "join", "join again", "join last", "inspect", "interrupted"}
          /\ pc' = "inspect" => pc = "release"
      BY <1>1, WaitsMean DEF Waited, pipeVars
    <2>2. \A r \in Runs : Fresh(r)' <=> Fresh(r)
      BY <1>a, <2>1 DEF Fresh, Capturing
    <2>3. \A r \in Runs : Returned(r)' => Returned(r) \/ (r = run /\ pc = "release")
      BY <1>a, <2>1 DEF Returned
    <2>4. \A r \in Runs : Returned(r)' /\ ~ Ended(r)' => r \in forced'
      BY <1>0, <2>1, <2>3 DEF DescriptorsFollow, Ended
    <2>5. QED
      BY <1>0, <2>1, <2>2, <2>4 DEF DescriptorsFollow, Capturing
  <1>2. CASE Spawn
    <2>1. /\ pc' = "wait" /\ number' = run /\ from'[run] = run /\ reader'[run] = "reading"
          /\ \A q \in Runs : q # run => reader'[q] = reader[q] /\ from'[q] = from[q]
          /\ UNCHANGED <<run, strayed, forced>> /\ pc = "spawn"
      BY <1>0, <1>2, SpawnBegins
    <2>2. \A r \in Runs : Fresh(r)' <=> reader'[r] = "none"
      BY <1>0, <1>a, <2>1 DEF Fresh, DescriptorsFollow
    <2>3. \A r \in Runs : Returned(r)' /\ ~ Ended(r)' => r \in forced'
      BY <1>0, <1>a, <2>1 DEF Returned, Ended, DescriptorsFollow
    <2>4. QED
      BY <1>0, <2>1, <2>2, <2>3 DEF DescriptorsFollow
  <1>3. CASE Close
    <2>1. /\ Ended(run) /\ pc \in {"join", "join again", "join last"}
          /\ pc' \in {"interrupted", "inspect", "error"} /\ number' = 0
          /\ UNCHANGED <<run, strayed, reader, from, forced>>
      BY <1>3 DEF Close, Joined, Joining, Goto, Leave, procVars
    <2>2. \A r \in Runs : Fresh(r)' <=> reader'[r] = "none"
      BY <1>0, <1>a, <2>1 DEF Fresh, DescriptorsFollow
    <2>3. \A r \in Runs : Returned(r)' /\ ~ Ended(r)' => r \in forced'
      BY <1>0, <1>a, <2>1 DEF Returned, Ended, DescriptorsFollow
    <2>4. QED
      BY <1>0, <2>1, <2>2, <2>3 DEF DescriptorsFollow, Capturing
  <1>4. CASE CloseUnder
    <2>1. /\ pc = "join last" /\ pc' = "release" /\ number' = 0 /\ forced' = forced \cup {run}
          /\ UNCHANGED <<run, strayed, reader, from>> /\ Writers(run) # {}
      BY <1>4 DEF CloseUnder, Late, Goto, procVars
    <2>2. run \in strayed
      <3>1. PICK m \in Members : proc[run][m] = "alive"
        BY <2>1 DEF Writers, Alive
      <3>2. "escaped" \in traits[run][m]
        BY <1>0, <2>1, <3>1 DEF ProcessesEnd, Group, Alive
      <3>3. QED
        BY <1>0, <1>a, <3>2 DEF ProcessesEnd, Members
    <2>3. \A r \in Runs : Fresh(r)' <=> reader'[r] = "none"
      BY <1>0, <1>a, <2>1 DEF Fresh, DescriptorsFollow
    <2>4. \A r \in Runs : Returned(r)' /\ ~ Ended(r)' => r \in forced'
      BY <1>0, <1>a, <2>1 DEF Returned, Ended, DescriptorsFollow
    <2>5. forced' \subseteq strayed' \cap 1 .. run'
      <3>1. run \in 1 .. run
        BY <1>a
      <3>2. forced \subseteq strayed \cap 1 .. run
        BY <1>0 DEF DescriptorsFollow
      <3>3. QED
        BY <2>1, <2>2, <3>1, <3>2
    <2>6. QED
      BY <1>0, <2>1, <2>3, <2>4, <2>5 DEF DescriptorsFollow, Capturing
  <1>5. CASE Inspect
    <2>1. /\ pc = "inspect" /\ UNCHANGED <<strayed, number, reader, from, forced>>
          /\ \/ run = 1 /\ run' = 2 /\ pc' = "spawn"
             \/ run = 2 /\ run' = 2 /\ pc' = "compare"
      BY <1>0, <1>5, InspectTakes
    <2>2. number = 0 /\ forced \subseteq strayed \cap 1 .. run
      BY <1>0, <2>1 DEF DescriptorsFollow
    <2>3. forced' \subseteq strayed' \cap 1 .. run'
      BY <2>1, <2>2
    <2>4. \A r \in Runs : Fresh(r)' <=> Fresh(r)
      BY <1>a, <2>1 DEF Fresh
    <2>5. \A r \in Runs : Returned(r)' => Returned(r)
      BY <1>a, <2>1 DEF Returned
    <2>6. \A r \in Runs : Returned(r)' /\ ~ Ended(r)' => r \in forced'
      BY <1>0, <2>1, <2>5 DEF DescriptorsFollow, Ended
    <2>7. \A r \in Runs : Fresh(r)' <=> reader'[r] = "none"
      BY <1>0, <2>1, <2>4 DEF DescriptorsFollow
    <2>8. from[run'] \in {0, run'}
      <3>1. CASE run = 1
        <4>1. Fresh(2) /\ 2 \in Runs /\ run' = 2
          BY <2>1, <3>1 DEF Fresh, Runs
        <4>2. reader[2] = "none"
          BY <1>0, <4>1 DEF DescriptorsFollow
        <4>3. from[2] = 0
          BY <1>0, <4>1, <4>2 DEF TypeOK
        <4>4. QED
          BY <4>1, <4>3
      <3>2. CASE run = 2
        BY <1>0, <2>1, <3>2 DEF DescriptorsFollow
      <3>3. QED
        BY <1>a, <3>1, <3>2
    <2>9. QED
      BY <2>1, <2>2, <2>3, <2>6, <2>7, <2>8 DEF DescriptorsFollow, Capturing
  <1>6. CASE Compare
    <2>1. /\ pc = "compare" /\ pc' = "done"
          /\ UNCHANGED <<run, strayed, number, reader, from, forced>>
      BY <1>6 DEF Compare, Goto, procVars, pipeVars
    <2>2. QED
      BY <1>0, <2>1 DEF DescriptorsFollow, Capturing, Fresh, Returned, Ended
  <1>7. ASSUME UNCHANGED <<pc, run, number, reader, from, forced>>, strayed \subseteq strayed'
        PROVE  DescriptorsFollow'
    BY <1>0, <1>7 DEF DescriptorsFollow, Fresh, Returned, Ended
  <1>8. CASE UNCHANGED vars
    BY <1>7, <1>8 DEF vars, mainVars, procVars, pipeVars
  <1>9. ASSUME NEW r \in Runs, StartChild(r) PROVE DescriptorsFollow'
    BY <1>0, <1>7, <1>9, ChildStarts DEF StartChild, mainVars, pipeVars
  <1>10. ASSUME NEW r \in Runs, Read(r) PROVE DescriptorsFollow'
    <2>1. /\ reader[r] = "reading"
          /\ \A q \in Runs : q # r => reader'[q] = reader[q] /\ from'[q] = from[q]
          /\ \/ /\ reader'[r] = "ended" /\ from'[r] = 0
                /\ number' = IF r \in forced THEN 0 ELSE number
             \/ number # 0 /\ reader'[r] = "reading" /\ from'[r] = number /\ number' = number
          /\ UNCHANGED <<pc, run, strayed, forced>>
      BY <1>0, <1>10, ReadTakes DEF mainVars, procVars
    <2>2. \A q \in Runs : Fresh(q)' <=> reader'[q] = "none"
      BY <1>0, <2>1 DEF DescriptorsFollow, Fresh
    <2>3. \A q \in Runs : Ended(q) => Ended(q)'
      BY <2>1 DEF Ended
    <2>4. \A q \in Runs : Returned(q)' /\ ~ Ended(q)' => q \in forced'
      BY <1>0, <2>1, <2>3 DEF DescriptorsFollow, Returned
    <2>5. from'[run] \in {0, run} /\ number' \in {0, run} /\ (number = 0 => number' = 0)
      BY <1>0, <1>a, <2>1 DEF DescriptorsFollow
    <2>6. QED
      BY <1>0, <2>1, <2>2, <2>4, <2>5 DEF DescriptorsFollow
  <1>11. QED
    BY <1>1, <1>2, <1>3, <1>4, <1>5, <1>6, <1>7, <1>8, <1>9, <1>10, StepsAre
       DEF Emit, Produce, Exit, mainVars, procVars, pipeVars

(* Moving the head of one sequence to the end of another.                    *)
LEMMA ReadMoves ==
  ASSUME NEW S, NEW c \in Seq(S), NEW p \in Seq(S), p # <<>>
  PROVE  /\ Append(c, Head(p)) \o Tail(p) = c \o p
         /\ Of(Tail(p)) \subseteq Of(p)
         /\ Of(Append(c, Head(p))) \subseteq Of(c) \cup Of(p)
  <1>1. /\ Tail(p) \in Seq(S) /\ Head(p) = p[1] /\ Len(p) \in Nat /\ Len(p) > 0 /\ Len(c) \in Nat
        /\ Len(Tail(p)) = Len(p) - 1 /\ \A i \in 1 .. Len(p) - 1 : Tail(p)[i] = p[i + 1]
        /\ DOMAIN p = 1 .. Len(p) /\ DOMAIN Tail(p) = 1 .. Len(p) - 1 /\ DOMAIN c = 1 .. Len(c)
    BY HeadTailProperties, EmptySeq
  <1>2. /\ Append(c, Head(p)) \in Seq(S) /\ Len(Append(c, Head(p))) = Len(c) + 1
        /\ DOMAIN Append(c, Head(p)) = 1 .. Len(c) + 1
        /\ \A i \in 1 .. Len(c) : Append(c, Head(p))[i] = c[i]
        /\ Append(c, Head(p))[Len(c) + 1] = p[1]
    BY <1>1, HeadTailProperties, AppendProperties
  <1>3. Of(Tail(p)) \subseteq Of(p)
    BY <1>1 DEF Of
  <1>4. Of(Append(c, Head(p))) \subseteq Of(c) \cup Of(p)
    BY <1>1, <1>2 DEF Of
  <1>5. Append(c, Head(p)) \o Tail(p) = c \o p
    <2> DEFINE a == Append(c, Head(p)) \o Tail(p)
               b == c \o p
    <2>1. /\ a \in Seq(S) /\ Len(a) = Len(c) + 1 + (Len(p) - 1)
          /\ \A i \in 1 .. Len(a) :
               a[i] = IF i <= Len(c) + 1 THEN Append(c, Head(p))[i] ELSE Tail(p)[i - (Len(c) + 1)]
      BY <1>1, <1>2, ConcatProperties
    <2>2. /\ b \in Seq(S) /\ Len(b) = Len(c) + Len(p)
          /\ \A i \in 1 .. Len(b) : b[i] = IF i <= Len(c) THEN c[i] ELSE p[i - Len(c)]
      BY <1>1, ConcatProperties
    <2> HIDE DEF a, b
    <2>3. Len(a) = Len(b)
      BY <1>1, <2>1, <2>2
    <2>4. ASSUME NEW i \in 1 .. Len(a) PROVE a[i] = b[i]
      <3>1. CASE i <= Len(c)
        BY <1>1, <1>2, <2>1, <2>2, <2>3, <3>1
      <3>2. CASE i = Len(c) + 1
        BY <1>1, <1>2, <2>1, <2>2, <2>3, <3>2
      <3>3. CASE i > Len(c) + 1
        <4>1. i - (Len(c) + 1) \in 1 .. Len(p) - 1 /\ i - (Len(c) + 1) + 1 = i - Len(c)
          BY <1>1, <2>1, <3>3
        <4>2. a[i] = p[i - Len(c)]
          BY <1>1, <2>1, <3>3, <4>1
        <4>3. b[i] = p[i - Len(c)]
          BY <1>1, <2>2, <2>3, <3>3
        <4>4. QED
          BY <4>2, <4>3
      <3>4. i <= Len(c) \/ i = Len(c) + 1 \/ i > Len(c) + 1
        BY <1>1, <2>1
      <3>5. QED
        BY <3>1, <3>2, <3>3, <3>4
    <2>5. a = b
      BY <2>1, <2>2, <2>3, <2>4, SeqEqual
    <2>6. QED
      BY <2>5 DEF a, b
  <1>6. QED
    BY <1>3, <1>4, <1>5

(* Adding the same element to what is in the pipe and to what was printed.   *)
LEMMA EmitExtends ==
  ASSUME NEW S, NEW c \in Seq(S), NEW p \in Seq(S), NEW v \in S
  PROVE  /\ c \o Append(p, v) = Append(c \o p, v)
         /\ Of(Append(p, v)) = Of(p) \cup {v}
  <1>1. /\ Len(c) \in Nat /\ Len(p) \in Nat /\ DOMAIN p = 1 .. Len(p)
        /\ Append(p, v) \in Seq(S) /\ Len(Append(p, v)) = Len(p) + 1
        /\ DOMAIN Append(p, v) = 1 .. Len(p) + 1
        /\ \A i \in 1 .. Len(p) : Append(p, v)[i] = p[i]
        /\ Append(p, v)[Len(p) + 1] = v
    BY AppendProperties
  <1>2. Of(Append(p, v)) = Of(p) \cup {v}
    BY <1>1 DEF Of
  <1>3. c \o Append(p, v) = Append(c \o p, v)
    <2>1. Append(p, v) = p \o <<v>> /\ <<v>> \in Seq(S)
      BY AppendIsConcat
    <2>2. c \o p \in Seq(S) /\ Append(c \o p, v) = (c \o p) \o <<v>>
      BY ConcatProperties, AppendIsConcat
    <2>3. (c \o p) \o <<v>> = c \o (p \o <<v>>)
      BY <2>1, ConcatAssociative
    <2>4. QED
      BY <2>1, <2>2, <2>3
  <1>4. QED
    BY <1>2, <1>3

(* While no process keeps a pipe only the present run's reader reads, and it *)
(* reads the present run's pipe.                                             *)
LEMMA CleanRead ==
  ASSUME IInv, Clean, NEW r \in Runs, pc \notin Ends, Read(r)
  PROVE  r = run /\ from[run] = run /\ number = run
  <1>0. TypeOK /\ DescriptorsFollow /\ reader[r] = "reading"
    BY DEF IInv, Read
  <1>a. run \in Runs /\ r \in {1, 2} /\ run \in {1, 2}
    BY <1>0, TwoRuns
  <1>1. forced = {}
    BY <1>0 DEF DescriptorsFollow, Clean
  <1>2. ~ Fresh(r) /\ ~ Returned(r)
    BY <1>0, <1>1 DEF DescriptorsFollow, Ended
  <1>3. r = run
    BY <1>a, <1>2 DEF Fresh, Returned
  <1>4. from[run] = run
    BY <1>0, <1>3 DEF DescriptorsFollow, TypeOK
  <1>5. pc \in Capturing
    <2>1. pc \notin {"spawn", "inspect", "compare", "done", "release"}
      BY <1>0, <1>1, <1>2, <1>3 DEF Fresh, Returned, DescriptorsFollow
    <2>2. QED
      BY <1>0, <2>1 DEF TypeOK, Capturing
  <1>6. QED
    BY <1>0, <1>1, <1>3, <1>4, <1>5 DEF DescriptorsFollow

(* What was captured and what the pipe holds is all that was printed.        *)
LEMMA CapturesPreserved ==
  ASSUME IInv, [Next]_vars
  PROVE  CapturesGrow'
  <1>0. TypeOK /\ DescriptorsFollow /\ ProcessesEnd /\ CapturesGrow
    BY DEF IInv
  <1>a. /\ run \in Runs /\ run \in {1, 2}
        /\ \A r \in Runs : (r > run => r # run) /\ (r < run => r # run) /\ r \in {1, 2}
    BY <1>0, TwoRuns
  <1>1. ASSUME UNCHANGED <<run, captured, pipe, printed>>, strayed \subseteq strayed',
               \A r \in Runs : Fresh(r)' => Fresh(r), Inspected(run) => Inspected(run)',
               Ended(run)' => Ended(run), Writers(run)' \subseteq Writers(run)
        PROVE  CapturesGrow'
    <2>1. Clean' => Clean
      BY <1>1 DEF Clean
    <2>2. QED
      BY <1>0, <1>1, <2>1 DEF CapturesGrow
  <1>2. CASE WaitStep
    <2>1. /\ UNCHANGED <<run, captured, pipe, printed, strayed, reader>>
          /\ pc \in Capturing \cup {"release"} /\ pc' # "spawn"
          /\ \A m \in Members :
               \/ proc'[run][m] = proc[run][m] /\ traits'[run][m] = traits[run][m]
               \/ proc[run][m] = "alive" /\ proc'[run][m] = "dead" /\ traits'[run][m] = {}
      BY <1>2, WaitsMean DEF Waited, dataVars, pipeVars
    <2>2. Writers(run)' \subseteq Writers(run)
      BY <2>1 DEF Writers, Alive
    <2>3. QED
      BY <1>1, <1>a, <2>1, <2>2 DEF Fresh, Inspected, Ended, Capturing
  <1>3. CASE Spawn
    <2>1. /\ UNCHANGED <<run, captured, pipe, printed, strayed>> /\ pc = "spawn" /\ pc' = "wait"
          /\ reader'[run] = "reading"
      BY <1>0, <1>3, SpawnBegins
    <2>2. \A r \in Runs : Fresh(r)' => Fresh(r)
      BY <2>1 DEF Fresh
    <2>3. ~ Inspected(run) /\ ~ Ended(run)' /\ (Clean' => Clean)
      BY <1>a, <2>1 DEF Inspected, Ended, Clean
    <2>4. QED
      BY <1>0, <2>1, <2>2, <2>3 DEF CapturesGrow
  <1>4. CASE Close \/ CloseUnder
    <2>1. /\ UNCHANGED <<run, captured, pipe, printed, strayed, reader, proc, traits>>
          /\ pc \in {"join", "join again", "join last"} /\ pc' # "spawn"
      BY <1>4 DEF Close, CloseUnder, Joined, Joining, Goto, Leave, procVars, dataVars
    <2>2. QED
      BY <1>1, <1>a, <2>1 DEF Fresh, Inspected, Ended, Writers, Alive
  <1>5. CASE Inspect
    <2>1. /\ \/ run = 1 /\ run' = 2 /\ pc' = "spawn"
             \/ run = 2 /\ run' = 2 /\ pc' = "compare"
          /\ captured'[run] = <<>> /\ \A q \in Runs : q # run => captured'[q] = captured[q]
          /\ \A m \in Members : proc'[run][m] = "alive" =>
               m \in Writers(run) /\ proc'[run][m] = proc[run][m] /\ traits'[run][m] = traits[run][m]
          /\ UNCHANGED <<printed, pipe, reader, strayed>>
      BY <1>0, <1>5, InspectTakes DEF dataVars
    <2>2. \A r \in Runs : Fresh(r)' => Fresh(r) /\ r # run
      <3>1. \/ run = 1 /\ run' = 2 /\ pc' = "spawn"
            \/ run = 2 /\ run' = 2 /\ pc' = "compare"
        BY <2>1
      <3>2. QED
        BY <1>a, <3>1 DEF Fresh
    <2>3. \A r \in Runs : Fresh(r)' => captured'[r] = <<>> /\ pipe'[r] = <<>> /\ printed'[r] = <<>>
      BY <1>0, <2>1, <2>2 DEF CapturesGrow
    <2>4. CASE run = 1
      <3>1. run' = 2 /\ pc' = "spawn" /\ Fresh(2)' /\ Fresh(2) /\ 2 \in Runs
        BY <2>1, <2>4 DEF Fresh, Runs
      <3>2. captured'[2] = <<>> /\ pipe'[2] = <<>> /\ printed'[2] = <<>> /\ reader'[2] = "none"
        BY <1>0, <2>1, <2>3, <3>1 DEF DescriptorsFollow
      <3>3. <<>> \o <<>> = <<>>
        OBVIOUS
      <3>4. Of(captured'[2]) \subseteq Of(printed'[2])
        BY <3>2
      <3>5. \A r \in Runs : Of(pipe'[r]) \subseteq Of(printed'[r])
        BY <1>0, <2>1 DEF CapturesGrow
      <3>6. captured'[2] \o pipe'[2] = printed'[2] /\ ~ Ended(2)'
        BY <3>2, <3>3 DEF Ended
      <3>7. QED
        BY <2>3, <3>1, <3>4, <3>5, <3>6 DEF CapturesGrow
    <2>5. CASE run = 2
      <3>1. /\ run' = run /\ Inspected(run)' /\ (Clean' => Clean) /\ (Ended(run)' => Ended(run))
            /\ Writers(run)' \subseteq Writers(run)
        BY <2>1, <2>5 DEF Inspected, Clean, Ended, Writers, Alive
      <3>2. Of(captured'[run]) \subseteq Of(printed'[run])
        BY <2>1 DEF Of
      <3>3. QED
        BY <1>0, <2>1, <2>3, <3>1, <3>2 DEF CapturesGrow
    <2>6. QED
      BY <1>a, <2>4, <2>5
  <1>6. CASE Compare
    <2>1. /\ UNCHANGED <<run, captured, pipe, printed, strayed, reader, proc, traits>>
          /\ pc = "compare" /\ pc' = "done"
      BY <1>6 DEF Compare, Goto, procVars, dataVars, pipeVars
    <2>2. QED
      BY <1>1, <1>a, <2>1 DEF Fresh, Inspected, Ended, Writers, Alive
  <1>7. CASE UNCHANGED vars
    BY <1>1, <1>7 DEF vars, mainVars, procVars, dataVars, pipeVars, Fresh, Inspected, Ended, Writers, Alive
  <1>8. ASSUME NEW r \in Runs, StartChild(r) PROVE CapturesGrow'
    <2>1. /\ UNCHANGED <<run, pc, captured, pipe, printed, reader>> /\ proc[r]["shell"] = "alive"
          /\ strayed \subseteq strayed'
          /\ \A q \in Runs : q # r => proc'[q] = proc[q] /\ traits'[q] = traits[q]
      BY <1>0, <1>8, ChildStarts DEF StartChild, mainVars, dataVars, pipeVars
    <2>2. CASE r # run
      BY <1>1, <1>a, <2>1, <2>2 DEF Fresh, Inspected, Ended, Writers, Alive
    <2>3. CASE r = run
      <3>1. "shell" \in Writers(run)
        BY <1>0, <1>a, <2>1, <2>3 DEF Writers, Alive, ProcessesEnd, Members
      <3>2. (Clean' => Clean) /\ ~ (Clean /\ Ended(run)) /\ (Ended(run)' <=> Ended(run))
        BY <1>0, <2>1, <3>1 DEF Clean, CapturesGrow, Ended
      <3>3. QED
        BY <1>0, <2>1, <3>2 DEF CapturesGrow, Fresh, Inspected
    <2>4. QED
      BY <2>2, <2>3
  <1>9. ASSUME NEW r \in Runs, Produce(r) \/ Exit(r) PROVE CapturesGrow'
    <2>1. UNCHANGED <<run, pc, captured, pipe, printed, reader, strayed>>
      BY <1>9 DEF Produce, Exit, mainVars, procVars, dataVars, pipeVars
    <2>2. Writers(run)' \subseteq Writers(run)
      <3>1. CASE Produce(r)
        BY <3>1 DEF Produce, procVars, mainVars, Writers, Alive
      <3>2. CASE Exit(r)
        <4>1. /\ \A q \in Runs : q # r => proc'[q] = proc[q] /\ traits'[q] = traits[q]
              /\ \A m \in Members :
                   \/ proc'[r][m] = proc[r][m] /\ traits'[r][m] = traits[r][m]
                   \/ proc'[r][m] = "dead"
          BY <1>0, <3>2, ExitEnds
        <4>2. QED
          BY <1>a, <2>1, <4>1 DEF Writers, Alive
      <3>3. QED
        BY <1>9, <3>1, <3>2
    <2>3. QED
      BY <1>1, <2>1, <2>2 DEF Fresh, Inspected, Ended
  <1>10. ASSUME NEW r \in Runs, Emit(r) PROVE CapturesGrow'
    <2>1. PICK v \in Values : printed'[r] = Append(printed[r], v) /\ pipe'[r] = Append(pipe[r], v)
      BY <1>0, <1>10, EmitAdds
    <2>2. /\ Writers(r) # {} /\ UNCHANGED <<run, pc, captured, reader, strayed, proc, traits>>
          /\ \A q \in Runs : q # r => printed'[q] = printed[q] /\ pipe'[q] = pipe[q]
      BY <1>0, <1>10, EmitAdds DEF mainVars, procVars, pipeVars
    <2>3. captured[r] \in Seq(Values) /\ pipe[r] \in Seq(Values) /\ printed[r] \in Seq(Values)
      BY <1>0 DEF TypeOK
    <2>4. /\ Of(printed'[r]) = Of(printed[r]) \cup {v} /\ Of(pipe'[r]) = Of(pipe[r]) \cup {v}
          /\ captured[r] \o pipe'[r] = Append(captured[r] \o pipe[r], v)
      <3>1. /\ Of(Append(printed[r], v)) = Of(printed[r]) \cup {v}
            /\ Of(Append(pipe[r], v)) = Of(pipe[r]) \cup {v}
        BY <2>3, EmitExtends
      <3>2. captured[r] \o Append(pipe[r], v) = Append(captured[r] \o pipe[r], v)
        <4>1. ASSUME NEW c \in Seq(Values), NEW p \in Seq(Values), NEW u \in Values
              PROVE  c \o Append(p, u) = Append(c \o p, u)
          BY EmitExtends
        <4>2. QED
          BY <2>3, <4>1, Zenon
      <3>3. QED
        BY <2>1, <3>1, <3>2, Zenon
    <2>5. ~ Fresh(r)
      BY <1>0, <2>2 DEF ProcessesEnd, Writers, Alive
    <2>6. /\ Of(captured'[run]) \subseteq Of(printed'[run])
          /\ \A q \in Runs : Of(pipe'[q]) \subseteq Of(printed'[q])
      BY <1>0, <1>a, <2>2, <2>4 DEF CapturesGrow
    <2>7. \A q \in Runs : Fresh(q)' => Fresh(q) /\ q # r
      BY <2>2, <2>5 DEF Fresh
    <2>8. Clean' /\ ~ Inspected(run)' => captured'[run] \o pipe'[run] = printed'[run]
      <3>1. Clean' /\ ~ Inspected(run)' => captured[run] \o pipe[run] = printed[run]
        BY <1>0, <2>2 DEF CapturesGrow, Clean, Inspected
      <3>2. CASE r = run
        BY <2>1, <2>2, <2>4, <3>1, <3>2
      <3>3. CASE r # run
        BY <1>a, <2>2, <3>1, <3>3
      <3>4. QED
        BY <3>2, <3>3
    <2>9. Clean' /\ Ended(run)' => pipe'[run] = <<>> /\ Writers(run)' = {}
      <3>1. Clean' /\ Ended(run)' => pipe[run] = <<>> /\ Writers(run) = {}
        BY <1>0, <2>2 DEF CapturesGrow, Clean, Ended
      <3>2. QED
        BY <1>a, <2>2, <3>1 DEF Writers, Alive
    <2>10. \A q \in Runs : Fresh(q)' => captured'[q] = <<>> /\ pipe'[q] = <<>> /\ printed'[q] = <<>>
      BY <1>0, <2>2, <2>7 DEF CapturesGrow
    <2>11. QED
      BY <2>2, <2>6, <2>8, <2>9, <2>10 DEF CapturesGrow
  <1>11. ASSUME NEW r \in Runs, pc \notin Ends, Read(r) PROVE CapturesGrow'
    <2> DEFINE q == from[r]
    <2>1. /\ reader[r] = "reading" /\ q \in Runs
          /\ UNCHANGED <<run, pc, strayed, proc, traits, printed>>
          /\ \/ pipe[q] = <<>> /\ Writers(q) = {} /\ reader'[r] = "ended" /\ UNCHANGED <<captured, pipe>>
             \/ /\ pipe[q] # <<>>
                /\ captured' = [captured EXCEPT ![r] = Append(@, Head(pipe[q]))]
                /\ pipe' = [pipe EXCEPT ![q] = Tail(@)]
                /\ reader'[r] = "ended" => number = 0
          /\ \A p \in Runs : p # r => reader'[p] = reader[p]
      BY <1>0, <1>11, ReadTakes DEF mainVars, procVars
    <2>2. Clean => r = run /\ q = run /\ number # 0
      BY <1>11, <1>a, CleanRead
    <2>3. r = run => q = run
      BY <1>0, <2>1 DEF DescriptorsFollow, TypeOK
    <2>4. ~ Fresh(r)
      BY <1>0, <2>1 DEF DescriptorsFollow
    <2>5. /\ captured \in [Runs -> Seq(Values)] /\ pipe \in [Runs -> Seq(Values)]
          /\ captured[r] \in Seq(Values) /\ pipe[q] \in Seq(Values)
      BY <1>0, <2>1 DEF TypeOK
    <2> HIDE DEF q
    <2>6. CASE pipe[q] = <<>>
      <3>1. /\ Writers(q) = {} /\ UNCHANGED <<captured, pipe>>
            /\ (Clean' => Clean) /\ (Inspected(run)' <=> Inspected(run))
            /\ \A p \in Runs : Fresh(p)' => Fresh(p)
        BY <2>1, <2>6 DEF Clean, Inspected, Fresh
      <3>2. Clean => pipe[run] = <<>> /\ Writers(run)' = {}
        BY <2>1, <2>2, <2>6, <3>1 DEF Writers, Alive
      <3>3. QED
        BY <1>0, <2>1, <3>1, <3>2 DEF CapturesGrow
    <2>7. CASE pipe[q] # <<>>
      <3>1. /\ captured' = [captured EXCEPT ![r] = Append(@, Head(pipe[q]))]
            /\ pipe' = [pipe EXCEPT ![q] = Tail(@)]
            /\ reader'[r] = "ended" => number = 0
            /\ (Clean' => Clean) /\ (Inspected(run)' <=> Inspected(run))
        BY <2>1, <2>7 DEF Clean, Inspected
      <3>2. /\ Append(captured[r], Head(pipe[q])) \o Tail(pipe[q]) = captured[r] \o pipe[q]
            /\ Of(Tail(pipe[q])) \subseteq Of(pipe[q])
            /\ Of(Append(captured[r], Head(pipe[q]))) \subseteq Of(captured[r]) \cup Of(pipe[q])
        BY <2>5, <2>7, ReadMoves
      <3>3. /\ captured'[r] = Append(captured[r], Head(pipe[q])) /\ pipe'[q] = Tail(pipe[q])
            /\ \A p \in Runs : p # r => captured'[p] = captured[p]
            /\ \A p \in Runs : p # q => pipe'[p] = pipe[p]
        BY <2>1, <2>5, <3>1
      <3>4. \A p \in Runs : Of(pipe'[p]) \subseteq Of(printed'[p])
        BY <1>0, <2>1, <3>2, <3>3 DEF CapturesGrow
      <3>5. Of(captured'[run]) \subseteq Of(printed'[run])
        BY <1>0, <1>a, <2>1, <2>3, <3>2, <3>3 DEF CapturesGrow
      <3>6. \A p \in Runs : Fresh(p)' => Fresh(p) /\ p # r /\ p # q
        BY <1>0, <2>1, <2>4, <2>7 DEF Fresh, CapturesGrow
      <3>7. \A p \in Runs : Fresh(p)' => captured'[p] = <<>> /\ pipe'[p] = <<>> /\ printed'[p] = <<>>
        BY <1>0, <2>1, <3>3, <3>6 DEF CapturesGrow
      <3>8. Clean' /\ ~ Inspected(run)' => captured'[run] \o pipe'[run] = printed'[run]
        BY <1>0, <2>1, <2>2, <3>1, <3>2, <3>3 DEF CapturesGrow
      <3>9. ~ (Clean' /\ Ended(run)')
        BY <2>1, <2>2, <3>1 DEF Ended
      <3>10. QED
        BY <2>1, <3>4, <3>5, <3>7, <3>8, <3>9 DEF CapturesGrow
    <2>8. QED
      BY <2>6, <2>7
  <1>12. QED
    BY <1>2, <1>3, <1>4, <1>5, <1>6, <1>7, <1>8, <1>9, <1>10, <1>11, StepsAre

(* An output that is there was made in its run.                              *)
LEMMA OutputsPreserved ==
  ASSUME IInv, [Next]_vars
  PROVE  OutputsMade'
  <1>0. TypeOK /\ ProcessesEnd /\ OutputsMade
    BY DEF IInv
  <1>a. /\ run \in Runs /\ run \in {1, 2}
        /\ \A r \in Runs : (r > run => r # run) /\ (r < run => r # run) /\ r \in {1, 2}
    BY <1>0, TwoRuns
  <1>1. ASSUME UNCHANGED <<file, made>>, \A r \in Runs : Fresh(r)' <=> Fresh(r)
        PROVE  OutputsMade'
    BY <1>0, <1>1 DEF OutputsMade
  <1>2. CASE WaitStep
    <2>1. UNCHANGED <<run, file, made>> /\ pc # "spawn" /\ pc' # "spawn"
      BY <1>2, WaitsMean DEF Waited, Capturing, dataVars
    <2>2. QED
      BY <1>1, <2>1 DEF Fresh
  <1>3. CASE Spawn
    <2>1. /\ UNCHANGED <<run, made>> /\ pc = "spawn" /\ pc' = "wait" /\ file'[run] = Nothing
          /\ \A q \in Runs : q # run => file'[q] = file[q]
      BY <1>0, <1>3, SpawnBegins
    <2>2. \A q \in Runs : q # run => (Fresh(q)' <=> Fresh(q))
      BY <2>1 DEF Fresh
    <2>3. ~ Fresh(run)'
      BY <1>a, <2>1 DEF Fresh
    <2>4. QED
      BY <1>0, <2>1, <2>2, <2>3 DEF OutputsMade
  <1>4. CASE Close \/ CloseUnder \/ Compare
    <2>1. UNCHANGED <<run, file, made>> /\ pc # "spawn" /\ pc' # "spawn"
      BY <1>4 DEF Close, CloseUnder, Compare, Joined, Joining, Goto, Leave, dataVars
    <2>2. QED
      BY <1>1, <2>1 DEF Fresh
  <1>5. CASE Inspect
    <2>1. /\ pc = "inspect" /\ UNCHANGED <<file, made>>
          /\ \/ run = 1 /\ run' = 2 /\ pc' = "spawn"
             \/ run = 2 /\ run' = 2 /\ pc' = "compare"
      BY <1>0, <1>5, InspectTakes DEF dataVars
    <2>2. \A r \in Runs : Fresh(r)' <=> Fresh(r)
      BY <1>a, <2>1 DEF Fresh
    <2>3. QED
      BY <1>1, <2>1, <2>2
  <1>6. CASE UNCHANGED vars
    BY <1>1, <1>6 DEF vars, mainVars, dataVars, Fresh
  <1>7. ASSUME NEW r \in Runs, StartChild(r) \/ Emit(r) \/ Exit(r) \/ Read(r) PROVE OutputsMade'
    BY <1>1, <1>7 DEF StartChild, Emit, Exit, Read, mainVars, dataVars, Fresh
  <1>8. ASSUME NEW r \in Runs, Produce(r) PROVE OutputsMade'
    <2>1. /\ Alive(r) # {} /\ UNCHANGED <<pc, run>>
          /\ file' = [file EXCEPT ![r] = First] /\ made' = [made EXCEPT ![r] = {First}]
      BY <1>8 DEF Produce, mainVars
    <2>2. /\ file'[r] = First /\ made'[r] = {First}
          /\ \A q \in Runs : q # r => file'[q] = file[q] /\ made'[q] = made[q]
      BY <1>0, <2>1 DEF TypeOK
    <2>3. ~ Fresh(r)' /\ \A q \in Runs : Fresh(q)' <=> Fresh(q)
      BY <1>0, <2>1 DEF ProcessesEnd, Alive, Fresh
    <2>4. QED
      BY <1>0, <2>2, <2>3 DEF OutputsMade
  <1>9. QED
    BY <1>2, <1>3, <1>4, <1>5, <1>6, <1>7, <1>8, StepsAre

(* What has been printed or made in a run stays.                             *)
LEMMA WrittenStays ==
  ASSUME TypeOK, [Next]_vars, IInv, NEW r \in Runs, NEW kind \in Kinds
  PROVE  Wrote(r, kind) \subseteq Wrote(r, kind)'
  <1>1. CASE UNCHANGED <<printed, made>>
    BY <1>1 DEF Wrote
  <1>2. ASSUME NEW q \in Runs, Emit(q) PROVE Wrote(r, kind) \subseteq Wrote(r, kind)'
    <2>1. PICK v \in Values : printed'[q] = Append(printed[q], v)
      BY <1>2, EmitAdds
    <2>2. UNCHANGED made /\ \A p \in Runs : p # q => printed'[p] = printed[p]
      BY <1>2, EmitAdds
    <2>3. printed[q] \in Seq(Values)
      BY DEF TypeOK
    <2>4. Of(printed'[q]) = Of(printed[q]) \cup {v}
      BY <2>1, <2>3, EmitExtends
    <2>5. Of(printed[r]) \subseteq Of(printed'[r])
      BY <2>2, <2>4
    <2>6. QED
      BY <2>2, <2>5 DEF Wrote
  <1>3. ASSUME NEW q \in Runs, Produce(q) PROVE Wrote(r, kind) \subseteq Wrote(r, kind)'
    <2>1. made[q] = {} /\ made' = [made EXCEPT ![q] = {First}] /\ UNCHANGED printed
      BY <1>3 DEF Produce
    <2>2. made[r] \subseteq made'[r]
      BY <2>1 DEF TypeOK
    <2>3. QED
      BY <2>1, <2>2 DEF Wrote
  <1>4. UNCHANGED <<printed, made>>
          \/ (\E q \in Runs : Emit(q)) \/ (\E q \in Runs : Produce(q))
    <2>1. CASE WaitStep
      BY <2>1, WaitsMean DEF Waited, dataVars
    <2>2. CASE Spawn \/ Close \/ CloseUnder \/ Inspect \/ Compare \/ UNCHANGED vars
      BY <2>2 DEF Spawn, Close, CloseUnder, Inspect, Compare, vars, dataVars
    <2>3. ASSUME NEW q \in Runs, StartChild(q) \/ Exit(q) \/ Read(q) PROVE UNCHANGED <<printed, made>>
      BY <2>3 DEF StartChild, Exit, Read, dataVars
    <2>4. QED
      BY <2>1, <2>2, <2>3, StepsAre
  <1>5. QED
    BY <1>1, <1>2, <1>3, <1>4

(* A fingerprint keeps standing for its run's code, metric and output.       *)
LEMMA ResultsPreserved ==
  ASSUME IInv, [Next]_vars
  PROVE  ResultsRest'
  <1>0. TypeOK /\ ProcessesEnd /\ EndingsTell /\ CapturesGrow /\ OutputsMade /\ ResultsRest
    BY DEF IInv
  <1>a. /\ run \in Runs /\ run \in {1, 2}
        /\ \A r \in Runs : (r > run => r # run) /\ (r < run => r # run) /\ r \in {1, 2}
    BY <1>0, TwoRuns
  <1>b. \A r \in Runs : \A kind \in Kinds : Wrote(r, kind) \subseteq Wrote(r, kind)'
    BY <1>0, WrittenStays
  <1> DEFINE Rests(r) == /\ result[r].exit = 0 => code[r] = 0 /\ ending[r] = "return"
                         /\ \A kind \in Kinds : result[r][kind] \in Wrote(r, kind) \cup {Nothing}
  <1>c. \A r \in Runs : Inspected(r) => Rests(r)
    BY <1>0 DEF ResultsRest
  <1>1. ASSUME pc' \in {"compare", "done"} => run' = 2,
               \A r \in Runs : Inspected(r)' =>
                 Inspected(r) /\ result'[r] = result[r] /\ code'[r] = code[r] /\ ending'[r] = ending[r]
        PROVE  ResultsRest'
    <2>1. ASSUME NEW r \in Runs, Inspected(r)' PROVE Rests(r)'
      <3>1. Rests(r) /\ result'[r] = result[r] /\ code'[r] = code[r] /\ ending'[r] = ending[r]
        BY <1>1, <1>c, <2>1
      <3>2. QED
        BY <1>b, <3>1
    <2>2. QED
      BY <1>1, <2>1 DEF ResultsRest
  <1>2. CASE WaitStep
    <2>1. /\ UNCHANGED <<run, result>> /\ pc' \notin {"compare", "done"}
          /\ \A r \in Runs : r # run => code'[r] = code[r] /\ ending'[r] = ending[r]
      BY <1>2, WaitsMean DEF Waited
    <2>2. QED
      BY <1>1, <1>a, <2>1 DEF Inspected
  <1>3. CASE Spawn
    <2>1. UNCHANGED <<run, result, code, ending>> /\ pc' = "wait"
      BY <1>0, <1>3, SpawnBegins
    <2>2. QED
      BY <1>1, <1>a, <2>1 DEF Inspected
  <1>4. CASE Close \/ CloseUnder
    <2>1. UNCHANGED <<run, result, code, ending>> /\ pc' \notin {"compare", "done"}
      BY <1>4 DEF Close, CloseUnder, Goto, Leave, procVars
    <2>2. QED
      BY <1>1, <1>a, <2>1 DEF Inspected
  <1>5. CASE Inspect
    <2>1. /\ pc = "inspect" /\ UNCHANGED <<ending, code, printed, made>>
          /\ \/ run = 1 /\ run' = 2 /\ pc' = "spawn"
             \/ run = 2 /\ run' = 2 /\ pc' = "compare"
          /\ \A q \in Runs : q # run => result'[q] = result[q]
          /\ result'[run] = [exit |-> ExitCode(run), metric |-> LastOf(captured[run]),
                             output |-> file[run]]
      BY <1>0, <1>5, InspectTakes DEF dataVars
    <2>2. result'[run].exit = 0 => code[run] = 0 /\ ending[run] = "return"
      <3>1. ending[run] \in {"return", "timeout"}
        BY <1>0, <1>a, <2>1 DEF EndingsTell, TypeOK
      <3>2. QED
        BY <2>1, <3>1 DEF ExitCode
    <2>3. result'[run].metric \in Wrote(run, "metric") \cup {Nothing}
      <3>1. captured[run] \in Seq(Values) /\ Of(captured[run]) \subseteq Of(printed[run])
        BY <1>0, <1>a DEF TypeOK, CapturesGrow
      <3>2. captured[run] # <<>> => LastOf(captured[run]) \in Of(captured[run])
        BY <3>1 DEF Of, LastOf
      <3>3. captured[run] = <<>> => LastOf(captured[run]) = Nothing
        BY DEF LastOf
      <3>4. QED
        BY <2>1, <3>1, <3>2, <3>3 DEF Wrote
    <2>4. result'[run].output \in Wrote(run, "output") \cup {Nothing}
      <3>1. ~ Fresh(run)
        BY <1>a, <2>1 DEF Fresh
      <3>2. QED
        BY <1>0, <1>a, <2>1, <3>1 DEF OutputsMade, Wrote
    <2>5. \A kind \in Kinds : result'[run][kind] \in Wrote(run, kind) \cup {Nothing}
      BY <2>3, <2>4 DEF Kinds
    <2>6. ASSUME NEW r \in Runs, Inspected(r)' PROVE Rests(r)'
      <3>1. CASE r = run
        BY <1>b, <2>1, <2>2, <2>5, <3>1
      <3>2. CASE r # run
        <4>1. Inspected(r)
          <5>1. \/ run = 1 /\ run' = 2 /\ pc' = "spawn"
                \/ run = 2 /\ run' = 2 /\ pc' = "compare"
            BY <2>1
          <5>2. QED
            BY <1>a, <2>6, <3>2, <5>1 DEF Inspected
        <4>2. Rests(r) /\ result'[r] = result[r] /\ code'[r] = code[r] /\ ending'[r] = ending[r]
          BY <1>c, <2>1, <3>2, <4>1
        <4>3. QED
          BY <1>b, <4>2
      <3>3. QED
        BY <3>1, <3>2
    <2>7. pc' \in {"compare", "done"} => run' = 2
      BY <2>1
    <2>8. QED
      BY <2>6, <2>7 DEF ResultsRest
  <1>6. CASE Compare
    <2>1. UNCHANGED <<run, result, code, ending>> /\ pc = "compare" /\ pc' = "done"
      BY <1>6 DEF Compare, Goto, procVars
    <2>2. run = 2
      BY <1>0, <2>1 DEF ResultsRest
    <2>3. QED
      BY <1>1, <2>1, <2>2 DEF Inspected
  <1>7. CASE UNCHANGED vars
    <2>1. UNCHANGED <<run, result, code, ending, pc>>
      BY <1>7 DEF vars, mainVars, procVars
    <2>2. QED
      BY <1>0, <1>1, <2>1 DEF Inspected, ResultsRest
  <1>8. ASSUME NEW q \in Runs, StartChild(q) \/ Emit(q) \/ Produce(q) \/ Read(q) PROVE ResultsRest'
    <2>1. UNCHANGED <<run, result, code, ending, pc>>
      BY <1>8 DEF StartChild, Emit, Produce, Read, mainVars, procVars
    <2>2. QED
      BY <1>0, <1>1, <2>1 DEF Inspected, ResultsRest
  <1>9. ASSUME NEW q \in Runs, Exit(q) PROVE ResultsRest'
    <2>1. /\ UNCHANGED <<run, result, ending, pc>>
          /\ \A r \in Runs : r # q \/ proc[q]["shell"] # "alive" => code'[r] = code[r]
      BY <1>0, <1>9, ExitEnds DEF Exit, mainVars
    <2>2. Inspected(q) => Group(q) = {}
      <3>1. q < run => Group(q) = {}
        BY <1>0 DEF ProcessesEnd
      <3>2. pc \in {"compare", "done"} => Group(run) = {}
        BY <1>0 DEF ProcessesEnd, EndingsTell, SinceJoin
      <3>3. QED
        BY <3>1, <3>2 DEF Inspected
    <2>3. Inspected(q) => proc[q]["shell"] # "alive"
      BY <1>0, <2>2 DEF Group, Alive, ProcessesEnd, Members
    <2>4. QED
      BY <1>0, <1>1, <2>1, <2>3 DEF Inspected, ResultsRest
  <1>10. QED
    BY <1>2, <1>3, <1>4, <1>5, <1>6, <1>7, <1>8, <1>9, StepsAre

(* Closing the streams fails only after a process left with the pipe.        *)
LEMMA NeverFailsPreserved ==
  ASSUME IInv, [Next]_vars
  PROVE  (Clean => pc # "error")'
  <1>0. TypeOK /\ DescriptorsFollow /\ (Clean => pc # "error")
    BY DEF IInv
  <1>a. run \in Runs /\ run \in {1, 2}
    BY <1>0, TwoRuns
  <1>1. CASE Close
    <2>1. /\ pc \in {"join", "join again", "join last"} /\ (pc' = "error" => number # run)
          /\ UNCHANGED <<run, strayed>>
      BY <1>1 DEF Close, Joined, Joining, Goto, Leave, procVars
    <2>2. Clean => forced = {}
      BY <1>0 DEF DescriptorsFollow, Clean
    <2>3. Clean => number = run
      BY <1>0, <2>1, <2>2 DEF DescriptorsFollow, Capturing
    <2>4. QED
      BY <2>1, <2>3 DEF Clean
  <1>2. CASE WaitStep \/ Spawn \/ CloseUnder \/ Inspect \/ Compare
    <2>1. CASE WaitStep
      BY <2>1, WaitsMean DEF Waited
    <2>2. CASE Spawn \/ CloseUnder \/ Inspect \/ Compare
      BY <2>2 DEF Spawn, CloseUnder, Inspect, Compare, Goto
    <2>3. QED
      BY <1>2, <2>1, <2>2
  <1>3. CASE UNCHANGED vars
    BY <1>0, <1>3 DEF vars, mainVars, procVars, Clean
  <1>4. ASSUME NEW r \in Runs, pc \notin Ends,
               StartChild(r) \/ Emit(r) \/ Produce(r) \/ Exit(r) \/ Read(r)
        PROVE  (Clean => pc # "error")'
    BY <1>4 DEF StartChild, Emit, Produce, Exit, Read, mainVars, Ends
  <1>5. QED
    BY <1>1, <1>2, <1>3, <1>4, StepsAre

(* The comparison agrees only on what both runs wrote.                       *)
LEMMA AgreementPreserved ==
  ASSUME IInv, [Next]_vars
  PROVE  AgreementIsEarned'
  <1>0. TypeOK /\ ResultsRest /\ AgreementIsEarned
    BY DEF IInv
  <1>1. CASE Compare
    <2>1. /\ pc = "compare" /\ pc' = "done" /\ expect' \subseteq Kinds
          /\ agree' => result[1].exit = 0 /\ result[2].exit = 0 /\ EvidenceAgrees
          /\ UNCHANGED <<run, ending, code, printed, made>>
      BY <1>1 DEF Compare, Goto, procVars, dataVars
    <2>2. 1 \in Runs /\ 2 \in Runs /\ Inspected(1) /\ Inspected(2)
      BY <1>0, <2>1 DEF ResultsRest, Inspected, Runs
    <2>3. agree' => \A r \in Runs : code'[r] = 0 /\ ending'[r] = "return"
      BY <1>0, <2>1, <2>2 DEF ResultsRest, Runs
    <2>4. ASSUME agree', NEW kind \in expect' PROVE (Wrote(1, kind) \cap Wrote(2, kind))' # {}
      <3>1. kind \in Kinds /\ result[1][kind] = result[2][kind] /\ result[1][kind] # Nothing
        BY <2>1, <2>4 DEF EvidenceAgrees, Comparable
      <3>2. result[1][kind] \in Wrote(1, kind) /\ result[2][kind] \in Wrote(2, kind)
        BY <1>0, <2>2, <3>1 DEF ResultsRest
      <3>3. Wrote(1, kind)' = Wrote(1, kind) /\ Wrote(2, kind)' = Wrote(2, kind)
        BY <2>1 DEF Wrote
      <3>4. QED
        BY <3>1, <3>2, <3>3
    <2>5. agree' => expect' # {}
      BY <2>1 DEF EvidenceAgrees
    <2>6. QED
      BY <2>3, <2>4, <2>5 DEF AgreementIsEarned
  <1>2. CASE UNCHANGED vars
    BY <1>0, <1>2 DEF vars, mainVars, procVars, dataVars, AgreementIsEarned, Wrote
  <1>3. pc' # "done" \/ Compare \/ UNCHANGED vars
    <2>1. CASE WaitStep
      BY <2>1, WaitsMean DEF Waited
    <2>2. CASE Spawn \/ Close \/ CloseUnder \/ Inspect
      BY <2>2 DEF Spawn, Close, CloseUnder, Inspect, Goto, Leave
    <2>3. ASSUME NEW r \in Runs, pc \notin Ends,
                 StartChild(r) \/ Emit(r) \/ Produce(r) \/ Exit(r) \/ Read(r)
          PROVE  pc' # "done"
      BY <2>3 DEF StartChild, Emit, Produce, Exit, Read, mainVars, Ends
    <2>4. QED
      BY <2>1, <2>2, <2>3, StepsAre
  <1>4. QED
    BY <1>1, <1>2, <1>3 DEF AgreementIsEarned

(* The invariant holds at the start.                                         *)
LEMMA InitHolds ==
  ASSUME Init
  PROVE  IInv
  <1>1. pc = "spawn" /\ run = 1 /\ interrupted = "never" /\ 1 \in Runs
    BY DEF Init, Runs
  <1>2. TypeOK
    <2>1. /\ traits \in [Runs -> [Members -> SUBSET UNION Characters]]
          /\ proc \in [Runs -> [Members -> {"none", "alive", "dead"}]]
          /\ code \in [Runs -> {0, 1}] /\ ending \in [Runs -> {"return", "timeout", "raise"}]
      <3> DEFINE T == SUBSET UNION Characters
      <3>1. {} \in T
        OBVIOUS
      <3> HIDE DEF T
      <3>2. traits \in [Runs -> [Members -> T]]
        BY <3>1 DEF Init
      <3>3. QED
        BY <3>2 DEF Init, T
    <2>2. /\ printed \in [Runs -> Seq(Values)] /\ pipe \in [Runs -> Seq(Values)]
          /\ captured \in [Runs -> Seq(Values)]
          /\ file \in [Runs -> Values \cup {Nothing, Old}] /\ made \in [Runs -> SUBSET Values]
      BY DEF Init
    <2>3. /\ reader \in [Runs -> {"none", "reading", "ended"}] /\ from \in [Runs -> {0} \cup Runs]
          /\ \A r \in Runs : reader[r] = "reading" <=> from[r] # 0
          /\ number \in {0} \cup Runs /\ forced \subseteq Runs /\ strayed \subseteq Runs
      BY DEF Init
    <2>4. result \in [Runs -> [exit : {0, 1}, metric : Values \cup {Nothing},
                              output : Values \cup {Nothing, Old}]]
      BY DEF Init, NoResult
    <2>5. agree \in BOOLEAN /\ expect \subseteq Kinds
      BY DEF Init
    <2>6. QED
      BY <1>1, <2>1, <2>2, <2>3, <2>4, <2>5 DEF TypeOK
  <1>3. \A r \in Runs : Fresh(r) /\ ~ (r < run)
    BY <1>1 DEF Fresh, Runs
  <1>4. ProcessesEnd
    BY <1>1, <1>3 DEF Init, ProcessesEnd, Members, SinceJoin
  <1>5. EndingsTell
    BY <1>1, <1>3 DEF Init, EndingsTell
  <1>6. DescriptorsFollow
    BY <1>1, <1>3 DEF Init, DescriptorsFollow, Capturing, Returned
  <1>7. CapturesGrow
    <2>1. /\ \A r \in Runs : captured[r] = <<>> /\ pipe[r] = <<>> /\ printed[r] = <<>>
          /\ reader[1] = "none"
      BY <1>1 DEF Init
    <2>2. <<>> \o <<>> = <<>>
      OBVIOUS
    <2>3. QED
      BY <1>1, <2>1, <2>2 DEF CapturesGrow, Ended
  <1>8. OutputsMade
    BY <1>3 DEF Init, OutputsMade
  <1>9. ResultsRest
    BY <1>1, <1>3 DEF ResultsRest, Inspected
  <1>10. QED
    BY <1>1, <1>2, <1>4, <1>5, <1>6, <1>7, <1>8, <1>9 DEF IInv, AgreementIsEarned

(* The invariant is inductive.                                               *)
THEOREM IInvHolds == Spec => []IInv
  <1>1. Init => IInv
    BY InitHolds
  <1>2. IInv /\ [Next]_vars => IInv'
    BY TypePreserved, ProcessesPreserved, EndingsPreserved, DescriptorsPreserved,
       CapturesPreserved, OutputsPreserved, ResultsPreserved, NeverFailsPreserved,
       AgreementPreserved DEF IInv
  <1>3. QED
    BY <1>1, <1>2, PTL DEF Spec

(* Every variable keeps its type, whatever the two commands do.              *)
THEOREM TypeCorrect == Spec => []TypeOK
  <1>1. IInv => TypeOK
    BY DEF IInv
  <1>2. QED
    BY <1>1, IInvHolds, PTL

(* When a run's command has returned no process of its group is left to      *)
(* write to what its fingerprint is made of (_run_command and                *)
(* _signal_process_group).                                                   *)
THEOREM NothingOutlivesHolds == Spec => []NothingOutlives
  <1>1. IInv => NothingOutlives
    <2> SUFFICES ASSUME IInv PROVE NothingOutlives
      OBVIOUS
    <2>1. TypeOK /\ ProcessesEnd /\ EndingsTell
      BY DEF IInv
    <2>2. ASSUME NEW r \in Runs, Returned(r) PROVE Group(r) = {}
      <3>1. CASE r < run
        BY <2>1, <3>1 DEF ProcessesEnd
      <3>2. CASE r = run /\ pc \in {"inspect", "compare", "done"}
        BY <2>1, <3>2 DEF ProcessesEnd, EndingsTell, SinceJoin
      <3>3. QED
        BY <2>2, <3>1, <3>2 DEF Returned
    <2>3. pc = "interrupted" /\ interrupted = "waiting" => Group(run) = {}
      BY <2>1 DEF ProcessesEnd, SinceJoin
    <2>4. QED
      BY <2>2, <2>3 DEF NothingOutlives
  <1>2. QED
    BY <1>1, IInvHolds, PTL

(* While no process that left the session keeps a run's pipe, all that a     *)
(* command printed is captured before its fingerprint is taken, and closing  *)
(* the streams never fails (_BoundedCapture and _join_readers).              *)
THEOREM CaptureIsWholeHolds == Spec => []CaptureIsWhole
  <1>1. IInv => CaptureIsWhole
    <2> SUFFICES ASSUME IInv, Clean PROVE (pc = "inspect" => captured[run] = printed[run]) /\ pc # "error"
      BY DEF CaptureIsWhole, Clean
    <2>1. TypeOK /\ DescriptorsFollow /\ CapturesGrow /\ pc # "error" /\ run \in Runs
      BY DEF IInv, TypeOK
    <2>2. ASSUME pc = "inspect" PROVE captured[run] = printed[run]
      <3>1. forced = {} /\ Returned(run) /\ ~ Inspected(run)
        <4>1. forced = {}
          BY <2>1 DEF DescriptorsFollow, Clean
        <4>2. run \in {1, 2}
          BY <2>1, TwoRuns
        <4>3. QED
          BY <2>2, <4>1, <4>2 DEF Returned, Inspected
      <3>2. Ended(run)
        BY <2>1, <3>1 DEF DescriptorsFollow
      <3>3. pipe[run] = <<>> /\ captured[run] \o pipe[run] = printed[run]
        BY <2>1, <3>1, <3>2 DEF CapturesGrow
      <3>4. captured[run] \in Seq(Values)
        BY <2>1 DEF TypeOK
      <3>5. captured[run] \o <<>> = captured[run]
        BY <3>4, ConcatEmptySeq
      <3>6. QED
        BY <3>3, <3>5
    <2>3. QED
      BY <2>1, <2>2
  <1>2. QED
    BY <1>1, IInvHolds, PTL

(* The report says that the runs agree only when both commands ended by      *)
(* themselves with exit code 0 and every kind of evidence that was declared  *)
(* has a value both of them wrote in their own run (reproduce).              *)
THEOREM AgreementIsEarnedHolds == Spec => []AgreementIsEarned
  <1>1. IInv => AgreementIsEarned
    BY DEF IInv
  <1>2. QED
    BY <1>1, IInvHolds, PTL
=============================================================================
