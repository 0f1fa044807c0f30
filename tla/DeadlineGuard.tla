---------------------------- MODULE DeadlineGuard ----------------------------
(***************************************************************************)
(* One metadata request of dynamic/resolve.py: _request follows redirects, *)
(* each hop under a _DeadlineGuard of its own whose Timer thread shuts the *)
(* transport down once the deadline, shared by all hops, has passed.       *)
(*                                                                         *)
(* The main thread and the Timer threads interleave at every lock.  What   *)
(* the peer does (answer, stay silent, drip bytes for ever, cut the        *)
(* connection) is free, and so is the moment the deadline passes.          *)
(***************************************************************************)
EXTENDS Naturals

CONSTANTS
  MaxRedirects,   \* _MAX_REDIRECTS
  MaxAddresses    \* _MAX_DESTINATION_ADDRESSES

ASSUME ConstantsAssumption ==
  /\ MaxRedirects \in Nat
  /\ MaxAddresses \in Nat \ {0}

Hops == 0 .. MaxRedirects
Addresses == 1 .. MaxAddresses

VARIABLES
  hop,        \* redirect_count
  address,    \* the address _connect_pinned is trying
  at,         \* where the main thread stands
  late,       \* time.monotonic() >= deadline
  expired, finished,   \* the hops whose guard has _expired, _finished set
  attached,   \* hop -> what its guard holds: a socket object, the connection
  timer,      \* hop -> the state of its Timer thread
  seized,     \* hop -> what the Timer took out of the guard, to close it
  owner,      \* hop -> which object owns the open descriptor of the socket
  bound,      \* the hops whose connection.sock is set, or was for the response
  mine,       \* the local variable connection of _request is set
  cut,        \* the answer read last was cut short by a shutdown
  outcome

flags == <<expired, finished>>
threads == <<timer, seized>>
guardVars == <<hop, address, at, late, flags, attached, threads, owner, bound, mine, cut, outcome>>

(* wrap_socket moves the descriptor from the raw object to the TLS object:   *)
(* closing the raw object afterwards closes nothing.  The fresh socket is the *)
(* one http.client opens by itself, which no guard is told of.               *)
Objects == {"raw", "tls"}
Reopened == "fresh"
Closed == "closed"
Resources == Objects \cup {"connection"}

(* The main thread waits for the peer here, and while http.client reopens.   *)
Blocked == {"connecting", "handshake", "request", "response", "body"}

Reasons == {"unreachable", "unsafe", "broken", "status"}

GuardInit ==
  /\ hop = 0 /\ address = 1
  /\ at = "validate"
  /\ late = FALSE
  /\ expired = {} /\ finished = {} /\ bound = {}
  /\ attached = [h \in Hops |-> {}]
  /\ timer = [h \in Hops |-> "none"] /\ seized = [h \in Hops |-> {}]
  /\ owner = [h \in Hops |-> Closed]
  /\ mine = FALSE /\ cut = FALSE
  /\ outcome = "pending"

------------------------------------------------------------------------------
(* Closing                                                                    *)

(* What HTTPSConnection.close closes: connection.sock, or the response read   *)
(* from it.                                                                   *)
Transport(h) == IF h \in bound THEN {"tls", Reopened} ELSE {}

\* Mutant of Sockets: a socket that has no connection yet is not closed.
ConnectionOnly(h, resources) == IF "connection" \in resources THEN Transport(h) ELSE {}

(* The objects behind a set of resources of hop h.                            *)
Sockets(h, resources) ==
  (resources \cap Objects) \cup (IF "connection" \in resources THEN Transport(h) ELSE {})

(* owner once the objects in closing were closed at hop h.                    *)
AfterClosing(h, closing) ==
  IF owner[h] \in closing THEN [owner EXCEPT ![h] = Closed] ELSE owner

(* close() on each of the resources; that of a connection unsets its sock.    *)
CloseAll(h, resources) ==
  /\ owner' = AfterClosing(h, Sockets(h, resources))
  /\ bound' = IF "connection" \in resources THEN bound \ {h} ELSE bound

(* The exception unwinds to the except and finally clauses of _request.       *)
Raise(reason) == at' = "unwind" /\ outcome' = reason

------------------------------------------------------------------------------
(* _request, up to the guard                                                  *)

(* Redirect targets are validated as the first URL is; only the first         *)
(* validation precedes the deadline.                                          *)
Validate ==
  /\ at = "validate"
  /\ \/ at' = "start" /\ UNCHANGED outcome
     \/ at' = "over" /\ outcome' = "unsafe"
  /\ UNCHANGED <<hop, address, late, flags, attached, threads, owner, bound, mine, cut>>

(* start() raises before the try block of _request: nothing is open yet.      *)
Start ==
  /\ at = "start"
  /\ IF late
     THEN /\ expired' = expired \cup {hop}
          /\ at' = "over" /\ outcome' = "timeout"
          /\ UNCHANGED timer
     ELSE /\ timer' = [timer EXCEPT ![hop] = "armed"]
          /\ at' = "build"
          /\ UNCHANGED <<expired, outcome>>
  /\ UNCHANGED <<hop, address, late, finished, attached, seized, owner, bound, mine, cut>>

------------------------------------------------------------------------------
(* _connection and _connect_pinned                                            *)

Build ==
  /\ at = "build"
  /\ IF late \/ hop \in expired
     THEN Raise("timeout") /\ UNCHANGED attached
     ELSE /\ attached' = [attached EXCEPT ![hop] = @ \cup {"connection"}]
          /\ at' = "connect" /\ UNCHANGED outcome
  /\ UNCHANGED <<hop, address, late, flags, threads, owner, bound, mine, cut>>

Connect ==
  /\ at = "connect"
  /\ \/ /\ address > MaxAddresses
        /\ Raise("unreachable") /\ UNCHANGED owner
     \/ /\ address <= MaxAddresses /\ late
        /\ Raise("timeout") /\ UNCHANGED owner
     \/ /\ address <= MaxAddresses /\ ~late
        /\ owner' = [owner EXCEPT ![hop] = "raw"]
        /\ at' = "attach_raw" /\ UNCHANGED outcome
  /\ UNCHANGED <<hop, address, late, flags, attached, threads, bound, mine, cut>>

\* Mutant of AttachSocket: the expiry that came first is not looked at.
AttachAlways(object, next) ==
  /\ attached' = [attached EXCEPT ![hop] = (@ \ Objects) \cup {object}]
  /\ at' = next
  /\ UNCHANGED <<owner, outcome>>

(* attach_socket: one look at _expired under the lock.                        *)
AttachSocket(object, next) ==
  IF hop \in expired
  THEN /\ owner' = AfterClosing(hop, {object})
       /\ Raise("timeout") /\ UNCHANGED attached
  ELSE /\ attached' = [attached EXCEPT ![hop] = (@ \ Objects) \cup {object}]
       /\ at' = next
       /\ UNCHANGED <<owner, outcome>>

AttachRaw ==
  /\ at = "attach_raw"
  /\ AttachSocket("raw", "connecting")
  /\ UNCHANGED <<hop, address, late, flags, threads, bound, mine, cut>>

Connected ==
  /\ at = "connecting" /\ owner[hop] = "raw"
  /\ at' = "wrap"
  /\ UNCHANGED <<hop, address, late, flags, attached, threads, owner, bound, mine, cut, outcome>>

\* Mutant of DropRaw: the refused socket is forgotten, never closed.
ForgetRaw == attached' = [attached EXCEPT ![hop] = @ \ Objects] /\ UNCHANGED owner

(* clear_socket, then sock.close().                                           *)
DropRaw ==
  /\ attached' = [attached EXCEPT ![hop] = @ \ Objects]
  /\ owner' = AfterClosing(hop, {"raw"})

(* An OSError, the shutdown by the Timer among them: on to the next address.  *)
ConnectFails ==
  /\ at = "connecting"
  /\ DropRaw
  /\ address' = address + 1
  /\ at' = "connect"
  /\ UNCHANGED <<hop, late, flags, threads, bound, mine, cut, outcome>>

(* The peer is not one of the validated addresses.                            *)
PeerRejected ==
  /\ at = "connecting"
  /\ DropRaw /\ Raise("unsafe")
  /\ UNCHANGED <<hop, address, late, flags, threads, bound, mine, cut>>

Wrap ==
  /\ at = "wrap" /\ owner[hop] = "raw"
  /\ owner' = [owner EXCEPT ![hop] = "tls"]
  /\ at' = "attach_tls"
  /\ UNCHANGED <<hop, address, late, flags, attached, threads, bound, mine, cut, outcome>>

WrapFails ==
  /\ at = "wrap"
  /\ DropRaw /\ Raise("broken")
  /\ UNCHANGED <<hop, address, late, flags, threads, bound, mine, cut>>

AttachTls ==
  /\ at = "attach_tls"
  /\ AttachSocket("tls", "arm_handshake")
  /\ bound' = bound \cup ({hop} \ expired)
  /\ UNCHANGED <<hop, address, late, flags, threads, mine, cut>>

(* connection.close() on whatever the handshake raises.                       *)
HandshakeRaises(reason) ==
  Raise(reason) /\ CloseAll(hop, {"connection"})

(* The handshake is armed with what is left of the deadline.                  *)
ArmHandshake ==
  /\ at = "arm_handshake"
  /\ IF late THEN HandshakeRaises("timeout")
             ELSE at' = "handshake" /\ UNCHANGED <<owner, bound, outcome>>
  /\ UNCHANGED <<hop, address, late, flags, attached, threads, mine, cut>>

HandshakeDone ==
  /\ at = "handshake" /\ owner[hop] = "tls"
  /\ at' = "arm_read"
  /\ UNCHANGED <<hop, address, late, flags, attached, threads, owner, bound, mine, cut, outcome>>

HandshakeFails ==
  /\ at = "handshake"
  /\ HandshakeRaises("broken")
  /\ UNCHANGED <<hop, address, late, flags, attached, threads, mine, cut>>

(* The last settimeout of _connection stands outside its try block, so what   *)
(* it raises leaves the connection open.                                      *)
ArmRead ==
  /\ at = "arm_read"
  /\ IF late THEN Raise("timeout") ELSE at' = "attach_connection" /\ UNCHANGED outcome
  /\ UNCHANGED <<hop, address, late, flags, attached, threads, owner, bound, mine, cut>>

------------------------------------------------------------------------------
(* _request, once it has its connection                                       *)

AttachConnection ==
  /\ at = "attach_connection"
  /\ mine' = TRUE
  /\ IF hop \in expired
     THEN CloseAll(hop, {"connection"}) /\ Raise("timeout")
     ELSE at' = "request" /\ UNCHANGED <<owner, bound, outcome>>
  /\ UNCHANGED <<hop, address, late, flags, attached, threads, cut>>

Requested ==
  /\ at = "request" /\ hop \in bound /\ owner[hop] = "tls"
  /\ at' = "check_request"
  /\ UNCHANGED <<hop, address, late, flags, attached, threads, owner, bound, mine, cut, outcome>>

(* http.client: a connection whose sock was unset, here by the Timer, is      *)
(* connected anew by the send inside connection.request.                      *)
Reopens ==
  /\ at = "request" /\ hop \notin bound
  /\ owner' = [owner EXCEPT ![hop] = Reopened]
  /\ at' = "reopening"
  /\ UNCHANGED <<hop, address, late, flags, attached, threads, bound, mine, cut, outcome>>

RequestedAnew ==
  /\ at = "reopening"
  /\ bound' = bound \cup {hop}
  /\ at' = "check_request"
  /\ UNCHANGED <<hop, address, late, flags, attached, threads, owner, mine, cut, outcome>>

ReopenFails ==
  /\ at = "reopening"
  /\ owner' = [owner EXCEPT ![hop] = Closed]
  /\ Raise("broken")
  /\ UNCHANGED <<hop, address, late, flags, attached, threads, bound, mine, cut>>

(* getresponse takes an end of the stream for the end of the headers.         *)
HeadersEnd ==
  /\ at = "response"
  /\ cut' = (owner[hop] = Closed)
  /\ at' = "check_response"
  /\ UNCHANGED <<hop, address, late, flags, attached, threads, owner, bound, mine, outcome>>

TransportFails ==
  /\ at \in {"request", "response", "body"}    \* the connection reset, or not ready
  /\ Raise("broken")
  /\ UNCHANGED <<hop, address, late, flags, attached, threads, owner, bound, mine, cut>>

(* read1 returns no bytes, which it also does once the descriptor is shut.    *)
BodyEnds ==
  /\ at = "body"
  /\ cut' = (owner[hop] = Closed)
  /\ at' = "check_body"
  /\ UNCHANGED <<hop, address, late, flags, attached, threads, owner, bound, mine, outcome>>

(* The body is too large, or no time is left before the next read.            *)
BodyRefused ==
  /\ at = "body"
  /\ \/ Raise("unsafe")
     \/ late /\ Raise("timeout")
  /\ UNCHANGED <<hop, address, late, flags, attached, threads, owner, bound, mine, cut>>

\* Mutant of PastDeadline: the answer is taken whenever it was read.
NeverPast == FALSE

(* check(): the clock, or an expiry the Timer saw first.                      *)
PastDeadline == late \/ hop \in expired

(* check() expires the guard itself, unless it is too late for that, and then *)
(* closes what was attached.                                                  *)
Checked(next) ==
  IF PastDeadline
  THEN /\ expired' = expired \cup {hop}
       /\ CloseAll(hop, IF hop \in expired THEN {} ELSE attached[hop])
       /\ Raise("timeout")
  ELSE UNCHANGED <<expired, owner, bound>> /\ next

CheckRequest ==
  /\ at = "check_request"
  /\ Checked(at' = "response" /\ UNCHANGED outcome)
  /\ UNCHANGED <<hop, address, late, finished, attached, threads, mine, cut>>

\* Mutant of MayRedirect: one hop more than the range of _request has.
MayRedirectOnceMore == hop <= MaxRedirects

MayRedirect == hop < MaxRedirects

CheckResponse ==
  /\ at = "check_response"
  /\ Checked(\/ at' = "body" /\ UNCHANGED outcome        \* 2xx
             \/ Raise("status")                          \* any other status
             \/ Raise("broken")                          \* a redirect to nowhere
             \/ IF MayRedirect
                THEN at' = "unwind" /\ outcome' = "redirect"
                ELSE Raise("unsafe"))
  /\ UNCHANGED <<hop, address, late, finished, attached, threads, mine, cut>>

CheckBody ==
  /\ at = "check_body"
  /\ Checked(at' = "unwind" /\ outcome' = "ok")
  /\ UNCHANGED <<hop, address, late, finished, attached, threads, mine, cut>>

\* Mutant of Cancelled: finish() forgets the Timer.
StillArmed(state) == state

(* Timer.cancel() stops a Timer that is still waiting, and no other.          *)
Cancelled(state) == IF state = "armed" THEN "cancelled" ELSE state

(* The except clause renames what was raised after the deadline; the finally  *)
(* clause finishes the guard and closes the connection.                       *)
Unwind ==
  /\ at = "unwind"
  /\ finished' = finished \cup {hop}
  /\ attached' = [attached EXCEPT ![hop] = {}]
  /\ timer' = [timer EXCEPT ![hop] = Cancelled(@)]
  /\ CloseAll(hop, IF mine THEN {"connection"} ELSE {})
  /\ mine' = FALSE
  /\ IF outcome = "redirect"
     THEN /\ hop' = hop + 1 /\ address' = 1
          /\ at' = "validate" /\ outcome' = "pending"
     ELSE /\ at' = "over"
          /\ outcome' = IF outcome \in Reasons /\ PastDeadline THEN "timeout" ELSE outcome
          /\ UNCHANGED <<hop, address>>
  /\ UNCHANGED <<late, expired, seized, cut>>

------------------------------------------------------------------------------
(* The Timer threads and the clock                                            *)

DeadlinePasses ==
  /\ ~late /\ late' = TRUE
  /\ <<hop, at>> # <<0, "validate">>
  /\ UNCHANGED <<hop, address, at, flags, attached, threads, owner, bound, mine, cut, outcome>>

(* The wait of the Timer is over: cancel() comes too late from here on.       *)
TimerWakes(h) ==
  /\ timer[h] = "armed" /\ late
  /\ timer' = [timer EXCEPT ![h] = "woken"]
  /\ UNCHANGED <<hop, address, at, late, flags, attached, seized, owner, bound, mine,
                 cut, outcome>>

(* The critical section of _expire.                                           *)
TimerExpires(h) ==
  /\ timer[h] = "woken"
  /\ IF h \in finished \cup expired
     THEN timer' = [timer EXCEPT ![h] = "ended"] /\ UNCHANGED <<expired, seized>>
     ELSE /\ expired' = expired \cup {h}
          /\ timer' = [timer EXCEPT ![h] = "closing"]
          /\ seized' = [seized EXCEPT ![h] = attached[h]]
  /\ UNCHANGED <<hop, address, at, late, finished, attached, owner, bound, mine, cut, outcome>>

(* Outside the lock: the socket it saw attached, then the connection.         *)
TimerCloses(h) ==
  /\ timer[h] = "closing"
  /\ CloseAll(h, seized[h])
  /\ timer' = [timer EXCEPT ![h] = "ended"]
  /\ seized' = [seized EXCEPT ![h] = {}]
  /\ UNCHANGED <<hop, address, at, late, flags, attached, mine, cut, outcome>>

------------------------------------------------------------------------------
(* The main thread's own steps, and those that need the peer.                 *)
Proceeds ==
  \/ Validate \/ Start \/ Build \/ Connect \/ AttachRaw \/ AttachTls \/ ArmHandshake
  \/ ArmRead \/ AttachConnection \/ CheckRequest \/ CheckResponse \/ CheckBody
  \/ Unwind \/ Wrap \/ WrapFails \/ Reopens

PeerSteps ==
  \/ Connected \/ ConnectFails \/ PeerRejected \/ HandshakeDone \/ HandshakeFails
  \/ Requested \/ RequestedAnew \/ ReopenFails \/ HeadersEnd \/ TransportFails
  \/ BodyEnds \/ BodyRefused

TimerSteps == \E h \in Hops : TimerWakes(h) \/ TimerExpires(h) \/ TimerCloses(h)

GuardNext == Proceeds \/ PeerSteps \/ TimerSteps \/ DeadlinePasses

(* A blocked call ends when its descriptor is shut down; nothing else makes   *)
(* it end.  Nobody shuts a reopened one down, so a reconnect need not end.    *)
ShutDownSeen == owner[hop] = Closed /\ PeerSteps

Fairness ==
  /\ WF_guardVars(Proceeds) /\ WF_guardVars(ShutDownSeen)
  /\ \A h \in Hops : WF_guardVars(TimerWakes(h) \/ TimerExpires(h) \/ TimerCloses(h))

GuardSpec == GuardInit /\ [][GuardNext]_guardVars /\ Fairness

------------------------------------------------------------------------------
(* Properties                                                                 *)

(* The main thread is at one of its steps, and the sockets, timers and       *)
(* counters have the values the code's variables can have.                   *)
GuardTypeOK ==
  /\ hop \in Hops /\ address \in 1 .. MaxAddresses + 1
  /\ at \in Blocked \cup {"reopening", "validate", "start", "build", "connect", "attach_raw", "wrap",
                        "attach_tls", "arm_handshake", "arm_read", "attach_connection",
                        "check_request", "check_response", "check_body", "unwind", "over"}
  /\ late \in BOOLEAN /\ mine \in BOOLEAN /\ cut \in BOOLEAN
  /\ expired \subseteq Hops /\ finished \subseteq Hops /\ bound \subseteq Hops
  /\ attached \in [Hops -> SUBSET Resources] /\ seized \in [Hops -> SUBSET Resources]
  /\ timer \in [Hops -> {"none", "armed", "cancelled", "woken", "closing", "ended"}]
  /\ owner \in [Hops -> Objects \cup {Reopened, Closed}]
  /\ outcome \in Reasons \cup {"pending", "redirect", "timeout", "ok"}

(* While the main thread waits for the peer, the deadline can reach it: its   *)
(* socket is the one attached to the guard, and either the Timer has yet to   *)
(* expire the guard or it is about to close that very socket.  The one wait   *)
(* the deadline cannot reach is http.client's reconnect, and only a guard     *)
(* that has already done its closing lets the request get there.              *)
Interruptible ==
  /\ at \in Blocked /\ owner[hop] # Closed =>
       /\ owner[hop] \in attached[hop]
       /\ IF hop \in expired
          THEN timer[hop] = "closing" /\ owner[hop] \in seized[hop]
          ELSE timer[hop] \in {"armed", "woken"}
  /\ at = "reopening" => hop \in expired /\ timer[hop] = "ended"

(* An answer the deadline cut short is never taken for a whole one: no body   *)
(* is read after cut headers, no redirect followed, no result returned; and   *)
(* none is read from a connection that was reopened after the deadline.       *)
ActsOnWholeAnswers ==
  /\ at = "body" \/ outcome \in {"ok", "status", "redirect"} => ~cut
  /\ at \in {"response", "body"} => owner[hop] # Reopened

(* _connect_pinned, the redirect loop and http.client's reconnect open a      *)
(* socket only once every earlier one of the request is closed.               *)
OpensOneAtATime ==
  at = "connect" \/ (at = "request" /\ hop \notin bound) => \A h \in Hops : owner[h] = Closed

(* A request that is over leaves no Timer waiting, and one that did not time  *)
(* out leaves no socket open.                                                 *)
LeavesNothingBehind ==
  at = "over" =>
    /\ \A h \in Hops : timer[h] # "armed"
    /\ outcome # "timeout" => \A h \in Hops : owner[h] = Closed

(* The docstring of _DeadlineGuard: active transport resources are closed     *)
(* when the deadline expires.  ArmRead breaks it when the main thread sees    *)
(* the deadline before the Timer does.                                        *)
ClosesWhenDeadlineExpires ==
  at = "over" => \A h \in Hops : owner[h] # Closed => timer[h] = "closing"

(* The deadline ends the request whatever the peer does, once the system's    *)
(* resolver returns: no trickle of bytes keeps it alive, unless the expiry    *)
(* fell between attach_connection and the send and the peer keeps the         *)
(* reconnect of http.client waiting for ever.                                 *)
EndsAfterDeadline == late ~> (at = "over" \/ [](at = "reopening"))

(* The comment of _request: the budget covers every subsequent transport      *)
(* operation.  It does not cover the reconnect: Reopens breaks this.          *)
BudgetCoversTransport == late ~> at = "over"

------------------------------------------------------------------------------
(* The inductive invariant the safety proofs rest on                          *)

RawPhase == {"connecting", "wrap"}
MinePhase == {"request", "check_request", "response", "check_response", "body", "check_body"}
TlsPhase == MinePhase \cup {"arm_handshake", "handshake", "arm_read", "attach_connection"}

(* A hop the request has not reached.                                         *)
Unreached(h) ==
  /\ h \notin expired \cup finished \cup bound
  /\ timer[h] = "none" /\ owner[h] = Closed
  /\ attached[h] = {} /\ seized[h] = {}

(* Which object holds the descriptor, and which one the guard knows of.       *)
Transports ==
  /\ at \in {"validate", "start"} => Unreached(hop)
  /\ at \in {"build", "connect"} => owner[hop] = Closed /\ "raw" \notin attached[hop]
  /\ at = "attach_raw" => owner[hop] = "raw" /\ "raw" \notin attached[hop] \cup seized[hop]
  /\ at \in RawPhase \cup {"attach_raw"} => address <= MaxAddresses
  /\ at \in RawPhase => "raw" \in attached[hop] /\ owner[hop] \in {"raw", Closed}
  /\ at = "attach_tls" => owner[hop] = "tls"
  /\ at \in {"build", "connect", "attach_raw", "attach_tls"} \cup RawPhase =>
       hop \notin bound /\ "tls" \notin attached[hop] \cup seized[hop]
  /\ at \in TlsPhase =>
       /\ "tls" \in attached[hop]
       /\ at # "check_request" => owner[hop] # Reopened
       /\ owner[hop] \in {"tls", Reopened, Closed}
       /\ hop \notin bound => owner[hop] = Closed
  /\ at = "reopening" => owner[hop] = Reopened /\ "tls" \in attached[hop]
  /\ at \in MinePhase \cup {"reopening"} => mine
  /\ at \notin MinePhase \cup {"reopening", "unwind"} => ~mine

(* Before the guard expires its Timer is on the way; an expired guard's Timer *)
(* holds the socket that was attached, or has closed it and unset             *)
(* connection.sock, which the send then reopens.                              *)
TimerHolds ==
  at \notin {"validate", "start", "unwind", "over"} =>
    /\ hop \notin finished
    /\ IF hop \in expired
       THEN /\ timer[hop] \in {"closing", "ended"}
            /\ at \in RawPhase \cup TlsPhase /\ owner[hop] \notin {Closed, Reopened}
                 => timer[hop] = "closing" /\ owner[hop] \in seized[hop]
            /\ at \in TlsPhase /\ hop \notin bound => timer[hop] = "ended"
            /\ owner[hop] = Reopened => timer[hop] = "ended"
       ELSE /\ timer[hop] \in {"armed", "woken"} /\ seized[hop] = {}
            /\ at \in RawPhase \cup TlsPhase => owner[hop] \in Objects
            /\ at \in TlsPhase => hop \in bound
            /\ at # "reopening"

OtherHops ==
  /\ \A h \in Hops : h < hop => owner[h] = Closed /\ timer[h] # "armed"
  /\ \A h \in Hops : h > hop => Unreached(h)

(* Expiry, waking and cutting happen after the deadline only.                 *)
LateInv ==
  /\ \A h \in Hops : h \in expired \/ timer[h] \in {"woken", "closing", "ended"} => late
  /\ cut => late
  /\ at \notin {"unwind", "over"} => outcome = "pending"

(* What is still open when _request unwinds is closed by it, or the deadline  *)
(* is the reason.                                                             *)
Unwinding ==
  at = "unwind" =>
    /\ outcome # "pending"
    /\ outcome = "redirect" => hop < MaxRedirects
    /\ owner[hop] # Closed /\ outcome # "timeout" => mine /\ hop \in bound /\ owner[hop] # "raw"

GuardIInv ==
  /\ GuardTypeOK /\ Transports /\ TimerHolds /\ OtherHops /\ LateInv /\ Unwinding
  /\ ActsOnWholeAnswers /\ LeavesNothingBehind
==============================================================================
