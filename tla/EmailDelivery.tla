--------------------------- MODULE EmailDelivery ----------------------------
(***************************************************************************)
(* E-mails from schedule() to the provider: the rows of email_outbox, the  *)
(* relay that sends them inside its transaction (EmailRelayService, the    *)
(* machinery of which is OutboxRelay), and the policy every send is wrapped*)
(* in (ResilienceService with the preset EMAIL):                           *)
(*   circuit breaker -> retry -> timeout -> provider                       *)
(* The policy lives in the memory of the pod. Its bulkhead lets five calls *)
(* in and a relay makes one at a time, so it is left out. No caller sets   *)
(* recipient_id, so that no e-mail is held back by a preference. Pods that *)
(* relay at the same time take different rows (OutboxRelay): here is one.  *)
(***************************************************************************)
EXTENDS Naturals, FiniteSets

CONSTANTS
    Mails,         \* idempotency keys, one per business event
    MaxAttempts,   \* of the relay: 5
    Retries,       \* of the preset: 5 after the first try
    Threshold,     \* failures in a row that open the circuit: 3
    Cooldown,      \* halfOpenAfterMs: 120 000, in ticks
    Dedups,        \* does the provider look at the key? Resend does, SES does not
    MaxCrashes     \* bound on crashes of the pod

(* What is assumed of the constants.                                       *)
DeliveryAssumption ==
    /\ MaxAttempts \in Nat \ {0} /\ Retries \in Nat /\ Threshold \in Nat \ {0}
    /\ Cooldown \in Nat \ {0} /\ Dedups \in BOOLEAN /\ MaxCrashes \in Nat

VARIABLES
    row,       \* email_outbox: status and attempts
    batch,     \* rows the relay has still to process
    written,   \* what its transaction has written, not yet committed
    call,      \* the call of execute() under way, and which try it is at
    circuit,   \* the breaker: its state, failures in a row, ticks it stays open
    late,      \* mails of which the provider has a request that nobody waits for
    inbox,     \* history: copies that were delivered
    tried,     \* history: mails of which the provider was sent a request
    crashes

relay == <<batch, written, call>>
provider == <<late, inbox, tried>>
vars == <<row, relay, circuit, provider, crashes>>

None == [status |-> "none", attempts |-> 0]
NoCall == [mail |-> "none", try |-> 0]
Closed == [state |-> "closed", failures |-> 0, wait |-> 0]
Open == [state |-> "open", failures |-> 0, wait |-> Cooldown]

TypeOK ==
    /\ row \in [Mails -> {None} \cup [status : {"pending", "sent", "failed"}, attempts : 0..MaxAttempts]]
    /\ batch \subseteq Mails
    /\ DOMAIN written \subseteq Mails
    /\ call \in {NoCall} \cup [mail : Mails, try : 0..Retries + 1]
    /\ circuit \in [state : {"closed", "open", "half-open"}, failures : 0..Threshold, wait : 0..Cooldown]
    /\ late \subseteq Mails /\ tried \subseteq Mails
    /\ inbox \in [Mails -> 0..2] /\ crashes \in 0..MaxCrashes

Init ==
    /\ row = [m \in Mails |-> None]
    /\ batch = {} /\ written = <<>> /\ call = NoCall
    /\ circuit = Closed
    /\ late = {} /\ inbox = [m \in Mails |-> 0] /\ tried = {}
    /\ crashes = 0

-----------------------------------------------------------------------------
(* schedule(): ON CONFLICT (idempotency_key) DO NOTHING.                   *)
Schedule(m) ==
    /\ row[m] = None
    /\ row' = [row EXCEPT ![m] = [status |-> "pending", attempts |-> 0]]
    /\ UNCHANGED <<relay, circuit, provider, crashes>>

Running == batch # {} \/ written # <<>> \/ call # NoCall

FetchBatch ==
    /\ ~Running
    /\ batch' = {m \in Mails : row[m].status = "pending" /\ row[m].attempts < MaxAttempts}
    /\ batch' # {}
    /\ UNCHANGED <<row, written, call, circuit, provider, crashes>>

Write(m, r) == written' = [n \in DOMAIN written \cup {m} |-> IF n = m THEN r ELSE written[n]]
MarkSent(m) == Write(m, [row[m] EXCEPT !.status = "sent"])
(* Mutant: a row is given up one failure too late.                         *)
MarkFailedLate(m) ==
    LET attempts == row[m].attempts + 1
    IN  Write(m, [status |-> IF attempts > MaxAttempts THEN "failed" ELSE "pending", attempts |-> attempts])

MarkFailed(m) ==
    LET attempts == row[m].attempts + 1
    IN  Write(m, [status |-> IF attempts >= MaxAttempts THEN "failed" ELSE "pending", attempts |-> attempts])

Commit ==
    /\ batch = {} /\ call = NoCall /\ written # <<>>
    /\ row' = [m \in Mails |-> IF m \in DOMAIN written THEN written[m] ELSE row[m]]
    /\ written' = <<>>
    /\ UNCHANGED <<batch, call, circuit, provider, crashes>>

-----------------------------------------------------------------------------
(* processRow: execute() asks the breaker first.                           *)

Refuses == circuit.state = "open" /\ circuit.wait > 0

Enter(m) ==
    /\ call = NoCall /\ m \in batch /\ ~Refuses
    /\ circuit' = [circuit EXCEPT !.state = IF @ = "open" THEN "half-open" ELSE @]
    /\ call' = [mail |-> m, try |-> 1]
    /\ batch' = batch \ {m}
    /\ tried' = tried \cup {m}
    /\ UNCHANGED <<row, written, late, inbox, crashes>>

(* BrokenCircuitError, to the relay a failure like any other.              *)
BrokenCircuit(m) ==
    /\ call = NoCall /\ m \in batch /\ Refuses
    /\ batch' = batch \ {m}
    /\ MarkFailed(m)
    /\ UNCHANGED <<row, call, circuit, provider, crashes>>

(* Mutant: the key is drawn anew for every try.                            *)
ReceiveAnyKey(m) == inbox' = [inbox EXCEPT ![m] = IF @ < 2 THEN @ + 1 ELSE @]

(* The provider takes a request; copies are counted up to two.             *)
Receive(m) == inbox' = [inbox EXCEPT ![m] = IF Dedups \/ @ = 2 THEN (IF @ = 0 THEN 1 ELSE @) ELSE @ + 1]

Succeed ==
    /\ call # NoCall
    /\ Receive(call.mail)
    /\ circuit' = Closed
    /\ call' = NoCall
    /\ MarkSent(call.mail)
    /\ UNCHANGED <<row, batch, late, tried, crashes>>

Failures == circuit.failures + 1

(* A try fails. After the last one the breaker counts one failure.         *)
TryFails ==
    /\ call # NoCall
    /\ IF call.try <= Retries
       THEN call' = [call EXCEPT !.try = @ + 1] /\ UNCHANGED <<circuit, written>>
       ELSE /\ call' = NoCall
            /\ circuit' = IF circuit.state = "half-open" \/ Failures >= Threshold THEN Open
                          ELSE [circuit EXCEPT !.failures = Failures]
            /\ MarkFailed(call.mail)
    /\ UNCHANGED <<row, batch, inbox, tried, crashes>>

Reject == TryFails /\ UNCHANGED late

(* TimeoutStrategy.Aggressive: the call is given up, the request goes on.  *)
Timeout == TryFails /\ late' = late \cup {call.mail}

ReceiveLate(m) ==
    /\ m \in late
    /\ Receive(m)
    /\ late' = late \ {m}
    /\ UNCHANGED <<row, relay, circuit, tried, crashes>>

Tick ==
    /\ circuit.wait > 0
    /\ circuit' = [circuit EXCEPT !.wait = @ - 1]
    /\ UNCHANGED <<row, relay, provider, crashes>>

(* The transaction is rolled back and the policy forgotten.                *)
Crash ==
    /\ Running /\ crashes < MaxCrashes
    /\ crashes' = crashes + 1
    /\ batch' = {} /\ written' = <<>> /\ call' = NoCall
    /\ circuit' = Closed
    /\ late' = IF call = NoCall THEN late ELSE late \cup {call.mail}
    /\ UNCHANGED <<row, inbox, tried>>

-----------------------------------------------------------------------------
Next ==
    \/ FetchBatch \/ Commit \/ Succeed \/ Reject \/ Timeout \/ Tick \/ Crash
    \/ \E m \in Mails : Schedule(m) \/ Enter(m) \/ BrokenCircuit(m) \/ ReceiveLate(m)

Spec == Init /\ [][Next]_vars

-----------------------------------------------------------------------------
(* "will NOT produce a duplicate email": with a provider that looks at the *)
(* key an event is mailed once, over tries, timeouts that leave a request  *)
(* behind, attempts of the relay and crashes before its commit; and what   *)
(* is marked as sent has been accepted by the provider.                    *)
MailedOnce ==
    \A m \in Mails :
        /\ Dedups => inbox[m] <= 1
        /\ row[m].status = "sent" => inbox[m] >= 1

(* Seen as a table of rows and their handlers, with an e-mail handled when *)
(* the provider has it, the relay keeps the contract of OutboxRelay: also  *)
(* when a request is delivered after its try was given up.                 *)
Contract == INSTANCE OutboxContract
    WITH Rows <- Mails,
         status <- [m \in Mails |-> IF row[m] = None THEN "absent" ELSE row[m].status],
         attempts <- [m \in Mails |-> row[m].attempts],
         handled <- {m \in Mails : inbox[m] >= 1},
         notified <- {}
ContractInit == Contract!Init
ContractStep == [Contract!Next]_(Contract!contractVars)

(* Refuted. A mail is given up only after the provider was asked: while    *)
(* the circuit is open, every run of the relay counts as an attempt, and   *)
(* the attempts of a row are used up before the circuit lets a call pass.  *)
FailedWasTried == \A m \in Mails : row[m].status = "failed" => m \in tried

(* Refuted. The same mail is not sent twice by SES, which has no key.      *)
OneMailAnyProvider == \A m \in Mails : inbox[m] <= 1
=============================================================================
