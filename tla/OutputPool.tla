----------------------------- MODULE OutputPool -----------------------------
(***************************************************************************)
(* The autosend of the game protocol (outputmessage.cpp, protocol.cpp).    *)
(* What the server has to say to a client is collected in the protocol's   *)
(* output buffer, and every AUTOSEND_DELAY a pass over the list of the     *)
(* protocols logged in hands the buffers to the connections.  A pass       *)
(* schedules the next one while the list is not empty; the first login     *)
(* into an empty list schedules the first.  The list may empty and fill    *)
(* again before the pass that was waiting runs: then there are two.        *)
(*                                                                         *)
(* All of it runs in the dispatcher thread, except that a connection may   *)
(* close at any time; its release runs there later.                        *)
(***************************************************************************)
EXTENDS Integers, SequencesExt

CONSTANTS
    Protocols,  \* the game protocols of this run of the server
    Messages,   \* the messages written, each of them once (bounds the model)
    Size,       \* the length of each message
    Capacity    \* NetworkMessage::MAX_PROTOCOL_BODY_LENGTH

ASSUME SizeAssumption == Size \in [Messages -> Nat]
ASSUME CapacityAssumption == Capacity \in Nat

VARIABLES
    listed,     \* OutputMessagePool::bufferedProtocols
    passes,     \* the sendAll events that are scheduled and have not run
    buffer,     \* Protocol::outputBuffer of each, <<>> for a null pointer
    sent,       \* what each connection was given to send, in order
    open,       \* ~Connection::closed
    stage,      \* "new", "in" once login has listed it, "out" once released
    written     \* history: what was written to each protocol, in order

clientVars == <<open, stage>>
vars == <<listed, passes, buffer, sent, clientVars, written>>

Init ==
    /\ listed = <<>>
    /\ passes = 0
    /\ buffer = [p \in Protocols |-> <<>>]
    /\ sent = [p \in Protocols |-> <<>>]
    /\ open = [p \in Protocols |-> TRUE]
    /\ stage = [p \in Protocols |-> "new"]
    /\ written = [p \in Protocols |-> <<>>]

(* Protocol::send: a connection that is closed drops what it is given.      *)
Sent(p, content) == IF open[p] THEN sent[p] \o content ELSE sent[p]

Total(content) == FoldLeft(LAMBDA sum, m : sum + Size[m], 0, content)

-----------------------------------------------------------------------------
(* A bug: the full buffer is replaced and not sent.                         *)
BadWriteDrops(p, m) ==
    /\ stage[p] # "out"
    /\ written' = [written EXCEPT ![p] = Append(@, m)]
    /\ IF Total(buffer[p]) + Size[m] > Capacity
       THEN buffer' = [buffer EXCEPT ![p] = <<m>>]
       ELSE buffer' = [buffer EXCEPT ![p] = Append(@, m)]
    /\ UNCHANGED <<listed, passes, clientVars, sent>>

(* writeToOutputBuffer and getOutputBuffer: a buffer without room for the   *)
(* message is sent at once and a new one begun.                             *)
Write(p, m) ==
    /\ stage[p] # "out"
    /\ written' = [written EXCEPT ![p] = Append(@, m)]
    /\ IF buffer[p] # <<>> /\ Total(buffer[p]) + Size[m] > Capacity
       THEN /\ sent' = [sent EXCEPT ![p] = Sent(p, buffer[p])]
            /\ buffer' = [buffer EXCEPT ![p] = <<m>>]
       ELSE /\ buffer' = [buffer EXCEPT ![p] = Append(@, m)]
            /\ UNCHANGED sent
    /\ UNCHANGED <<listed, passes, clientVars>>

(* A bug: the pass is scheduled by the second login.                        *)
BadAddLate(p) ==
    /\ stage[p] = "new"
    /\ stage' = [stage EXCEPT ![p] = "in"]
    /\ passes' = IF Len(listed) = 1 THEN passes + 1 ELSE passes
    /\ listed' = Append(listed, p)
    /\ UNCHANGED <<buffer, sent, open, written>>

(* addProtocolToAutosend, the last call of ProtocolGame::login.             *)
AddProtocolToAutosend(p) ==
    /\ stage[p] = "new"
    /\ stage' = [stage EXCEPT ![p] = "in"]
    /\ passes' = IF listed = <<>> THEN passes + 1 ELSE passes
    /\ listed' = Append(listed, p)
    /\ UNCHANGED <<buffer, sent, open, written>>

(* Connection::close, from any thread: the release is queued.               *)
Close(p) ==
    /\ open[p]
    /\ open' = [open EXCEPT ![p] = FALSE]
    /\ UNCHANGED <<listed, passes, buffer, sent, stage, written>>

(* ProtocolGame::release, which the dispatcher runs once after a close:     *)
(* the last protocol of the list takes the place of this one.               *)
WithoutProtocol(p) ==
    LET at == CHOOSE i \in DOMAIN listed : listed[i] = p
    IN  Front([listed EXCEPT ![at] = Last(listed)])
Release(p) ==
    /\ ~open[p]
    /\ stage[p] # "out"
    /\ stage' = [stage EXCEPT ![p] = "out"]
    /\ listed' = IF p \in ToSet(listed) THEN WithoutProtocol(p) ELSE listed
    /\ UNCHANGED <<passes, buffer, sent, open, written>>

(* sendAll: one pass, and the next one while anybody is listed.             *)
SendAll ==
    /\ passes > 0
    /\ buffer' = [p \in Protocols |->
                    IF p \in ToSet(listed) THEN <<>> ELSE buffer[p]]
    /\ sent' = [p \in Protocols |->
                  IF p \in ToSet(listed) THEN Sent(p, buffer[p]) ELSE sent[p]]
    /\ passes' = IF listed = <<>> THEN passes - 1 ELSE passes
    /\ UNCHANGED <<listed, clientVars, written>>

-----------------------------------------------------------------------------
(* Each message is written once.                                            *)
Unwritten == Messages \ UNION {ToSet(written[p]) : p \in Protocols}

Next ==
    \/ \E p \in Protocols : \E m \in Unwritten : Write(p, m)
    \/ \E p \in Protocols :
          \/ AddProtocolToAutosend(p)
          \/ Close(p)
          \/ Release(p)
    \/ SendAll

Spec == Init /\ [][Next]_vars

(* The scheduler fires every event (Scheduler.tla) and the dispatcher runs  *)
(* every task (Dispatcher.tla).                                             *)
PoolFairness == WF_vars(SendAll) /\ \A p \in Protocols : WF_vars(Release(p))
FairSpec == Spec /\ PoolFairness

-----------------------------------------------------------------------------
(* The types.                                                               *)
TypeOK ==
    /\ listed \in Seq(Protocols)
    /\ passes \in Nat
    /\ buffer \in [Protocols -> Seq(Messages)]
    /\ sent \in [Protocols -> Seq(Messages)]
    /\ open \in [Protocols -> BOOLEAN]
    /\ stage \in [Protocols -> {"new", "in", "out"}]
    /\ written \in [Protocols -> Seq(Messages)]

(* While anybody is listed a pass is scheduled, however the list emptied    *)
(* and filled before (addProtocolToAutosend schedules only for an empty     *)
(* list, sendAll only for one that is not).                                 *)
ListedHasPass == listed # <<>> => passes > 0

(* Nothing is lost, repeated or reordered between writeToOutputBuffer and   *)
(* the connection, whether a full buffer or a pass sends it.                *)
InOrder == \A p \in Protocols : open[p] => written[p] = sent[p] \o buffer[p]
=============================================================================
